------------------------------ MODULE UserTable ------------------------------
(***************************************************************************)
(* What the user table promises to one administrator who works alone: a    *)
(* statement is refused and changes nothing, or takes effect as a whole;   *)
(* the change becomes durable before it is acknowledged; and a change that *)
(* is cut short - the write fails, the process is killed - leaves a table  *)
(* with the initial administrator and nobody else.                         *)
(*                                                                         *)
(* It promises less when the table that is there cannot be opened: the     *)
(* statement then goes by the table of the initial administrator, and a    *)
(* change puts what it makes of that in the place of the table.            *)
(*                                                                         *)
(* A row carries how often its password has been encrypted: an UPDATE that *)
(* sets only the user encrypts the stored password once more.              *)
(***************************************************************************)
EXTENDS Naturals, Sequences, FiniteSets, Selections

CONSTANTS
    Users, Statements, None,
    Admin, InitialPassword,   \* the account of the default configuration
    Matches                   \* Matches[u]: the login names u stands for

VARIABLES
    table,                    \* the rows, in the order they were registered
    call,                     \* the statement being served, or None
    changed,                  \* the rows it has changed, or None before it has
    blind,                    \* the table could not be opened for it
    answer                    \* what the last statement was answered

vars == <<table, call, changed, blind, answer>>

Row(u, p)     == [user |-> u, pw |-> p, enc |-> 1]
DefaultTable  == <<Row(Admin, InitialPassword)>>

Refusal        == [status |-> "error", n |-> 0, rows |-> <<>>]
Done(n)        == [status |-> "ok", n |-> n, rows |-> <<>>]
Rows(rows)     == [status |-> "ok", n |-> 0, rows |-> rows]
NoAnswer       == [status |-> "none", n |-> 0, rows |-> <<>>]

UsersOf(t)     == {t[i].user : i \in DOMAIN t}
HasNoTwins(t)  == \A i, j \in DOMAIN t : t[i].user = t[j].user => i = j
Chosen(st, r)  == st.where = None \/ st.where = r.user
ChosenIn(st, t) == {i \in DOMAIN t : Chosen(st, t[i])}
RowsAt(t, is)   == Selected(t, {t[i] : i \in is})

-----------------------------------------------------------------------------
(* The effect of each statement on the table.                              *)

With(r, st) ==
    [user |-> IF st.user = None THEN r.user ELSE st.user,
     pw   |-> IF st.pw = None THEN r.pw ELSE st.pw,
     enc  |-> IF st.pw = None THEN r.enc + 1 ELSE 1]

CanInsert(st, t) == UsersOf(st.rows) \cap UsersOf(t) = {} /\ HasNoTwins(st.rows)
Inserted(st, t)  == t \o st.rows
Updated(st, t)   == [i \in DOMAIN t |-> IF Chosen(st, t[i]) THEN With(t[i], st) ELSE t[i]]
Remaining(st, t) == RowsAt(t, DOMAIN t \ ChosenIn(st, t))

(* The account a login name belongs to: the first that matches.            *)
Account(st, t) ==
    LET m == {i \in DOMAIN t : st.name \in Matches[t[i].user]}
    IN  {t[i] : i \in {j \in m : \A k \in m : j <= k}}

(* The table a statement goes by.                                          *)
Seen == IF blind THEN DefaultTable ELSE table

Insert(st) ==
    /\ st.kind = "insert" /\ CanInsert(st, Seen)
    /\ table' = Inserted(st, Seen)
    /\ changed' = Len(st.rows)

(* When two rows bear one name - an earlier UPDATE renamed an account to a *)
(* name in use - some of the chosen rows may be left as they were or be    *)
(* changed twice; nothing is said but the number of rows.                  *)
Update(st) ==
    /\ st.kind = "update"
    /\ ChosenIn(st, Seen) # {} /\ changed' = Cardinality(ChosenIn(st, Seen))
    /\ HasNoTwins(Seen) => table' = Updated(st, Seen)
    /\ Len(table') = Len(Seen)

Delete(st) ==
    /\ st.kind = "delete"
    /\ ChosenIn(st, Seen) # {} /\ changed' = Cardinality(ChosenIn(st, Seen))
    /\ table' = Remaining(st, Seen)

-----------------------------------------------------------------------------
Init ==
    /\ table = DefaultTable
    /\ call = None /\ changed = None
    /\ blind = FALSE
    /\ answer = NoAnswer

Call ==
    /\ call = None
    /\ call' \in Statements
    /\ UNCHANGED <<table, changed, blind, answer>>

CannotOpen ==
    /\ call # None /\ changed = None
    /\ blind' = TRUE
    /\ UNCHANGED <<table, call, changed, answer>>

Query ==
    /\ call # None /\ changed = None
    /\ \/ /\ call.kind = "select"
          /\ answer' = Rows(RowsAt(Seen, ChosenIn(call, Seen)))
       \/ /\ call.kind = "login"
          /\ \/ \E r \in Account(call, Seen) : answer' = Rows(<<[r EXCEPT !.enc = @ - 1]>>)
             \/ Account(call, Seen) = {} /\ answer' = Refusal
    /\ call' = None /\ blind' = FALSE
    /\ UNCHANGED <<table, changed>>

Change ==
    /\ call # None /\ changed = None
    /\ Insert(call) \/ Update(call) \/ Delete(call)
    /\ UNCHANGED <<call, blind, answer>>

Refuse ==
    /\ call # None /\ changed = None
    /\ call.kind \in {"insert", "update", "delete"}
    /\ answer' = Refusal
    /\ call' = None /\ blind' = FALSE
    /\ UNCHANGED <<table, changed>>

Acknowledge ==
    /\ changed # None
    /\ answer' = Done(changed)
    /\ call' = None /\ changed' = None /\ blind' = FALSE
    /\ UNCHANGED table

CutShort ==                   \* the write fails
    /\ changed # None
    /\ table' = DefaultTable
    /\ answer' = Refusal
    /\ call' = None /\ changed' = None /\ blind' = FALSE

Killed ==
    /\ table' = IF changed # None THEN DefaultTable ELSE table
    /\ call' = None /\ changed' = None /\ blind' = FALSE
    /\ answer' = NoAnswer

Next ==
    \/ Call \/ CannotOpen \/ Query \/ Change \/ Refuse
    \/ Acknowledge \/ CutShort \/ Killed

Spec == Init /\ [][Next]_vars
=============================================================================
