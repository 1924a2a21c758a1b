----------------------- MODULE ConfigStoreProperties -----------------------
(* What holds of the user table, for one caller and for several at once.   *)
EXTENDS ConfigStore

Shown == [user : Users, pw : Passwords, enc : Nat]

(* Every variable keeps its type, a missing or broken file has no rows, no *)
(* stored password is in plain text, and a client that is not in a call    *)
(* keeps nothing of the last one (Manager, Config).                        *)
TypeOK ==
    /\ mode \in {"running", "crashed"}
    /\ file \in [state : {"absent", "empty", "whole"}, rows : Seq(Rows)]
    /\ file.state # "whole" => file.rows = <<>>
    /\ DOMAIN serverIndex \subseteq Users
    /\ \A u \in DOMAIN serverIndex : serverIndex[u] \in Nat \ {0}
    /\ calls \in 0 .. MaxCalls
    /\ pc \in [Clients -> {"idle", "open", "reading", "reindex", "loaded", "locked", "put",
                       "encode"}]
    /\ op \in [Clients -> Statements \cup {None}]
    /\ conf \in [Clients -> Seq(Rows)]
    /\ n \in [Clients -> Nat]
    /\ answer \in [Clients -> [status : {"none", "ok", "error"}, n : Nat, rows : Seq(Shown)]]
    /\ sight \in [Clients -> {"clear", "blind", "torn"}] /\ mixed \in BOOLEAN
    /\ \A c \in Clients :
          /\ pc[c] = "idle" <=> op[c] = None
          /\ pc[c] = "idle" => conf[c] = <<>> /\ n[c] = 0 /\ sight[c] = "clear"
          /\ sight[c] = "torn" => pc[c] = "reading"

-----------------------------------------------------------------------------
(* One caller.                                                             *)

(* A caller that works alone finds in the index, while it holds mu, the    *)
(* position of every row of its own Config and nothing else: makeIndex is  *)
(* called again after the file is read (serverconfig.go:103).  No UPDATE   *)
(* of its comes to a position beyond its rows (serverconfig.go:197).       *)
IndexIsOfConfig ==
    \A c \in Clients :
        /\ pc[c] = "locked" => serverIndex = IndexOf(conf[c])
        /\ ~ OutOfRange(c)

(* The table of UserTable: the rows a call would read now, or those that   *)
(* are on their way to the truncated file.                                 *)
Writer == {c \in Clients : pc[c] = "encode"}

Table ==
    IF Writer # {} THEN conf[CHOOSE c \in Writer : TRUE]
    ELSE IF file.state = "whole" THEN file.rows ELSE DefaultRows

Caller == CHOOSE c \in Clients : TRUE

Promised == INSTANCE UserTable WITH
    table   <- Table,
    call    <- op[Caller],
    changed <- IF pc[Caller] = "encode" THEN n[Caller] ELSE None,
    blind   <- sight[Caller] = "blind",
    answer  <- answer[Caller]

(* One caller at a time: the file, the index and the loops of insert,      *)
(* update and delete implement a table on which statements are atomic and  *)
(* exact, also across failing writes, kills and restarts.  When the file   *)
(* cannot be opened (serverconfig.go:89-92) they are so on the default     *)
(* configuration, which then replaces the table.                           *)
ImplementsUserTable == Promised!Spec

-----------------------------------------------------------------------------
(* Several callers.                                                        *)

(* Names that may have the password p: it was the initial one, a statement *)
(* gave it to them, or one renamed to them a name that may have it.        *)
Becomes(st, u) == IF st.user = None THEN st.where \in {None, u} ELSE st.user = u

MayShare(p, names) ==
    /\ p = InitialPassword => Admin \in names
    /\ \A st \in Statements :
          /\ st.kind = "insert" =>
                \A i \in DOMAIN st.rows : st.rows[i].pw = p => st.rows[i].user \in names
          /\ st.kind = "update" /\ st.pw = p =>
                \A u \in Users : Becomes(st, u) => u \in names
          /\ st.kind = "update" /\ st.pw = None /\ st.user # None =>
                \A v \in names : st.where \in {None, v} => st.user \in names

MayHave(r) == \A names \in SUBSET Users : MayShare(r.pw, names) => r.user \in names

(* However calls overlap and whatever stale index an UPDATE goes by, no    *)
(* row on file and no answer joins one user's name and another's password: *)
(* update copies whole rows (serverconfig.go:189-197).  The only thing that*)
(* can do so is a call whose two reads (serverconfig.go:94) had a write of *)
(* the file between them.                                                  *)
PasswordsStayWithTheirUsers ==
    ~ mixed =>
       /\ \A i \in DOMAIN file.rows : MayHave(file.rows[i])
       /\ \A c \in Clients : \A i \in DOMAIN answer[c].rows : MayHave(answer[c].rows[i])

(* A change that is answered with success is on file as a whole: every row *)
(* of an INSERT, although its loop stops at a row it refuses with the      *)
(* earlier ones appended and indexed (serverconfig.go:126-129, 141-152),   *)
(* and nothing of what a DELETE chose (serverconfig.go:222-236).           *)
AcknowledgedChangesAreWhole ==
    [][\A c \in Clients :
          pc[c] = "encode" /\ pc'[c] = "idle" /\ answer'[c].status = "ok" =>
             /\ op[c].kind = "insert" => UsersIn(op[c].rows) \subseteq UsersIn(file'.rows)
             /\ op[c].kind = "delete" => whereColumnsToConfig(op[c], file'.rows) = <<>>]_vars

(* A caller goes on, or it waits at mu for one that holds it and goes on:  *)
(* no two wait for each other, and none for itself (serverconfig.go:76,    *)
(* 139, 182).                                                              *)
CallersWaitForRunners ==
    mode = "running" => \A c \in Clients :
        \/ pc[c] = "idle"
        \/ ENABLED Work(c)
        \/ \E d \in Clients \ {c} : pc[d] = "locked" /\ ENABLED Work(d)

(* What the test "insert existing server" and the message "allready exists *)
(* proxyUser" (serverconfig.go:143) say: an INSERT adds no user that the   *)
(* configuration it goes by already has.                                   *)
InsertsOnlyNewUsers ==
    [][\A c \in Clients :
          pc[c] = "locked" /\ pc'[c] = "put" /\ op[c].kind = "insert"
          => UsersIn(op[c].rows) \cap UsersIn(conf[c]) = {}]_vars
=============================================================================
