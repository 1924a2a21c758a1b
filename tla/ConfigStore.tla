---------------------------- MODULE ConfigStore ----------------------------
(***************************************************************************)
(* The user table of mysql8-audit-proxy: a serverconfig.Manager that every *)
(* administrator's statement and every login goes through, over the file   *)
(* config.json.                                                            *)
(*                                                                         *)
(* A call reads the file into a Config of its own; an INSERT, UPDATE or    *)
(* DELETE changes that and writes the whole of it back.  The calls share   *)
(* the Manager's serverIndex, which every one of them rebuilds, twice,     *)
(* from what it has read.  mu guards the map, not the calls.               *)
(*                                                                         *)
(* A row's password is its text and the number of times it has been        *)
(* encrypted.  An empty file also stands for one that does not parse.      *)
(*                                                                         *)
(* A file is read in one go or, when it is longer than the decoder's first *)
(* 512 bytes, in two; other calls may write it in between.  That it takes  *)
(* no third read (1536 bytes) is a bound of the model.                     *)
(* Definitions named Slip are plausible mistakes, not the code.            *)
(***************************************************************************)
EXTENDS Naturals, Sequences, FiniteSetsExt, SequencesExt, Selections

CONSTANTS
    Clients,          \* goroutines that call the Manager
    Users, Passwords, \* the texts of the two columns
    Garbled,          \* stands for what cannot be decrypted
    None,             \* no value
    Admin, InitialPassword,
    Matches,          \* Matches[u]: the names the pattern u matches
    Statements,       \* the calls clients make
    MaxCalls          \* bound: calls made in a behaviour

(* The rows of a Config.                                                   *)
Rows == [user : Users, pw : Passwords, enc : Nat \ {0}]

ASSUME TableAssumption ==
    /\ Admin \in Users /\ InitialPassword \in Passwords
    /\ Garbled \in Passwords \ {InitialPassword}
    /\ None \notin Users \cup Passwords \cup Statements \cup Nat
    /\ MaxCalls \in Nat

ASSUME StatementsAssumption ==
    \A st \in Statements :
        \/ /\ st.kind = "insert" /\ st.rows \in Seq(Rows)
           /\ \A i \in DOMAIN st.rows : st.rows[i].pw # Garbled
        \/ /\ st.kind = "update" /\ st.where \in Users \cup {None}
           /\ st.user \in Users \cup {None} /\ st.pw \in (Passwords \ {Garbled}) \cup {None}
        \/ st.kind \in {"select", "delete"} /\ st.where \in Users \cup {None}
        \/ st.kind = "login"

VARIABLES
    mode,             \* the process: "running" or "crashed"
    file,             \* config.json: state "absent", "empty" or "whole", and its rows
    serverIndex,      \* user name -> position
    calls,            \* calls made so far
    pc, op,           \* where client c is, in which call
    conf,             \* the rows of its Config
    sight,            \* how its call saw the file: "clear", "blind", "torn"
    mixed,            \* some call has put two texts of the file together
    n,                \* rows it has changed
    answer            \* what its last call was answered

clientVars == <<pc, op, conf, n, answer>>
readVars   == <<sight, mixed>>
vars       == <<mode, file, serverIndex, calls, clientVars, readVars>>

-----------------------------------------------------------------------------
Encrypted(u, p) == [user |-> u, pw |-> p, enc |-> 1]
DefaultRows     == <<Encrypted(Admin, InitialPassword)>>

UsersIn(rows) == {rows[i].user : i \in DOMAIN rows}

SlipCountsBefore(rows) ==     \* an index one too low
    [u \in UsersIn(rows) |-> Max({i \in DOMAIN rows : rows[i].user = u}) - 1]

(* makeIndex: the last row of a name wins.                                 *)
IndexOf(rows) ==
    [u \in UsersIn(rows) |-> Max({i \in DOMAIN rows : rows[i].user = u})]

(* mu: a writer waits for the readers; nobody keeps it as a writer across  *)
(* a step.                                                                 *)
NoReader == \A c \in Clients : pc[c] # "locked"

Answer(status, k, rows) == [status |-> status, n |-> k, rows |-> rows]

Goto(c, from, to) ==
    /\ mode = "running"
    /\ pc[c] = from
    /\ pc' = [pc EXCEPT ![c] = to]

(* The call ends.                                                          *)
Ends(c, from, a) ==
    /\ Goto(c, from, "idle")
    /\ answer' = [answer EXCEPT ![c] = a]
    /\ op' = [op EXCEPT ![c] = None]
    /\ conf' = [conf EXCEPT ![c] = <<>>]
    /\ n' = [n EXCEPT ![c] = 0]
    /\ UNCHANGED <<mode, calls, mixed>>

Returns(c, from, a) ==
    /\ Ends(c, from, a)
    /\ sight' = [sight EXCEPT ![c] = "clear"]

Fails(c, from) == Returns(c, from, Answer("error", 0, <<>>))

Idle ==
    /\ mode = "running"
    /\ serverIndex = [u \in {} |-> 0]
    /\ calls = 0
    /\ pc = [c \in Clients |-> "idle"]
    /\ op = [c \in Clients |-> None]
    /\ conf = [c \in Clients |-> <<>>]
    /\ n = [c \in Clients |-> 0]
    /\ answer = [c \in Clients |-> Answer("none", 0, <<>>)]
    /\ sight = [c \in Clients |-> "clear"] /\ mixed = FALSE

Absent == [state |-> "absent", rows |-> <<>>]

Init == Idle /\ file = Absent

-----------------------------------------------------------------------------
(* GetConfig, with which every call begins.                                *)

Call(c, st) ==                     \* NewConfig and the first makeIndex
    /\ calls < MaxCalls
    /\ NoReader
    /\ Goto(c, "idle", "open")
    /\ calls' = calls + 1
    /\ op' = [op EXCEPT ![c] = st]
    /\ conf' = [conf EXCEPT ![c] = DefaultRows]
    /\ serverIndex' = IndexOf(DefaultRows)
    /\ UNCHANGED <<mode, file, n, answer, readVars>>

SlipReadsOnce(c) ==                \* without the second makeIndex
    /\ Goto(c, "open", "loaded")
    /\ conf' = [conf EXCEPT ![c] = IF file.state = "whole" THEN file.rows ELSE @]
    /\ UNCHANGED <<mode, file, serverIndex, calls, op, n, answer, readVars>>

(* The file is missing: the default is returned at once.  It does not      *)
(* parse: the default stays.  It is read to the end of the text.           *)
ReadFile(c) ==
    /\ Goto(c, "open", IF file.state = "absent" THEN "loaded" ELSE "reindex")
    /\ conf' = [conf EXCEPT ![c] = IF file.state = "whole" THEN file.rows ELSE @]
    /\ UNCHANGED <<mode, file, serverIndex, calls, op, n, answer, readVars>>

(* Any other error of Open, on a file that is there: the default as well.  *)
OpenFails(c) ==
    /\ file.state # "absent"
    /\ Goto(c, "open", "loaded")
    /\ sight' = [sight EXCEPT ![c] = "blind"]
    /\ UNCHANGED <<mode, file, serverIndex, calls, op, conf, n, answer, mixed>>

ReadPart(c) ==                     \* conf holds the text that was begun
    /\ file.state = "whole"
    /\ Goto(c, "open", "reading")
    /\ conf' = [conf EXCEPT ![c] = file.rows]
    /\ UNCHANGED <<mode, file, serverIndex, calls, op, n, answer, readVars>>

ReadRest(c) ==
    /\ sight[c] = "clear"
    /\ Goto(c, "reading", "reindex")
    /\ UNCHANGED <<mode, file, serverIndex, calls, op, conf, n, answer, readVars>>

(* The file was written since its text a was begun, and the rest is that of*)
(* b, from inside its row j on.  The row that was begun may be joined of   *)
(* two, with a password of b or a cut one (a name cut inside is taken for  *)
(* one of the two), and none before the Key, at the end, may be readable.  *)
Unreadable(rows) == [i \in DOMAIN rows |-> Encrypted(rows[i].user, Garbled)]

Joined(r, s) ==
    {[user |-> u, pw |-> p.pw, enc |-> p.enc] :
        u \in {r.user, s.user}, p \in {s, Encrypted(s.user, Garbled)}}

Splices(a, b) ==
    UNION {{q \o m \o SubSeq(b, j + 1, Len(b)) :
                q \in {SubSeq(a, 1, i), Unreadable(SubSeq(a, 1, i))},
                m \in {<<>>} \cup {<<r>> : r \in IF i < Len(a) THEN Joined(a[i + 1], b[j]) ELSE {}}} :
           i \in 0 .. Len(a), j \in DOMAIN b}

ReadTorn(c) ==
    /\ sight[c] = "torn" /\ file.state = "whole"
    /\ Goto(c, "reading", "reindex")
    /\ \E rows \in Splices(conf[c], file.rows) : conf' = [conf EXCEPT ![c] = rows]
    /\ sight' = [sight EXCEPT ![c] = "clear"]
    /\ mixed' = TRUE
    /\ UNCHANGED <<mode, file, serverIndex, calls, op, n, answer>>

ReadBroken(c) ==                   \* the two together do not parse
    /\ sight[c] = "torn"
    /\ Goto(c, "reading", "reindex")
    /\ conf' = [conf EXCEPT ![c] = DefaultRows]
    /\ sight' = [sight EXCEPT ![c] = "clear"]
    /\ UNCHANGED <<mode, file, serverIndex, calls, op, n, answer, mixed>>

Reindex(c) ==                      \* the second makeIndex
    /\ NoReader
    /\ Goto(c, "reindex", "loaded")
    /\ serverIndex' = IndexOf(conf[c])
    /\ UNCHANGED <<mode, file, calls, op, conf, n, answer, readVars>>

GetConfig(c) ==
    \/ ReadFile(c) \/ OpenFails(c)
    \/ ReadPart(c) \/ ReadRest(c) \/ ReadTorn(c) \/ ReadBroken(c)
    \/ Reindex(c)

-----------------------------------------------------------------------------
(* whereColumnsToConfig, on the User column or without WHERE.              *)
whereColumnsToConfig(st, rows) ==
    Selected(rows, {r \in Rows : st.where \in {None, r.user}})

Select(c) ==
    /\ pc[c] = "loaded" /\ op[c].kind = "select"
    /\ Returns(c, "loaded", Answer("ok", 0, whereColumnsToConfig(op[c], conf[c])))
    /\ UNCHANGED <<file, serverIndex>>

(* getServer: the first row whose pattern matches the name.                *)
Matching(c) == {i \in DOMAIN conf[c] : op[c].name \in Matches[conf[c][i].user]}

FirstMatch(c) == conf[c][Min(Matching(c))]

NoText(r) == r.pw = Garbled /\ r.enc = 1

GetPassword(c) ==
    /\ pc[c] = "loaded" /\ op[c].kind = "login"
    /\ IF Matching(c) = {} \/ NoText(FirstMatch(c))
       THEN Fails(c, "loaded")
       ELSE Returns(c, "loaded", Answer("ok", 0, <<[FirstMatch(c) EXCEPT !.enc = @ - 1]>>))
    /\ UNCHANGED <<file, serverIndex>>

DecryptPanics(c) ==                \* what is stored is shorter than a nonce
    /\ mode = "running"
    /\ pc[c] = "loaded" /\ op[c].kind = "login"
    /\ Matching(c) # {} /\ NoText(FirstMatch(c))
    /\ mode' = "crashed"
    /\ UNCHANGED <<file, serverIndex, calls, clientVars, readVars>>

(* DELETE needs no index.                                                  *)
SlipDeletesOne(c) ==               \* stops at the first row it deletes
    /\ Goto(c, "loaded", "put")
    /\ op[c].kind = "delete"
    /\ LET chosen == {i \in DOMAIN conf[c] : op[c].where \in {None, conf[c][i].user}}
       IN  /\ chosen # {}
           /\ conf' = [conf EXCEPT ![c] = RemoveAt(@, Min(chosen))]
           /\ n' = [n EXCEPT ![c] = Cardinality(chosen)]
    /\ UNCHANGED <<mode, file, serverIndex, calls, op, answer, readVars>>

Delete(c) ==
    /\ Goto(c, "loaded", "put")
    /\ op[c].kind = "delete"
    /\ LET deleted == UsersIn(whereColumnsToConfig(op[c], conf[c]))
           res     == Selected(conf[c], {s \in Rows : s.user \notin deleted})
       IN  /\ deleted # {}
           /\ conf' = [conf EXCEPT ![c] = res]
           /\ n' = [n EXCEPT ![c] = Len(conf[c]) - Len(res)]
    /\ UNCHANGED <<mode, file, serverIndex, calls, op, answer, readVars>>

NothingChosen(c) ==                \* UPDATE and DELETE: "no update data", "not found data"
    /\ pc[c] = "loaded" /\ op[c].kind \in {"update", "delete"}
    /\ whereColumnsToConfig(op[c], conf[c]) = <<>>
    /\ Fails(c, "loaded")
    /\ UNCHANGED <<file, serverIndex>>

-----------------------------------------------------------------------------
(* INSERT and UPDATE work under mu.RLock, which several clients can hold.  *)

Lock(c) ==
    /\ Goto(c, "loaded", "locked")
    /\ \/ op[c].kind = "insert"
       \/ op[c].kind = "update" /\ whereColumnsToConfig(op[c], conf[c]) # <<>>
    /\ UNCHANGED <<mode, file, serverIndex, calls, op, conf, n, answer, readVars>>

(* The rows of an INSERT that the loop of insert refuses: in the index, or *)
(* put there by an earlier row of the same statement.                      *)
Refused(c) ==
    {i \in DOMAIN op[c].rows :
        \/ op[c].rows[i].user \in DOMAIN serverIndex
        \/ \E j \in 1 .. i - 1 : op[c].rows[j].user = op[c].rows[i].user}

(* It appends the rows before the first of those, and indexes them.        *)
Appended(c) ==
    SubSeq(op[c].rows, 1, IF Refused(c) = {} THEN Len(op[c].rows) ELSE Min(Refused(c)) - 1)

Indexed(c) ==
    LET a == Appended(c)
    IN  [u \in DOMAIN serverIndex \cup UsersIn(a) |->
            IF u \in UsersIn(a) THEN Len(conf[c]) + IndexOf(a)[u] ELSE serverIndex[u]]

SlipSavesAnyway(c) ==              \* PutConfig whatever insert returned
    /\ Goto(c, "locked", "put")
    /\ op[c].kind = "insert"
    /\ conf' = [conf EXCEPT ![c] = @ \o Appended(c)]
    /\ serverIndex' = Indexed(c)
    /\ n' = [n EXCEPT ![c] = Len(Appended(c))]
    /\ UNCHANGED <<mode, file, calls, op, answer, readVars>>

SlipUpgradesLock(c) ==             \* mu.Lock for the map, with RLock still held
    /\ Goto(c, "locked", "put")
    /\ NoReader
    /\ op[c].kind = "insert" /\ Refused(c) = {}
    /\ conf' = [conf EXCEPT ![c] = @ \o Appended(c)]
    /\ serverIndex' = Indexed(c)
    /\ n' = [n EXCEPT ![c] = Len(Appended(c))]
    /\ UNCHANGED <<mode, file, calls, op, answer, readVars>>

Insert(c) ==
    /\ Goto(c, "locked", "put")
    /\ op[c].kind = "insert" /\ Refused(c) = {}
    /\ conf' = [conf EXCEPT ![c] = @ \o Appended(c)]
    /\ serverIndex' = Indexed(c)
    /\ n' = [n EXCEPT ![c] = Len(Appended(c))]
    /\ UNCHANGED <<mode, file, calls, op, answer, readVars>>

InsertFails(c) ==                  \* "allready exists"; the index keeps the earlier rows
    /\ pc[c] = "locked" /\ op[c].kind = "insert" /\ Refused(c) # {}
    /\ serverIndex' = Indexed(c)
    /\ Fails(c, "locked")
    /\ UNCHANGED file

(* updateColumns and encrypt: the stored password is taken for plain text  *)
(* when SET does not name one.                                             *)
updateColumns(st, r) ==
    [user |-> IF st.user = None THEN r.user ELSE st.user,
     pw   |-> IF st.pw = None THEN r.pw ELSE st.pw,
     enc  |-> IF st.pw = None THEN r.enc + 1 ELSE 1]

SlipUpdatesInPlace(st, old, r) ==  \* writes only the columns SET names
    [user |-> IF st.user = None THEN old.user ELSE st.user,
     pw   |-> IF st.pw = None THEN r.pw ELSE st.pw,
     enc  |-> IF st.pw = None THEN r.enc + 1 ELSE 1]

(* conf.Servers[i] = s                                                     *)
stored(st, old, r) == updateColumns(st, r)

(* One turn of the loop of update.  Without WHERE the rows it ranges over  *)
(* are those of conf itself, with the changes made so far.                 *)
UpdateRow(st, chosen, k, acc) ==
    LET u == IF st.where = None THEN acc.rows[k] ELSE chosen[k]
    IN  IF acc.end # "ok" THEN acc
        ELSE IF u.user \notin DOMAIN serverIndex THEN [acc EXCEPT !.end = "error"]
        ELSE IF serverIndex[u.user] > Len(acc.rows) THEN [acc EXCEPT !.end = "panic"]
        ELSE [acc EXCEPT !.rows[serverIndex[u.user]] = stored(st, @, u)]

UpdateLoop(c) ==
    LET chosen == whereColumnsToConfig(op[c], conf[c])
        loop[k \in 0 .. Len(chosen)] ==
            IF k = 0 THEN [rows |-> conf[c], end |-> "ok"]
            ELSE UpdateRow(op[c], chosen, k, loop[k - 1])
    IN  loop[Len(chosen)]

Update(c) ==
    /\ Goto(c, "locked", "put")
    /\ op[c].kind = "update" /\ UpdateLoop(c).end = "ok"
    /\ conf' = [conf EXCEPT ![c] = UpdateLoop(c).rows]
    /\ n' = [n EXCEPT ![c] = Len(whereColumnsToConfig(op[c], conf[c]))]
    /\ UNCHANGED <<mode, file, serverIndex, calls, op, answer, readVars>>

UpdateFails(c) ==                  \* "proxyUser not found"
    /\ pc[c] = "locked" /\ op[c].kind = "update" /\ UpdateLoop(c).end = "error"
    /\ Fails(c, "locked")
    /\ UNCHANGED <<file, serverIndex>>

EncryptFails(c) ==                 \* a Key joined of two may have a length AES refuses
    /\ mixed
    /\ pc[c] = "locked" /\ op[c].kind \in {"insert", "update"}
    /\ Fails(c, "locked")
    /\ UNCHANGED <<file, serverIndex>>

OutOfRange(c) == pc[c] = "locked" /\ op[c].kind = "update" /\ UpdateLoop(c).end = "panic"

UpdatePanics(c) ==
    /\ mode = "running"
    /\ OutOfRange(c)
    /\ mode' = "crashed"
    /\ UNCHANGED <<file, serverIndex, calls, clientVars, readVars>>

(* An insert writes the map under RLock: a second client in the section    *)
(* makes the runtime's "concurrent map" check possible.                    *)
MapRace(c) ==
    /\ mode = "running"
    /\ pc[c] = "locked" /\ op[c].kind = "insert"
    /\ \E d \in Clients \ {c} : pc[d] = "locked"
    /\ mode' = "crashed"
    /\ UNCHANGED <<file, serverIndex, calls, clientVars, readVars>>

-----------------------------------------------------------------------------
(* PutConfig.                                                              *)

(* Who has read a part of the file will find the rest of another text.     *)
Torn == [d \in Clients |-> IF pc[d] = "reading" THEN "torn" ELSE sight[d]]

CreateFails(c) ==                  \* MkdirAll or Create
    /\ Fails(c, "put")
    /\ UNCHANGED <<file, serverIndex>>

Create(c) ==                       \* os.Create truncates
    /\ Goto(c, "put", "encode")
    /\ file' = [state |-> "empty", rows |-> <<>>]
    /\ sight' = Torn
    /\ UNCHANGED <<mode, serverIndex, calls, op, conf, n, answer, mixed>>

(* One write of the whole text; what a longer, earlier one leaves behind   *)
(* its end is decoded by none but who has begun that one.                  *)
Encode(c) ==
    /\ Ends(c, "encode", Answer("ok", n[c], <<>>))
    /\ file' = [state |-> "whole", rows |-> conf[c]]
    /\ sight' = [Torn EXCEPT ![c] = "clear"]
    /\ UNCHANGED serverIndex

EncodeFails(c) ==                  \* nothing, or a part, is written
    /\ Ends(c, "encode", Answer("error", 0, <<>>))
    /\ \/ UNCHANGED file /\ sight' = [sight EXCEPT ![c] = "clear"]
       \/ /\ file' = [state |-> "empty", rows |-> <<>>]
          /\ sight' = [Torn EXCEPT ![c] = "clear"]
    /\ UNCHANGED serverIndex

PutConfig(c) == CreateFails(c) \/ Create(c) \/ Encode(c) \/ EncodeFails(c)

-----------------------------------------------------------------------------
(* The process ends, at any point, and is started again.                   *)
Restart ==
    /\ mode' = "running"
    /\ serverIndex' = [u \in {} |-> 0]
    /\ pc' = [c \in Clients |-> "idle"]
    /\ op' = [c \in Clients |-> None]
    /\ conf' = [c \in Clients |-> <<>>]
    /\ n' = [c \in Clients |-> 0]
    /\ answer' = [c \in Clients |-> Answer("none", 0, <<>>)]
    /\ sight' = [c \in Clients |-> "clear"]
    /\ UNCHANGED <<file, calls, mixed>>

Advance(c) ==
    \/ GetConfig(c)
    \/ Select(c) \/ GetPassword(c) \/ Delete(c) \/ NothingChosen(c)
    \/ Lock(c) \/ Insert(c) \/ InsertFails(c)
    \/ Update(c) \/ UpdateFails(c) \/ EncryptFails(c)
    \/ PutConfig(c)

Work(c) == Advance(c) \/ DecryptPanics(c) \/ UpdatePanics(c) \/ MapRace(c)

Next ==
    \/ \E c \in Clients : (\E st \in Statements : Call(c, st)) \/ Work(c)
    \/ Restart

Spec == Init /\ [][Next]_vars

(* With one client no call crashes (ConfigStoreProperties!IndexIsOfConfig),*)
(* nobody writes the file while it is read, and these are all its steps.   *)
AloneAdvance(c) ==
    \/ ReadFile(c) \/ OpenFails(c) \/ ReadPart(c) \/ ReadRest(c) \/ Reindex(c)
    \/ Select(c) \/ GetPassword(c) \/ Delete(c) \/ NothingChosen(c)
    \/ Lock(c) \/ Insert(c) \/ InsertFails(c) \/ Update(c) \/ UpdateFails(c)
    \/ PutConfig(c)

AloneNext ==
    \/ \E c \in Clients : (\E st \in Statements : Call(c, st)) \/ AloneAdvance(c)
    \/ Restart

AloneSpec == Init /\ [][AloneNext]_vars
=============================================================================
