---------------------------- MODULE SessionSetup ----------------------------
(***************************************************************************)
(* What ProxySrv.sessionWorker does between the handshake and the relay,   *)
(* over the user table that the statements of administrators change at the *)
(* same time: a client is authenticated with one call of GetPassword, its  *)
(* login name is taken apart, and the password for the target comes from   *)
(* another call.                                                           *)
(*                                                                         *)
(* A login name is a sequence of words and separators.  A client is the    *)
(* goroutine that serves it; ConfigStore has the steps of its calls.       *)
(* SlipLoginOf is a plausible mistake, not the code.                       *)
(***************************************************************************)
EXTENDS ConfigStore

CONSTANTS
    Logins,           \* the names clients log in with
    AdminUser,        \* the one that is served the user table
    Words,            \* what names are made of, with ":" and "@"
    FirstRows         \* what config.json may hold at the start

ASSUME WordsAssumption == Words \cap {":", "@"} = {}

VARIABLES
    stage,            \* where the session of client c is
    login,            \* mysqlConn.GetUser()
    proven,           \* the row the client was authenticated with
    target,           \* TargetUser, TargetAddr and the row of TargetPassword
    touched           \* clients that may not have seen one file all the time

sessionVars == <<stage, login, proven, target, touched>>
allVars     == <<vars, sessionVars>>

-----------------------------------------------------------------------------
(* Taking a login name apart.                                              *)

At(s, sep) == {i \in DOMAIN s : s[i] = sep}

(* strings.Split gives two parts, which are ...                            *)
InTwo(s, sep)  == Cardinality(At(s, sep)) = 1
Left(s, sep)   == SubSeq(s, 1, Min(At(s, sep)) - 1)
Right(s, sep)  == SubSeq(s, Min(At(s, sep)) + 1, Len(s))

getUserPass(s) ==
    IF InTwo(s, ":") THEN [user |-> Left(s, ":"), pass |-> Right(s, ":")]
                     ELSE [user |-> s, pass |-> <<>>]

getTargetInfo(s) ==
    LET up == getUserPass(IF InTwo(s, "@") THEN Left(s, "@") ELSE s)
    IN  [user |-> up.user, pass |-> up.pass,
         server |-> IF InTwo(s, "@") THEN Right(s, "@") ELSE <<>>]

addPort(s) ==
    IF s = <<>> THEN <<"localhost", ":", "3306">>
    ELSE IF At(s, ":") = {} THEN s \o <<":", "3306">> ELSE s

SlipLoginOf(c) == [kind |-> "login", name |-> target[c].user]   \* targetUser for user

(* remoteProvider.GetCredential(user)                                      *)
LoginOf(c) == [kind |-> "login", name |-> login[c]]

NoTarget == [user |-> <<>>, addr |-> <<>>, account |-> None]

SessionInit ==
    /\ Idle
    /\ file \in {Absent, [state |-> "whole", rows |-> FirstRows]}
    /\ stage \in [Clients -> {"none", "admin"}]
    /\ login = [c \in Clients |-> IF stage[c] = "admin" THEN AdminUser ELSE <<>>]
    /\ proven = [c \in Clients |-> None]
    /\ target = [c \in Clients |-> NoTarget]
    /\ touched = {}

-----------------------------------------------------------------------------
StageGoes(c, from, to) ==
    /\ mode = "running" /\ pc[c] = "idle"
    /\ stage[c] = from
    /\ stage' = [stage EXCEPT ![c] = to]

Handshake(c) ==                    \* NewCustomizedConn asks for the password
    /\ StageGoes(c, "none", "checking")
    /\ \E name \in Logins :
          /\ login' = [login EXCEPT ![c] = name]
          /\ Call(c, [kind |-> "login", name |-> name])
    /\ UNCHANGED <<proven, target, touched>>

(* The session is over: no such name, the wrong password, a broken         *)
(* connection, an administrator or a relay that has ended, a target that   *)
(* cannot be reached.                                                      *)
Leaves(c) ==
    /\ \E from \in {"checking", "admin", "connect", "relay"} : StageGoes(c, from, "none")
    /\ login' = [login EXCEPT ![c] = <<>>]
    /\ proven' = [proven EXCEPT ![c] = None]
    /\ target' = [target EXCEPT ![c] = NoTarget]
    /\ touched' = touched \ {c}
    /\ UNCHANGED vars

Authenticated(c) ==                \* the password was the client's
    LET info == getTargetInfo(login[c])
    IN  /\ StageGoes(c, "checking", IF login[c] = AdminUser THEN "admin"
                                    ELSE IF info.pass = <<>> THEN "lookup" ELSE "connect")
        /\ answer[c].status = "ok"
        /\ proven' = [proven EXCEPT ![c] = IF login[c] = AdminUser THEN None ELSE answer[c].rows[1]]
        /\ target' = [target EXCEPT ![c] =
              IF login[c] = AdminUser THEN @
              ELSE [user |-> info.user, addr |-> addPort(info.server),
                    account |-> IF info.pass = <<>> THEN None ELSE info.pass]]
        /\ UNCHANGED <<vars, login, touched>>

Lookup(c) ==                       \* no password in the name: GetCredential again
    /\ StageGoes(c, "lookup", "fetching")
    /\ Call(c, LoginOf(c))
    /\ UNCHANGED <<login, proven, target, touched>>

(* Its error is dropped, and the password empty then.                      *)
Fetched(c) ==
    /\ StageGoes(c, "fetching", "connect")
    /\ target' = [target EXCEPT ![c].account =
          IF answer[c].status = "ok" THEN answer[c].rows[1] ELSE None]
    /\ UNCHANGED <<vars, login, proven, touched>>

Connects(c) ==                     \* ConnectToMySQL
    /\ StageGoes(c, "connect", "relay")
    /\ UNCHANGED <<vars, login, proven, target, touched>>

Administers(c) ==                  \* HandleCommand
    /\ StageGoes(c, "admin", "admin")
    /\ \E st \in Statements : Call(c, st)
    /\ UNCHANGED <<login, proven, target, touched>>

Works(c) ==                        \* a step of a call
    /\ Work(c)
    /\ touched' = touched \cup
          {d \in Clients : /\ stage[d] \notin {"none", "admin"}
                           /\ file' # file \/ sight'[d] # "clear"}
    /\ UNCHANGED <<stage, login, proven, target>>

sessionWorker(c) ==
    \/ Handshake(c) \/ Authenticated(c) \/ Lookup(c) \/ Fetched(c) \/ Connects(c)
    \/ Administers(c) \/ Works(c) \/ Leaves(c)

Reboot ==
    /\ Restart
    /\ stage' = [c \in Clients |-> "none"]
    /\ login' = [c \in Clients |-> <<>>]
    /\ proven' = [c \in Clients |-> None]
    /\ target' = [c \in Clients |-> NoTarget]
    /\ touched' = {}

SessionNext == Reboot \/ \E c \in Clients : sessionWorker(c)

SessionSpec == SessionInit /\ [][SessionNext]_allVars
=============================================================================
