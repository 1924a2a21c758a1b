----------------------- MODULE SessionSetupProperties -----------------------
(* What the setup of sessions promises, beside what ConfigStore does.       *)
EXTENDS SessionSetup, ConfigStoreProperties

(* The file at the start is one that calls may have left.                   *)
ASSUME FirstRowsAssumption ==
    FirstRows \in Seq(Rows) /\ \A i \in DOMAIN FirstRows : MayHave(FirstRows[i])

(* What a login of the form <username>@<hostname[:port]> of                 *)
(* README.md:44-46 says, with or without a password after the user name.    *)
Optional(sep, x) == IF x = None THEN <<>> ELSE <<sep, x>>

Parts ==
    {r \in [user : Words, pass : Words \cup {None}, host : Words \cup {None},
            port : Words \cup {None}] : r.port # None => r.host # None}

Name(r) ==
    <<r.user>> \o Optional(":", r.pass) \o Optional("@", r.host) \o Optional(":", r.port)

Readings == [s \in Logins |-> {r \in Parts : Name(r) = s}]

(* On this host when it names none, and on port 3306 when it names none.    *)
Address(r) ==
    <<IF r.host = None THEN "localhost" ELSE r.host, ":",
      IF r.port = None THEN "3306" ELSE r.port>>

(* A session is connected to the user and the address its login names, with *)
(* the password in that name or that of an account the whole name stands    *)
(* for, although the table is read again after the client was authenticated *)
(* (proxysrv.go:114-118).  Unless the file was written meanwhile, or could  *)
(* not be opened, it is the very account the client proved to be.           *)
SessionsGoWhereTheirLoginSays ==
    \A c \in Clients : stage[c] \in {"connect", "relay"} =>
        \A r \in Readings[login[c]] :
            /\ target[c].user = <<r.user>> /\ target[c].addr = Address(r)
            /\ r.pass # None => target[c].account = <<r.pass>>
            /\ r.pass = None =>
                 /\ c \notin touched => target[c].account = proven[c]
                 /\ target[c].account # None =>
                       /\ login[c] \in Matches[target[c].account.user]
                       /\ ~ mixed => MayHave(target[c].account)
=============================================================================
