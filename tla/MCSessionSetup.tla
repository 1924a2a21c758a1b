--------------------------- MODULE MCSessionSetup ---------------------------
EXTENDS SessionSetupProperties, TLC

CONSTANTS admin, aliceAtDb, bob, pass, p1, p2, p3, p4, garbled

(* Users are the patterns of the table, logins the names that are given.   *)
MCUsers     == {admin, aliceAtDb, bob}
MCPasswords == {pass, p1, p2, p3, p4, garbled}
MCWords     == {"admin", "alice", "bob", "db", "3307", "secret"}

MCAdminUser == <<"admin">>
AliceAtDb   == <<"alice", "@", "db">>
AliceAtPort == <<"alice", "@", "db", ":", "3307">>
BobBySecret == <<"bob", ":", "secret">>

MCLogins  == {MCAdminUser, AliceAtDb, AliceAtPort, BobBySecret}

(* Each of them can be read, and in one way.                               *)
ASSUME LoginsAreRead == \A s \in MCLogins : Cardinality(Readings[s]) = 1

MCMatches == [u \in MCUsers |->
    CASE u = admin     -> {MCAdminUser}
      [] u = aliceAtDb -> {AliceAtDb, AliceAtPort}
      [] u = bob       -> {BobBySecret}]

InsertRows(rows)         == [kind |-> "insert", rows |-> rows]
UpdateWhere(w, user, pw) == [kind |-> "update", where |-> w, user |-> user, pw |-> pw]
DeleteWhere(w)           == [kind |-> "delete", where |-> w]

MCFirstRows == <<Encrypted(admin, pass), Encrypted(aliceAtDb, p1)>>

(* Few passwords may belong to several users, so that a mixed row is       *)
(* recognised.                                                             *)
MCStatements ==
    {InsertRows(<<Encrypted(bob, p2), Encrypted(aliceAtDb, p1)>>),
     UpdateWhere(aliceAtDb, None, p4), UpdateWhere(aliceAtDb, bob, None),
     DeleteWhere(admin)}

Symmetry == Permutations(Clients)
=============================================================================
