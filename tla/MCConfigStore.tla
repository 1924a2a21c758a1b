--------------------------- MODULE MCConfigStore ---------------------------
EXTENDS ConfigStoreProperties

CONSTANTS admin, alice, bob, carol, pass, p1, p2, p3, p4, garbled

MCUsers     == {admin, alice, bob, carol}
MCPasswords == {pass, p1, p2, p3, p4, garbled}

(* admin is a plain name; the pattern bob also matches alice.              *)
MCMatches == [u \in MCUsers |-> IF u = bob THEN {alice, bob} ELSE {u}]

InsertRows(rows)         == [kind |-> "insert", rows |-> rows]
UpdateWhere(w, user, pw) == [kind |-> "update", where |-> w, user |-> user, pw |-> pw]
DeleteWhere(w)           == [kind |-> "delete", where |-> w]
SelectWhere(w)           == [kind |-> "select", where |-> w]
Login(name)              == [kind |-> "login", name |-> name]

(* The statements of one administrator and the logins between them.        *)
MCStatements ==
    {InsertRows(<<Encrypted(alice, p1)>>), InsertRows(<<Encrypted(bob, p2), Encrypted(alice, p1)>>),
     InsertRows(<<Encrypted(bob, p2), Encrypted(bob, p1)>>),
     UpdateWhere(admin, None, p3), UpdateWhere(alice, carol, None), UpdateWhere(None, None, p3),
     UpdateWhere(alice, bob, p3), UpdateWhere(None, carol, None),
     DeleteWhere(alice), DeleteWhere(admin), DeleteWhere(None),
     SelectWhere(None), SelectWhere(bob), Login(alice), Login(admin)}

(* A smaller choice for callers that overlap.  Each password belongs to    *)
(* one user, so that a mixed row is recognised.                            *)
MCOverlapping ==
    {InsertRows(<<Encrypted(bob, p2), Encrypted(alice, p1)>>), InsertRows(<<Encrypted(alice, p1)>>),
     UpdateWhere(alice, None, p4), UpdateWhere(admin, None, p3),
     DeleteWhere(admin), Login(alice)}
=============================================================================
