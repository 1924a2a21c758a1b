SPECIFICATION Spec
CONSTANTS
    admin = admin
    alice = alice
    bob = bob
    carol = carol
    pass = pass
    p1 = p1
    p2 = p2
    p3 = p3
    p4 = p4
    garbled = garbled
    None = None
    Admin = admin
    InitialPassword = pass
    Garbled = garbled
    Users <- MCUsers
    Passwords <- MCPasswords
    Matches <- MCMatches
    Statements <- MCOverlapping
    Clients = {c1, c2}
    MaxCalls = 3
PROPERTIES InsertsOnlyNewUsers
