SPECIFICATION SessionSpec
CONSTANTS
    admin = admin
    aliceAtDb = aliceAtDb
    bob = bob
    pass = pass
    p1 = p1
    p2 = p2
    p3 = p3
    p4 = p4
    garbled = garbled
    None = None
    Admin = admin
    InitialPassword = pass
    Garbled = garbled
    Users <- MCUsers
    Passwords <- MCPasswords
    Matches <- MCMatches
    Statements <- MCStatements
    Clients = {c1, c2}
    MaxCalls = 3
    Logins <- MCLogins
    Words <- MCWords
    AdminUser <- MCAdminUser
    FirstRows <- MCFirstRows
SYMMETRY Symmetry
INVARIANTS
    PasswordsStayWithTheirUsers
    SessionsGoWhereTheirLoginSays
    CallersWaitForRunners
PROPERTIES
    AcknowledgedChangesAreWhole
