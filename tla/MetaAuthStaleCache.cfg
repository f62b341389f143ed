CONSTANTS
    u1 = u1
    u2 = u2
    p1 = p1
    p2 = p2
    a1 = a1
    a2 = a2
    Users <- MCUsers
    Passwords <- MCPasswords
    Authenticators <- MCAuthenticators
    MaxIndex = 5
    NoUser = NoUser
    NoEntry = NoEntry
SPECIFICATION Spec
INVARIANT AuthenticateSound
