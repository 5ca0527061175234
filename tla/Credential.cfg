SPECIFICATION CredentialSpec
CONSTANTS
    j1 = j1
    j2 = j2
    j3 = j3
    j4 = j4
    c1 = c1
    c2 = c2
    p1 = p1
    p2 = p2
    anIssuer = anIssuer
    another = another
    Jti = {j1, j2, j3, j4}
    Iat = {2, 3, 6}
    Call = {c1, c2}
    MaxAge = 2
    Skew = 1
    MaxEntries = 2
    MaxDelay = 2
    MaxClock = 7
    Principal = {p1, p2}
    Issuer = {anIssuer, another}
    Trusted = {anIssuer}
    Document <- MCDocument
SYMMETRY Calls
INVARIANTS
    SpentIsRemembered
    KeyDiesWithCredential
PROPERTIES
    ReplayNeedsOvertaking
CHECK_DEADLOCK FALSE
