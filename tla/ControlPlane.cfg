SPECIFICATION ControlSpec
CONSTANTS
    Principal = {p1, p2}
    Blueprint = {b1}
    Agent = {a1}
    NoId = NoId
    StoreMayFail = TRUE
INVARIANTS
    DisabledIsRevoked
    ReplyIsTrue
    RevokedStaysDenied
SYMMETRY
    Principals
