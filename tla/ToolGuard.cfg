SPECIFICATION GuardSpec
CONSTANTS
    good = good
    poor = poor
    Server = {s1}
    Surface = {good, poor}
    Approved <- Pins
    Request = {q1, q2}
    Kinds = {"list", "call", "both", "handshake", "bodyless"}
    Replies <- AnyReply
SYMMETRY Slots
INVARIANTS
    GuardTypeOK
    BlockedIsTrue
    
    WorkWaitsForMatch
