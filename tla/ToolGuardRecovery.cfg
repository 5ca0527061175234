SPECIFICATION FairSpec
CONSTANTS
    good = good
    poor = poor
    Server = {s1}
    Surface = {good, poor}
    Approved <- Pins
    Request = {q1, q2}
    Kinds = {"list"}
    Replies <- PlainReply
PROPERTY
    QuarantineEnds
