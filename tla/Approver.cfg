SPECIFICATION Spec
CONSTANTS
    Review = {q1, q2}
    Operator = {o1, o2}
    Timed = {q1}
INVARIANTS
    ToldIsTrue
    LoserNeverBlocks
PROPERTIES
    ImplementsReviewQueue
    HeldIsAnswered
    LeavingFreesReview
CHECK_DEADLOCK FALSE
