SPECIFICATION Spec
CONSTANTS
    c1 = c1
    c2 = c2
    b1 = b1
    b2 = b2
    Client = {c1, c2}
    Bucket = {b1, b2}
    bucketIndex <- Hash
    Global = Global
    One = 2
    Rate <- Rates
    Burst <- Bursts
    NonceTTL = 1
    MaxNonces = 8
    Call = {i1, i2, i3}
    MaxDelay = 2
    MaxRetunes = 1
    MaxClock = 3
INVARIANTS
    BurstAndRateBoundNonces
    RefusalIsFree
SYMMETRY
    Interchangeable
CHECK_DEADLOCK FALSE
