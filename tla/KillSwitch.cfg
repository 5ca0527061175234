SPECIFICATION Spec
CONSTANTS
    r1 = r1
    w1 = w1
    w2 = w2
    principal = principal
    agent = agent
    Replica = {r1}
    Id = {principal, agent}
    Batch <- Cascade
    Writer = {w1, w2}
    Home <- HomeOfOne
    Op = {"revoke", "restore"}
    MaxStale = 2
    ListTimeout = 1
    RefreshEvery = 1
    MaxClock = 6
INVARIANTS
    SnapshotsTrackSource
    RevocationEffective
    NoFalseDenial
    
