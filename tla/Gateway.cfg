SPECIFICATION GatewaySpec
CONSTANTS
    r1 = r1
    q1 = q1
    principal = principal
    agent = agent
    Replica = {r1}
    Id = {principal, agent}
    Batch <- Cascade
    Writer = {}
    Home <- NoWriters
    Op = {"revoke"}
    MaxStale = 1
    ListTimeout = 1
    RefreshEvery = 1
    MaxClock = 5
    Request = {q1}
    On <- OnR1
    PrincipalOf <- ActsFor
    AgentOf <- Acting
    Plan <- Plans
    ApprovalTimeout = 1
    TTL = 1
CONSTRAINT Unfinished
INVARIANTS
    MintedInTime
    HonouredInTime
    ScreenedInTime
    
    
CHECK_DEADLOCK FALSE
