SPECIFICATION ModeSpec
CONSTANTS
    p = p  a = a  b = b  c = c
    kp = kp  k0 = k0  ka = ka  kb = kb
    read = read  write = write  mail = mail  files = files  usd = usd
    s1 = s1  s2 = s2  s3 = s3
    Tool = {read, write}
    Server = {mail, files}
    Unit = {usd}
    NoUnit = NoUnit
    Wildcard = Wildcard
    NoTool = NoTool
    MethodNone = MethodNone
    Id <- Ids
    Key <- Keys
    Signature = {s1, s2, s3}
    NoSignature = NoSignature
    Nobody = Nobody
    Principal = p
    PrincipalKey = kp
    Roots = {p}
    KeysOf <- Signers
    Delegates <- Edges
    Grant <- GivenGrants
    Call <- Calls
    MaxCalls = 2
    Rules <- Policies
    MaxDepth = 3
    RequireChain = FALSE
    MaxClock = 1
    Stamp = {s1, s2, s3}
    NoStamp = NoSignature
    RootKey = {kp}
    TrustRoot = kp
    TokenId = {s1, s2, s3}
    NoToken = NoSignature
    Caller = {a}
    TTL = 1
    MaxRestarts = 1
SYMMETRY Names
INVARIANTS
    EffectiveIsNarrowest
    AcceptedWasBuilt
    UsedWithinGrant
    HandedWhole
    CapabilityWithinGrant
    TokensNarrow
PROPERTIES
    ImplementsDelegationTree
