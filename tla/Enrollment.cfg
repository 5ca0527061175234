SPECIFICATION EnrollSpec
CONSTANTS
    Nonce = {n1, n2, n3}
    Key = {k1, k2}
    Token = {t1}
    Quote = quote
    Uses = 1
    TokenTTL = 1
    NonceTTL = 1
    MaxNonces = 2
    QuoteAge = 1
    MaxEvidence = 2
    MaxPosts = 2
    MaxClock = 2
INVARIANTS
    NonceServesOnce
    
    

    
SYMMETRY
    Interchangeable
CHECK_DEADLOCK FALSE
