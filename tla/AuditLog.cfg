SPECIFICATION LogSpec
CONSTANTS
    Appender = {a1, a2}
    Relay = {r1, r2}
    MaxAppends = 7
    MaxRestarts = 1
INVARIANT LogIsProvable
PROPERTY CosignedIsAppendOnly
SYMMETRY Names
