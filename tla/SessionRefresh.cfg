CONSTANTS
    r1 = r1  r2 = r2  r3 = r3  j1 = j1  j2 = j2
    Requests = {r1, r2}
    Jobs = {j1}
    MaxConcurrent = 1
    StoresTokens = TRUE
    ConfigurationFaults = TRUE
    MaxSessions = 2
SPECIFICATION Spec
CHECK_DEADLOCK FALSE
SYMMETRY Symmetry
INVARIANTS
    LineageIsLinear
    ExchangesAreExclusive
    CredentialsAreDropped
