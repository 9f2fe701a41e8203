CONSTANTS
    r1 = r1  r2 = r2  r3 = r3  j1 = j1  j2 = j2
    Requests = {r1, r2}
    Jobs = {j1}
    MaxConcurrent = 1
    StoresTokens = TRUE
    ConfigurationFaults = FALSE
    MaxSessions = 2
SPECIFICATION FairSpec
CHECK_DEADLOCK FALSE
INVARIANTS
    LoginsRespectCap
PROPERTIES
    RevocationStands
    EndedLoginsStayEnded
    ClaimsResolve
    BlockedTenantIsCleared
