CONSTANTS
    a1 = a1  a2 = a2  f1 = f1  f2 = f2  w1 = w1  w2 = w2  h1 = h1  h2 = h2
    alice = alice  bob = bob
    Approvals = {a1, a2}
    Workflows = {f1}
    WorkflowOf <- SharedWorkflow
    Decisions <- RejectOnly
    Actors = {alice, bob}
    RequestedBy <- AskedByAlice
    CanDecide <- MayAllDecide
    Unsupported = {}
    Handlers = {h1}
    Workers = {w1}
    BatchSize = 1
    MaxAttempts = 1
    OutboxEnabled = TRUE
    LegacySenders = TRUE
    MaxTries = 1
    MaxFaults = 1
SPECIFICATION Spec
CHECK_DEADLOCK FALSE
INVARIANTS
    DeliveredWasSeen
PROPERTIES
    FirstWriteWins
