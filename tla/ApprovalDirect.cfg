CONSTANTS
    a1 = a1  a2 = a2  f1 = f1  f2 = f2  w1 = w1  w2 = w2  h1 = h1  h2 = h2
    alice = alice  bob = bob
    Approvals = {a1}
    Workflows = {f1}
    WorkflowOf <- OwnWorkflow
    Decisions <- ApproveOrReject
    Actors = {alice, bob}
    RequestedBy <- AskedByAlice
    CanDecide <- MayAllDecide
    Unsupported = {}
    Handlers = {h1, h2}
    Workers = {w1, w2}
    BatchSize = 1
    MaxAttempts = 1
    OutboxEnabled = FALSE
    LegacySenders = FALSE
    MaxTries = 3
    MaxFaults = 0
SPECIFICATION Spec
CHECK_DEADLOCK FALSE
INVARIANTS
    LastSignalMatchesRecord
