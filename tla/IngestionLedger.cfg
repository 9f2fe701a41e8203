CONSTANTS
    q1 = q1  q2 = q2  b1 = b1  b2 = b2  w1 = w1  w2 = w2
    Connectors = {"s3", "rest"}
    Requests = {q1, q2}
    Bindings = {b1, b2}
    Selections <- Overlapping
    Workers = {w1, w2}
    Contents = {"x", "y"}
    Cursors = {1}
    BatchSize = 1
    MaxAttempts = 2
    MaxCrashes = 0
    MaxStalls = 1
    MaxRequeues = 0
SPECIFICATION Spec
CHECK_DEADLOCK FALSE
SYMMETRY Symmetry
INVARIANTS
    RecordedObjectsMatch
PROPERTIES
    KeepsLedger
