CONSTANTS
    q1 = q1  q2 = q2  b1 = b1  b2 = b2  w1 = w1  w2 = w2
    Connectors = {"postgres", "s3", "rest"}
    Requests = {q1}
    Bindings = {b1, b2}
    Selections <- TwoBindings
    Workers = {w1, w2}
    Contents = {"x"}
    Cursors = {1}
    BatchSize = 1
    MaxAttempts = 2
    MaxCrashes = 1
    MaxStalls = 1
    MaxRequeues = 1
SPECIFICATION FairSpec
CHECK_DEADLOCK FALSE
INVARIANTS
    HistoryIsTruthful
    ExtractionIsAllOrNothing
PROPERTIES
    EveryRequestSettles
