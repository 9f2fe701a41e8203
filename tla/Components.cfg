CONSTANTS
    RunKeys = {"k1", "k2"}
    RunPayloads = {"p", "q"}
    Clients = {"c1", "c2"}
    MaxEvents = 3
    Plans = {"p1", "p2", "p3"}
    BundleOf <- Bundles
    RestoredParts = {"a", "b"}
    Handled = {"a"}
    RestoreWorkers = {"w1", "w2"}
    MaxStepClaims = 2
    MaxSyncAttempts = 3
    Threads = {"t1", "t2"}
    SourceRows = 2
    RejectedRows = {1}
    BatchRows = 1
    RowLimits = {2}
    MaxDispatches = 1
    Requests = {"q1", "q2", "q3"}
    Charges = {"x"}
    Tries = {"y1", "y2"}
    Projectors = {"j1", "j2"}
    BucketOf <- Periods
    Quantity <- Amounts
    ProjectionBatch = 2
    Lookups = {"l1", "l2"}
    Ttl = 2
    MaxClock = 3
    MaxTenantChanges = 2
    CallKeys = {"k"}
    AgentKeys = {"r"}
    CallAsks = {"a", "b"}
    Callers = {"a1", "a2"}
    MaxRuns = 2
    Exports = {"e"}
    ExportKeys = {"k1", "k2"}
    ExportAsks = {"a", "b"}
    DecisionAsks = {"yes", "also", "no"}
    Approving = {"yes", "also"}
    ArtifactAsks <- SameArtifact
    Handlers = {"h1", "h2"}
    MaxArtifacts = 2
SPECIFICATION Spec
CHECK_DEADLOCK FALSE
INVARIANTS
    TimelineIsComplete
    RunsAreIdempotent
    OneHandlerAtATime
    CompletedMeansRestored
    RowsAreMeteredOnce
    UsageIsExact
    StalenessIsBounded
    RecordsAreWhole
    AtMostOneCall
    TransitionsHappenOnce
    ArtifactIsAsApproved
