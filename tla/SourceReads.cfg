CONSTANTS
    v1 = v1  v2 = v2  v3 = v3
    ObjectKeys = {1, 2}
    Versions = {v1, v2, v3}
    ContentOf <- SameContentTwice
    SizeOf <- Sizes
    Readers = {"x", "y"}
    MaxObjects = 1
    MaxRecords = 1
    MaxRecordBytes = 2
    MaxChanges = 2
    MaxBreaks = 1
    Continuations = {"a", "b", "c", "d"}
    Window = 2
    MaxPages = 5
    PrimaryKeys = {1, 2, 3, 4}
    RowSizes = {1, 2}
    Conversions <- SomeConversions
    PageSize = 2
    MaxRows = 3
    MaxBytes = 4
    MaxEdits = 1
SPECIFICATION FairSpec
CHECK_DEADLOCK FALSE
INVARIANTS
    RecordsAddUp
    AbsencesAreReal
    WindowIsSound
    NothingIsLostSilently
PROPERTIES
    MirrorCatchesUp
