SPECIFICATION DurabilitySpec
CONSTANTS
    Records = {1, 2}
    Values = {u, v}
    Readers = {}
    Foreign = {}
    RetentionLimit = 3
    SlotsPerPage = 2
    MaxPages = 2
    MaxStamp = 12
    None = None
    Dead = Dead
    Policies = {"Strict", "GroupCommit"}
    GroupSize = 2
    MaxLog = 3
    MaxCrashes = 2
    MaxCheckpoints = 1
    Rewrites = TRUE
    Torn = Torn
    SyncGroup = 2
    SegmentFrames = 3
    Durabilities = {"Strict", "GroupCommit"}
    MaxLsn = 6
    MaxBatch = 2
    MaxLogCheckpoints = 2
    MaxLogCrashes = 1
    MaxFaults = 1
    Dirs = {d1, d2}
    Ids = {i1}
    RowValues = {v1, v2}
    Nothing = Nothing
    Evicts = TRUE
    Archives = TRUE
    MaxDirLog = 2
    MaxOpens = 3
    MaxCopies = 1
CHECK_DEADLOCK FALSE
SYMMETRY ValueSymmetry
INVARIANTS
    ContentsMatchLog
    CrashInvariant
    LogInvariant
    RestoreInvariant
PROPERTIES
    ImplementsLog
    OpensAreExact
