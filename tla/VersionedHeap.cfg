SPECIFICATION StorageSpec
CONSTANTS
    Records = {1, 2}
    Values = {u, v}
    Readers = {r1, r2}
    Foreign = {f}
    RetentionLimit = 2
    SlotsPerPage = 2
    MaxPages = 3
    MaxStamp = 5
    None = None
    Dead = Dead
    MaxFilePages = 3
    MaxVersion = 1
    Capacities = {1, 2}
    RunBeforeReadAhead = 2
    ReadAheadPages = 2
    AheadShare = 1
    MaxPoolCrashes = 1
    PageSize = 7
    HeaderSize = 1
    SlotSize = 1
    Marks = {m1, m2}
    Lengths = {0, 1, 3}
    SlotByte = SlotByte
    Zero = Zero
    MaxSlots = 3
SYMMETRY Symmetry
INVARIANTS
    SlotsOwned
    SnapshotSeesCommitted
    ConflictStampsSurvive
    RetainedCoversSuperseded
    PoolInvariant
    PageInvariant
PROPERTIES
    SnapshotsAreStable
    ImplementsSnapshotStore
    CheckpointHolds
