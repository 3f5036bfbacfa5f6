SPECIFICATION WritesSpec
CONSTANTS
    Records = {1, 2}
    Values = {Null, u}
    Readers = {t1, t2}
    None = None
    Null = Null
    Batch = Batch
    Untouched = Untouched
    Mixes <- MCMixes
    MaxCrashes = 1
    CodecIds = {row1, row2}
    IntMax = 2
    BitsPerCell = 2
    Clients = {c1, c2}
    ShardCounts = {2}
    MaxId = 4
    MaxShardWrites = 3
    MaxQueries = 1
    MaxRestarts = 1
    Absent = Absent
CHECK_DEADLOCK FALSE
SYMMETRY ClientSymmetry
INVARIANTS
    ConstraintInvariant
    CodecInvariant
    ShardingInvariant
PROPERTIES
    NoLostUpdate
    CommitsAreSerializable
    AutoIdsAreNew
