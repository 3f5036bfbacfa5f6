SPECIFICATION RSpec
CONSTANTS
    Records = {1, 2}
    Values = {u}
    Readers = {}
    Foreign = {}
    RetentionLimit = 3
    SlotsPerPage = 1
    MaxPages = 2
    MaxStamp = 12
    None = None
    Dead = Dead
    Policies = {"Strict"}
    GroupSize = 2
    MaxLog = 6
    MaxCrashes = 1
    MaxCheckpoints = 1
    Rewrites = TRUE
CHECK_DEADLOCK FALSE
INVARIANT
    ScanIsTheDefinition
