SPECIFICATION VSpec
CONSTANTS
    Records = {1, 2}
    Values = {u}
    Readers = {r1}
    Foreign = {}
    RetentionLimit = 4
    SlotsPerPage = 1
    MaxPages = 3
    MaxStamp = 7
    None = None
    Dead = Dead
INVARIANT
    LiveRecordsReadable
