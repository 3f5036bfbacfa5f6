SPECIFICATION CSpec
CONSTANTS
    Ids = {0, 1}
    Values = {a}
    None = None
    Layouts = {1, 2}
    Fields = {1}
    Name = Name
    Staging = Staging
    Migrations = TRUE
    Drops = FALSE
    MaxLog = 6
    MaxCheckpoints = 0
    MaxCrashes = 1
CHECK_DEADLOCK FALSE
PROPERTY RecoveryIsExact
