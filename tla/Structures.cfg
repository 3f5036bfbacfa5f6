SPECIFICATION StructuresSpec
CONSTANTS
    Ids = {0, 1}
    Values = {a}
    None = None
    Layouts = {1, 2}
    Fields = {1, 2}
    Name = Name
    Staging = Staging
    Migrations = TRUE
    Drops = TRUE
    MaxLog = 7
    MaxCheckpoints = 1
    MaxCrashes = 1
    Users = Users
    Email = Email
    Age = Age
    Cooldown = 1
    RetractionCooldown = 3
    MaxChanges = 1
    MaxCalls = 2
    MaxApplied = 12
    Text = Text
    NoSuchCollection = NoSuchCollection
    MaxRecord = 3
    ExactLimit = 8
    HotThreshold = 2
    DeltaMinRows = 2
    Capacity = 1
    MaxWrites = 2
    MaxSwitches = 2
CHECK_DEADLOCK FALSE
INVARIANTS
    OptimizerInvariant
    DerivedInvariant
PROPERTIES
    RestartsAreExact
    CyclesAreCautious
