SPECIFICATION ProgressSpec
CONSTANTS
    Conns = {k1, k2}
    MaxOpen = 1
    Tokens = {"admin", "reader"}
    Kinds = {"get_walled", "insert", "auth_admin", "auth_reader", "garbled"}
    MaxCalls = 3
    IdleTimeout = TRUE
    Wake = Wake
    NoRole = NoRole
    Ids = {0, 1}
    Rows = {a}
    Gone = Gone
    Refused = {b}
    Txns = {t1, t2}
    Torn = TRUE
    MaxDirect = 1
    MaxCrashes = 2
    Records = {1, 2}
    Values = {u}
    Readers = {r}
    Foreign = {f}
    RetentionLimit = 4
    SlotsPerPage = 2
    MaxPages = 3
    MaxStamp = 4
    None = None
    Dead = Dead
CHECK_DEADLOCK FALSE
INVARIANTS
    ServiceInvariant
    PrivilegesAreEarned
    CoordinatorInvariant
PROPERTIES
    WaitsEnd
    RecoveryFinishes
    VacuumIsInvisible
    VacuumTerminates
