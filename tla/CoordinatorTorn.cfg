SPECIFICATION CoordinatorSpec
CONSTANTS
    Ids = {0, 1}
    Rows = {a}
    Gone = Gone
    Refused = {}
    Txns = {t1}
    Torn = TRUE
    MaxDirect = 0
    MaxCrashes = 1
CHECK_DEADLOCK FALSE
INVARIANT CoordinatedAtomic
