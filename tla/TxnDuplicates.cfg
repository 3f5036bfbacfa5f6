SPECIFICATION TSpec
CONSTANTS
    Records = {1, 2}
    Values = {Null, u}
    Readers = {t1}
    None = None
    Null = Null
    Batch = Batch
    Untouched = Untouched
    Mixes <- MCDuplicates
    MaxCrashes = 0
CHECK_DEADLOCK FALSE
INVARIANT CommitAllOrNothing
