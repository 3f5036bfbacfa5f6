SPECIFICATION ReadsSpec
CONSTANTS
    None = None
    Left = Left
    Right = Right
    MaxId = 2
    MaxValue = 2
    Summed = "b"
    LowCardinality = 1
    CostFloor = 2
    PlanCapacity = 1
    MaxIndexes = 2
    MaxWrites = 3
    MaxEdits = 1
    MAX_DEPTH = 3
    Mantissa = 3
    Fraction = 8
    Wide = 200
    Samples <- MCSamples
INVARIANTS
    PathsInvariant
    SqlInvariant
    EvaluationInvariant
