SPECIFICATION TuningSpec
CONSTANTS
    Users = Users
    Orders = Orders
    Global = Global
    Collections = {Users, Orders}
    ByHand = {Users}
    Trials <- MCTrials
    MaxExperiments = 2
    Hundred = 3
    CanarySteps = {1, 3}
    MinSamples = 1
    SamplesFloor = 1
    MaxStalled = 1
    Shards = {1, 2}
    Queries <- MCQueries
    Slot <- MCSlot
    Decay <- MCDecay
    MaxCalls <- MCCalls
    Gets = {1, 2}
    Durations = {5, 13}
    SUB_BITS = 1
    WordBits = 4
    Interval = 2
    STRIDE = 2
    MIN_QUERIES = 1
    MaxWalks = 1
INVARIANTS
    TrialInvariant
    TelemetryInvariant
    CountsAreTrue
PROPERTIES
    TrialsEndCleanly
    CountsReachZero
