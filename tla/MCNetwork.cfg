CONSTANTS
    Endpoints = {"e1", "e2"}
    Identities = {"i1", "i2"}
    Subjects = {"a", "b"}
    TraceMemory = 1
    MaxGen = 2
    MaxAsked = 3
    Default = "d"
    Custom = {"c", "f", "g"}
    Foreign = {"f"}
    MaxVersion = 2
    MaxSubscriptions = 3
    MaxLoads = 3
    Size = 5
    MaxTxs = 4
    MaxDepth = 2
    MaxClimb = 2
    Calls = {"c1", "c2"}
    MaxId = 3
    Balances = {5, 8}
    Fees = {1, 3}
    DefaultFee = 2
    Headroom = 1
    Typed = {2}
    MaxSeq = 4
    MaxFeeGen = 2
SPECIFICATION MCSpec
INVARIANTS TraceIsWhole CallsAreClassified
PROPERTIES PagesAreSound  MaxIsSound
CHECK_DEADLOCK FALSE
