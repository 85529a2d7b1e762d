\* An account without a transfer of its own (MCTransfers has one).
SPECIFICATION WalkSpec
CONSTANTS
    MaxLt = 5
    PageSize = 1
    MaxPages = 2
    MaxAuto = 0
    MaxAge = 3
    MinKeep = 1
    MaxHistory = 4
    Grace = 1
    MaxGeneration = 1
    MaxSends = 0
    MaxFaults = 1
    MaxLate = 1
INVARIANTS
    GuardNeverStranded
    ScanHasNoHole
    NoLostUpdate
    EveryHoleIsExplained
