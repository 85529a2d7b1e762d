CONSTANTS
    r1 = r1
    r2 = r2
    NoRec = NoRec
    Records = {r1, r2}
    Nonces = {r1, r2}
    MaxAttemptNo = 2
    Candidates = 2
    CreatedAt <- MCCreatedAt
    OtherTimes = {2}
    MaxSessions = 3
    MaxLt = 3
    PageSize = 1
    MaxPages = 2
    MaxAuto = 1
    MaxAge = 9
    MinKeep = 2
    MaxHistory = 9
    Grace = 1
    MaxGeneration = 1
    MaxSends = 1
    MaxFaults = 0
    MaxLate = 0
SPECIFICATION MCSpec
INVARIANTS AttemptIsDurableFirst SettledMeansFinal DoubleDebitNeedsGrant
     NoOrphanAttempt ReviewIsSound
PROPERTY DiskNeverRegresses
CHECK_DEADLOCK FALSE
