CONSTANTS
    r1 = r1
    r2 = r2
    NoRec = NoRec
    Records = {r1, r2}
    Nonces = {r1, r2}
    MaxAttemptNo = 2
    Candidates = 1
    CreatedAt <- MCCreatedAt
    OtherTimes = {2}
    MaxSessions = 1
SPECIFICATION Spec
INVARIANT SuccessMeansExecuted
CHECK_DEADLOCK FALSE
