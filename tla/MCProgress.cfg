\* Liveness of the send, of the history list and of the clipboard wipe.
CONSTANTS
    r1 = r1
    r2 = r2
    NoRec = NoRec
    Records = {r1, r2}
    Nonces = {r1, r2}
    MaxAttemptNo = 2
    Candidates = 1
    CreatedAt <- MCCreatedAt
    OtherTimes = {}
    MaxSessions = 1
    MaxLt = 3
    PageSize = 1
    MaxPages = 1
    MaxAuto = 1
    MaxAge = 3
    MinKeep = 1
    MaxHistory = 4
    Grace = 1
    MaxGeneration = 1
    MaxSends = 0
    MaxFaults = 0
    MaxLate = 0
    Phrases <- TwoPhrases
    RecordTexts <- OneRecord
    Texts <- UserTexts
    MaxRetries = 1
    MaxCopies = 1
    MaxClipFaults = 2
SPECIFICATION MCFairSpec
PROPERTIES SendingEnds UpdateIsServed WipeCompletes
CHECK_DEADLOCK FALSE
