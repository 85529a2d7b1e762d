SPECIFICATION FairSpec
CONSTANTS
    u1 = u1
    u2 = u2
    Passwords <- TwoPasswords
    Unlockers <- OneThread
    MaxVer = 3
    MaxGen = 2
    MaxFaults = 2
INVARIANTS AckedSurvives RetiredSlotsGone DeletedMeansGone
PROPERTIES DamagedHistoryKept 
