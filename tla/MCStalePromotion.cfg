SPECIFICATION Spec
CONSTANTS
    u1 = u1
    u2 = u2
    Passwords <- OnePassword
    Unlockers <- TwoThreads
    MaxVer = 2
    MaxGen = 1
    MaxFaults = 1
INVARIANT AckedSurvives
