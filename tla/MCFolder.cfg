CONSTANTS
    Proc = {"p1", "p2", "p3"}
    MaxInode = 3
    MaxWrites = 2
    Password = {"pw1", "pw2"}
    Name = {"n1", "n2"}
    MaxVaults = 2
    MaxSeals = 2
    MaxCounter = 2
    MaxDamage = 2
    SectionLists <- Lists
SPECIFICATION MCSpec
INVARIANT OpensWhatWasSealed
 
CHECK_DEADLOCK FALSE
