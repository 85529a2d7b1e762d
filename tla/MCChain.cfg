SPECIFICATION FairSpec
CONSTANTS
    Ops = {"o1", "o2"}
    Seeds = {"s1"}
    Endpoints = {"e1"}
    Networks = {"own", "other"}
    OwnNetwork = "own"
 
PROPERTY OperationEnds
