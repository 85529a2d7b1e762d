CONSTANTS
    Native = "native"
    Extra = {"cc"}
    Records = {"r1", "r2"}
    Cap = 4
    MaxRows = 2
    Amounts = {1, 2}
    Fees = {1}
    Headroom = 3
    Coin = "coin"
    Tokens = {"one", "two"}
    Pools <- TwoPools
    SwapAmounts = {0, 3}
    Slippages = {3}
    Denom = 10
    Gas = 1
    Balance = 5
    MaxSwaps = 2
    MaxSwapRows = 3
    Owners = {"a", "b"}
    Limit = 2
    Stored <- StoredLists
    MaxOps = 3
    MaxReads = 4
    MaxLocks = 1
SPECIFICATION MCSpec
INVARIANTS  SwapAsConfirmed
PROPERTY RecordsAreSafe
CHECK_DEADLOCK FALSE
