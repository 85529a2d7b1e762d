CONSTANTS
    Records = {r1, r2}
    Nonces = {n1, n2}
    MaxAttemptNo = 2
    MaxEvents = 8
SYMMETRY Interchangeable
SPECIFICATION MCSpec
INVARIANTS UnresolvedNeedsGrant GrantsAreOneUse AcceptsExactly
PROPERTIES LedgerOnlyGrows ImplementsLedger
CHECK_DEADLOCK FALSE
