\* One mocha run (hardhat test) of the unlock and borrow round trips, with
\* the case timeout, other users' replies on Terra and no third-party relayer
\* on Terra -> Ethereum, no failed RPC call and no failed Terra transaction.
CONSTANTS
    r1 = r1
    r2 = r2
    r3 = r3
    Req = {r1, r2}
    Kind <- MCKindRoundTrips
    InitSeq <- MCInitSeq
    SigCounts = {0, 2}
    MaxForeign = 1
    MaxRpcFailures = 0
    ForeignRelayer = FALSE
    TerraTxMayFail = FALSE
    Serial = TRUE
    None = None
    NaN = NaN
SPECIFICATION Spec
CHECK_DEADLOCK FALSE
INVARIANTS
    OwnReplyRelayed
PROPERTIES
    AllTestsTerminate
    OwnReplyEventuallyExecuted
