\* One mocha run of tests/4_unlock_collateral then tests/5_borrow_stable.
\* One failed Ethereum RPC call keeps the unlock case looping past its
\* this.timeout; mocha then starts the borrow test while that loop runs.
CONSTANTS
    r1 = r1
    r2 = r2
    r3 = r3
    Req = {r1, r2}
    Kind <- MCKindRoundTrips
    InitSeq <- MCInitSeq
    SigCounts = {1}
    MaxForeign = 0
    MaxRpcFailures = 1
    ForeignRelayer = FALSE
    TerraTxMayFail = FALSE
    Serial = TRUE
    None = None
    NaN = NaN
SPECIFICATION Spec
CHECK_DEADLOCK FALSE
INVARIANT
    OwnReplyRelayed
