\* A third-party relayer executes the Ethereum instruction on Terra first.
CONSTANTS
    r1 = r1
    r2 = r2
    r3 = r3
    Req = {r1, r2}
    Kind <- MCKindRoundTrips
    InitSeq <- MCInitSeq
    SigCounts = {1}
    MaxForeign = 0
    MaxRpcFailures = 0
    ForeignRelayer = FALSE
    TerraTxMayFail = FALSE
    Serial = FALSE
    None = None
    NaN = NaN
SPECIFICATION Spec
CHECK_DEADLOCK FALSE
INVARIANTS
    Leg1FailsOnlyIfNotApplied
