\* A Terra transaction of processAnchorMessage may fail (block-mode broadcast
\* returns an error result): the first case fails, then the second case
\* queries a sequence_info entry that does not exist.
CONSTANTS
    r1 = r1
    r2 = r2
    r3 = r3
    Req = {r1, r2}
    Kind <- MCKindRoundTrips
    InitSeq <- MCInitSeq
    SigCounts = {1}
    MaxForeign = 0
    MaxRpcFailures = 0
    ForeignRelayer = FALSE
    TerraTxMayFail = TRUE
    Serial = FALSE
    None = None
    NaN = NaN
SPECIFICATION Spec
CHECK_DEADLOCK FALSE
PROPERTY
    AllTestsTerminate
