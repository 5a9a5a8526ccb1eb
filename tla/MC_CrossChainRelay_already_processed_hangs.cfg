\* A third-party relayer on Terra -> Ethereum and no failed RPC call: on
\* "already processed" the loop steps to a sequence that never comes.
CONSTANTS
    r1 = r1
    r2 = r2
    r3 = r3
    Req = {r1, r2}
    Kind <- MCKindRoundTrips
    InitSeq <- MCInitSeq
    SigCounts = {1}
    MaxForeign = 0
    MaxRpcFailures = 0
    ForeignRelayer = TRUE
    TerraTxMayFail = FALSE
    Serial = FALSE
    None = None
    NaN = NaN
SPECIFICATION Spec
CHECK_DEADLOCK FALSE
PROPERTIES
    AllTestsTerminate
