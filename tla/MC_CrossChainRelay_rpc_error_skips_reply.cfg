\* One failed Ethereum RPC call of processTokenTransferInstruction, no
\* third-party relayer: the loop steps past its own returning message.
CONSTANTS
    r1 = r1
    r2 = r2
    r3 = r3
    Req = {r1, r2}
    Kind <- MCKindRoundTrips
    InitSeq <- MCInitSeq
    SigCounts = {1}
    MaxForeign = 0
    MaxRpcFailures = 1
    ForeignRelayer = FALSE
    TerraTxMayFail = FALSE
    Serial = FALSE
    None = None
    NaN = NaN
SPECIFICATION Spec
CHECK_DEADLOCK FALSE
PROPERTIES
    OwnReplyEventuallyExecuted
