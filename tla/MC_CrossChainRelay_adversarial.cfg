\* Every environment behaviour enabled: other users' replies on Terra,
\* third-party relayers on both legs, a failed Ethereum RPC call, failed
\* Terra transactions; the tests run as independent runs of the suite.
CONSTANTS
    r1 = r1
    r2 = r2
    r3 = r3
    Req = {r1, r2, r3}
    Kind <- MCKindWithBridge
    InitSeq <- MCInitSeq
    SigCounts = {0, 1, 19}
    MaxForeign = 1
    MaxRpcFailures = 1
    ForeignRelayer = TRUE
    TerraTxMayFail = TRUE
    Serial = FALSE
    None = None
    NaN = NaN
SPECIFICATION Spec
CHECK_DEADLOCK FALSE
INVARIANTS
    TypeOK
    Leg1FetchesOwnMessages
    ParsedTokenMatchesInstruction
PROPERTY
    FirstCaseRefinesRelayLeg
