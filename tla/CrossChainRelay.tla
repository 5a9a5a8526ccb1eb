--------------------------- MODULE CrossChainRelay ---------------------------
(***************************************************************************)
(* The relay flow of the cross-chain integration tests                     *)
(* (tests/3_lock_collateral ... 6_repay_stable) running concurrently with  *)
(* the chains and guardian network they drive.                             *)
(*                                                                         *)
(* Each request r is one test file.  Its first case ("Ethereum -> Terra")  *)
(* calls a method of the Ethereum CrossAnchorBridge, reads the Wormhole    *)
(* sequences from the receipt (parseSequencesFromEthLogs), fetches the     *)
(* VAAs (getSignedVAAWithRetry) and submits them to the Terra bridge       *)
(* (processAnchorMessage).  For unlock and borrow a second case            *)
(* ("Terra -> Ethereum") queries the outgoing sequence Terra assigned      *)
(* (queryReturningSequence), fetches and decodes the returning VAA         *)
(* (parseVAA, parseSequenceFromPayload), fetches the token-transfer VAA it *)
(* names and calls processTokenTransferInstruction on Ethereum, stepping   *)
(* returningInfoSeq forward on any error.                                  *)
(*                                                                         *)
(* The chains' contracts are not in the repository: their behaviour        *)
(* (TerraProcess, EthMine, message emission) is modelled from the spec.    *)
(***************************************************************************)
EXTENDS Naturals, Sequences, FiniteSets, TLC

LOCAL Codec == INSTANCE VAACodec

CONSTANTS
    Req,            \* the relay requests (integration tests) run concurrently
    Kind,           \* Kind[r]: the Ethereum bridge method request r calls
    SigCounts,      \* signature counts a guardian-produced VAA may carry
    InitSeq,        \* InitSeq[e]: next Wormhole sequence of emitter e at start
    MaxForeign,     \* bound on round-trip replies emitted on Terra for other users
    MaxRpcFailures, \* bound on failed Ethereum RPC calls of processTokenTransferInstruction
    ForeignRelayer, \* TRUE when a third party also relays Terra -> Ethereum
    TerraTxMayFail, \* TRUE when a Terra transaction may fail for other reasons
    Serial,         \* TRUE: the tests are one mocha run (hardhat test); FALSE:
                    \* independent runs of the suite against the same bridges
    None,           \* model value: a sequence variable not assigned yet
    NaN             \* model value: parseInt of an absent outgoing_sequence

\* "bridge" is the first case of tests/3_lock_collateral ("Bridge Collateral"),
\* which moves tokens from Terra with bridgeAsset.
Kinds == {"lock", "unlock", "borrow", "repay", "bridge"}

\* The four Wormhole emitters involved, with their chain id and address byte.
Emitters == {"ethToken", "ethXanchor", "terraToken", "terraXanchor"}
ChainOf(e) == IF e \in {"ethToken", "ethXanchor"} THEN 10001 ELSE 3
AddressOf(e) == CASE e = "ethToken" -> 1 [] e = "ethXanchor" -> 2
                  [] e = "terraToken" -> 3 [] e = "terraXanchor" -> 4

ASSUME Kind \in [Req -> Kinds] /\ InitSeq \in [Emitters -> Nat]

\* The order in which one mocha run reaches each case: the files 3_ to 6_ in
\* name order, and "Bridge Collateral" before "Ethereum -> Terra" in 3_.
MochaOrder == [bridge |-> 1, lock |-> 2, unlock |-> 3, borrow |-> 4, repay |-> 5]

ASSUME Serial => \A q, r \in Req : q # r => Kind[q] # Kind[r]

\* lockCollateral and repayStable bundle a token transfer with the instruction.
CarriesToken(k) == k \in {"lock", "repay"}
\* unlockCollateral and borrowStable make Terra send funds back to Ethereum.
ReturnsFunds(k) == k \in {"unlock", "borrow"}

\* An instruction names the set of token transfers bundled with it: {} or {t}.
NoTok == {}

VARIABLES
    nextSeq,        \* per-emitter Wormhole sequence counter
    published,      \* messages emitted: [em, seq, op, tok]
    vaas,           \* VAAs the guardians have signed: [em, seq]
    terraProcessed, \* Ethereum instruction sequences the Terra bridge has executed
    seqInfo,        \* Terra bridge sequence_info: incoming sequence -> outgoing sequence
    ethProcessed,   \* Terra instruction sequences the Ethereum bridge has executed
    redeemed,       \* plain Terra token transfers completed on Ethereum's token bridge
    pending,        \* processTokenTransferInstruction transactions sent, not yet mined
    foreignCount,   \* replies emitted on Terra for other users so far
    rpcFailures,    \* failed Ethereum RPC calls so far
    pc,             \* pc[r]: the await request r is at
    arbSeq,         \* globalArbitraryInfoSeq / arbitraryInfoSeq of the first case
    tokSeq,         \* tokenTransferSeq of the first case
    leg1,           \* outcome of the first case: "pending", "ok" or "failed"
    retSeq,         \* returningInfoSeq of the second case
    retTok,         \* returningTokenTransferSeq parsed from the returning VAA
    relayed,        \* the returning sequence whose submission ended the loop
    timedOut        \* tests whose current case mocha has failed on timeout

envVars == <<nextSeq, published, vaas, terraProcessed, seqInfo, ethProcessed,
             redeemed, pending, foreignCount, rpcFailures>>
relayVars == <<pc, arbSeq, tokSeq, leg1, retSeq, retTok, relayed>>
vars == <<envVars, relayVars, timedOut>>

\* A sequence variable of the test: unassigned or a sequence number.
IsSeqVar(f) == \A r \in Req : f[r] = None \/ f[r] \in Nat

Messages == [em : Emitters, seq : Nat, op : Kinds \cup {"reply", "transfer"},
             tok : SUBSET Nat]
PCs == {"bridgeSubmit", "fetchBridgeVAA", "redeem",
        "ethSubmit", "fetchArb", "fetchTok", "processTerra", "queryReturn",
        "fetchReturnInfo", "fetchReturnToken", "submitReturn", "done", "end"}

-----------------------------------------------------------------------------
(* Chain and guardian helpers.                                            *)

MsgAt(e, s) == CHOOSE m \in published : m.em = e /\ m.seq = s
Published(e, s) == \E m \in published : m.em = e /\ m.seq = s
Signed(e, s) == \E v \in vaas : v.em = e /\ v.seq = s

\* Emitting a message takes the emitter's next sequence.
Emit(seqs, e) == [seqs EXCEPT ![e] = @ + 1]

(***************************************************************************)
(* The bytes getSignedVAA returns for (e, s) when the guardians put n      *)
(* signatures on it.  Only the count matters to the decoder, so it is      *)
(* chosen where the VAA is read rather than kept in the state.             *)
(***************************************************************************)
VAABytes(e, s, n) ==
    LET m == MsgAt(e, s)
        op == IF m.op = "reply" THEN 1 ELSE 2
        tok == IF m.tok = NoTok THEN 0 ELSE CHOOSE t \in m.tok : TRUE
    IN  Codec!EncodeVAA(n, ChainOf(e), AddressOf(e), s, Codec!InstructionPayload(op, tok))

\* The Terra bridge may execute Ethereum instruction s with token VAA tok.
TerraAccepts(s, tok) ==
    /\ s \notin terraProcessed
    /\ MsgAt("ethXanchor", s).tok = tok

(***************************************************************************)
(* The Terra bridge executes Ethereum instruction s: it records it and,    *)
(* for unlock and borrow, sends the funds back with a token transfer and a *)
(* returning instruction naming it, recording the returning sequence in    *)
(* sequence_info.                                                          *)
(***************************************************************************)
\* Mutant: sequence_info keyed by the outgoing sequence instead of the incoming one.
TerraProcessSwapped(s) ==
    LET t == nextSeq["terraToken"]
        o == nextSeq["terraXanchor"]
    IN
    /\ terraProcessed' = terraProcessed \cup {s}
    /\ IF ReturnsFunds(MsgAt("ethXanchor", s).op)
       THEN /\ published' = published \cup
                 {[em |-> "terraToken", seq |-> t, op |-> "transfer", tok |-> NoTok],
                  [em |-> "terraXanchor", seq |-> o, op |-> "reply", tok |-> {t}]}
            /\ nextSeq' = Emit(Emit(nextSeq, "terraToken"), "terraXanchor")
            /\ seqInfo' = seqInfo @@ (o :> s)
       ELSE UNCHANGED <<published, nextSeq, seqInfo>>

TerraProcess(s) ==
    LET t == nextSeq["terraToken"]
        o == nextSeq["terraXanchor"]
    IN
    /\ terraProcessed' = terraProcessed \cup {s}
    /\ IF ReturnsFunds(MsgAt("ethXanchor", s).op)
       THEN /\ published' = published \cup
                 {[em |-> "terraToken", seq |-> t, op |-> "transfer", tok |-> NoTok],
                  [em |-> "terraXanchor", seq |-> o, op |-> "reply", tok |-> {t}]}
            /\ nextSeq' = Emit(Emit(nextSeq, "terraToken"), "terraXanchor")
            /\ seqInfo' = seqInfo @@ (s :> o)
       ELSE UNCHANGED <<published, nextSeq, seqInfo>>

\* The Ethereum bridge accepts returning instruction s with token VAA tok.
EthAccepts(s, tok) ==
    /\ s \notin ethProcessed
    /\ Published("terraXanchor", s)
    /\ MsgAt("terraXanchor", s).tok = {tok}

-----------------------------------------------------------------------------
(* The relayer: one action per await of the test code.                     *)

\* parseSequencesFromEthLogs: the sequences of the logs emitted by the
\* Wormhole core contract, in receipt order.
ParseSequencesFromEthLogs(logs) ==
    LET bridgeLogs == SelectSeq(logs, LAMBDA l : l.address = "wormhole")
    IN  [i \in 1..Len(bridgeLogs) |-> bridgeLogs[i].seq]

\* The receipt of the bridge call for kind k when the next sequences are ns:
\* an ERC20 transfer, the token bridge message, then the instruction.
Receipt(k, ns) ==
    IF CarriesToken(k)
    THEN << [address |-> "erc20", seq |-> 0],
            [address |-> "wormhole", seq |-> ns["ethToken"]],
            [address |-> "wormhole", seq |-> ns["ethXanchor"]] >>
    ELSE << [address |-> "wormhole", seq |-> ns["ethXanchor"]] >>

\* Mutant: the two sequences destructured in the opposite order.
DestructureSwapped(k, seqs) ==
    IF CarriesToken(k) THEN [tok |-> seqs[2], arb |-> seqs[1]]
                       ELSE [tok |-> None, arb |-> seqs[1]]

\* [tokenTransferSeq, arbitraryInfoSeq] = ... or [arbitraryInfoSeq] = ...
Destructure(k, seqs) ==
    IF CarriesToken(k) THEN [tok |-> seqs[1], arb |-> seqs[2]]
                       ELSE [tok |-> None, arb |-> seqs[1]]

\* The bridge method's transaction is mined: the Ethereum bridge emits the
\* (token transfer and) instruction messages for kind k.
EthBridgeEmits(k) ==
    LET tk == nextSeq["ethToken"]
        ix == nextSeq["ethXanchor"]
    IN
    IF CarriesToken(k)
    THEN /\ published' = published \cup
              {[em |-> "ethToken", seq |-> tk, op |-> "transfer", tok |-> NoTok],
               [em |-> "ethXanchor", seq |-> ix, op |-> k, tok |-> {tk}]}
         /\ nextSeq' = Emit(Emit(nextSeq, "ethToken"), "ethXanchor")
    ELSE /\ published' = published \cup
              {[em |-> "ethXanchor", seq |-> ix, op |-> k, tok |-> NoTok]}
         /\ nextSeq' = Emit(nextSeq, "ethXanchor")

(***************************************************************************)
(* The test calls the bridge method and waits for the receipt, then reads  *)
(* its sequences and sets globalArbitraryInfoSeq.                          *)
(***************************************************************************)
EthSubmit(r) ==
    LET k == Kind[r]
        got == Destructure(k, ParseSequencesFromEthLogs(Receipt(k, nextSeq)))
    IN
    /\ pc[r] = "ethSubmit"
    /\ EthBridgeEmits(k)
    /\ arbSeq' = [arbSeq EXCEPT ![r] = got.arb]
    /\ tokSeq' = [tokSeq EXCEPT ![r] = got.tok]
    /\ pc' = [pc EXCEPT ![r] = "fetchArb"]
    /\ UNCHANGED <<vaas, terraProcessed, seqInfo, ethProcessed, redeemed, pending,
                   foreignCount, rpcFailures, leg1, retSeq, retTok, relayed>>

\* Where a test goes once its first case has ended.
AfterLeg1(r) == IF ReturnsFunds(Kind[r]) THEN "queryReturn" ELSE "end"

(***************************************************************************)
(* The bridge call or wait() throws (estimation revert, RPC error), before *)
(* the transaction left or after it was mined: the case fails with         *)
(* globalArbitraryInfoSeq still 0, and mocha goes on to the second case.   *)
(***************************************************************************)
EthSubmitFails(r) ==
    /\ pc[r] = "ethSubmit"
    /\ rpcFailures < MaxRpcFailures
    /\ rpcFailures' = rpcFailures + 1
    /\ \/ EthBridgeEmits(Kind[r])
       \/ UNCHANGED <<published, nextSeq>>
    /\ leg1' = [leg1 EXCEPT ![r] = "noReceipt"]
    /\ pc' = [pc EXCEPT ![r] = AfterLeg1(r)]
    /\ UNCHANGED <<vaas, terraProcessed, seqInfo, ethProcessed, redeemed, pending,
                   foreignCount, arbSeq, tokSeq, retSeq, retTok, relayed>>

(***************************************************************************)
(* getSignedVAAWithRetry polls every second, swallowing every error, until *)
(* the guardians have signed the VAA: the step is enabled only then.       *)
(***************************************************************************)
\* Mutant: the instruction VAA used before the guardians signed it.
FetchArbVAAUnsigned(r) ==
    /\ pc[r] = "fetchArb"
    /\ pc' = [pc EXCEPT ![r] = IF CarriesToken(Kind[r]) THEN "fetchTok" ELSE "processTerra"]
    /\ UNCHANGED <<envVars, arbSeq, tokSeq, leg1, retSeq, retTok, relayed>>

FetchArbVAA(r) ==
    /\ pc[r] = "fetchArb"
    /\ Signed("ethXanchor", arbSeq[r])
    /\ pc' = [pc EXCEPT ![r] = IF CarriesToken(Kind[r]) THEN "fetchTok" ELSE "processTerra"]
    /\ UNCHANGED <<envVars, arbSeq, tokSeq, leg1, retSeq, retTok, relayed>>

FetchTokVAA(r) ==
    /\ pc[r] = "fetchTok"
    /\ Signed("ethToken", tokSeq[r])
    /\ pc' = [pc EXCEPT ![r] = "processTerra"]
    /\ UNCHANGED <<envVars, arbSeq, tokSeq, leg1, retSeq, retTok, relayed>>

(***************************************************************************)
(* processAnchorMessage broadcasts in block mode: the Terra bridge either  *)
(* executes the instruction, or the transaction fails, signAndBroadcast    *)
(* throws and the first case fails; mocha still runs the second case.      *)
(***************************************************************************)
ProcessAnchorMessage(r) ==
    LET tok == IF CarriesToken(Kind[r]) THEN {tokSeq[r]} ELSE NoTok
    IN
    /\ pc[r] = "processTerra"
    /\ \/ /\ TerraAccepts(arbSeq[r], tok)
          /\ TerraProcess(arbSeq[r])
          /\ leg1' = [leg1 EXCEPT ![r] = "ok"]
       \/ /\ ~TerraAccepts(arbSeq[r], tok)
          /\ leg1' = [leg1 EXCEPT ![r] = "failed"]
          /\ UNCHANGED <<terraProcessed, published, nextSeq, seqInfo>>
       \/ /\ TerraTxMayFail   \* fees, gas or any other isTxError result
          /\ leg1' = [leg1 EXCEPT ![r] = "failed"]
          /\ UNCHANGED <<terraProcessed, published, nextSeq, seqInfo>>
    /\ pc' = [pc EXCEPT ![r] = AfterLeg1(r)]
    /\ UNCHANGED <<vaas, ethProcessed, redeemed, pending, foreignCount, rpcFailures,
                   arbSeq, tokSeq, retSeq, retTok, relayed>>

\* Mutant: the returning sequence guessed as the latest one Terra emitted.
QueryReturnLatest(r) ==
    /\ pc[r] = "queryReturn"
    /\ retSeq' = [retSeq EXCEPT ![r] = nextSeq["terraXanchor"] - 1]
    /\ pc' = [pc EXCEPT ![r] = "fetchReturnInfo"]
    /\ UNCHANGED <<envVars, arbSeq, tokSeq, leg1, retTok, relayed>>

(***************************************************************************)
(* returningInfoSeq = queryReturningSequence(globalArbitraryInfoSeq): the  *)
(* query runs even when the first case failed; with no sequence_info entry *)
(* outgoing_sequence is absent and parseInt(undefined) is NaN.             *)
(***************************************************************************)
QueryReturn(r) ==
    /\ pc[r] = "queryReturn"
    /\ retSeq' = [retSeq EXCEPT ![r] = IF arbSeq[r] \in DOMAIN seqInfo
                                       THEN seqInfo[arbSeq[r]] ELSE NaN]
    /\ pc' = [pc EXCEPT ![r] = "fetchReturnInfo"]
    /\ UNCHANGED <<envVars, arbSeq, tokSeq, leg1, retTok, relayed>>

\* Fetch the returning VAA, then parseVAA and parseSequenceFromPayload.
FetchReturnInfo(r) ==
    /\ pc[r] = "fetchReturnInfo"
    /\ Signed("terraXanchor", retSeq[r])
    /\ \E n \in SigCounts :
          retTok' = [retTok EXCEPT ![r] =
             Codec!ParseSequenceFromPayload(Codec!ParseVAA(VAABytes("terraXanchor", retSeq[r], n)))]
    /\ pc' = [pc EXCEPT ![r] = "fetchReturnToken"]
    /\ UNCHANGED <<envVars, arbSeq, tokSeq, leg1, retSeq, relayed>>

\* Mutant: the token VAA fetched under the cross-anchor bridge emitter.
FetchReturnTokenWrongEmitter(r) ==
    /\ pc[r] = "fetchReturnToken"
    /\ Signed("terraXanchor", retTok[r])
    /\ pc' = [pc EXCEPT ![r] = "submitReturn"]
    /\ UNCHANGED <<envVars, arbSeq, tokSeq, leg1, retSeq, retTok, relayed>>

FetchReturnToken(r) ==
    /\ pc[r] = "fetchReturnToken"
    /\ Signed("terraToken", retTok[r])
    /\ pc' = [pc EXCEPT ![r] = "submitReturn"]
    /\ UNCHANGED <<envVars, arbSeq, tokSeq, leg1, retSeq, retTok, relayed>>

\* catch: returningInfoSeq++ and go round the loop again.
StepGuess(r) ==
    /\ retSeq' = [retSeq EXCEPT ![r] = @ + 1]
    /\ pc' = [pc EXCEPT ![r] = "fetchReturnInfo"]

(***************************************************************************)
(* processTokenTransferInstruction resolves once the transaction is sent   *)
(* (no wait for the receipt); gas estimation makes a call that would       *)
(* revert throw instead.  On "already processed" the inner catch steps the *)
(* sequence; any other error is rethrown into the outer catch, which steps *)
(* it too.  An RPC failure may come before or after the transaction left.  *)
(***************************************************************************)
\* Mutant: the call made with callStatic, which resolves but sends nothing.
SubmitSentStatic(r) ==
    /\ pc[r] = "submitReturn"
    /\ EthAccepts(retSeq[r], retTok[r])
    /\ relayed' = [relayed EXCEPT ![r] = retSeq[r]]
    /\ pc' = [pc EXCEPT ![r] = "done"]
    /\ UNCHANGED <<nextSeq, published, vaas, terraProcessed, seqInfo, ethProcessed, redeemed, pending,
                   foreignCount, rpcFailures, arbSeq, tokSeq, leg1, retSeq, retTok>>

SubmitSent(r) ==
    /\ pc[r] = "submitReturn"
    /\ EthAccepts(retSeq[r], retTok[r])
    /\ pending' = pending \cup {[seq |-> retSeq[r], tok |-> retTok[r]]}
    /\ relayed' = [relayed EXCEPT ![r] = retSeq[r]]
    /\ pc' = [pc EXCEPT ![r] = "done"]
    /\ UNCHANGED <<nextSeq, published, vaas, terraProcessed, seqInfo, ethProcessed, redeemed,
                   foreignCount, rpcFailures, arbSeq, tokSeq, leg1, retSeq, retTok>>

SubmitRejected(r) ==
    /\ pc[r] = "submitReturn"
    /\ ~EthAccepts(retSeq[r], retTok[r])
    /\ StepGuess(r)
    /\ UNCHANGED <<envVars, arbSeq, tokSeq, leg1, retTok, relayed>>

SubmitRpcError(r) ==
    /\ pc[r] = "submitReturn"
    /\ rpcFailures < MaxRpcFailures
    /\ EthAccepts(retSeq[r], retTok[r])
    /\ rpcFailures' = rpcFailures + 1
    /\ \E sent \in BOOLEAN :
          pending' = IF sent THEN pending \cup {[seq |-> retSeq[r], tok |-> retTok[r]]}
                             ELSE pending
    /\ StepGuess(r)
    /\ UNCHANGED <<nextSeq, published, vaas, terraProcessed, seqInfo, ethProcessed, redeemed,
                   foreignCount, arbSeq, tokSeq, leg1, retTok, relayed>>

(***************************************************************************)
(* "Bridge Collateral": a bond transaction, then bridgeAsset's Terra       *)
(* transaction (allowance or deposit, then initiate_transfer), both        *)
(* broadcast in block mode; parseSequenceFromLogTerra reads the sequence   *)
(* the Terra token bridge emitted.                                         *)
(***************************************************************************)
BridgeSubmit(r) ==
    LET t == nextSeq["terraToken"]
    IN
    /\ pc[r] = "bridgeSubmit"
    /\ \/ /\ published' = published \cup
                {[em |-> "terraToken", seq |-> t, op |-> "transfer", tok |-> NoTok]}
          /\ nextSeq' = Emit(nextSeq, "terraToken")
          /\ tokSeq' = [tokSeq EXCEPT ![r] = t]
          /\ pc' = [pc EXCEPT ![r] = "fetchBridgeVAA"]
          /\ UNCHANGED leg1
       \/ /\ TerraTxMayFail   \* the bond or the transfer transaction fails
          /\ leg1' = [leg1 EXCEPT ![r] = "failed"]
          /\ pc' = [pc EXCEPT ![r] = "end"]
          /\ UNCHANGED <<published, nextSeq, tokSeq>>
    /\ UNCHANGED <<vaas, terraProcessed, seqInfo, ethProcessed, redeemed, pending,
                   foreignCount, rpcFailures, arbSeq, retSeq, retTok, relayed>>

FetchBridgeVAA(r) ==
    /\ pc[r] = "fetchBridgeVAA"
    /\ Signed("terraToken", tokSeq[r])
    /\ pc' = [pc EXCEPT ![r] = "redeem"]
    /\ UNCHANGED <<envVars, arbSeq, tokSeq, leg1, retSeq, retTok, relayed>>

(***************************************************************************)
(* redeemOnEth calls completeTransfer and waits for the receipt; a         *)
(* transfer completed already makes it throw and the case fail.            *)
(***************************************************************************)
RedeemOnEth(r) ==
    /\ pc[r] = "redeem"
    /\ \/ /\ tokSeq[r] \notin redeemed
          /\ redeemed' = redeemed \cup {tokSeq[r]}
          /\ leg1' = [leg1 EXCEPT ![r] = "ok"]
       \/ /\ tokSeq[r] \in redeemed
          /\ leg1' = [leg1 EXCEPT ![r] = "failed"]
          /\ UNCHANGED redeemed
    /\ pc' = [pc EXCEPT ![r] = "end"]
    /\ UNCHANGED <<nextSeq, published, vaas, terraProcessed, seqInfo, ethProcessed, pending,
                   foreignCount, rpcFailures, arbSeq, tokSeq, retSeq, retTok, relayed>>

-----------------------------------------------------------------------------
(***************************************************************************)
(* The mocha runner of hardhat test.  It runs one case at a time and       *)
(* starts a test once every test before it has finished or timed out.      *)
(* this.timeout(60000000) fails a case still pending after 16.7 hours, and *)
(* mocha moves on, but nothing cancels the case's async function: its      *)
(* poll loops keep running beside the next tests.  A timeout in the first  *)
(* case of a round trip would start the second case of the same test       *)
(* beside it; that pair is not modelled, so the timeout is taken in the    *)
(* last case of each test.                                                 *)
(***************************************************************************)
MochaMayStart(r) ==
    Serial => \A q \in Req : MochaOrder[Kind[q]] < MochaOrder[Kind[r]] =>
                               pc[q] \in {"done", "end"} \/ q \in timedOut

Timeout(r) ==
    /\ Serial
    /\ r \notin timedOut
    /\ pc[r] \notin {"ethSubmit", "bridgeSubmit", "done", "end"}
    /\ ReturnsFunds(Kind[r]) =>
          pc[r] \in {"queryReturn", "fetchReturnInfo", "fetchReturnToken", "submitReturn"}
    /\ timedOut' = timedOut \cup {r}
    /\ UNCHANGED <<envVars, relayVars>>

-----------------------------------------------------------------------------
(* The environment: guardians, block production, other users and relayers. *)

\* The guardians observe a message and sign it.
GuardianSign ==
    \E m \in published :
       /\ ~Signed(m.em, m.seq)
       /\ vaas' = vaas \cup {[em |-> m.em, seq |-> m.seq]}
       /\ UNCHANGED <<nextSeq, published, terraProcessed, seqInfo, ethProcessed, redeemed,
                      pending, foreignCount, rpcFailures, relayVars>>

\* A sent processTokenTransferInstruction transaction is mined; it reverts
\* (no effect) if the instruction was executed meanwhile.
EthMine ==
    \E tx \in pending :
       /\ pending' = pending \ {tx}
       /\ ethProcessed' = IF EthAccepts(tx.seq, tx.tok) THEN ethProcessed \cup {tx.seq}
                                                        ELSE ethProcessed
       /\ UNCHANGED <<nextSeq, published, vaas, terraProcessed, seqInfo, redeemed,
                      foreignCount, rpcFailures, relayVars>>

\* Another user's request makes the Terra bridge send funds to Ethereum.
ForeignTerraEmit ==
    LET t == nextSeq["terraToken"]
        o == nextSeq["terraXanchor"]
    IN
    /\ foreignCount < MaxForeign
    /\ foreignCount' = foreignCount + 1
    /\ published' = published \cup
          {[em |-> "terraToken", seq |-> t, op |-> "transfer", tok |-> NoTok],
           [em |-> "terraXanchor", seq |-> o, op |-> "reply", tok |-> {t}]}
    /\ nextSeq' = Emit(Emit(nextSeq, "terraToken"), "terraXanchor")
    /\ UNCHANGED <<vaas, terraProcessed, seqInfo, ethProcessed, redeemed, pending,
                   rpcFailures, relayVars>>

\* Anyone may relay a signed Ethereum instruction to Terra first.
ForeignRelayToTerra ==
    \E m \in published :
       /\ m.em = "ethXanchor"
       /\ Signed(m.em, m.seq)
       /\ \A t \in m.tok : Signed("ethToken", t)
       /\ TerraAccepts(m.seq, m.tok)
       /\ TerraProcess(m.seq)
       /\ UNCHANGED <<vaas, ethProcessed, redeemed, pending, foreignCount, rpcFailures, relayVars>>

\* A third-party relayer's processTokenTransferInstruction is mined.
ForeignRelayToEth ==
    /\ ForeignRelayer
    /\ \E m \in published :
          /\ m.em = "terraXanchor"
          /\ Signed(m.em, m.seq)
          /\ \E t \in m.tok : Signed("terraToken", t) /\ EthAccepts(m.seq, t)
          /\ ethProcessed' = ethProcessed \cup {m.seq}
    /\ UNCHANGED <<nextSeq, published, vaas, terraProcessed, seqInfo, redeemed, pending,
                   foreignCount, rpcFailures, relayVars>>

\* Anyone may complete a plain token transfer on Ethereum's token bridge.
ForeignRedeemOnEth ==
    \E m \in published :
       /\ m.em = "terraToken" /\ m.op = "transfer"
       /\ ~\E i \in published : m.seq \in i.tok /\ i.em = "terraXanchor"
       /\ Signed(m.em, m.seq)
       /\ m.seq \notin redeemed
       /\ redeemed' = redeemed \cup {m.seq}
       /\ UNCHANGED <<nextSeq, published, vaas, terraProcessed, seqInfo, ethProcessed,
                      pending, foreignCount, rpcFailures, relayVars>>

-----------------------------------------------------------------------------
Init ==
    /\ nextSeq = InitSeq
    /\ published = {}
    /\ vaas = {}
    /\ terraProcessed = {}
    /\ seqInfo = <<>>
    /\ ethProcessed = {}
    /\ redeemed = {}
    /\ pending = {}
    /\ foreignCount = 0
    /\ rpcFailures = 0
    /\ pc = [r \in Req |-> IF Kind[r] = "bridge" THEN "bridgeSubmit" ELSE "ethSubmit"]
    /\ arbSeq = [r \in Req |-> 0]
    /\ tokSeq = [r \in Req |-> None]
    /\ leg1 = [r \in Req |-> "pending"]
    /\ retSeq = [r \in Req |-> None]
    /\ retTok = [r \in Req |-> None]
    /\ relayed = [r \in Req |-> None]
    /\ timedOut = {}

Relayer(r) ==
    /\ pc[r] \in {"ethSubmit", "bridgeSubmit"} => MochaMayStart(r)
    /\ UNCHANGED timedOut
    /\ \/ EthSubmit(r) \/ EthSubmitFails(r) \/ FetchArbVAA(r) \/ FetchTokVAA(r)
       \/ ProcessAnchorMessage(r)
       \/ QueryReturn(r) \/ FetchReturnInfo(r) \/ FetchReturnToken(r)
       \/ SubmitSent(r) \/ SubmitRejected(r) \/ SubmitRpcError(r)
       \/ BridgeSubmit(r) \/ FetchBridgeVAA(r) \/ RedeemOnEth(r)

Environment ==
    /\ UNCHANGED timedOut
    /\ \/ GuardianSign \/ EthMine \/ ForeignTerraEmit
       \/ ForeignRelayToTerra \/ ForeignRelayToEth \/ ForeignRedeemOnEth

Next == (\E r \in Req : Relayer(r) \/ Timeout(r)) \/ Environment

(***************************************************************************)
(* Fairness: the test process keeps running each await that can complete  *)
(* (the poll loops retry every second), the guardian network eventually    *)
(* signs every observed message and Ethereum eventually mines a sent       *)
(* transaction.  Other users and relayers owe nothing.                     *)
(***************************************************************************)
Spec ==
    /\ Init /\ [][Next]_vars
    /\ \A r \in Req : WF_vars(Relayer(r))
    /\ \A r \in Req : WF_vars(Timeout(r))
    /\ WF_envVars(GuardianSign)
    /\ WF_envVars(EthMine)

-----------------------------------------------------------------------------
(* Properties.                                                            *)

TypeOK ==
    /\ nextSeq \in [Emitters -> Nat]
    /\ published \subseteq Messages
    /\ vaas \subseteq [em : Emitters, seq : Nat]
    /\ terraProcessed \subseteq Nat /\ ethProcessed \subseteq Nat /\ redeemed \subseteq Nat
    /\ DOMAIN seqInfo \subseteq terraProcessed
    /\ pending \subseteq [seq : Nat, tok : Nat]
    /\ pc \in [Req -> PCs]
    /\ leg1 \in [Req -> {"pending", "ok", "failed", "noReceipt"}]
    /\ DOMAIN arbSeq = Req /\ DOMAIN tokSeq = Req /\ DOMAIN retSeq = Req
    /\ DOMAIN retTok = Req /\ DOMAIN relayed = Req
    /\ IsSeqVar(arbSeq) /\ IsSeqVar(tokSeq)
    /\ \A r \in Req : retSeq[r] \in {None, NaN} \/ retSeq[r] \in Nat
    /\ IsSeqVar(retTok) /\ IsSeqVar(relayed)
    /\ timedOut \subseteq Req

Terminated(r) == pc[r] \in {"done", "end"}

(***************************************************************************)
(* After the first case has read its receipt (parseSequencesFromEthLogs    *)
(* and the destructuring of the test), the sequences it fetches are those  *)
(* of the message its own bridge call emitted: the instruction has the     *)
(* request's kind and names exactly the token transfer it will fetch.      *)
(***************************************************************************)
Leg1FetchesOwnMessages ==
    \A r \in Req :
       pc[r] \in {"fetchArb", "fetchTok", "processTerra"} =>
          /\ Published("ethXanchor", arbSeq[r])
          /\ MsgAt("ethXanchor", arbSeq[r]).op = Kind[r]
          /\ CarriesToken(Kind[r]) => MsgAt("ethXanchor", arbSeq[r]).tok = {tokSeq[r]}

(***************************************************************************)
(* The sequence the second case decodes from the returning VAA             *)
(* (parseVAA then parseSequenceFromPayload), whatever the VAA's signature  *)
(* count, is the token transfer that returning instruction names.          *)
(***************************************************************************)
ParsedTokenMatchesInstruction ==
    \A r \in Req :
       pc[r] \in {"fetchReturnToken", "submitReturn"} =>
          {retTok[r]} = MsgAt("terraXanchor", retSeq[r]).tok

(***************************************************************************)
(* When the Terra -> Ethereum loop breaks, the instruction it submitted is *)
(* the request's own returning message: the one sequence_info assigned to *)
(* its incoming sequence.                                                  *)
(***************************************************************************)
OwnReplyRelayed ==
    \A r \in Req :
       pc[r] = "done" => relayed[r] = seqInfo[arbSeq[r]]

(***************************************************************************)
(* A first case reports failure only when what it relays was not applied:  *)
(* the instruction not executed on Terra, or the bridged transfer not      *)
(* completed on Ethereum (the spec treats already-applied as success).     *)
(***************************************************************************)
Leg1Applied(r) ==
    IF Kind[r] = "bridge" THEN tokSeq[r] \in redeemed ELSE arbSeq[r] \in terraProcessed

Leg1FailsOnlyIfNotApplied ==
    \A r \in Req : leg1[r] = "failed" => ~Leg1Applied(r)

\* Every test eventually finishes both its cases (both are final, so this is
\* the same as each test eventually finishing).
AllTestsTerminate == <>(\A r \in Req : Terminated(r))

(***************************************************************************)
(* Every request that makes Terra send funds back eventually has its own   *)
(* returning instruction executed on Ethereum.                             *)
(***************************************************************************)
OwnReplyExecuted(r) ==
    arbSeq[r] \in DOMAIN seqInfo /\ seqInfo[arbSeq[r]] \in ethProcessed

OwnReplyEventuallyExecuted ==
    <>(\A r \in Req : ReturnsFunds(Kind[r]) => OwnReplyExecuted(r))


-----------------------------------------------------------------------------
(***************************************************************************)
(* Refinement.  The first case of every Ethereum -> Terra test is a        *)
(* one-way leg of spec section 4.5 (RelayLeg): its phase is read from the  *)
(* await it is at and the outcome it reported, its sequence is the         *)
(* arbitraryInfoSeq it parsed from the receipt (none when the bridge call  *)
(* threw), the emitted and the attested sequences are the published and   *)
(* the signed instructions of the Ethereum bridge emitter, and the applied *)
(* ones are those the Terra bridge executed.                              *)
(***************************************************************************)
LegReqs == {r \in Req : Kind[r] # "bridge"}

LegPhase(r) ==
    CASE pc[r] = "ethSubmit" -> "start"
      [] pc[r] \in {"fetchArb", "fetchTok"} -> "awaiting"
      [] pc[r] = "processTerra" -> "submitting"
      [] OTHER -> IF leg1[r] = "ok" THEN "applied" ELSE "failed"

Leg == INSTANCE RelayLeg WITH
    LegReq <- LegReqs,
    phase <- [r \in LegReqs |-> LegPhase(r)],
    seq <- [r \in LegReqs |-> IF pc[r] = "ethSubmit" \/ leg1[r] = "noReceipt"
                              THEN None ELSE arbSeq[r]],
    emitted <- {m.seq : m \in {w \in published : w.em = "ethXanchor"}},
    attested <- {v.seq : v \in {w \in vaas : w.em = "ethXanchor"}},
    applied <- terraProcessed

(***************************************************************************)
(* The first case implements the one-way leg: each test submits a fresh    *)
(* sequence of its own only after its VAA was signed, reports ok only for  *)
(* the submission that executed it, and never leaves a final phase.  The  *)
(* code has no alreadyApplied outcome; that the abstract one is never      *)
(* used is the divergence run leg1_already_applied shows.                  *)
(***************************************************************************)
FirstCaseRefinesRelayLeg == Leg!LegSpec
=============================================================================
