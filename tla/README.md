# TLA+ models of the cross-chain relay (`src/contracts/cross-chain-contracts`)

This directory holds TLA+ models of the TypeScript relay that drives Anchor's
cross-chain bridge through Wormhole. The code models the integration tests
(`tests/3..6_*.test.ts`) and the utilities they call (`utils/*.ts`). Together
they move a request from Ethereum to Terra and, for round trips, move Terra's
reply back to Ethereum.

## The system

Parts, with the leaves first:

| Part | Code | What it does |
|---|---|---|
| Envelope Codec | `utils/wormhole_utils.ts` `parseVAA`, `parseSequenceFromPayload` | Skips the VAA header (6 bytes) and N 66-byte signature records, then 51 body bytes, to reach the payload. Reads the 8-byte big-endian correlation sequence at payload offset 34. |
| Attestation Fetcher | `getSignedVAAWithRetry` | Polls the guardian RPC every second and swallows every error. It has no deadline. |
| Sequence Correlator | `utils/terra_utils.ts` `queryReturningSequence` | Reads `sequence_info.outgoing_sequence` from the Terra bridge and returns it through `parseInt`. |
| Terra signer | `signAndBroadcast` | Sleeps 3 s, then signs and broadcasts in block mode. It throws on an `isTxError` result. |
| Log parsing | `utils/eth_utils.ts` `parseSequencesFromEthLogs` | Returns the sequences of the Wormhole core logs of a receipt, in receipt order. |
| Relay Orchestrator | the `it` cases of tests 3-6 | See below. |
| Terra bridging | `bridgeAsset` | Runs the Terra token-bridge transfer, fetches its VAA and calls `redeemOnEth`. |
| Terra deploy helpers | `utils/terra_utils.ts` `storeCode`, `instantiateContact`, `deployTerra`, `registerETHBridge`, `migrateContract` | Store, instantiate and migrate the Terra contracts, each through `signAndBroadcast`. |
| Ethereum deploy helper | `utils/eth_utils.ts` `deployEth` | Deploys the bridge proxy, approves two tokens and records the proxy in `CONSTANTS`. |
| Scripts | `scripts/*.ts` | `bridge_deploy`, `migrate_terra`, `migrate_eth`, `bridge_upgrade`, `attest_token`. Each runs its awaits in order, and any throw exits with status 1. |
| Configuration | `constants.ts`, `hardhat.config.ts` | `env.json` is parsed when the module is imported. `saveConstants` writes it back with `writeFileSync`, which truncates first. `hardhat test` runs `./tests` under mocha. |

A test of kind lock, unlock, borrow or repay runs two cases.

The first case, "Ethereum -> Terra":
1. It calls the CrossAnchorBridge method and waits for the receipt.
2. It parses one sequence (the instruction) or two (the token transfer, then the instruction) from the receipt.
3. It fetches the VAAs and submits them to Terra with `processAnchorMessage`.

For unlock and borrow, the second case, "Terra -> Ethereum", runs next:
1. It queries the outgoing sequence Terra assigned.
2. It enters a loop that fetches the returning VAA, decodes the token-transfer sequence from its payload, fetches that VAA and calls `processTokenTransferInstruction`.
3. On "already processed", the inner catch does `returningInfoSeq++`. Any other error goes to the outer catch, which also does `returningInfoSeq++`.

Mocha runs the second case even when the first case failed.

`hardhat test` runs the files of `./tests` under mocha, one case at a time, in
file-name order (3_ to 6_). Every case sets `this.timeout(60000000)`, about
16.7 hours. On a timeout mocha fails the case and starts the next one, but the
case's async function is not cancelled: its poll loop keeps running beside the
later tests. Separate runs of the suite, and scripts, may also run against the
same bridges with the same mnemonics. They share nothing but the chains.
`jest.config.js` is present, but the tests use mocha's `this.timeout` and hardhat's `ethers`, so `hardhat test` is what runs them.

The contracts on both chains, the guardian network and other users are not in
the repository. They are modelled from `spec.md` as the environment; PROJECT.json
marks those definitions `spec_modelled`.

## Modules

**`VAACodec.tla`** holds the codec as operators over byte sequences. A TLA+
index i holds JavaScript offset i-1.
- `ParseVAA`, `ParseSequenceFromPayload`, `ReadBigEndian` and the layout constants are translated from the code.
- `ParseVAAFails` and `ParseSequenceFails` give the lengths at which `readUInt8` and `readBigUInt64BE` throw.
- `EncodeVAA` and `InstructionPayload` encode the guardian format, so that the decoders can be checked against it.

**`CrossChainRelay.tla`** composes the tests with the environment.
- Each request `r \in Req` is one test process. `pc[r]` is the `await` it is at.
  - `arbSeq`, `tokSeq`, `retSeq`, `retTok` are the test's `arbitraryInfoSeq`, `tokenTransferSeq`, `returningInfoSeq` and `returningTokenTransferSeq`.
  - `leg1` is the outcome of the first case.
  - `relayed` is the sequence whose submission broke the loop.
- Relayer actions, one per await:
  - `EthSubmit` models the bridge call, the receipt, `parseSequencesFromEthLogs` and the destructuring. `EthBridgeEmits` is what the mined bridge transaction emits.
  - `EthSubmitFails` is the bridge call or `wait()` throwing, before the transaction left or after it was mined. The case fails, and `globalArbitraryInfoSeq` stays 0, so mocha runs the second case on sequence 0.
  - `FetchArbVAA` and `FetchTokVAA` fetch the first case's VAAs.
  - `ProcessAnchorMessage` has three outcomes: executed, rejected, or a failed transaction.
  - `QueryReturn` models the query. An absent entry gives `NaN`.
  - `FetchReturnInfo` fetches the returning VAA and decodes it through `VAACodec`. The signature count is any value of `SigCounts`.
  - `FetchReturnToken` fetches the token-transfer VAA the payload names.
  - `SubmitSent`, `SubmitRejected` and `SubmitRpcError` are the submission and its two catches. `StepGuess` is the `++` they share.
  - `BridgeSubmit`, `FetchBridgeVAA` and `RedeemOnEth` model `bridgeAsset`. Under `TerraTxMayFail`, `BridgeSubmit` may fail: either the bond transaction or the transfer transaction fails, and the case ends.
- The mocha runner, under the constant `Serial`:
  - With `Serial` TRUE, the requests are the tests of one mocha run. `MochaOrder` is their file order.
  - `MochaMayStart` lets a test start only once every earlier test has ended or timed out.
  - `Timeout(r)` is the case timeout, and `timedOut` holds the tests it fired for. It leaves the test's `pc` alone, because the loop keeps running.
  - A timeout is taken in the last case of a test. A timeout in the first case of a round trip would run that test's second case beside its first. That needs two program counters per test, and is not modelled.
  - With `Serial` FALSE, the requests are independent runs of the suite, or of one test each, at the same time.
- Environment, modelled from the spec:
  - `nextSeq` is the per-emitter Wormhole sequence counter, and `published` is the set of emitted messages.
  - `vaas` is what the guardians have signed (`GuardianSign`).
  - `terraProcessed` and `seqInfo` are the Terra bridge's state (`TerraProcess`).
  - `ethProcessed` and `pending` are the Ethereum bridge's processed set and the transactions sent but not mined (`EthMine`).
  - `redeemed` is the Ethereum token bridge's completed transfers.
  - Other users' round trips are `ForeignTerraEmit`.
  - Third-party relayers are `ForeignRelayToTerra`, `ForeignRelayToEth` and `ForeignRedeemOnEth`.

**`RelayLeg.tla`** is the abstract one-way leg of spec section 4.5. Each request goes `start -> awaiting -> submitting -> applied | alreadyApplied | failed`, over the sets of emitted, attested and applied sequences. `LostReceipt` is a submission whose receipt never came back: the request fails at once, and a message may have been emitted or not.
- The end of `CrossChainRelay.tla` maps each Ethereum -> Terra test onto it (`Leg == INSTANCE RelayLeg WITH ...`):
  - the phase comes from `pc` and `leg1`;
  - the sequence is `arbSeq` once the receipt was read, and none when the bridge call threw;
  - the emitted sequences are the published messages of the Ethereum bridge emitter;
  - the attested sequences are the signed VAAs of the Ethereum bridge emitter;
  - the applied ones are `terraProcessed`.
- `FirstCaseRefinesRelayLeg` is `Leg!LegSpec`, checked as a property.
- The code never produces `alreadyApplied`. Run `leg1_already_applied` shows where the spec expects it.

**`MC_CrossChainRelay.tla`** holds the model values and the kind assignments for TLC.

**`TerraWallet.tla`** is the account behind `terraWallet`.
- `accountSeq` is the sequence committed on Terra. `signedSeq[p]` is the sequence that `createAndSignTx` read for process p.
- `CreateAndSignTx` covers the 3 s sleep and the signing.
- `BroadcastIncluded` consumes the sequence, whether or not the messages then execute.
- `BroadcastMismatch` is the ante handler rejecting a sequence that was already used.

**`Deployment.tla`** runs the scripts as processes.
- It composes `TerraWallet` through `INSTANCE`.
- The processes share the wallet, the contracts on both chains (`terra`, `eth`, `wrapped`), `env.json` (`env`) and the artifacts on disk (`artifact`).
- `StoreTerraCodes` is the order in which `storeTerraCodes` stores the three contracts. It opens `DeployProgram`.
- `DeployProgram`, `MigrateTerraProgram`, `MigrateEthProgram`, `UpgradeEthProgram` and `AttestProgram` list the awaits of each script's `main`, and `pc[p]` indexes them.
- `mem[p]` is the process's in-memory `CONSTANTS`, loaded at import (`Load`). `deployTerra` (`AddBridges`) and `deployEth` (`Approve`) update it, and only `saveConstants` (`SaveTruncate`, `SaveWrite`) writes it back.
- `loc[p]` holds the locals: stored code versions, new addresses and the version upgraded to.
- Terra steps sign (`TerraSign`) and then are included (`TerraDone`, which is part of each step's action), fail on execution (`TerraExecFails`) or are rejected (`TerraMismatch`).
- Ethereum steps may throw (`EthFails`). A process may be killed between the truncation and the write of `env.json` (`KilledInSave`).
- `HardcodedCore` and `PROXY_ADDRESS` are the literals in `migrate_terra.ts` and `bridge_upgrade.ts`. They are the addresses of the first deployment, which `Init` records in `env.json`.
- `Rebuild` is the developer rebuilding the artifacts between runs.

**`MC_Deployment.tla`** assigns scripts to the process model values. It also defines the symmetry of interchangeable processes.

## Runs

| Run | Checks | Result |
|---|---|---|
| `adversarial` | `TypeOK`, `Leg1FetchesOwnMessages`, `ParsedTokenMatchesInstruction`, `FirstCaseRefinesRelayLeg` | pass, 761k states |
| `liveness` | `OwnReplyRelayed`, `AllTestsTerminate`, `OwnReplyEventuallyExecuted` | pass, 25k states |
| `rpc_error_skips_reply` | `OwnReplyEventuallyExecuted` | violation |
| `already_processed_hangs` | `AllTestsTerminate` | violation |
| `leg1_already_applied` | `Leg1FailsOnlyIfNotApplied` | violation |
| `terra_failure_hangs` | `AllTestsTerminate` | violation |
| `timeout_steals_reply` | `OwnReplyRelayed` | violation |
| `deploy_concurrent` | `TypeOK`, `EnvNamesOneDeployment`, `RunningOnDeployedConfig` | pass, 106k states |
| `deploy_attest` | `AttestOkMeansWrapped` | pass, 37k states |
| `migrations` | `UpgradeReachesDeployment` | pass, 9k states |
| `migrate_terra_misses_core` | `MigrateTerraReachesDeployment` | violation |
| `wallet_race` | `NoSequenceMismatch` | violation |

What the runs show:
- **adversarial**: unlock, repay and bridge run as independent runs, with every environment behaviour on, failing Terra transactions and failing bridge calls included. Each first case fetches the messages its own call emitted. The token sequence decoded from a returning VAA is the one that instruction names, for 0, 1 or 19 signatures. Every first case refines `RelayLeg`. Each one submits a fresh sequence of its own, and only after its VAA was signed. It reports ok only for the submission that executed the instruction, and it never leaves a final phase.
- **liveness**: one mocha run of unlock then borrow, with the case timeout and one reply from another user. There is no third-party Ethereum relayer and no failed call. When a loop breaks, it has submitted its own reply. Both round trips terminate and get their replies executed.
- **The five violation runs** are the findings in PROJECT.json:
  - One RPC error skips the test's own reply.
  - A reply relayed by someone else makes the loop poll forever.
  - A first case fails for an instruction that was already applied.
  - A failed first case makes the second case poll for sequence `NaN`. With `MaxRpcFailures = 1` and no failing Terra transaction, TLC reaches the same hang by another path: the bridge call throws (`EthSubmitFails`), and the second case queries sequence 0. The kept cfg does not bound that failure. See the hazard at `4_unlock_collateral.test.ts:31`.
  - In one mocha run, an unlock loop that outlived its timeout relays the reply of the borrow test that mocha started next.

- **deploy_concurrent**: two `bridge_deploy` runs interleave on one wallet and one `env.json`, with failing calls and a kill inside `saveConstants`. Whenever `env.json` parses, it names a Terra bridge, an Ethereum proxy initialised with that bridge, the same proxy registered on the bridge, and a core listing the bridge. The last writer wins, but it always writes a pair it deployed and registered itself. Every running script holds a configuration naming a bridge and a proxy that exist. A run that imports `constants.ts` between the other run's truncation and write, or after a kill there, fails at `JSON.parse` instead of running on an empty configuration.
- **deploy_attest**: `bridge_deploy` beside two `attest_token` runs that share its wallet. The lookup, attestation and `createWrappedOnEth` steps fire, including the revert when the other run created the token first. An `attest_token` run that exits 0 has left the wrapped token on Ethereum, whichever run created it.
- **migrations**: `bridge_deploy`, `migrate_eth` and `migrate_terra` run one at a time, in any order, with rebuilds and failures. A `migrate_eth` that exits 0 has upgraded the proxy `env.json` names.
- **migrate_terra_misses_core**: after a redeploy and a rebuild, `migrate_terra` exits 0. The bridge's own core still runs the old code, because the script migrates a hard-coded core and `deployTerra` never records the core it creates.
- **wallet_race**: two scripts calling `signAndBroadcast` at once sign with the same account sequence, and one broadcast is rejected. The race needs two processes with the same Terra mnemonic: two scripts, or a script beside a test run. One mocha run makes these calls one at a time.

Each property of a passing run has a mutant of the code that breaks it (see `mutants`).

**Bounds.**
- Two or three tests run, concurrently or in mocha order. That is enough for one test to meet another's reply on the shared Terra emitter.
- At most one reply from another user (`MaxForeign`) and one RPC failure (`MaxRpcFailures`).
- `InitSeq` starts the emitters at different values. An index confused with a sequence, or one emitter confused with another, then shows.
- Signature counts {0, 1, 19} cover the empty case, the typical case and the full guardian set.

**Deployment bounds.**
- Two deploy processes, or one deploy with two attests, cover every pair of interleaved steps on the shared wallet and `env.json`.
- `MaxVersion = 2` allows one rebuild. That is enough for code to be stale.
- Symmetry over the interchangeable processes makes the concurrent runs take seconds.
- The deployment runs set `CHECK_DEADLOCK FALSE`, because every script really ends: it exits 0 or 1.

**Fairness.** Each test process is weakly fair: its poll loops retry every second. The mocha timer is weakly fair: a case still pending when its timeout expires is failed. The guardians eventually sign what they observed, and Ethereum eventually mines a sent transaction. Other users and relayers are under no obligation.

## Not modelled

- The compiler and network settings of `hardhat.config.ts`, and `jest.config.js`: they hold no state. The `mocha` block's 200000 ms default is overridden by every case.
- The precision of `Number(BigInt)` above 2^53, in `parseSequenceFromPayload`. Wormhole sequences count messages per emitter and never get near 2^53, so no hazard is listed for it.
- The letter case of the log address in `parseSequencesFromEthLogs`. Addresses are model values here.
- `bridge_upgrade`'s literal proxy address is in `Deployment` (`PROXY_ADDRESS`), but no run checks it, and it is not listed as a hazard. Its comment tells the operator to edit it before each run, so a stale value is an operating error. The same pattern without such a comment, in `migrate_terra`, is a finding.
- Nothing restores an empty `env.json`: after a kill inside `writeFileSync`, every later script exits 1 at import. `RunningOnDeployedConfig` checks that they do fail, rather than run on an empty configuration.
- Separate definitions for the `main().then/catch` of each script. `Advance` and `Throw` model that pattern once, from `bridge_deploy`, and every script shares them.

## Plan for later work

1. A codec harness run: N in 0..19 and short buffers, for `ParseVAAFails` and `ParseSequenceFails`.
2. A round-trip abstract leg, to extend `RelayLeg`. Only a corrected retry loop could refine it (see the findings), so it would go with a corrected implementation of the loop.
