----------------------------- MODULE Deployment -----------------------------
(***************************************************************************)
(* The operational scripts (scripts/*.ts) and the helpers they call in     *)
(* utils/terra_utils.ts and utils/eth_utils.ts, run as processes that      *)
(* share the Terra wallet, the two chains and the persisted configuration  *)
(* env.json (constants.ts).                                                *)
(*                                                                         *)
(* Every script imports constants.ts, which parses env.json once at load;  *)
(* the scripts work on that in-memory CONSTANTS, and only bridge_deploy    *)
(* writes it back (saveConstants), at its very end.  Any awaited call may  *)
(* throw; main().catch then exits the process with status 1.              *)
(***************************************************************************)
EXTENDS Naturals, Sequences, FiniteSets, TLC

CONSTANTS
    Proc,           \* the script processes
    Script,         \* Script[p]: which script process p runs
    MaxVersion,     \* bound on rebuilds of the contract artifacts
    MayFail,        \* TRUE when any chain call may fail (funds, gas, RPC)
    KillInSave,     \* TRUE when a process may be killed inside writeFileSync
    Sequential,     \* TRUE when the operator runs one script at a time
    None            \* model value: unassigned

Scripts == {"deploy", "migrateTerra", "migrateEth", "upgradeEth", "attest"}

ASSUME Script \in [Proc -> Scripts] /\ MaxVersion \in Nat \ {0}

VARIABLES
    accountSeq, signedSeq,  \* the Terra wallet (TerraWallet)
    terra,      \* Terra contracts: address -> [kind, core, bridges, eth, code]
    eth,        \* Ethereum bridge proxies: address -> [terra, code]
    wrapped,    \* the wrapped bLUNA token exists on Ethereum
    env,        \* env.json: [ok, terra, eth] (ok = FALSE: empty file)
    artifact,   \* version of the contract artifacts on disk
    pc,         \* pc[p]: index of the step of Program(p) that p is at
    outcome,    \* "idle", "running", "ok", "failed" or "mismatch"
    mem,        \* mem[p]: p's CONSTANTS.terra_xanchor_bridge and eth_xanchor_bridge
    loc         \* loc[p]: locals (stored code versions, new addresses)

W == INSTANCE TerraWallet

walletVars == <<accountSeq, signedSeq>>

chainVars == <<terra, eth, wrapped, env, artifact>>
procVars == <<pc, outcome, mem, loc>>
vars == <<walletVars, chainVars, procVars>>

(* The addresses hard-coded in scripts/migrate_terra.ts (the core) and    *)
(* scripts/bridge_upgrade.ts (PROXY_ADDRESS): those of the first           *)
(* deployment, which Init puts in env.json.                                *)
HardcodedCore == 1
PROXY_ADDRESS == 1

(***************************************************************************)
(* The awaits of each script's main, in order.                             *)
(***************************************************************************)
(* bridge_deploy: deployTerra (three storeCode, two instantiateContact,   *)
(* add_bridges), deployEth (deployProxy and two approvals),               *)
(* registerETHBridge, bridgeAsset (Terra transaction, VAA, redeemOnEth),  *)
(* saveConstants (writeFileSync truncates, then writes).                  *)
(* storeTerraCodes: storeCode of addressproxy, wormhole_bridge and         *)
(* crossanchor_core, one after the other.                                 *)
StoreTerraCodes == <<"storeProxy", "storeBridge", "storeCore">>

DeployProgram ==
    <<"load">> \o StoreTerraCodes \o
    <<"instCore", "instBridge", "addBridges", "deployProxy", "approveUst", "approveAust", "register",
      "bridgeTx", "fetchVAA", "redeem", "truncate", "write">>

(* migrate_terra: migrateWithCodePath of the bridge, then of the core. *)
MigrateTerraProgram == <<"load", "storeBridge", "migrateBridge", "storeCore", "migrateCore">>

(* migrate_eth: upgradeProxy(CONSTANTS.eth_xanchor_bridge). *)
MigrateEthProgram == <<"load", "upgradeEnv">>

(* bridge_upgrade: upgradeProxy(PROXY_ADDRESS). *)
UpgradeEthProgram == <<"load", "upgradeFixed">>

(* attest_token: lookup, and when absent attestFromTerra, its VAA,        *)
(* createWrappedOnEth and the lookup again.                               *)
AttestProgram == <<"load", "lookup", "attestTx", "fetchVAA", "createWrapped", "lookupAfter">>

Programs ==
  [deploy |-> DeployProgram, migrateTerra |-> MigrateTerraProgram,
   migrateEth |-> MigrateEthProgram, upgradeEth |-> UpgradeEthProgram,
   attest |-> AttestProgram]

Step(p) == Programs[Script[p]][pc[p]]

TerraSteps == {"storeProxy", "storeBridge", "storeCore", "instCore", "instBridge",
               "addBridges", "register", "bridgeTx", "migrateBridge", "migrateCore", "attestTx"}
EthSteps == {"deployProxy", "approveUst", "approveAust", "redeem", "upgradeEnv",
             "upgradeFixed", "createWrapped"}

Running(p) == outcome[p] = "running"

(* Go to the next await, or return from main (exit status 0). *)
Advance(p) ==
    IF pc[p] = Len(Programs[Script[p]])
    THEN outcome' = [outcome EXCEPT ![p] = "ok"] /\ UNCHANGED pc
    ELSE pc' = [pc EXCEPT ![p] = @ + 1] /\ UNCHANGED outcome

(* main().catch: the process exits with status 1. *)
Throw(p, why) == outcome' = [outcome EXCEPT ![p] = why] /\ UNCHANGED pc

NewAddress(f) == Cardinality(DOMAIN f) + 1

\* Mutant: an unreadable env.json taken as an empty CONSTANTS object.
LoadEmptyAsObject(p) ==
    /\ outcome[p] = "idle"
    /\ Sequential => \A q \in Proc : ~Running(q)
    /\ mem' = [mem EXCEPT ![p] = [terra |-> env.terra, eth |-> env.eth]]
    /\ outcome' = [outcome EXCEPT ![p] = "running"]
    /\ pc' = [pc EXCEPT ![p] = 2]
    /\ UNCHANGED <<walletVars, chainVars, loc>>

-----------------------------------------------------------------------------
(* Start: importing constants.ts parses env.json; an empty file throws.   *)
Load(p) ==
    /\ outcome[p] = "idle"
    /\ Sequential => \A q \in Proc : ~Running(q)
    /\ \/ /\ env.ok
          /\ mem' = [mem EXCEPT ![p] = [terra |-> env.terra, eth |-> env.eth]]
          /\ outcome' = [outcome EXCEPT ![p] = "running"]
          /\ pc' = [pc EXCEPT ![p] = 2]
       \/ /\ ~env.ok
          /\ outcome' = [outcome EXCEPT ![p] = "failed"]
          /\ UNCHANGED <<pc, mem>>
    /\ UNCHANGED <<walletVars, chainVars, loc>>

(* signAndBroadcast, first half: sleep, createAndSignTx. *)
TerraSign(p) ==
    /\ Running(p) /\ Step(p) \in TerraSteps
    /\ W!CreateAndSignTx(p)
    /\ UNCHANGED <<chainVars, procVars>>

(* The broadcast is rejected for its sequence; signAndBroadcast throws. *)
TerraMismatch(p) ==
    /\ Running(p)
    /\ W!BroadcastMismatch(p)
    /\ Throw(p, "mismatch")
    /\ UNCHANGED <<chainVars, mem, loc>>

(* The transaction is included but its messages fail; isTxError, throw. *)
TerraExecFails(p) ==
    /\ MayFail /\ Running(p) /\ Step(p) \in TerraSteps
    /\ W!BroadcastIncluded(p)
    /\ Throw(p, "failed")
    /\ UNCHANGED <<chainVars, mem, loc>>

(* An Ethereum call throws (revert at estimation, RPC error, no funds). *)
EthFails(p) ==
    /\ MayFail /\ Running(p) /\ Step(p) \in EthSteps
    /\ Throw(p, "failed")
    /\ UNCHANGED <<walletVars, chainVars, mem, loc>>

(* A Terra step whose transaction succeeded: its effect and the next await. *)
TerraDone(p, s) == Running(p) /\ Step(p) = s /\ W!BroadcastIncluded(p) /\ Advance(p)

-----------------------------------------------------------------------------
(* deployTerra and migrateWithCodePath: storeCode reads the wasm on disk. *)
StoreCode(p) ==
    LET field == [storeProxy |-> "codeProxy", storeBridge |-> "codeBridge",
                  storeCore |-> "codeCore"][Step(p)]
    IN
    /\ Step(p) \in {"storeProxy", "storeBridge", "storeCore"}
    /\ TerraDone(p, Step(p))
    /\ loc' = [loc EXCEPT ![p][field] = artifact]
    /\ UNCHANGED <<terra, eth, wrapped, env, artifact, mem>>

(* instantiateContact(codeIds["crossanchor_core"], ...) *)
InstantiateCore(p) ==
    LET a == NewAddress(terra)
    IN
    /\ TerraDone(p, "instCore")
    /\ terra' = terra @@ (a :> [kind |-> "core", core |-> None, bridges |-> {},
                                eth |-> None, code |-> loc[p].codeCore])
    /\ loc' = [loc EXCEPT ![p].core = a]
    /\ UNCHANGED <<eth, wrapped, env, artifact, mem>>

\* Mutant: the bridge instantiated without cross_anchor_core_addr.
InstantiateBridgeNoCore(p) ==
    LET a == NewAddress(terra)
    IN
    /\ TerraDone(p, "instBridge")
    /\ terra' = terra @@ (a :> [kind |-> "bridge", core |-> None, bridges |-> {},
                                eth |-> None, code |-> loc[p].codeBridge])
    /\ loc' = [loc EXCEPT ![p].bridge = a]
    /\ UNCHANGED <<eth, wrapped, env, artifact, mem>>

(* instantiateContact(codeIds["wormhole_bridge"], {cross_anchor_core_addr: coreAddress}) *)
InstantiateBridge(p) ==
    LET a == NewAddress(terra)
    IN
    /\ TerraDone(p, "instBridge")
    /\ terra' = terra @@ (a :> [kind |-> "bridge", core |-> loc[p].core, bridges |-> {},
                                eth |-> None, code |-> loc[p].codeBridge])
    /\ loc' = [loc EXCEPT ![p].bridge = a]
    /\ UNCHANGED <<eth, wrapped, env, artifact, mem>>

(* executeContract(coreAddress, {add_bridges}), then                       *)
(* CONSTANTS.terra_xanchor_bridge = anchorBridge.                          *)
AddBridges(p) ==
    /\ TerraDone(p, "addBridges")
    /\ terra' = [terra EXCEPT ![loc[p].core].bridges = @ \cup {loc[p].bridge}]
    /\ mem' = [mem EXCEPT ![p].terra = loc[p].bridge]
    /\ UNCHANGED <<eth, wrapped, env, artifact, loc>>

(* deployEth: deployProxy initialised with the emitter of                  *)
(* CONSTANTS.terra_xanchor_bridge, compiled from the sources on disk.      *)
DeployProxy(p) ==
    LET a == NewAddress(eth)
    IN
    /\ Running(p) /\ Step(p) = "deployProxy"
    /\ eth' = eth @@ (a :> [terra |-> mem[p].terra, code |-> artifact])
    /\ loc' = [loc EXCEPT ![p].eth = a]
    /\ Advance(p)
    /\ UNCHANGED <<walletVars, terra, wrapped, env, artifact, mem>>

\* Mutant: CONSTANTS.eth_xanchor_bridge never set to the new proxy.
ApproveNoRecord(p) ==
    /\ Running(p) /\ Step(p) \in {"approveUst", "approveAust"}
    /\ Advance(p)
    /\ UNCHANGED <<walletVars, chainVars, mem, loc>>

(* The two approve transactions; after the second,                        *)
(* CONSTANTS.eth_xanchor_bridge = bridgeContract.address.                 *)
Approve(p) ==
    /\ Running(p) /\ Step(p) \in {"approveUst", "approveAust"}
    /\ mem' = IF Step(p) = "approveAust" THEN [mem EXCEPT ![p].eth = loc[p].eth] ELSE mem
    /\ Advance(p)
    /\ UNCHANGED <<walletVars, chainVars, loc>>

(* registerETHBridge: the Ethereum bridge of CONSTANTS registered on the   *)
(* Terra bridge of CONSTANTS.                                              *)
RegisterETHBridge(p) ==
    /\ TerraDone(p, "register")
    /\ terra' = [terra EXCEPT ![mem[p].terra].eth = mem[p].eth]
    /\ UNCHANGED <<eth, wrapped, env, artifact, mem, loc>>

(* bridgeAsset's Terra transaction and attestFromTerra's: no state the     *)
(* scripts read again.                                                     *)
TerraMessage(p) ==
    /\ Step(p) \in {"bridgeTx", "attestTx"}
    /\ TerraDone(p, Step(p))
    /\ UNCHANGED <<chainVars, mem, loc>>

(* getSignedVAAWithRetry of the Terra token bridge message: the guardians  *)
(* sign it eventually and the loop returns it.                            *)
FetchVAA(p) ==
    /\ Running(p) /\ Step(p) = "fetchVAA"
    /\ Advance(p)
    /\ UNCHANGED <<walletVars, chainVars, mem, loc>>

(* redeemOnEth of bridgeAsset's transfer. *)
Redeem(p) ==
    /\ Running(p) /\ Step(p) = "redeem"
    /\ Advance(p)
    /\ UNCHANGED <<walletVars, chainVars, mem, loc>>

(* migrateContract(CONSTANTS.terra_xanchor_bridge) and migrateContract of  *)
(* the core address hard-coded in migrate_terra.ts.                       *)
MigrateContract(p) ==
    LET target == IF Step(p) = "migrateBridge" THEN mem[p].terra ELSE HardcodedCore
        code == IF Step(p) = "migrateBridge" THEN loc[p].codeBridge ELSE loc[p].codeCore
    IN
    /\ Step(p) \in {"migrateBridge", "migrateCore"}
    /\ TerraDone(p, Step(p))
    /\ terra' = [terra EXCEPT ![target].code = code]
    /\ UNCHANGED <<eth, wrapped, env, artifact, mem, loc>>

\* Mutant: an attest_token lookup that tests only !ethAddress, for which the
\* zero address getForeignAssetEth returns for an absent asset is truthy.
LookupZeroIsTruthy(p) ==
    /\ Running(p) /\ Step(p) \in {"lookup", "lookupAfter"}
    /\ IF Step(p) = "lookup"
       THEN outcome' = [outcome EXCEPT ![p] = "ok"] /\ UNCHANGED pc
       ELSE Advance(p)
    /\ UNCHANGED <<walletVars, chainVars, mem, loc>>

\* Mutant: every upgrade aimed at the fixed PROXY_ADDRESS.
UpgradeProxyFixed(p) ==
    /\ Running(p) /\ Step(p) \in {"upgradeEnv", "upgradeFixed"}
    /\ eth' = [eth EXCEPT ![PROXY_ADDRESS].code = artifact]
    /\ loc' = [loc EXCEPT ![p].codeEth = artifact]
    /\ Advance(p)
    /\ UNCHANGED <<walletVars, terra, wrapped, env, artifact, mem>>

(* upgrades.upgradeProxy: migrate_eth.ts upgrades CONSTANTS.eth_xanchor_bridge, *)
(* bridge_upgrade.ts the hard-coded PROXY_ADDRESS.                         *)
UpgradeProxy(p) ==
    LET target == IF Step(p) = "upgradeEnv" THEN mem[p].eth ELSE PROXY_ADDRESS
    IN
    /\ Running(p) /\ Step(p) \in {"upgradeEnv", "upgradeFixed"}
    /\ eth' = [eth EXCEPT ![target].code = artifact]
    /\ loc' = [loc EXCEPT ![p].codeEth = artifact]
    /\ Advance(p)
    /\ UNCHANGED <<walletVars, terra, wrapped, env, artifact, mem>>

(* attest_token: getForeignAssetEth; an existing wrapped asset ends main. *)
Lookup(p) ==
    /\ Running(p) /\ Step(p) \in {"lookup", "lookupAfter"}
    /\ IF Step(p) = "lookup" /\ wrapped
       THEN outcome' = [outcome EXCEPT ![p] = "ok"] /\ UNCHANGED pc
       ELSE Advance(p)
    /\ UNCHANGED <<walletVars, chainVars, mem, loc>>

(* createWrappedOnEth reverts when the wrapped asset exists already. *)
CreateWrapped(p) ==
    /\ Running(p) /\ Step(p) = "createWrapped"
    /\ \/ /\ ~wrapped
          /\ wrapped' = TRUE
          /\ Advance(p)
       \/ /\ wrapped
          /\ Throw(p, "failed")
          /\ UNCHANGED wrapped
    /\ UNCHANGED <<walletVars, terra, eth, env, artifact, mem, loc>>

(* saveConstants: writeFileSync opens env.json truncated, then writes.    *)
SaveTruncate(p) ==
    /\ Running(p) /\ Step(p) = "truncate"
    /\ env' = [ok |-> FALSE, terra |-> None, eth |-> None]
    /\ Advance(p)
    /\ UNCHANGED <<walletVars, terra, eth, wrapped, artifact, mem, loc>>

SaveWrite(p) ==
    /\ Running(p) /\ Step(p) = "write"
    /\ env' = [ok |-> TRUE, terra |-> mem[p].terra, eth |-> mem[p].eth]
    /\ Advance(p)
    /\ UNCHANGED <<walletVars, terra, eth, wrapped, artifact, mem, loc>>

(* The process is killed between the truncation and the write. *)
KilledInSave(p) ==
    /\ KillInSave /\ Running(p) /\ Step(p) = "write"
    /\ Throw(p, "failed")
    /\ UNCHANGED <<walletVars, chainVars, mem, loc>>

(* The developer rebuilds terra/artifacts and the Solidity sources. *)
Rebuild ==
    /\ artifact < MaxVersion
    /\ artifact' = artifact + 1
    /\ UNCHANGED <<walletVars, terra, eth, wrapped, env, procVars>>

-----------------------------------------------------------------------------
(* The first deployment: core 1 with bridge 2, Ethereum proxy 1, all at  *)
(* artifact version 1, recorded in env.json.                             *)
Init ==
    /\ W!WalletInit
    /\ terra = (1 :> [kind |-> "core", core |-> None, bridges |-> {2}, eth |-> None, code |-> 1])
            @@ (2 :> [kind |-> "bridge", core |-> 1, bridges |-> {}, eth |-> 1, code |-> 1])
    /\ eth = (1 :> [terra |-> 2, code |-> 1])
    /\ wrapped = FALSE
    /\ env = [ok |-> TRUE, terra |-> 2, eth |-> 1]
    /\ artifact = 1
    /\ pc = [p \in Proc |-> 1]
    /\ outcome = [p \in Proc |-> "idle"]
    /\ mem = [p \in Proc |-> [terra |-> None, eth |-> None]]
    /\ loc = [p \in Proc |-> [codeProxy |-> None, codeBridge |-> None, codeCore |-> None,
                              core |-> None, bridge |-> None, eth |-> None, codeEth |-> None]]

Proc_(p) ==
    \/ Load(p) \/ TerraSign(p) \/ TerraMismatch(p) \/ TerraExecFails(p) \/ EthFails(p)
    \/ StoreCode(p) \/ InstantiateCore(p) \/ InstantiateBridge(p) \/ AddBridges(p)
    \/ DeployProxy(p) \/ Approve(p) \/ RegisterETHBridge(p) \/ TerraMessage(p)
    \/ FetchVAA(p) \/ Redeem(p) \/ MigrateContract(p) \/ UpgradeProxy(p)
    \/ Lookup(p) \/ CreateWrapped(p) \/ SaveTruncate(p) \/ SaveWrite(p) \/ KilledInSave(p)

Next == (\E p \in Proc : Proc_(p)) \/ Rebuild

Spec == Init /\ [][Next]_vars

-----------------------------------------------------------------------------
(* Properties.                                                            *)

Outcomes == {"idle", "running", "ok", "failed", "mismatch"}

TypeOK ==
    /\ W!WalletTypeOK
    /\ DOMAIN terra = 1..Cardinality(DOMAIN terra)
    /\ \A a \in DOMAIN terra :
          /\ terra[a].kind \in {"core", "bridge"}
          /\ terra[a].kind = "bridge" => terra[a].core \in DOMAIN terra
          /\ terra[a].bridges \subseteq DOMAIN terra
          /\ terra[a].code \in 1..MaxVersion
    /\ DOMAIN eth = 1..Cardinality(DOMAIN eth)
    /\ \A a \in DOMAIN eth : eth[a].terra \in DOMAIN terra /\ eth[a].code \in 1..MaxVersion
    /\ wrapped \in BOOLEAN /\ env.ok \in BOOLEAN
    /\ artifact \in 1..MaxVersion
    /\ \A p \in Proc : pc[p] \in 1..Len(Programs[Script[p]]) /\ outcome[p] \in Outcomes

(***************************************************************************)
(* Whenever env.json can be read, the Terra bridge and the Ethereum bridge *)
(* it names form one deployment: the Ethereum proxy was initialised with   *)
(* that Terra bridge's emitter (deployEth), the Terra bridge has that      *)
(* proxy registered (registerETHBridge), and its core lists it            *)
(* (add_bridges) - whatever scripts failed or ran concurrently.           *)
(***************************************************************************)
EnvNamesOneDeployment ==
    env.ok =>
       LET b == env.terra
           e == env.eth
       IN  /\ b \in DOMAIN terra /\ terra[b].kind = "bridge"
           /\ e \in DOMAIN eth
           /\ eth[e].terra = b
           /\ terra[b].eth = e
           /\ b \in terra[terra[b].core].bridges

(***************************************************************************)
(* When migrate_terra has exited with status 0, the Terra bridge env.json  *)
(* names and the core that bridge uses run code at least as new as what   *)
(* it migrated them to.                                                    *)
(***************************************************************************)
MigrateTerraReachesDeployment ==
    \A p \in Proc :
       (Script[p] = "migrateTerra" /\ outcome[p] = "ok" /\ env.ok) =>
          /\ terra[env.terra].code >= loc[p].codeBridge
          /\ terra[terra[env.terra].core].code >= loc[p].codeCore

(***************************************************************************)
(* When migrate_eth has exited with status 0, the Ethereum proxy env.json *)
(* names runs code at least as new as what it upgraded to.                *)
(***************************************************************************)
UpgradeReachesDeployment ==
    \A p \in Proc :
       (Script[p] = "migrateEth" /\ outcome[p] = "ok" /\ env.ok) =>
          eth[env.eth].code >= loc[p].codeEth

(***************************************************************************)
(* Every running script works on CONSTANTS that name a Terra bridge and an *)
(* Ethereum proxy that exist, although another bridge_deploy may be inside *)
(* saveConstants, between writeFileSync's truncation and its write, or was *)
(* killed there: a script importing constants.ts then fails at JSON.parse  *)
(* instead of running on an empty configuration.                          *)
(***************************************************************************)
RunningOnDeployedConfig ==
    \A p \in Proc :
       Running(p) =>
          /\ mem[p].terra \in DOMAIN terra /\ terra[mem[p].terra].kind = "bridge"
          /\ mem[p].eth \in DOMAIN eth

(***************************************************************************)
(* An attest_token run that exits with status 0 leaves the wrapped token   *)
(* on Ethereum, also when another run created it between this run's       *)
(* getForeignAssetEth and its createWrappedOnEth.                         *)
(***************************************************************************)
AttestOkMeansWrapped ==
    \A p \in Proc : Script[p] = "attest" /\ outcome[p] = "ok" => wrapped

(***************************************************************************)
(* signAndBroadcast never has a transaction rejected for its account       *)
(* sequence: scripts sharing terraWallet do not make each other fail.     *)
(***************************************************************************)
NoSequenceMismatch ==
    \A p \in Proc : outcome[p] # "mismatch"

====
