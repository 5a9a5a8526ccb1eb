----------------------------- MODULE TerraWallet -----------------------------
(***************************************************************************)
(* The Terra account behind terraWallet (utils/terra_utils.ts), shared by  *)
(* every script and test that calls signAndBroadcast.  createAndSignTx     *)
(* asks the LCD for the account's current sequence and signs with it; the  *)
(* block-mode broadcast is accepted only when that sequence is still the   *)
(* account's, and an accepted transaction consumes it whether or not its   *)
(* messages then execute.  A rejected or failed transaction is an          *)
(* isTxError result, which signAndBroadcast turns into a thrown Error.     *)
(*                                                                         *)
(* The module defines the steps; a composing module conjoins them with the *)
(* effect of the transaction being sent.                                   *)
(***************************************************************************)
EXTENDS Naturals

CONSTANTS
    Proc,       \* the processes sharing the wallet
    None        \* model value: no transaction signed

VARIABLES
    accountSeq, \* the account sequence committed on Terra
    signedSeq   \* signedSeq[p]: the sequence p's signed transaction carries

walletVars == <<accountSeq, signedSeq>>

WalletInit ==
    /\ accountSeq = 0
    /\ signedSeq = [p \in Proc |-> None]

WalletTypeOK ==
    /\ accountSeq \in Nat
    /\ \A p \in Proc : signedSeq[p] = None \/ signedSeq[p] \in Nat

(* The 3 s sleep, then createAndSignTx with the sequence the LCD reports. *)
CreateAndSignTx(p) ==
    /\ signedSeq[p] = None
    /\ signedSeq' = [signedSeq EXCEPT ![p] = accountSeq]
    /\ UNCHANGED accountSeq

Signed(p) == signedSeq[p] # None

(* terra.tx.broadcast: the transaction enters a block and takes the        *)
(* sequence (its messages may still fail, which the caller decides).      *)
BroadcastIncluded(p) ==
    /\ signedSeq[p] = accountSeq
    /\ accountSeq' = accountSeq + 1
    /\ signedSeq' = [signedSeq EXCEPT ![p] = None]

(* The check of the ante handler rejects a sequence already used:         *)
(* "account sequence mismatch", an isTxError result.                      *)
BroadcastMismatch(p) ==
    /\ Signed(p)
    /\ signedSeq[p] # accountSeq
    /\ signedSeq' = [signedSeq EXCEPT ![p] = None]
    /\ UNCHANGED accountSeq

=============================================================================
