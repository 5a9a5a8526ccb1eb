------------------------------ MODULE RelayLeg ------------------------------
(***************************************************************************)
(* The one-way relay leg of spec section 4.5, as an abstract state machine *)
(* per request:                                                            *)
(*                                                                         *)
(*   start -> awaiting (attestation) -> submitting -> applied             *)
(*     |                                           |-> alreadyApplied      *)
(*     |-> failed                                  |-> failed              *)
(*                                                                         *)
(* The origin submission emits a fresh sequence; or it throws, before or   *)
(* after its message went out, and the request fails without learning a   *)
(* sequence.  The request submits only                                     *)
(* once the guardians attested that sequence; it reaches applied only by   *)
(* being the submission that executes the message on the destination, and *)
(* alreadyApplied only when someone else executed it first.  A fatal       *)
(* destination rejection may end any submission in failed.  Other relayers *)
(* may execute any attested message.  Nothing here is about when a step    *)
(* happens: this is a safety specification.                                *)
(***************************************************************************)
EXTENDS FiniteSets

CONSTANTS
    LegReq,     \* the requests running a one-way leg
    None        \* model value: no sequence emitted yet

VARIABLES
    phase,      \* phase[r]: where request r is in the leg
    seq,        \* seq[r]: the sequence its origin submission emitted
    emitted,    \* sequences the origin chain has emitted
    attested,   \* sequences the guardians have signed
    applied     \* sequences the destination program has executed

legVars == <<phase, seq, emitted, attested, applied>>

Phases == {"start", "awaiting", "submitting", "applied", "alreadyApplied", "failed"}

LegInit ==
    /\ phase = [r \in LegReq |-> "start"]
    /\ seq = [r \in LegReq |-> None]
    /\ emitted = {}
    /\ attested = {}
    /\ applied = {}

(* The origin submission emits a sequence no one has used. *)
Emit(r) ==
    /\ phase[r] = "start"
    /\ phase' = [phase EXCEPT ![r] = "awaiting"]
    /\ seq'[r] # None
    /\ seq'[r] \notin emitted
    /\ seq' = [seq EXCEPT ![r] = seq'[r]]
    /\ emitted' = emitted \cup {seq'[r]}
    /\ UNCHANGED <<attested, applied>>

(* The origin submission throws: the request fails with no sequence, and  *)
(* its message may still have gone out.                                   *)
LostReceipt(r) ==
    /\ phase[r] = "start"
    /\ phase' = [phase EXCEPT ![r] = "failed"]
    /\ \/ UNCHANGED emitted
       \/ \E s \in emitted' \ emitted : s # None /\ emitted' = emitted \cup {s}
    /\ UNCHANGED <<seq, attested, applied>>

(* The guardians sign an emitted message. *)
Attest(s) ==
    /\ s \in emitted \ attested
    /\ attested' = attested \cup {s}
    /\ UNCHANGED <<phase, seq, emitted, applied>>

(* The attestation is fetched: the request submits. *)
Ready(r) ==
    /\ phase[r] = "awaiting"
    /\ seq[r] \in attested
    /\ phase' = [phase EXCEPT ![r] = "submitting"]
    /\ UNCHANGED <<seq, emitted, attested, applied>>

(* The submission executes the message. *)
Apply(r) ==
    /\ phase[r] = "submitting"
    /\ seq[r] \notin applied
    /\ phase' = [phase EXCEPT ![r] = "applied"]
    /\ applied' = applied \cup {seq[r]}
    /\ UNCHANGED <<seq, emitted, attested>>

(* The destination reports the message executed already. *)
AlreadyApplied(r) ==
    /\ phase[r] = "submitting"
    /\ seq[r] \in applied
    /\ phase' = [phase EXCEPT ![r] = "alreadyApplied"]
    /\ UNCHANGED <<seq, emitted, attested, applied>>

(* A fatal rejection ends the leg. *)
Fail(r) ==
    /\ phase[r] = "submitting"
    /\ phase' = [phase EXCEPT ![r] = "failed"]
    /\ UNCHANGED <<seq, emitted, attested, applied>>

(* Another relayer executes an attested message. *)
RelayElsewhere(s) ==
    /\ s \in attested \ applied
    /\ applied' = applied \cup {s}
    /\ UNCHANGED <<phase, seq, emitted, attested>>

LegNext ==
    \/ \E r \in LegReq : Emit(r) \/ LostReceipt(r) \/ Ready(r) \/ Apply(r)
                         \/ AlreadyApplied(r) \/ Fail(r)
    \/ \E s \in emitted : Attest(s) \/ RelayElsewhere(s)

LegSpec == LegInit /\ [][LegNext]_legVars

====
