------------------------------ MODULE VAACodec ------------------------------
(***************************************************************************)
(* The signed-message envelope (VAA) of the guardian network and the two   *)
(* decoders of utils/wormhole_utils.ts that read it: parseVAA, which skips *)
(* the header, the signature records and the fixed body fields to reach    *)
(* the payload, and parseSequenceFromPayload, which reads the 8-byte       *)
(* big-endian correlation sequence at payload offset 34.                   *)
(*                                                                         *)
(* A buffer is a sequence of byte values (0..255); TLA+ index i holds the  *)
(* byte at JavaScript offset i - 1.  EncodeVAA is the guardian's side of   *)
(* the format (spec section 6); the decoders are translated from the code. *)
(***************************************************************************)
EXTENDS Naturals, Sequences

LOCAL INSTANCE SequencesExt

\* Layout constants of wormhole_utils.ts.
HEADER_LEN == 6
SIG_LEN == 66
PAYLOAD_POS == 51
SEQ_POS == 34

Zeros(n) == [i \in 1..n |-> 0]

\* The w-byte big-endian encoding of v (v < 256^w), lowest byte last.
RECURSIVE BigEndian(_, _)
BigEndian(v, w) == IF w = 0 THEN <<>> ELSE BigEndian(v \div 256, w - 1) \o <<v % 256>>

\* The unsigned big-endian integer held in bytes [pos, pos + w) of buf
\* (JavaScript offsets).
ReadBigEndian(buf, pos, w) ==
    FoldLeft(LAMBDA acc, b : acc * 256 + b, 0, SubSeq(buf, pos + 1, pos + w))

(***************************************************************************)
(* The envelope as the guardian network produces it: version, guardian set *)
(* index, signature count N, N signature records (guardian index and 65    *)
(* signature bytes), then the body: timestamp, nonce, emitter chain,       *)
(* 32-byte emitter address, sequence, consistency level, payload.          *)
(***************************************************************************)
SignatureRecord(i) == <<i>> \o Zeros(SIG_LEN - 1)

EncodeVAA(numSigs, chain, emitter, sequence, payload) ==
    <<1>> \o BigEndian(0, 4) \o <<numSigs>>
    \o FoldLeft(LAMBDA acc, i : acc \o SignatureRecord(i), <<>>, [k \in 1..numSigs |-> k - 1])
    \o BigEndian(0, 4) \o BigEndian(0, 4) \o BigEndian(chain, 2)
    \o Zeros(31) \o <<emitter>> \o BigEndian(sequence, 8) \o <<1>>
    \o payload

(* An instruction payload whose correlation field names token transfer tok. *)
InstructionPayload(op, tok) == <<op>> \o Zeros(SEQ_POS - 1) \o BigEndian(tok, 8)

(***************************************************************************)
(* parseVAA: numSigs = buffer.readUInt8(5); the payload is                 *)
(* vaa.slice(HEADER_LEN + numSigs * SIG_LEN + PAYLOAD_POS), which is empty *)
(* when the buffer is shorter (slice never fails).                         *)
(***************************************************************************)
\* Mutant: the signature count read from offset 4 instead of 5.
ParseVAAReadsByte4(vaa) ==
    LET numSigs == vaa[5]
        bodyOffset == HEADER_LEN + numSigs * SIG_LEN
    IN  SubSeq(vaa, bodyOffset + PAYLOAD_POS + 1, Len(vaa))

ParseVAA(vaa) ==
    LET numSigs == vaa[6]
        bodyOffset == HEADER_LEN + numSigs * SIG_LEN
    IN  SubSeq(vaa, bodyOffset + PAYLOAD_POS + 1, Len(vaa))

\* readUInt8(5) throws a RangeError on a buffer shorter than 6 bytes.
ParseVAAFails(vaa) == Len(vaa) < HEADER_LEN

(***************************************************************************)
(* parseSequenceFromPayload: Number(buffer.readBigUInt64BE(SEQ_POS)).  The *)
(* Number conversion is exact below 2^53, which the modelled sequences     *)
(* stay far below.                                                         *)
(***************************************************************************)
ParseSequenceFromPayload(payload) == ReadBigEndian(payload, SEQ_POS, 8)

\* readBigUInt64BE(34) throws a RangeError on a payload shorter than 42 bytes.
ParseSequenceFails(payload) == Len(payload) < SEQ_POS + 8

=============================================================================
