------------------------------- MODULE Ed25519 -------------------------------
(***************************************************************************)
(* The data of an Ed25519 instruction: how the scripts lay out a batch of  *)
(* signatures (scripts/utils.ts), and how the bridge program reads it back *)
(* (verify_ed25519.rs).  With the sizes of the code an offset takes the    *)
(* second byte of its u16 from the third signature on.                     *)
(*                                                                         *)
(* A byte is a triple: <<"num", value, 0>> for a byte the layout computes, *)
(* and <<kind, owner, i>> for the i-th byte of a key, signature or message *)
(* nothing is known of but whose it is.                                    *)
(*                                                                         *)
(* Each signature has three instruction indexes, for the instructions its  *)
(* signature, key and message are to be found in.  The cluster's Ed25519   *)
(* program follows them; verify_ed25519.rs decodes them and then reads its *)
(* own instruction's bytes wherever they point.                            *)
(***************************************************************************)
EXTENDS Integers, Sequences, SequencesExt

CONSTANTS
    PUBKEY_SERIALIZED_SIZE,     \* 32 in the code
    SIGNATURE_SERIALIZED_SIZE,  \* 64
    MESSAGE_DATA_SIZE           \* 32, the length of a SHA-256

ASSUME SizeAssumption ==
    {PUBKEY_SERIALIZED_SIZE, SIGNATURE_SERIALIZED_SIZE, MESSAGE_DATA_SIZE} \subseteq 1..255

SIGNATURE_OFFSETS_SERIALIZED_SIZE == 14
SIGNATURE_OFFSETS_START == 2
U16_MAX == 65535        \* as an instruction index: this instruction itself

Byte(n) == <<"num", n, 0>>
Opaque(kind, owner, size) == [i \in 1..size |-> <<kind, owner, i>>]

KeyBytes(g) == Opaque("key", g, PUBKEY_SERIALIZED_SIZE)
MessageBytes(m) == Opaque("msg", m, MESSAGE_DATA_SIZE)
SignatureBytes(g, m) == Opaque("sig", <<g, m>>, SIGNATURE_SERIALIZED_SIZE)

\* A guardian's signature of a message hash, with what is needed to check it.
ConstructSig(g, m) ==
    [pubkey |-> KeyBytes(g), signature |-> SignatureBytes(g, m), msg |-> MessageBytes(m)]

-----------------------------------------------------------------------------
(***************************************************************************)
(* Writing.                                                                *)
(***************************************************************************)

\* Variant: only the low byte of a number is written.
EncodeLowByte(n) == <<Byte(n % 256), Byte(0)>>

EncodeU16(n) == <<Byte(n % 256), Byte((n \div 256) % 256)>>

\* Seven u16's, in the order of ED25519_INSTRUCTION_OFFSET_LAYOUT.
EncodeOffsets(pub_key_offset, message_data_offset, message_data_size, instruction_index) ==
    EncodeU16(pub_key_offset + PUBKEY_SERIALIZED_SIZE) \o EncodeU16(instruction_index) \o
    EncodeU16(pub_key_offset) \o EncodeU16(instruction_index) \o
    EncodeU16(message_data_offset) \o EncodeU16(message_data_size) \o
    EncodeU16(instruction_index)

\* The number of signatures, padding, the offsets, and what they point to.
InstData(offsets, payload) ==
    <<Byte(Len(offsets)), Byte(0)>> \o FlattenSeq(offsets) \o payload

DataStart(sigs) == Len(sigs) * SIGNATURE_OFFSETS_SERIALIZED_SIZE + SIGNATURE_OFFSETS_START

\* Variant: the place the shared message takes is forgotten.
MakeEd25519InstDataShifted(sigs, instruction_index) ==
    LET stride == PUBKEY_SERIALIZED_SIZE + SIGNATURE_SERIALIZED_SIZE
        offsets == [k \in DOMAIN sigs |->
            EncodeOffsets(DataStart(sigs) + (k - 1) * stride, DataStart(sigs),
                          Len(sigs[k].msg), instruction_index)]
    IN InstData(offsets,
                sigs[1].msg \o
                    FlattenSeq([k \in DOMAIN sigs |-> sigs[k].pubkey \o sigs[k].signature]))

\* The message once, before all keys and signatures: the first batch member's
\* stands for everybody's.
MakeEd25519InstDataPacked(sigs, instruction_index) ==
    LET stride == PUBKEY_SERIALIZED_SIZE + SIGNATURE_SERIALIZED_SIZE
        start == DataStart(sigs) + Len(sigs[1].msg)
        offsets == [k \in DOMAIN sigs |->
            EncodeOffsets(start + (k - 1) * stride, DataStart(sigs),
                          Len(sigs[k].msg), instruction_index)]
    IN InstData(offsets,
                sigs[1].msg \o
                    FlattenSeq([k \in DOMAIN sigs |-> sigs[k].pubkey \o sigs[k].signature]))

\* Every key followed by its signature and its message.
MakeEd25519InstData(sigs, instruction_index) ==
    LET before == PUBKEY_SERIALIZED_SIZE + SIGNATURE_SERIALIZED_SIZE
        stride == PUBKEY_SERIALIZED_SIZE + SIGNATURE_SERIALIZED_SIZE + MESSAGE_DATA_SIZE
        start(k) == DataStart(sigs) + (k - 1) * stride
        offsets == [k \in DOMAIN sigs |->
            EncodeOffsets(start(k), start(k) + before, Len(sigs[k].msg),
                          instruction_index)]
    IN InstData(offsets,
                FlattenSeq([k \in DOMAIN sigs |->
                                sigs[k].pubkey \o sigs[k].signature \o sigs[k].msg]))

-----------------------------------------------------------------------------
(***************************************************************************)
(* Reading.                                                                *)
(***************************************************************************)

InBounds(data, offset, size) == offset + size <= Len(data)

\* data[offset..offset + size], counted from 0.
Slice(data, offset, size) == SubSeq(data, offset + 1, offset + size)

NumSigs(data) == data[1][2]

\* decode_u16: the n-th field (from 0) of the k-th offset structure.
Field(data, k, n) ==
    LET at == SIGNATURE_OFFSETS_START + (k - 1) * SIGNATURE_OFFSETS_SERIALIZED_SIZE + 2 * n
    IN  data[at + 1][2] + 256 * data[at + 2][2]

SignatureOffset(data, k) == Field(data, k, 0)
PublicKeyOffset(data, k) == Field(data, k, 2)
MessageDataOffset(data, k) == Field(data, k, 4)
MessageDataSize(data, k) == Field(data, k, 5)
SignatureInstructionIndex(data, k) == Field(data, k, 1)
PublicKeyInstructionIndex(data, k) == Field(data, k, 3)
MessageInstructionIndex(data, k) == Field(data, k, 6)

OffsetsInBounds(data) ==
    InBounds(data, SIGNATURE_OFFSETS_START, NumSigs(data) * SIGNATURE_OFFSETS_SERIALIZED_SIZE)

SignatureInBounds(data, k) ==
    /\ InBounds(data, SignatureOffset(data, k), SIGNATURE_SERIALIZED_SIZE)
    /\ InBounds(data, PublicKeyOffset(data, k), PUBKEY_SERIALIZED_SIZE)
    /\ InBounds(data, MessageDataOffset(data, k), MessageDataSize(data, k))
    /\ MessageDataSize(data, k) = MESSAGE_DATA_SIZE

\* What load_signatures needs in order not to fail.
Loadable(data) ==
    OffsetsInBounds(data) /\ \A k \in 1..NumSigs(data) : SignatureInBounds(data, k)

\* Everything about the k-th signature is in this instruction.  (An index that
\* spells out this instruction's own place counts as elsewhere: less is promised.)
PointsHere(data, k) ==
    /\ SignatureInstructionIndex(data, k) = U16_MAX
    /\ PublicKeyInstructionIndex(data, k) = U16_MAX
    /\ MessageInstructionIndex(data, k) = U16_MAX

\* Where the Ed25519 program looks; no handler asks.
InstructionAt(data) ==
    IF \A k \in 1..NumSigs(data) : PointsHere(data, k) THEN "this" ELSE "other"

\* Read from this instruction, wherever the instruction indexes point.
LoadSignatures(data) ==
    [k \in 1..NumSigs(data) |->
        [pubkey |-> Slice(data, PublicKeyOffset(data, k), PUBKEY_SERIALIZED_SIZE),
         signature |-> Slice(data, SignatureOffset(data, k), SIGNATURE_SERIALIZED_SIZE),
         msg |-> Slice(data, MessageDataOffset(data, k), MessageDataSize(data, k))]]

\* Variant: the keys are counted, not compared.
VerifyEd25519IxUnkeyed(data, signers, message) ==
    /\ Len(data) > 1
    /\ Loadable(data)
    /\ LET signatures == LoadSignatures(data) IN
       /\ DOMAIN signatures = DOMAIN signers
       /\ \A id \in DOMAIN signatures : signatures[id].msg = MessageBytes(message)

\* verify_ed25519_ix: the bytes of the instruction before hold the keys of signers,
\* in their order, each with message.  Whether these are the bytes the Ed25519
\* program has checked is not looked at.
VerifyEd25519Ix(data, signers, message) ==
    /\ Len(data) > 1
    /\ Loadable(data)
    /\ LET signatures == LoadSignatures(data) IN
       /\ DOMAIN signatures = DOMAIN signers
       /\ \A id \in DOMAIN signatures :
              /\ signatures[id].pubkey = KeyBytes(signers[id])
              /\ signatures[id].msg = MessageBytes(message)

\* External: the Ed25519 program fails the transaction unless every signature is
\* that key's over that message, each taken from the instruction its index names.
\* For a signature that points here, these are the bytes read above, and only a
\* guardian who has signed a message can have made one.  One that points elsewhere
\* is checked on bytes of the sender's choice: nothing follows for those here.
Ed25519Program(data, signed) ==
    /\ OffsetsInBounds(data)
    /\ \A k \in 1..NumSigs(data) : PointsHere(data, k) =>
           /\ SignatureInBounds(data, k)
           /\ \E g \in DOMAIN signed : \E m \in signed[g] :
                  LoadSignatures(data)[k] = ConstructSig(g, m)

=============================================================================
