-------------------------------- MODULE Relay --------------------------------
(***************************************************************************)
(* Guardians with the way signatures take from the relayer to the program: *)
(* the relayer puts a batch of signatures and the indexes their signers    *)
(* have now into a transaction and sends it without waiting.  It is        *)
(* executed later, after others, or never; the list of guardians may have  *)
(* changed by then.  Other clients call verify_signature as well, with     *)
(* instruction data of their own.  Here verify_signature reads the bytes   *)
(* of the Ed25519 instruction (module Ed25519) instead of knowing who      *)
(* signed and where the data point, and Relay implements Guardians.        *)
(***************************************************************************)
EXTENDS Guardians, Ed25519

CONSTANTS
    MaxSent,            \* bound on the transactions under way
    ClientData          \* Ed25519 instruction data other clients may send

VARIABLE sent           \* transactions sent, neither executed nor expired

\* A signature of every guardian fits into what two bytes can point to: 2132
\* bytes in the code.
ASSUME DataAssumption ==
    SIGNATURE_OFFSETS_START +
        MAX_GUARDIAN_COUNT * (SIGNATURE_OFFSETS_SERIALIZED_SIZE + PUBKEY_SERIALIZED_SIZE
                              + SIGNATURE_SERIALIZED_SIZE + MESSAGE_DATA_SIZE) <= U16_MAX

\* Nothing is assumed of where the data of clients point.
ASSUME ClientAssumption == InstructionIndex = {"this", "other"}

relayVars == <<guardianVars, sent>>

\* Variant: indexes counted from one.
SignerIndexFromOne(g) == CHOOSE i \in 1..Len(guardians) : guardians[i] = g

\* The 0-based position of a registered guardian.
SignerIndex(g) == (CHOOSE i \in 1..Len(guardians) : guardians[i] = g) - 1

\* Every batch of signatures of m by different registered guardians.
Batches(m) ==
    UNION {{s \in [1..n -> Signers(m)] : IsInjective(s)} : n \in 1..Len(guardians)}

\* The data of the Ed25519 instruction, and the arguments of verify_signature
\* behind it; whose signatures they are is kept for the properties.
Transaction(m, signers) ==
    [data |-> MakeEd25519InstDataPacked([k \in DOMAIN signers |->
                                             ConstructSig(signers[k], m)], U16_MAX),
     msg_hash |-> m,
     signer_indexes |-> [k \in DOMAIN signers |-> SignerIndex(signers[k])],
     signers |-> signers]

-----------------------------------------------------------------------------
RelayInit == GuardiansInit /\ sent = {}

\* One run of the verify_signature script: sendTransaction, nothing awaited.
Submit(m, signers) ==
    /\ Cardinality(sent) < MaxSent
    /\ sent' = sent \cup {Transaction(m, signers)}
    /\ UNCHANGED guardianVars

\* A transaction is executed: the Ed25519 program, then verify_signature, which
\* takes the signers from the list as it is by now.
Execute(data, m, signer_indexes) ==
    /\ Ed25519Program(data, attested)
    /\ NamesGuardians(signer_indexes)
    /\ VerifyEd25519Ix(data,
                       [k \in DOMAIN signer_indexes |-> GuardianAt(signer_indexes[k])], m)
    /\ RecordSignatures(m, signer_indexes)
    /\ DisturbRecord(m, InstructionAt(data))

Land(tx) ==
    /\ tx \in sent
    /\ sent' = sent \ {tx}
    /\ Execute(tx.data, tx.msg_hash, tx.signer_indexes)

\* The transaction of another client: whoever signs it may call verify_signature,
\* with any arguments.  When it was sent makes no difference.
LandFromClient(data, m, signer_indexes) ==
    /\ Execute(data, m, signer_indexes)
    /\ UNCHANGED sent

\* External: the transaction is lost, expires, or fails and changes nothing.
Drop(tx) ==
    /\ tx \in sent
    /\ sent' = sent \ {tx}
    /\ UNCHANGED guardianVars

\* Everything but verify_signature is as in Guardians.
Meanwhile ==
    /\ AnyAddGuardian \/ AnyRemoveGuardian \/ AnyUpdateGuardianThreshold \/ AnyAttest
       \/ AnyConsumeSignatures \/ Tick
    /\ UNCHANGED sent

AnySubmit == \E m \in Message : \E signers \in Batches(m) : Submit(m, signers)
AnyLand == \E tx \in sent : Land(tx)
AnyLandFromClient ==
    \E data \in ClientData, m \in Message, s \in SignerIndexes : LandFromClient(data, m, s)
AnyDrop == \E tx \in sent : Drop(tx)

RelayNext == AnySubmit \/ AnyLand \/ AnyLandFromClient \/ AnyDrop \/ Meanwhile

RelaySpec == RelayInit /\ [][RelayNext]_relayVars

\* The relayer sends one missing signature after the other, whenever there is
\* room for one more transaction, and not all that could be executed are lost.
Missing(m) == {g \in Signers(m) : ~ Contains(PubkeyIndex(m), SignerIndex(g))}
SubmitMissing(m) == \E g \in Missing(m) : Submit(m, <<g>>)
LandOneOf(m) == \E tx \in sent : tx.msg_hash = m /\ Land(tx)

RelayFairSpec ==
    /\ RelaySpec
    /\ WF_relayVars(AnyDrop)
    /\ \A m \in Message : SF_relayVars(SubmitMissing(m)) /\ SF_relayVars(LandOneOf(m))

-----------------------------------------------------------------------------
\* Types of what is under way: one index a program can look up per signer.
SentTypeOK ==
    \A tx \in sent :
        /\ tx.msg_hash \in Message
        /\ tx.signer_indexes \in SignerIndexes
        /\ tx.signers \in [DOMAIN tx.signer_indexes -> Guardian]

\* The program reads out of the data the signatures the scripts put in, in
\* both layouts, for every batch under way, and these are the bytes the Ed25519
\* program has checked: no offset is cut off or shifted, no index points elsewhere.
SignaturesReadBack ==
    \A tx \in sent :
        LET sigs == [k \in DOMAIN tx.signers |-> ConstructSig(tx.signers[k], tx.msg_hash)]
            ReadsBack(data) == /\ Loadable(data) /\ LoadSignatures(data) = sigs
                               /\ InstructionAt(data) = "this"
        IN /\ ReadsBack(MakeEd25519InstDataPacked(sigs, U16_MAX))
           /\ ReadsBack(MakeEd25519InstData(sigs, U16_MAX))

\* A batch is only executed for the guardians who signed it: with indexes gone
\* stale on the way it fails as a whole, whoever the indexes name by then.
IndexesNameTheSigners ==
    [][\A tx \in sent \ sent' :
           LET m == tx.msg_hash IN
           PubkeyIndex(m)' = PubkeyIndex(m) \o tx.signer_indexes =>
               \A k \in DOMAIN tx.signers : GuardianAt(tx.signer_indexes[k]) = tx.signers[k]
      ]_relayVars

=============================================================================
