----------------------------- MODULE Guardians -----------------------------
(***************************************************************************)
(* The guardian multi-signature of one deployment of the bridge program:   *)
(* the GuardianInfo account, the threshold kept in the BridgeHandler, and  *)
(* one VerifiedSignatures account per message hash.                        *)
(*                                                                         *)
(* A guardian signs a message hash off chain (Attest).  Anyone can submit  *)
(* a batch of signatures with verify_signature, which appends the          *)
(* guardians' 0-based indexes to the record of that hash; a target-chain   *)
(* handler later counts the indexes against the threshold and closes the   *)
(* record (ConsumeSignatures).  Meanwhile the manager may add and remove   *)
(* guardians, and removing one moves the indexes of those behind it.       *)
(*                                                                         *)
(* The program finds keys and message in the bytes of an Ed25519           *)
(* instruction; the precompile has checked the bytes the instruction       *)
(* indexes lead to.  The two are the same only when the indexes name the   *)
(* instruction itself, which verify_ed25519.rs reads and never compares.   *)
(* So a batch says where its indexes point, and what is promised of a      *)
(* record is promised while no batch in it pointed elsewhere and no        *)
(* removal has shifted it: while its message is not in disturbed.          *)
(*                                                                         *)
(* A message stands for its SHA-256 hash: the hash is taken as injective.  *)
(***************************************************************************)
EXTENDS Integers, FiniteSets, Sequences, SequencesExt

CONSTANTS
    Guardian,                 \* keys the manager may register
    Message,                  \* messages guardians may be asked to sign
    MAX_GUARDIAN_COUNT,       \* length of GuardianInfo.guardians
    MAX_GUARDIAN_SIGNATURES,  \* length of VerifiedSignatures.pubkey_index
    InstructionIndex,         \* where the Ed25519 data of clients points: "this",
                              \* its own instruction, or "other", anywhere else
    MaxTime                   \* bound on the clock

UNSET_THRESHOLD == 255        \* u8::MAX, written by initialize

\* The counts are array lengths, small enough for the u8 casts to be exact.
ASSUME CountAssumption ==
    /\ MAX_GUARDIAN_COUNT \in 1..(UNSET_THRESHOLD - 1)
    /\ MAX_GUARDIAN_SIGNATURES \in Nat \ {0}

ASSUME TimeAssumption == MaxTime \in Nat

ASSUME InstructionIndexAssumption ==
    "this" \in InstructionIndex /\ InstructionIndex \subseteq {"this", "other"}

VARIABLES
    guardians,  \* GuardianInfo.guardians
    threshold,  \* BridgeHandler.guardian_threshold
    verified,   \* the open VerifiedSignatures accounts, by message
    now,        \* Clock.unix_timestamp
    attested,   \* external: the messages each guardian has signed
    disturbed   \* history: messages whose record may name a guardian who has
                \* not signed: a removal has shifted it, or a batch whose
                \* Ed25519 data pointed elsewhere was added to it

guardianVars == <<guardians, threshold, verified, now, attested, disturbed>>

\* The manager never finds the same key twice in the list (add_guardian).
GuardianSet == ToSet(guardians)

\* The guardian an index of a record names now.
GuardianAt(index) == guardians[index + 1]

\* The indexes recorded for m: none while its account does not exist.
PubkeyIndex(m) == IF m \in DOMAIN verified THEN verified[m].pubkey_index ELSE <<>>

-----------------------------------------------------------------------------
\* initialize: no guardians, and a threshold no list can reach.
GuardiansInit ==
    /\ guardians = <<>>
    /\ threshold = UNSET_THRESHOLD
    /\ verified = <<>>
    /\ now = 0
    /\ attested = [g \in Guardian |-> {}]
    /\ disturbed = {}

\* Variant: add_guardian without its check for a registered key.
AddGuardianAgain(g) ==
    /\ Len(guardians) < MAX_GUARDIAN_COUNT
    /\ guardians' = Append(guardians, g)
    /\ UNCHANGED <<threshold, verified, now, attested, disturbed>>

\* The 16th key does not fit into the account, so the write fails.
AddGuardian(g) ==
    /\ g \notin GuardianSet
    /\ Len(guardians) < MAX_GUARDIAN_COUNT
    /\ guardians' = Append(guardians, g)
    /\ UNCHANGED <<threshold, verified, now, attested, disturbed>>

\* The records of verify_signature are not looked at: an index at or behind
\* the removed one now names the next guardian, or nobody.
RemoveGuardian(g) ==
    \E i \in 1..Len(guardians) :
        /\ guardians[i] = g
        /\ Len(guardians) - 1 >= threshold
        /\ guardians' = RemoveAt(guardians, i)
        /\ disturbed' = disturbed \cup
               {m \in DOMAIN verified :
                    \E k \in DOMAIN PubkeyIndex(m) : PubkeyIndex(m)[k] + 1 >= i}
        /\ UNCHANGED <<threshold, verified, now, attested>>

\* Variant: half of the guardians is enough.
UpdateGuardianThresholdHalf(t) ==
    /\ 0 < t /\ t <= MAX_GUARDIAN_COUNT
    /\ t >= Len(guardians) \div 2
    /\ Len(guardians) >= t
    /\ threshold' = t
    /\ UNCHANGED <<guardians, verified, now, attested, disturbed>>

\* Variant: update_guardian_threshold without the upper bound.
UpdateGuardianThresholdBeyond(t) ==
    /\ t >= Len(guardians) \div 2 + 1
    /\ threshold' = t
    /\ UNCHANGED <<guardians, verified, now, attested, disturbed>>

UpdateGuardianThreshold(t) ==
    /\ 0 < t /\ t <= MAX_GUARDIAN_COUNT
    /\ t >= Len(guardians) \div 2 + 1
    /\ Len(guardians) >= t
    /\ threshold' = t
    /\ UNCHANGED <<guardians, verified, now, attested, disturbed>>

\* External: a guardian accepts a source-chain transaction and signs the hash.
Attest(g, m) ==
    /\ m \notin attested[g]
    /\ attested' = [attested EXCEPT ![g] = @ \cup {m}]
    /\ UNCHANGED <<guardians, threshold, verified, now, disturbed>>

\* The indexes name registered guardians; what verify_ed25519_ix compares with
\* the instruction's bytes are their keys.
NamesGuardians(signer_indexes) ==
    \A k \in DOMAIN signer_indexes : signer_indexes[k] < Len(guardians)

\* What the precompile has checked besides when the instruction points at its own
\* bytes: one signature of m by every guardian the indexes name.
VerifyEd25519(signer_indexes, m) ==
    /\ NamesGuardians(signer_indexes)
    /\ \A k \in DOMAIN signer_indexes : m \in attested[GuardianAt(signer_indexes[k])]

\* Variant: repeats are looked for in the batch, not in the record.
NewSignersInBatch(m, signer_indexes) == IsInjective(signer_indexes)

\* No index of the batch is in the record already, or twice in the batch.
NewSigners(m, signer_indexes) ==
    /\ \A k \in DOMAIN signer_indexes : ~ Contains(PubkeyIndex(m), signer_indexes[k])
    /\ IsInjective(signer_indexes)

\* Variant: the last guardian's signature is one too many.
FitsRecordStrictly(total) == total < Len(guardians) /\ total <= MAX_GUARDIAN_SIGNATURES

FitsRecord(total) == total <= Len(guardians) /\ total <= MAX_GUARDIAN_SIGNATURES

\* The record takes the whole batch or none of it.  Every batch stamps
\* created_at anew, also one that adds to an old record.
RecordSignatures(m, signer_indexes) ==
    /\ signer_indexes # <<>>
    /\ Len(signer_indexes) <= Len(guardians)
    /\ NewSigners(m, signer_indexes)
    /\ FitsRecord(Len(PubkeyIndex(m)) + Len(signer_indexes))
    /\ verified' = [x \in DOMAIN verified \cup {m} |->
           IF x = m THEN [pubkey_index |-> PubkeyIndex(m) \o signer_indexes,
                          created_at |-> now]
                    ELSE verified[x]]
    /\ UNCHANGED <<guardians, threshold, now, attested>>

\* The record of m is no longer vouched for by a batch that points elsewhere.
DisturbRecord(m, at) ==
    disturbed' = IF at = "this" THEN disturbed ELSE disturbed \cup {m}

\* at: where the instruction indexes of the Ed25519 instruction before point.
\* Pointing elsewhere, a submitter can have any signature checked there.
VerifySignature(m, signer_indexes, at) ==
    /\ NamesGuardians(signer_indexes)
    /\ at = "this" => VerifyEd25519(signer_indexes, m)
    /\ RecordSignatures(m, signer_indexes)
    /\ DisturbRecord(m, at)

\* Variant: the handlers forget to compare the count with the threshold.
HasAnySignature(m) ==
    /\ m \in DOMAIN verified
    /\ Len(PubkeyIndex(m)) \in 1..Len(guardians)

\* Variant: the count must exceed the threshold.
HasMoreThanQuorum(m) == HasAnySignature(m) /\ Len(PubkeyIndex(m)) > threshold

\* What both target-chain handlers require of the record.
HasQuorum(m) ==
    /\ m \in DOMAIN verified
    /\ Len(PubkeyIndex(m)) > 0
    /\ Len(PubkeyIndex(m)) <= Len(guardians)
    /\ Len(PubkeyIndex(m)) <= MAX_GUARDIAN_SIGNATURES
    /\ Len(PubkeyIndex(m)) >= threshold

\* A target-chain handler that succeeds closes the account it has counted.
ConsumeSignatures(m) ==
    /\ HasQuorum(m)
    /\ verified' = [x \in DOMAIN verified \ {m} |-> verified[x]]
    /\ disturbed' = disturbed \ {m}
    /\ UNCHANGED <<guardians, threshold, now, attested>>

\* External: the cluster's clock advances.
Tick ==
    /\ now < MaxTime
    /\ now' = now + 1
    /\ UNCHANGED <<guardians, threshold, verified, attested, disturbed>>

\* The indexes a submitter can pass without a panic, in any order and number.
Index == 0..(MAX_GUARDIAN_COUNT - 1)
SignerIndexes == UNION {[1..n -> Index] : n \in 1..MAX_GUARDIAN_COUNT}

AnyAddGuardian == \E g \in Guardian : AddGuardian(g)
AnyRemoveGuardian == \E g \in Guardian : RemoveGuardian(g)
AnyUpdateGuardianThreshold == \E t \in 1..MAX_GUARDIAN_COUNT : UpdateGuardianThreshold(t)
AnyAttest == \E g \in Guardian, m \in Message : Attest(g, m)
AnyVerifySignature ==
    \E m \in Message, s \in SignerIndexes, at \in InstructionIndex :
        VerifySignature(m, s, at)
AnyConsumeSignatures == \E m \in Message : ConsumeSignatures(m)

GuardiansNext ==
    \/ AnyAddGuardian
    \/ AnyRemoveGuardian
    \/ AnyUpdateGuardianThreshold
    \/ AnyAttest
    \/ AnyVerifySignature
    \/ AnyConsumeSignatures
    \/ Tick

GuardiansSpec == GuardiansInit /\ [][GuardiansNext]_guardianVars

-----------------------------------------------------------------------------
VerifiedSignatures == [pubkey_index : Seq(Index), created_at : 0..MaxTime]

\* Types of the accounts: a list of at most 15 distinct keys, a threshold of
\* 1..15 or still 255, records of at most 10 distinct indexes.
TypeOK ==
    /\ guardians \in Seq(Guardian)
    /\ Len(guardians) <= MAX_GUARDIAN_COUNT
    /\ IsInjective(guardians)
    /\ threshold \in (1..MAX_GUARDIAN_COUNT) \cup {UNSET_THRESHOLD}
    /\ DOMAIN verified \subseteq Message
    /\ verified \in [DOMAIN verified -> VerifiedSignatures]
    /\ now \in 0..MaxTime
    /\ attested \in [Guardian -> SUBSET Message]
    /\ disturbed \subseteq DOMAIN verified

\* Once set, the threshold never exceeds the number of guardians registered now,
\* after any sequence of additions, removals and threshold updates.  It may
\* still exceed MAX_GUARDIAN_SIGNATURES, and then no record ever meets it: see
\* Collectable.
ThresholdWithinList == threshold # UNSET_THRESHOLD => threshold <= Len(guardians)

\* No record counts an index twice or holds more than the account's ten.  In a
\* record that no removal has shifted and to which every batch came with an
\* Ed25519 instruction that pointed at itself, each index names a registered
\* guardian who did sign the message: there the count the handlers compare with
\* the threshold is a count of guardians.
RecordsNameSigners ==
    \A m \in DOMAIN verified :
        /\ IsInjective(PubkeyIndex(m))
        /\ Len(PubkeyIndex(m)) \in 1..MAX_GUARDIAN_SIGNATURES
        /\ m \notin disturbed =>
               /\ Len(PubkeyIndex(m)) <= Len(guardians)
               /\ VerifyEd25519(PubkeyIndex(m), m)

\* The guardians registered now that signed m.
Signers(m) == {g \in GuardianSet : m \in attested[g]}

\* A payout closes an undisturbed record (not shifted by a removal, and made of
\* batches whose Ed25519 instructions pointed at themselves) only when at least
\* a threshold of different guardians, all still registered, signed that very
\* message.
QuorumBacksPayout ==
    [][\A m \in Message :
           /\ m \in DOMAIN verified
           /\ m \notin DOMAIN verified'
           /\ m \notin disturbed
           => Cardinality(Signers(m)) >= threshold]_guardianVars

\* README: a message executes only if the threshold of guardians signed it.
\* Here for every record, disturbed or not, and for signatures of guardians
\* registered now or before.
ThresholdOfGuardians ==
    [][\A m \in Message :
           /\ m \in DOMAIN verified
           /\ m \notin DOMAIN verified'
           => Cardinality({g \in Guardian : m \in attested[g]}) >= threshold]_guardianVars

\* A message all registered guardians have signed, in whose record removals have
\* left no index behind the end of the list, with a threshold that fits into one
\* record.
Collectable(m) ==
    /\ threshold <= MAX_GUARDIAN_SIGNATURES
    /\ Signers(m) = GuardianSet
    /\ NamesGuardians(PubkeyIndex(m))

\* Signatures that can be collected are collected: the relayer brings such a
\* message to a quorum, whatever batches others submit meanwhile, unless the
\* manager changes the guardians or the threshold under it.
CollectableReachesQuorum ==
    \A m \in Message : Collectable(m) ~> (HasQuorum(m) \/ ~Collectable(m))

\* Neither removals nor threshold updates turn a threshold that takes more than
\* half of the guardians into one that does not: only adding guardians, which
\* leaves the threshold alone, does.
TakesMajority == threshold >= Len(guardians) \div 2 + 1
MajorityLostByAddingOnly ==
    [][TakesMajority /\ ~ TakesMajority' => Len(guardians') > Len(guardians)]_guardianVars

\* The guardians the indexes of m's record name.
Named(m) == {GuardianAt(PubkeyIndex(m)[k]) : k \in DOMAIN PubkeyIndex(m)}

\* A batch that changes an open record, and with it restarts the waiting time
\* of a payout beyond the allowance, keeps the guardians counted so far and
\* brings at least one more; and every one of them, the new one included, has
\* signed the message as long as the record is undisturbed.  So resubmissions
\* cannot put a payout off forever.
RestartsBringNewSigner ==
    [][\A m \in (DOMAIN verified \cap DOMAIN verified') \ disturbed :
           verified'[m] # verified[m] =>
               /\ Named(m) \subseteq Named(m)' /\ Named(m) # Named(m)'
               /\ m \notin disturbed' => Named(m)' \subseteq Signers(m)]_guardianVars

=============================================================================
