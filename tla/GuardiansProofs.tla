-------------------------- MODULE GuardiansProofs --------------------------
(***************************************************************************)
(* What holds of the guardian multi-signature for any number of guardians, *)
(* messages and signatures.                                                *)
(***************************************************************************)
EXTENDS Guardians, TLAPS, SequenceTheorems, FunctionTheorems, FiniteSetTheorems

(***************************************************************************)
(* The inductive invariant.  RecordsNameSigners needs the types (a removal *)
(* shifts a list without duplicates), ThresholdWithinList needs the length  *)
(* bound: with the threshold still 255 no guardian can be removed.         *)
(***************************************************************************)
IInv == TypeOK /\ ThresholdWithinList /\ RecordsNameSigners

-----------------------------------------------------------------------------
(***************************************************************************)
(* Sequences.                                                              *)
(***************************************************************************)

\* Vec::retain on a list with one match: what is behind it moves up by one.
LEMMA RemoveAtProperties ==
    ASSUME NEW S, NEW s \in Seq(S), NEW i \in 1..Len(s)
    PROVE  /\ RemoveAt(s, i) \in Seq(S)
           /\ Len(RemoveAt(s, i)) = Len(s) - 1
           /\ \A j \in 1..(Len(s) - 1) :
                  RemoveAt(s, i)[j] = IF j < i THEN s[j] ELSE s[j + 1]
<1> DEFINE a == SubSeq(s, 1, i - 1)
           b == SubSeq(s, i + 1, Len(s))
<1>0. Len(s) \in Nat /\ \A j \in 1..Len(s) : s[j] \in S
  BY LenProperties, ElementOfSeq
<1>1. /\ a \in Seq(S)
      /\ Len(a) = i - 1
      /\ \A j \in 1..(i - 1) : a[j] = s[j]
  BY <1>0, SubSeqProperties
<1>2. /\ b \in Seq(S)
      /\ Len(b) = Len(s) - i
      /\ \A j \in 1..(Len(s) - i) : b[j] = s[j + i]
  <2>1. /\ b \in Seq(S)
        /\ Len(b) = IF i + 1 <= Len(s) THEN Len(s) - (i + 1) + 1 ELSE 0
        /\ \A j \in 1..(Len(s) - (i + 1) + 1) : b[j] = s[(i + 1) + j - 1]
    BY <1>0, SubSeqProperties, i + 1 \in Int, Len(s) \in Int
  <2>2. QED
    BY <1>0, <2>1
<1>3. /\ a \o b \in Seq(S)
      /\ Len(a \o b) = Len(a) + Len(b)
      /\ \A j \in 1..(Len(a) + Len(b)) :
             (a \o b)[j] = IF j <= Len(a) THEN a[j] ELSE b[j - Len(a)]
  BY <1>1, <1>2, ConcatProperties
<1> HIDE DEF a, b
<1>4. RemoveAt(s, i) = a \o b
  BY DEF RemoveAt, a, b
<1>5. ASSUME NEW j \in 1..(Len(s) - 1)
      PROVE  (a \o b)[j] = IF j < i THEN s[j] ELSE s[j + 1]
  <2>1. CASE j < i
    BY <1>0, <1>1, <1>2, <1>3, <2>1
  <2>2. CASE ~(j < i)
    <3>1. (a \o b)[j] = b[j - (i - 1)]
      BY <1>0, <1>1, <1>2, <1>3, <2>2
    <3>2. j - (i - 1) \in 1..(Len(s) - i)
      BY <1>0, <2>2
    <3>3. b[j - (i - 1)] = s[(j - (i - 1)) + i]
      BY <1>2, <3>2
    <3>4. (j - (i - 1)) + i = j + 1
      BY <1>0
    <3>5. QED
      BY <2>2, <3>1, <3>3, <3>4
  <2>3. QED
    BY <2>1, <2>2
<1>6. QED
  BY <1>0, <1>1, <1>2, <1>3, <1>4, <1>5

\* A sequence without repetition has at most as many elements as its range.
LEMMA InjectiveLength ==
    ASSUME NEW T, IsFiniteSet(T), NEW s \in Seq(T), IsInjective(s)
    PROVE  Len(s) <= Cardinality(T)
<1>1. Len(s) \in Nat /\ s \in [1..Len(s) -> T] /\ DOMAIN s = 1..Len(s)
  BY LenProperties
<1>2. s \in Injection(1..Len(s), T)
  BY <1>1 DEF Injection
<1>3. Cardinality(1..Len(s)) <= Cardinality(T)
  BY <1>2, FS_Injection
<1>4. Cardinality(1..Len(s)) = Len(s)
  BY <1>1, FS_Interval
<1>5. QED
  BY <1>3, <1>4

\* Different indexes below n: at most n of them.
LEMMA IndexCount ==
    ASSUME NEW n \in Nat, NEW s \in Seq(Nat), IsInjective(s),
           \A k \in 1..Len(s) : s[k] < n
    PROVE  Len(s) <= n
<1>1. Len(s) \in Nat /\ s \in [1..Len(s) -> Nat]
  BY LenProperties
<1>2. s \in [1..Len(s) -> 0..(n - 1)]
  BY <1>1
<1>3. s \in Seq(0..(n - 1))
  BY <1>1, <1>2, SeqDef
<1>4. IsFiniteSet(0..(n - 1)) /\ Cardinality(0..(n - 1)) = n
  BY FS_Interval
<1>5. QED
  BY <1>3, <1>4, InjectiveLength

-----------------------------------------------------------------------------
(***************************************************************************)
(* The records.                                                            *)
(***************************************************************************)

\* A record lists indexes.
LEMMA PubkeyIndexType ==
    ASSUME TypeOK, NEW m
    PROVE  /\ PubkeyIndex(m) \in Seq(Index)
           /\ PubkeyIndex(m) \in Seq(Nat)
           /\ Len(PubkeyIndex(m)) \in Nat
           /\ DOMAIN PubkeyIndex(m) = 1..Len(PubkeyIndex(m))
           /\ \A k \in 1..Len(PubkeyIndex(m)) : PubkeyIndex(m)[k] \in Index
<1>1. PubkeyIndex(m) \in Seq(Index)
  BY EmptySeq DEF TypeOK, PubkeyIndex, VerifiedSignatures
<1>2. Index \subseteq Nat
  BY CountAssumption DEF Index
<1>3. QED
  BY <1>1, <1>2, LenProperties, SeqMonotonic

\* The list has at most MAX_GUARDIAN_COUNT different keys.
LEMMA GuardiansType ==
    ASSUME TypeOK
    PROVE  /\ Len(guardians) \in 0..MAX_GUARDIAN_COUNT
           /\ DOMAIN guardians = 1..Len(guardians)
           /\ \A i \in 1..Len(guardians) : guardians[i] \in Guardian
           /\ \A i, j \in 1..Len(guardians) : guardians[i] = guardians[j] => i = j
BY LenProperties, CountAssumption DEF TypeOK, IsInjective

\* An action that leaves the records and the list alone keeps their meaning.
LEMMA UnchangedRecords ==
    ASSUME RecordsNameSigners, UNCHANGED <<guardians, verified, attested, disturbed>>
    PROVE  RecordsNameSigners'
BY DEF RecordsNameSigners, PubkeyIndex, VerifyEd25519, NamesGuardians, GuardianAt

-----------------------------------------------------------------------------
(***************************************************************************)
(* Each action preserves the invariant.                                    *)
(***************************************************************************)

\* The invariant holds at the start.
LEMMA InitInvariant == GuardiansInit => IInv
<1> SUFFICES ASSUME GuardiansInit PROVE IInv
  OBVIOUS
<1>1. TypeOK
  BY CountAssumption, TimeAssumption, EmptySeq
     DEF GuardiansInit, TypeOK, IsInjective, UNSET_THRESHOLD
<1>2. ThresholdWithinList
  BY DEF GuardiansInit, ThresholdWithinList
<1>3. RecordsNameSigners
  BY DEF GuardiansInit, RecordsNameSigners
<1>4. QED
  BY <1>1, <1>2, <1>3 DEF IInv

\* Adding a guardian keeps the invariant.
LEMMA AddGuardianInvariant ==
    ASSUME IInv, NEW g \in Guardian, AddGuardian(g)
    PROVE  IInv'
<1> USE DEF IInv
<1>1. /\ guardians' \in Seq(Guardian)
      /\ Len(guardians') = Len(guardians) + 1
      /\ \A i \in 1..Len(guardians) : guardians'[i] = guardians[i]
      /\ guardians'[Len(guardians) + 1] = g
  BY AppendProperties DEF AddGuardian, TypeOK
<1>2. \A i \in 1..Len(guardians) : guardians[i] # g
  BY GuardiansType DEF AddGuardian, GuardianSet, ToSet
<1>3. IsInjective(guardians')
  <2>1. DOMAIN guardians' = 1..(Len(guardians) + 1)
    BY <1>1, LenProperties
  <2>2. QED
    BY <1>1, <1>2, <2>1, GuardiansType DEF IsInjective
<1>4. TypeOK'
  <2>1. Len(guardians') <= MAX_GUARDIAN_COUNT
    BY <1>1, GuardiansType, CountAssumption DEF AddGuardian
  <2>2. QED
    BY <1>1, <1>3, <2>1 DEF AddGuardian, TypeOK, VerifiedSignatures
<1>5. ThresholdWithinList'
  BY <1>1, GuardiansType DEF AddGuardian, ThresholdWithinList, TypeOK
<1>6. RecordsNameSigners'
  <2> SUFFICES ASSUME NEW m \in DOMAIN verified, m \notin disturbed
               PROVE  /\ Len(PubkeyIndex(m)) <= Len(guardians')
                      /\ \A k \in DOMAIN PubkeyIndex(m) :
                             /\ PubkeyIndex(m)[k] < Len(guardians')
                             /\ m \in attested[guardians'[PubkeyIndex(m)[k] + 1]]
    BY DEF AddGuardian, RecordsNameSigners, PubkeyIndex, VerifyEd25519, NamesGuardians, GuardianAt
  <2>1. /\ Len(PubkeyIndex(m)) <= Len(guardians)
        /\ \A k \in DOMAIN PubkeyIndex(m) :
               /\ PubkeyIndex(m)[k] < Len(guardians)
               /\ m \in attested[guardians[PubkeyIndex(m)[k] + 1]]
    BY DEF RecordsNameSigners, VerifyEd25519, NamesGuardians, GuardianAt
  <2>2. \A k \in DOMAIN PubkeyIndex(m) : PubkeyIndex(m)[k] \in Nat
    BY PubkeyIndexType, LenProperties
  <2>3. \A k \in DOMAIN PubkeyIndex(m) : PubkeyIndex(m)[k] + 1 \in 1..Len(guardians)
    BY <2>1, <2>2, GuardiansType
  <2>4. QED
    BY <1>1, <2>1, <2>2, <2>3, GuardiansType, PubkeyIndexType
<1>7. QED
  BY <1>4, <1>5, <1>6

\* A record that stays undisturbed has only indexes below the removed one.
LEMMA RemoveGuardianInvariant ==
    ASSUME IInv, NEW g \in Guardian, RemoveGuardian(g)
    PROVE  IInv'
<1> USE DEF IInv
<1>0. PICK i \in 1..Len(guardians) :
         /\ Len(guardians) - 1 >= threshold
         /\ guardians' = RemoveAt(guardians, i)
         /\ disturbed' = disturbed \cup
                {m \in DOMAIN verified :
                     \E k \in DOMAIN PubkeyIndex(m) : PubkeyIndex(m)[k] + 1 >= i}
         /\ UNCHANGED <<threshold, verified, now, attested>>
  BY DEF RemoveGuardian
<1>1. /\ guardians' \in Seq(Guardian)
      /\ Len(guardians') = Len(guardians) - 1
      /\ \A j \in 1..(Len(guardians) - 1) :
            guardians'[j] = IF j < i THEN guardians[j] ELSE guardians[j + 1]
  BY <1>0, RemoveAtProperties DEF TypeOK
<1>2. DOMAIN guardians' = 1..(Len(guardians) - 1)
  BY <1>1, LenProperties
<1>3. IsInjective(guardians')
  <2> SUFFICES ASSUME NEW a \in 1..(Len(guardians) - 1),
                      NEW b \in 1..(Len(guardians) - 1),
                      guardians'[a] = guardians'[b]
               PROVE  a = b
    BY <1>2 DEF IsInjective
  <2> DEFINE p(j) == IF j < i THEN j ELSE j + 1
  <2>1. \A j \in 1..(Len(guardians) - 1) :
            p(j) \in 1..Len(guardians) /\ guardians'[j] = guardians[p(j)]
    BY <1>1, GuardiansType
  <2>2. p(a) = p(b)
    BY <2>1, GuardiansType
  <2>3. QED
    BY <2>2, GuardiansType
<1>4. TypeOK'
  <2>1. /\ guardians' \in Seq(Guardian)
        /\ Len(guardians') <= MAX_GUARDIAN_COUNT
        /\ IsInjective(guardians')
    BY <1>1, <1>3, GuardiansType, CountAssumption
  <2>2. disturbed' \subseteq DOMAIN verified'
    BY <1>0 DEF TypeOK
  <2>3. QED
    BY <1>0, <2>1, <2>2 DEF TypeOK, VerifiedSignatures
<1>5. ThresholdWithinList'
  BY <1>0, <1>1 DEF ThresholdWithinList
<1>6. RecordsNameSigners'
  <2>1. ASSUME NEW m \in DOMAIN verified, m \notin disturbed'
        PROVE  /\ Len(PubkeyIndex(m)) <= Len(guardians')
               /\ \A k \in DOMAIN PubkeyIndex(m) :
                      /\ PubkeyIndex(m)[k] < Len(guardians')
                      /\ m \in attested[guardians'[PubkeyIndex(m)[k] + 1]]
    <3>1. m \notin disturbed
      BY <1>0, <2>1
    <3>2. \A k \in 1..Len(PubkeyIndex(m)) :
              PubkeyIndex(m)[k] \in Nat /\ PubkeyIndex(m)[k] < i - 1
      BY <1>0, <2>1, PubkeyIndexType
    <3>3. Len(PubkeyIndex(m)) <= i - 1
      <4>1. i - 1 \in Nat
        BY GuardiansType
      <4>2. PubkeyIndex(m) \in Seq(Nat) /\ IsInjective(PubkeyIndex(m))
        BY <2>1, PubkeyIndexType DEF RecordsNameSigners
      <4>3. QED
        BY <3>2, <4>1, <4>2, IndexCount
    <3>4. \A k \in 1..Len(PubkeyIndex(m)) :
              m \in attested[guardians[PubkeyIndex(m)[k] + 1]]
      BY <2>1, <3>1, PubkeyIndexType DEF RecordsNameSigners, VerifyEd25519, NamesGuardians,
         GuardianAt
    <3>5. \A k \in 1..Len(PubkeyIndex(m)) :
              guardians'[PubkeyIndex(m)[k] + 1] = guardians[PubkeyIndex(m)[k] + 1]
      BY <1>1, <3>2, GuardiansType
    <3>6. Len(PubkeyIndex(m)) <= Len(guardians')
      BY <1>1, <3>3, PubkeyIndexType, GuardiansType
    <3>7. \A k \in 1..Len(PubkeyIndex(m)) : PubkeyIndex(m)[k] < Len(guardians')
      BY <1>1, <3>2, GuardiansType
    <3>8. DOMAIN PubkeyIndex(m) = 1..Len(PubkeyIndex(m))
      BY PubkeyIndexType
    <3>9. QED
      BY <3>4, <3>5, <3>6, <3>7, <3>8
  <2>2. QED
    BY <1>0, <2>1 DEF RecordsNameSigners, PubkeyIndex, VerifyEd25519, NamesGuardians, GuardianAt
<1>7. QED
  BY <1>4, <1>5, <1>6

\* Appending a batch whose indexes are new and different keeps a record free
\* of repetitions.
LEMMA VerifySignatureInvariant ==
    ASSUME IInv, NEW m \in Message, NEW s \in SignerIndexes, NEW at,
           VerifySignature(m, s, at)
    PROVE  IInv'
<1> USE DEF IInv
<1> DEFINE old == PubkeyIndex(m)
<1>0. s \in Seq(Index) /\ Len(s) \in Nat /\ DOMAIN s = 1..Len(s)
  <2>1. PICK n \in 1..MAX_GUARDIAN_COUNT : s \in [1..n -> Index]
    BY DEF SignerIndexes
  <2>2. s \in Seq(Index)
    BY <2>1, SeqDef, CountAssumption
  <2>3. QED
    BY <2>2, LenProperties
<1>1. /\ old \in Seq(Index)
      /\ Len(old) \in Nat
      /\ DOMAIN old = 1..Len(old)
  BY PubkeyIndexType
<1>2. /\ old \o s \in Seq(Index)
      /\ Len(old \o s) = Len(old) + Len(s)
      /\ DOMAIN (old \o s) = 1..(Len(old) + Len(s))
      /\ \A k \in 1..(Len(old) + Len(s)) :
             (old \o s)[k] = IF k <= Len(old) THEN old[k] ELSE s[k - Len(old)]
  BY <1>0, <1>1, ConcatProperties, LenProperties
<1>3. IsInjective(old)
  BY <1>1, EmptySeq DEF RecordsNameSigners, PubkeyIndex, IsInjective
<1>4. \A k \in 1..Len(s), j \in 1..Len(old) : old[j] # s[k]
  BY <1>0, <1>1 DEF VerifySignature, RecordSignatures, NewSigners, Contains
<1>5. IsInjective(s)
  BY DEF VerifySignature, RecordSignatures, NewSigners
<1> HIDE DEF old
<1>6. IsInjective(old \o s)
  <2> SUFFICES ASSUME NEW a \in 1..(Len(old) + Len(s)), NEW b \in 1..(Len(old) + Len(s)),
                      (old \o s)[a] = (old \o s)[b]
               PROVE  a = b
    BY <1>2 DEF IsInjective
  <2>1. CASE a <= Len(old) /\ b <= Len(old)
    BY <1>1, <1>2, <1>3, <2>1 DEF IsInjective
  <2>2. CASE a <= Len(old) /\ ~(b <= Len(old))
    BY <1>0, <1>1, <1>2, <1>4, <2>2
  <2>3. CASE ~(a <= Len(old)) /\ b <= Len(old)
    BY <1>0, <1>1, <1>2, <1>4, <2>3
  <2>4. CASE ~(a <= Len(old)) /\ ~(b <= Len(old))
    <3>1. a - Len(old) \in 1..Len(s) /\ b - Len(old) \in 1..Len(s)
      BY <1>0, <1>1, <2>4
    <3>2. s[a - Len(old)] = s[b - Len(old)]
      BY <1>2, <2>4
    <3>3. a - Len(old) = b - Len(old)
      BY <1>0, <1>5, <3>1, <3>2 DEF IsInjective
    <3>4. QED
      BY <1>0, <1>1, <3>3
  <2>5. QED
    BY <2>1, <2>2, <2>3, <2>4
<1>7. /\ DOMAIN verified' = DOMAIN verified \cup {m}
      /\ verified'[m] = [pubkey_index |-> old \o s, created_at |-> now]
      /\ \A x \in DOMAIN verified \ {m} : verified'[x] = verified[x]
      /\ UNCHANGED <<guardians, threshold, now, attested>>
      /\ verified' = [x \in DOMAIN verified' |-> verified'[x]]
  BY DEF VerifySignature, RecordSignatures, old
<1>70. /\ disturbed \subseteq disturbed' /\ disturbed' \subseteq disturbed \cup {m}
       /\ m \notin disturbed' => m \notin disturbed /\ at = "this"
  BY DEF VerifySignature, DisturbRecord
<1>8. TypeOK'
  <2>1. verified' \in [DOMAIN verified' -> VerifiedSignatures]
    <3>1. [pubkey_index |-> old \o s, created_at |-> now] \in VerifiedSignatures
      BY <1>2 DEF TypeOK, VerifiedSignatures
    <3>2. \A x \in DOMAIN verified : verified[x] \in VerifiedSignatures
      BY DEF TypeOK
    <3>3. \A x \in DOMAIN verified' : verified'[x] \in VerifiedSignatures
      BY <1>7, <3>1, <3>2
    <3>4. QED
      BY <1>7, <3>3
  <2>2. disturbed' \subseteq DOMAIN verified'
    BY <1>7, <1>70 DEF TypeOK
  <2>3. QED
    BY <1>7, <2>1, <2>2 DEF TypeOK
<1>9. ThresholdWithinList'
  BY <1>7 DEF ThresholdWithinList
<1>10. PubkeyIndex(m)' = old \o s
  BY <1>7 DEF PubkeyIndex
<1>11. \A x \in DOMAIN verified \ {m} : PubkeyIndex(x)' = PubkeyIndex(x)
  BY <1>7 DEF PubkeyIndex
<1>12. /\ Len(old \o s) \in 1..MAX_GUARDIAN_SIGNATURES
       /\ Len(old \o s) <= Len(guardians)
  BY <1>0, <1>1, <1>2, CountAssumption, EmptySeq
     DEF VerifySignature, RecordSignatures, FitsRecord, old
<1>13. ASSUME m \notin disturbed'
       PROVE  VerifyEd25519(old \o s, m)
  <2>1. VerifyEd25519(s, m)
    BY <1>13, <1>70 DEF VerifySignature
  <2>2. VerifyEd25519(old, m)
    <3>1. CASE m \in DOMAIN verified
      BY <1>13, <1>70, <3>1 DEF RecordsNameSigners, old
    <3>2. CASE m \notin DOMAIN verified
      BY <3>2 DEF PubkeyIndex, old, VerifyEd25519, NamesGuardians
    <3>3. QED
      BY <3>1, <3>2
  <2>3. QED
    BY <1>0, <1>1, <1>2, <2>1, <2>2 DEF VerifyEd25519, NamesGuardians, GuardianAt
<1>14. RecordsNameSigners'
  <2> SUFFICES ASSUME NEW x \in (DOMAIN verified)'
               PROVE  /\ IsInjective(PubkeyIndex(x)')
                      /\ Len(PubkeyIndex(x)') \in 1..MAX_GUARDIAN_SIGNATURES
                      /\ x \notin disturbed' =>
                             /\ Len(PubkeyIndex(x)') <= Len(guardians')
                             /\ VerifyEd25519(PubkeyIndex(x), x)'
    BY DEF RecordsNameSigners
  <2>1. CASE x = m
    BY <1>6, <1>7, <1>10, <1>12, <1>13, <2>1 DEF VerifyEd25519, NamesGuardians, GuardianAt
  <2>2. CASE x # m
    BY <1>7, <1>70, <1>11, <2>2 DEF RecordsNameSigners, VerifyEd25519, NamesGuardians, GuardianAt
  <2>3. QED
    BY <2>1, <2>2
<1>15. QED
  BY <1>8, <1>9, <1>14

\* Closing a record with a payout keeps the invariant.
LEMMA ConsumeSignaturesInvariant ==
    ASSUME IInv, NEW m \in Message, ConsumeSignatures(m)
    PROVE  IInv'
<1> USE DEF IInv
<1>1. /\ DOMAIN verified' = DOMAIN verified \ {m}
      /\ \A x \in DOMAIN verified \ {m} : verified'[x] = verified[x]
      /\ disturbed' = disturbed \ {m}
      /\ UNCHANGED <<guardians, threshold, now, attested>>
  BY DEF ConsumeSignatures
<1>2. TypeOK'
  BY DEF ConsumeSignatures, TypeOK, VerifiedSignatures
<1>3. ThresholdWithinList'
  BY <1>1 DEF ThresholdWithinList
<1>4. RecordsNameSigners'
  BY <1>1 DEF RecordsNameSigners, PubkeyIndex, VerifyEd25519, NamesGuardians, GuardianAt
<1>5. QED
  BY <1>2, <1>3, <1>4

\* A guardian's signature is never taken back.
LEMMA AttestInvariant ==
    ASSUME IInv, NEW g \in Guardian, NEW m \in Message, Attest(g, m)
    PROVE  IInv'
<1> USE DEF IInv
<1>1. TypeOK'
  BY DEF Attest, TypeOK, VerifiedSignatures
<1>2. ThresholdWithinList'
  BY DEF Attest, ThresholdWithinList
<1>3. ASSUME NEW h \in Guardian
      PROVE  attested[h] \subseteq attested'[h]
  BY DEF Attest, TypeOK
<1>4. \A x : PubkeyIndex(x)' = PubkeyIndex(x)
  BY DEF Attest, PubkeyIndex
<1>5. ASSUME NEW x \in DOMAIN verified, VerifyEd25519(PubkeyIndex(x), x)
      PROVE  VerifyEd25519(PubkeyIndex(x), x)'
  <2> SUFFICES ASSUME NEW k \in DOMAIN PubkeyIndex(x)
               PROVE  /\ PubkeyIndex(x)[k] < Len(guardians)
                      /\ x \in attested'[guardians[PubkeyIndex(x)[k] + 1]]
    BY <1>4 DEF Attest, VerifyEd25519, NamesGuardians, GuardianAt
  <2>1. /\ PubkeyIndex(x)[k] < Len(guardians)
        /\ x \in attested[guardians[PubkeyIndex(x)[k] + 1]]
    BY <1>5 DEF VerifyEd25519, NamesGuardians, GuardianAt
  <2>2. PubkeyIndex(x)[k] \in Nat
    BY PubkeyIndexType
  <2>3. guardians[PubkeyIndex(x)[k] + 1] \in Guardian
    BY <2>1, <2>2, GuardiansType
  <2>4. QED
    BY <1>3, <2>1, <2>3
<1>6. RecordsNameSigners'
  BY <1>4, <1>5 DEF Attest, RecordsNameSigners
<1>7. QED
  BY <1>1, <1>2, <1>6

\* Setting the threshold keeps the invariant.
LEMMA UpdateGuardianThresholdInvariant ==
    ASSUME IInv, NEW t \in 1..MAX_GUARDIAN_COUNT, UpdateGuardianThreshold(t)
    PROVE  IInv'
<1> USE DEF IInv
<1>1. TypeOK'
  BY DEF UpdateGuardianThreshold, TypeOK, VerifiedSignatures
<1>2. ThresholdWithinList'
  BY GuardiansType DEF UpdateGuardianThreshold, ThresholdWithinList
<1>3. RecordsNameSigners'
  BY UnchangedRecords DEF UpdateGuardianThreshold
<1>4. QED
  BY <1>1, <1>2, <1>3

\* Time passing keeps the invariant.
LEMMA TickInvariant == ASSUME IInv, Tick PROVE IInv'
<1> USE DEF IInv
<1>1. TypeOK'
  BY TimeAssumption DEF Tick, TypeOK, VerifiedSignatures
<1>2. ThresholdWithinList' /\ RecordsNameSigners'
  BY UnchangedRecords DEF Tick, ThresholdWithinList
<1>3. QED
  BY <1>1, <1>2

\* Every step of module Guardians keeps the invariant.
LEMMA NextInvariant == IInv /\ [GuardiansNext]_guardianVars => IInv'
<1> SUFFICES ASSUME IInv, [GuardiansNext]_guardianVars PROVE IInv'
  OBVIOUS
<1>1. CASE AnyAddGuardian
  BY <1>1, AddGuardianInvariant DEF AnyAddGuardian
<1>2. CASE AnyRemoveGuardian
  BY <1>2, RemoveGuardianInvariant DEF AnyRemoveGuardian
<1>3. CASE AnyUpdateGuardianThreshold
  BY <1>3, UpdateGuardianThresholdInvariant DEF AnyUpdateGuardianThreshold
<1>4. CASE AnyAttest
  BY <1>4, AttestInvariant DEF AnyAttest
<1>5. CASE AnyVerifySignature
  BY <1>5, VerifySignatureInvariant DEF AnyVerifySignature
<1>6. CASE AnyConsumeSignatures
  BY <1>6, ConsumeSignaturesInvariant DEF AnyConsumeSignatures
<1>7. CASE Tick
  BY <1>7, TickInvariant
<1>8. CASE UNCHANGED guardianVars
  BY <1>8, UnchangedRecords
     DEF guardianVars, IInv, TypeOK, ThresholdWithinList, VerifiedSignatures
<1>9. QED
  BY <1>1, <1>2, <1>3, <1>4, <1>5, <1>6, <1>7, <1>8 DEF GuardiansNext

-----------------------------------------------------------------------------
(***************************************************************************)
(* The theorems.                                                           *)
(***************************************************************************)

\* The invariant of module Guardians holds.
LEMMA Invariance == GuardiansSpec => []IInv
  BY InitInvariant, NextInvariant, PTL DEF GuardiansSpec

\* The accounts keep their types and their sizes, whatever the instructions.
THEOREM TypeCorrect == GuardiansSpec => []TypeOK
<1>1. IInv => TypeOK
  BY DEF IInv
<1>2. QED
  BY <1>1, Invariance, PTL

\* No sequence of add_guardian, remove_guardian and update_guardian_threshold
\* leaves a threshold above the number of registered guardians.
THEOREM ThresholdStaysWithinList == GuardiansSpec => []ThresholdWithinList
<1>1. IInv => ThresholdWithinList
  BY DEF IInv
<1>2. QED
  BY <1>1, Invariance, PTL

\* Records hold different indexes; those of a record that no removal and no batch
\* pointing elsewhere has disturbed name registered guardians who signed.
THEOREM RecordsAlwaysNameSigners == GuardiansSpec => []RecordsNameSigners
<1>1. IInv => RecordsNameSigners
  BY DEF IInv
<1>2. QED
  BY <1>1, Invariance, PTL

\* Counting the indexes of an undisturbed record counts guardians: the map
\* from positions of the record to the guardians named there is injective.
LEMMA RecordCountsSigners ==
    ASSUME IInv, NEW m \in DOMAIN verified, m \notin disturbed
    PROVE  /\ Cardinality(Signers(m)) \in Nat
           /\ Len(PubkeyIndex(m)) <= Cardinality(Signers(m))
<1> USE DEF IInv
<1> DEFINE n == Len(PubkeyIndex(m))
           named == [k \in 1..n |-> GuardianAt(PubkeyIndex(m)[k])]
<1>1. /\ n \in Nat
      /\ \A k \in 1..n : PubkeyIndex(m)[k] \in Nat
      /\ DOMAIN PubkeyIndex(m) = 1..n
  BY PubkeyIndexType
<1>2. /\ IsInjective(PubkeyIndex(m))
      /\ VerifyEd25519(PubkeyIndex(m), m)
  BY DEF RecordsNameSigners
<1>3. \A k \in 1..n : /\ PubkeyIndex(m)[k] + 1 \in 1..Len(guardians)
                     /\ m \in attested[GuardianAt(PubkeyIndex(m)[k])]
  BY <1>1, <1>2, GuardiansType DEF VerifyEd25519, NamesGuardians
<1>4. \A k \in 1..n : GuardianAt(PubkeyIndex(m)[k]) \in Signers(m)
  BY <1>3, GuardiansType DEF Signers, GuardianSet, ToSet, GuardianAt
<1>5. \A j, k \in 1..n : named[j] = named[k] => j = k
  <2> SUFFICES ASSUME NEW j \in 1..n, NEW k \in 1..n,
                      GuardianAt(PubkeyIndex(m)[j]) = GuardianAt(PubkeyIndex(m)[k])
               PROVE  j = k
    OBVIOUS
  <2>1. PubkeyIndex(m)[j] + 1 = PubkeyIndex(m)[k] + 1
    BY <1>3, GuardiansType DEF GuardianAt
  <2>2. PubkeyIndex(m)[j] = PubkeyIndex(m)[k]
    BY <1>1, <2>1
  <2>3. QED
    BY <1>1, <1>2, <2>2 DEF IsInjective
<1>6. named \in Injection(1..n, Signers(m))
  BY <1>4, <1>5, Fun_IsInj
<1>7. IsFiniteSet(Signers(m))
  <2> DEFINE list == [i \in 1..Len(guardians) |-> guardians[i]]
  <2>1. IsFiniteSet(1..Len(guardians))
    BY GuardiansType, FS_Interval
  <2>2. list \in Surjection(1..Len(guardians), GuardianSet)
    <3>1. list \in [1..Len(guardians) -> GuardianSet]
      BY GuardiansType DEF GuardianSet, ToSet
    <3>2. \A g \in GuardianSet : \E i \in 1..Len(guardians) : list[i] = g
      BY GuardiansType DEF GuardianSet, ToSet
    <3>3. QED
      BY <3>1, <3>2, Fun_IsSurj
  <2>3. IsFiniteSet(GuardianSet)
    BY <2>1, <2>2, FS_Surjection
  <2>4. Signers(m) \in SUBSET GuardianSet
    BY DEF Signers
  <2>5. QED
    BY <2>3, <2>4, FS_Subset
<1>8. Cardinality(1..n) <= Cardinality(Signers(m))
  BY <1>6, <1>7, FS_Injection
<1>9. Cardinality(1..n) = n
  BY <1>1, FS_Interval
<1>10. Cardinality(Signers(m)) \in Nat
  BY <1>7, FS_CardinalityType
<1>11. QED
  BY <1>8, <1>9, <1>10

\* Only a handler that found a quorum closes a record.
LEMMA OnlyConsumptionCloses ==
    ASSUME [GuardiansNext]_guardianVars, NEW m \in Message,
           m \in DOMAIN verified, m \notin DOMAIN verified'
    PROVE  HasQuorum(m)
<1>1. CASE AnyConsumeSignatures
  BY <1>1 DEF AnyConsumeSignatures, ConsumeSignatures
<1>2. CASE AnyVerifySignature
  BY <1>2 DEF AnyVerifySignature, VerifySignature, RecordSignatures
<1>3. CASE UNCHANGED verified
  BY <1>3
<1>4. QED
  BY <1>1, <1>2, <1>3
     DEF GuardiansNext, guardianVars, AnyAddGuardian, AddGuardian, AnyRemoveGuardian,
         RemoveGuardian, AnyUpdateGuardianThreshold, UpdateGuardianThreshold,
         AnyAttest, Attest, Tick

\* Whatever the numbers of guardians, messages and signatures: a payout that
\* closes an undisturbed record is backed by a threshold of different registered
\* guardians that signed the message.
THEOREM PayoutHasQuorum == GuardiansSpec => QuorumBacksPayout
<1>1. ASSUME IInv, [GuardiansNext]_guardianVars
      PROVE  \A m \in Message :
                /\ m \in DOMAIN verified
                /\ m \notin DOMAIN verified'
                /\ m \notin disturbed
                => Cardinality(Signers(m)) >= threshold
  <2> SUFFICES ASSUME NEW m \in Message, m \in DOMAIN verified,
                      m \notin DOMAIN verified', m \notin disturbed
               PROVE  Cardinality(Signers(m)) >= threshold
    OBVIOUS
  <2>1. Len(PubkeyIndex(m)) >= threshold
    BY <1>1, OnlyConsumptionCloses DEF HasQuorum
  <2>2. /\ Cardinality(Signers(m)) \in Nat
        /\ Len(PubkeyIndex(m)) <= Cardinality(Signers(m))
    BY <1>1, RecordCountsSigners
  <2>3. threshold \in Int /\ Len(PubkeyIndex(m)) \in Nat
    BY <1>1, PubkeyIndexType, CountAssumption DEF IInv, TypeOK, UNSET_THRESHOLD
  <2>4. QED
    BY <2>1, <2>2, <2>3
<1>2. QED
  BY <1>1, Invariance, PTL DEF GuardiansSpec, QuorumBacksPayout

\* Fewer guardians than the threshold cannot bring about a payout alone: in a
\* quorum there is another one, who signed that very message.
LEMMA QuorumHasOther ==
    ASSUME IInv, NEW F, IsFiniteSet(F), Cardinality(F) < threshold,
           NEW m, HasQuorum(m), m \notin disturbed
    PROVE  \E g \in Guardian \ F : m \in attested[g]
<1>1. m \in DOMAIN verified /\ Len(PubkeyIndex(m)) >= threshold
  BY DEF HasQuorum
<1>2. /\ Cardinality(Signers(m)) \in Nat
      /\ Len(PubkeyIndex(m)) <= Cardinality(Signers(m))
  BY <1>1, RecordCountsSigners
<1>3. threshold \in Int /\ Len(PubkeyIndex(m)) \in Nat /\ Cardinality(F) \in Nat
  BY <1>1, PubkeyIndexType, CountAssumption, FS_CardinalityType DEF IInv, TypeOK, UNSET_THRESHOLD
<1>4. Signers(m) \subseteq F => Cardinality(Signers(m)) <= Cardinality(F)
  BY FS_Subset
<1>5. ~ (Signers(m) \subseteq F)
  BY <1>1, <1>2, <1>3, <1>4
<1>6. Signers(m) \subseteq Guardian
  BY GuardiansType DEF Signers, GuardianSet, ToSet, IInv, TypeOK
<1>7. QED
  BY <1>5, <1>6 DEF Signers

\* A threshold of more than half of the guardians stays one until the manager
\* adds guardians, whatever is removed or updated.
THEOREM MajorityStays == GuardiansSpec => MajorityLostByAddingOnly
<1>1. ASSUME IInv, [GuardiansNext]_guardianVars, TakesMajority, ~ TakesMajority'
      PROVE  Len(guardians') > Len(guardians)
  <2> USE DEF TakesMajority
  <2>1. Len(guardians) \in Nat /\ threshold \in Int
    BY <1>1, GuardiansType, CountAssumption DEF IInv, TypeOK, UNSET_THRESHOLD
  <2>2. CASE AnyAddGuardian
    <3>1. PICK g \in Guardian : AddGuardian(g)
      BY <2>2 DEF AnyAddGuardian
    <3>2. guardians \in Seq(Guardian) /\ guardians' = Append(guardians, g)
      BY <1>1, <3>1 DEF AddGuardian, IInv, TypeOK
    <3>3. Len(guardians') = Len(guardians) + 1
      BY <3>2, LenProperties
    <3>4. QED
      BY <2>1, <3>3
  <2>3. CASE AnyRemoveGuardian
    <3>1. PICK g \in Guardian : RemoveGuardian(g)
      BY <2>3 DEF AnyRemoveGuardian
    <3>2. PICK i \in 1..Len(guardians) :
              guardians' = RemoveAt(guardians, i) /\ threshold' = threshold
      BY <3>1 DEF RemoveGuardian
    <3>3. Len(guardians') = Len(guardians) - 1
      BY <1>1, <3>2, RemoveAtProperties DEF IInv, TypeOK
    <3>4. QED
      BY <1>1, <2>1, <3>2, <3>3
  <2>4. CASE AnyUpdateGuardianThreshold
    BY <1>1, <2>4 DEF AnyUpdateGuardianThreshold, UpdateGuardianThreshold
  <2>5. CASE UNCHANGED <<guardians, threshold>>
    BY <1>1, <2>5
  <2>6. QED
    BY <1>1, <2>2, <2>3, <2>4, <2>5
       DEF GuardiansNext, guardianVars, AnyAttest, Attest, AnyVerifySignature,
           VerifySignature, RecordSignatures, AnyConsumeSignatures, ConsumeSignatures, Tick
<1>2. QED
  BY <1>1, Invariance, PTL DEF GuardiansSpec, MajorityLostByAddingOnly

\* Only a batch of signatures changes a record that stays open.
LEMMA OnlyBatchesChangeRecords ==
    ASSUME [GuardiansNext]_guardianVars, NEW m \in DOMAIN verified, m \in DOMAIN verified',
           verified'[m] # verified[m]
    PROVE  \E s \in SignerIndexes, at \in InstructionIndex : VerifySignature(m, s, at)
<1>1. CASE AnyVerifySignature
  BY <1>1 DEF AnyVerifySignature, VerifySignature, RecordSignatures
<1>2. CASE AnyConsumeSignatures
  BY <1>2 DEF AnyConsumeSignatures, ConsumeSignatures
<1>3. CASE UNCHANGED verified
  BY <1>3
<1>4. QED
  BY <1>1, <1>2, <1>3
     DEF GuardiansNext, guardianVars, AnyAddGuardian, AddGuardian, AnyRemoveGuardian,
         RemoveGuardian, AnyUpdateGuardianThreshold, UpdateGuardianThreshold,
         AnyAttest, Attest, Tick

\* Each restart of a payout's waiting time brings a guardian who was not counted
\* before; while the record is undisturbed he is one who signed the message.
THEOREM RestartsAreBounded == GuardiansSpec => RestartsBringNewSigner
<1>1. ASSUME IInv, IInv', [GuardiansNext]_guardianVars,
             NEW m \in (DOMAIN verified \cap DOMAIN verified') \ disturbed,
             verified'[m] # verified[m]
      PROVE  /\ Named(m) \subseteq Named(m)' /\ Named(m) # Named(m)'
             /\ m \notin disturbed' => Named(m)' \subseteq Signers(m)
  <2> USE DEF IInv
  <2>1. PICK s \in SignerIndexes, at \in InstructionIndex : VerifySignature(m, s, at)
    BY <1>1, OnlyBatchesChangeRecords
  <2> DEFINE old == PubkeyIndex(m)
             n == Len(old)
  <2>2. m \in Message /\ s \in Seq(Index) /\ s # <<>>
    <3>1. PICK k \in 1..MAX_GUARDIAN_COUNT : s \in [1..k -> Index]
      BY DEF SignerIndexes
    <3>2. s \in Seq(Index)
      BY <3>1, SeqDef, CountAssumption
    <3>3. QED
      BY <1>1, <2>1, <3>2 DEF TypeOK, VerifySignature, RecordSignatures
  <2>3. /\ old \in Seq(Index) /\ n \in Nat /\ DOMAIN old = 1..n
        /\ \A k \in 1..n : old[k] \in Nat
    BY <2>2, <1>1, PubkeyIndexType
  <2>4. /\ PubkeyIndex(m)' = old \o s
        /\ guardians' = guardians
    BY <2>1 DEF VerifySignature, RecordSignatures, PubkeyIndex
  <2>5. /\ Len(s) \in Nat /\ 1 \in 1..Len(s) /\ DOMAIN s = 1..Len(s) /\ s[1] \in Index
        /\ DOMAIN (old \o s) = 1..(n + Len(s))
        /\ \A k \in 1..(n + Len(s)) : (old \o s)[k] = IF k <= n THEN old[k] ELSE s[k - n]
    BY <2>2, <2>3, ConcatProperties, LenProperties, EmptySeq
  <2> HIDE DEF old
  <2>6. Named(m) = {GuardianAt(old[k]) : k \in 1..n}
    BY <2>3 DEF Named, old
  <2>7. Named(m)' = {GuardianAt((old \o s)[k]) : k \in 1..(n + Len(s))}
    BY <2>4, <2>5 DEF Named, GuardianAt
  <2>8. \A k \in 1..n : GuardianAt(old[k]) \in Named(m)'
    BY <2>3, <2>5, <2>7
  <2>9. \A k \in 1..n : old[k] + 1 \in 1..Len(guardians)
    <3>1. \A k \in 1..n : old[k] < Len(guardians)
      BY <1>1, <2>3 DEF RecordsNameSigners, VerifyEd25519, NamesGuardians, old
    <3>2. QED
      BY <2>3, <3>1, GuardiansType
  <2>10. Named(m) \subseteq Named(m)'
    BY <2>6, <2>8
  <2>11. GuardianAt(s[1]) \in Named(m)'
    <3>1. n + 1 \in 1..(n + Len(s)) /\ (old \o s)[n + 1] = s[1]
      BY <2>3, <2>5
    <3>2. QED
      BY <2>7, <3>1
  <2>12. s[1] + 1 \in 1..Len(guardians)
    BY <2>1, <2>5, GuardiansType, CountAssumption DEF VerifySignature, NamesGuardians, Index
  <2>13. \A k \in 1..n : old[k] # s[1]
    BY <2>1, <2>3, <2>5 DEF VerifySignature, RecordSignatures, NewSigners, Contains, old
  <2>14. \A k \in 1..n : GuardianAt(old[k]) # GuardianAt(s[1])
    <3> SUFFICES ASSUME NEW k \in 1..n, guardians[old[k] + 1] = guardians[s[1] + 1]
                 PROVE  FALSE
      BY DEF GuardianAt
    <3>1. old[k] + 1 = s[1] + 1
      BY <1>1, <2>9, <2>12, GuardiansType
    <3>2. QED
      BY <2>3, <2>5, <2>13, <3>1, CountAssumption DEF Index
  <2>15. ASSUME m \notin disturbed'
         PROVE  Named(m)' \subseteq Signers(m)
    <3>1. VerifyEd25519(PubkeyIndex(m), m)'
      BY <1>1, <2>15 DEF RecordsNameSigners
    <3>2. /\ attested' = attested
          /\ Len(PubkeyIndex(m)') \in Nat
          /\ DOMAIN PubkeyIndex(m)' = 1..Len(PubkeyIndex(m)')
          /\ \A k \in 1..Len(PubkeyIndex(m)') : PubkeyIndex(m)'[k] \in Index
      <4>1. PubkeyIndex(m)' \in Seq(Index)
        BY <2>3, <2>2, <2>4, ConcatProperties
      <4>2. QED
        BY <2>1, <4>1, LenProperties, ElementOfSeq DEF VerifySignature, RecordSignatures
    <3>3. \A k \in 1..Len(PubkeyIndex(m)') :
              /\ PubkeyIndex(m)'[k] + 1 \in 1..Len(guardians)
              /\ m \in attested[guardians[PubkeyIndex(m)'[k] + 1]]
      BY <2>4, <3>1, <3>2, GuardiansType, CountAssumption
         DEF VerifyEd25519, NamesGuardians, GuardianAt, Index
    <3>4. \A k \in 1..Len(PubkeyIndex(m)') :
              guardians[PubkeyIndex(m)'[k] + 1] \in Signers(m)
      BY <3>3, GuardiansType DEF Signers, GuardianSet, ToSet
    <3>5. QED
      BY <2>4, <3>2, <3>4 DEF Named, GuardianAt
  <2>16. QED
    BY <2>6, <2>10, <2>11, <2>14, <2>15
<1>2. IInv /\ [GuardiansNext]_guardianVars => IInv'
  BY NextInvariant
<1>3. ASSUME IInv, IInv', [GuardiansNext]_guardianVars
      PROVE  \A m \in (DOMAIN verified \cap DOMAIN verified') \ disturbed :
                 verified'[m] # verified[m] =>
                     /\ Named(m) \subseteq Named(m)' /\ Named(m) # Named(m)'
                     /\ m \notin disturbed' => Named(m)' \subseteq Signers(m)
  BY <1>1, <1>3
<1>4. QED
  BY <1>2, <1>3, Invariance, PTL DEF GuardiansSpec, RestartsBringNewSigner

=============================================================================
