---------------------------- MODULE RelayProofs ----------------------------
(***************************************************************************)
(* Reading the bytes of the Ed25519 instruction is as good as knowing who  *)
(* signed, as long as the instruction indexes point at these bytes: Relay  *)
(* implements Guardians, for any guardians, messages, limits, data that    *)
(* clients send and sizes of keys and messages, and whatever is sent, lost *)
(* or overtaken meanwhile.  So what GuardiansProofs shows holds of Relay   *)
(* as well.  And the program reads from the bytes the batch that was sent: *)
(* the places of the layouts are followed through the concatenations that  *)
(* make them.                                                              *)
(***************************************************************************)
EXTENDS Relay, GuardiansProofs, SumProofs

\* A key and a message are told by their bytes.
LEMMA KeysDiffer == ASSUME NEW g, NEW h, KeyBytes(g) = KeyBytes(h) PROVE g = h
<1>1. 1 \in 1..PUBKEY_SERIALIZED_SIZE
  BY SizeAssumption
<1>2. KeyBytes(g)[1] = <<"key", g, 1>> /\ KeyBytes(h)[1] = <<"key", h, 1>>
  BY <1>1 DEF KeyBytes, Opaque
<1>3. QED
  BY <1>2

\* Two messages have different bytes.
LEMMA MessagesDiffer ==
    ASSUME NEW m, NEW n, MessageBytes(m) = MessageBytes(n) PROVE m = n
<1>1. 1 \in 1..MESSAGE_DATA_SIZE
  BY SizeAssumption
<1>2. MessageBytes(m)[1] = <<"msg", m, 1>> /\ MessageBytes(n)[1] = <<"msg", n, 1>>
  BY <1>1 DEF MessageBytes, Opaque
<1>3. QED
  BY <1>2

\* verify_ed25519_ix after the Ed25519 program: a signer whose signature points
\* at this instruction has signed.
LEMMA CheckedSignersSigned ==
    ASSUME NEW data, NEW signers, NEW m, NEW k \in DOMAIN signers,
           InstructionAt(data) = "this",
           Ed25519Program(data, attested), VerifyEd25519Ix(data, signers, m)
    PROVE  m \in attested[signers[k]]
<1> DEFINE sigs == LoadSignatures(data)
<1>1. k \in DOMAIN sigs
  BY DEF VerifyEd25519Ix
<1>2. sigs[k].pubkey = KeyBytes(signers[k]) /\ sigs[k].msg = MessageBytes(m)
  BY <1>1 DEF VerifyEd25519Ix
<1>3. k \in 1..NumSigs(data)
  BY <1>1 DEF LoadSignatures
<1> HIDE DEF sigs
<1>a. PointsHere(data, k)
  BY <1>3 DEF InstructionAt
<1>4. PICK g \in DOMAIN attested : \E n \in attested[g] : sigs[k] = ConstructSig(g, n)
  BY <1>3, <1>a DEF Ed25519Program, sigs
<1>5. PICK n \in attested[g] : sigs[k] = ConstructSig(g, n)
  BY <1>4
<1>6. sigs[k].pubkey = KeyBytes(g) /\ sigs[k].msg = MessageBytes(n)
  BY <1>5 DEF ConstructSig
<1>7. g = signers[k] /\ n = m
  BY <1>2, <1>6, KeysDiffer, MessagesDiffer
<1>8. QED
  BY <1>7

\* A transaction that is executed, the relayer's or another client's, is a call
\* of verify_signature with data that point where these do.
LEMMA ExecuteVerifiesSignature ==
    ASSUME NEW data, NEW m, NEW indexes, Execute(data, m, indexes)
    PROVE  VerifySignature(m, indexes, InstructionAt(data))
<1> DEFINE signers == [k \in DOMAIN indexes |-> GuardianAt(indexes[k])]
<1>1. NamesGuardians(indexes)
  BY DEF Execute
<1>2. ASSUME InstructionAt(data) = "this", NEW k \in DOMAIN indexes
      PROVE  m \in attested[GuardianAt(indexes[k])]
  <2>1. Ed25519Program(data, attested) /\ VerifyEd25519Ix(data, signers, m)
    BY DEF Execute
  <2>2. k \in DOMAIN signers
    OBVIOUS
  <2>3. m \in attested[signers[k]]
    BY <1>2, <2>1, <2>2, CheckedSignersSigned
  <2>4. QED
    BY <2>3
<1>3. InstructionAt(data) = "this" => VerifyEd25519(indexes, m)
  BY <1>1, <1>2 DEF VerifyEd25519
<1>4. QED
  BY <1>1, <1>3 DEF Execute, VerifySignature

-----------------------------------------------------------------------------
(***************************************************************************)
(* What is sent keeps its type; this needs the list to fit its account.    *)
(***************************************************************************)

\* The relayer finds every signer of a batch in the list.
LEMMA SubmittedTransaction ==
    ASSUME TypeOK, NEW m \in Message, NEW signers \in Batches(m)
    PROVE  LET tx == Transaction(m, signers)
           IN  /\ tx.msg_hash = m
               /\ tx.signer_indexes \in SignerIndexes
               /\ tx.signers \in [DOMAIN tx.signer_indexes -> Guardian]
<1> DEFINE tx == Transaction(m, signers)
<1>1. PICK n \in 1..Len(guardians) : signers \in [1..n -> Signers(m)]
  BY DEF Batches
<1>2. n \in 1..MAX_GUARDIAN_COUNT
  BY <1>1, GuardiansType, CountAssumption
<1>3. ASSUME NEW g \in Signers(m)
      PROVE  g \in Guardian /\ SignerIndex(g) \in Index
  <2>1. \E i \in 1..Len(guardians) : guardians[i] = g
    BY <1>3, GuardiansType DEF Signers, GuardianSet, ToSet
  <2>2. (CHOOSE i \in 1..Len(guardians) : guardians[i] = g) \in 1..Len(guardians)
    BY <2>1
  <2>3. QED
    BY <2>1, <2>2, GuardiansType, CountAssumption DEF SignerIndex, Index
<1>4. tx.msg_hash = m /\ tx.signers = signers
  BY DEF Transaction
<1>5. tx.signer_indexes = [k \in 1..n |-> SignerIndex(signers[k])]
  BY <1>1 DEF Transaction
<1>6. tx.signer_indexes \in [1..n -> Index]
  BY <1>1, <1>3, <1>5
<1> HIDE DEF tx
<1>7. tx.signers \in [DOMAIN tx.signer_indexes -> Guardian]
  BY <1>1, <1>3, <1>4, <1>6
<1>8. QED
  BY <1>2, <1>4, <1>6, <1>7 DEF SignerIndexes, tx

\* Data point at their own instruction or elsewhere.
LEMMA InstructionPlaces == \A data : InstructionAt(data) \in InstructionIndex
BY ClientAssumption DEF InstructionAt

\* A step of the relay is one of the guardian specification, or leaves its
\* variables alone.
LEMMA RelayStep ==
    ASSUME SentTypeOK, [RelayNext]_relayVars
    PROVE  [GuardiansNext]_guardianVars
<1>1. CASE AnySubmit
  BY <1>1 DEF AnySubmit, Submit
<1>2. CASE AnyLand
  <2>1. PICK tx \in sent : Land(tx)
    BY <1>2 DEF AnyLand
  <2>2. tx.msg_hash \in Message /\ tx.signer_indexes \in SignerIndexes
    BY <2>1 DEF SentTypeOK
  <2>3. VerifySignature(tx.msg_hash, tx.signer_indexes, InstructionAt(tx.data))
    BY <2>1, ExecuteVerifiesSignature DEF Land
  <2>4. QED
    BY <2>2, <2>3, InstructionPlaces DEF GuardiansNext, AnyVerifySignature
<1>a. CASE AnyLandFromClient
  <2>1. PICK data \in ClientData, m \in Message, indexes \in SignerIndexes :
            LandFromClient(data, m, indexes)
    BY <1>a DEF AnyLandFromClient
  <2>2. VerifySignature(m, indexes, InstructionAt(data))
    BY <2>1, ExecuteVerifiesSignature DEF LandFromClient
  <2>3. QED
    BY <2>2, InstructionPlaces DEF GuardiansNext, AnyVerifySignature
<1>3. CASE AnyDrop
  BY <1>3 DEF AnyDrop, Drop
<1>4. CASE Meanwhile
  BY <1>4 DEF Meanwhile, GuardiansNext
<1>5. CASE UNCHANGED relayVars
  BY <1>5 DEF relayVars, guardianVars
<1>6. QED
  BY <1>1, <1>2, <1>a, <1>3, <1>4, <1>5 DEF RelayNext

\* What the relayer sent keeps its type.
LEMMA SentKeepsType ==
    ASSUME TypeOK, SentTypeOK, [RelayNext]_relayVars PROVE SentTypeOK'
<1>1. CASE AnySubmit
  <2>1. PICK m \in Message : \E signers \in Batches(m) : Submit(m, signers)
    BY <1>1 DEF AnySubmit
  <2>2. PICK signers \in Batches(m) : Submit(m, signers)
    BY <2>1
  <2>3. sent' = sent \cup {Transaction(m, signers)}
    BY <2>2 DEF Submit
  <2>4. QED
    BY <2>3, SubmittedTransaction DEF SentTypeOK
<1>2. CASE sent' \subseteq sent
  BY <1>2 DEF SentTypeOK
<1>3. QED
  BY <1>1, <1>2 DEF RelayNext, relayVars, AnyLand, Land, AnyLandFromClient, LandFromClient,
     AnyDrop, Drop, Meanwhile

\* The invariant of module Guardians holds of the relay.
LEMMA RelayInvariance == RelaySpec => [](IInv /\ SentTypeOK)
<1>1. RelayInit => IInv /\ SentTypeOK
  BY InitInvariant DEF RelayInit, SentTypeOK
<1>2. ASSUME IInv, SentTypeOK, [RelayNext]_relayVars
      PROVE  IInv' /\ SentTypeOK'
  <2>1. [GuardiansNext]_guardianVars
    BY <1>2, RelayStep
  <2>2. IInv'
    BY <1>2, <2>1, NextInvariant
  <2>3. TypeOK
    BY <1>2 DEF IInv
  <2>4. QED
    BY <1>2, <2>2, <2>3, SentKeepsType
<1>3. QED
  BY <1>1, <1>2, PTL DEF RelaySpec

-----------------------------------------------------------------------------
\* Whatever is under way names messages and indexes the program can look up.
THEOREM RelayTypeCorrect == RelaySpec => []SentTypeOK
BY RelayInvariance, PTL

\* Signatures in bytes, sent without waiting, lost, reordered and executed
\* against a list that has changed, and data of any shape from other clients:
\* every step is one Guardians allows, where a batch whose data point elsewhere
\* vouches for nothing.
THEOREM RelayImplementsGuardians == RelaySpec => GuardiansSpec
<1>1. RelayInit => GuardiansInit
  BY DEF RelayInit
<1>2. ASSUME SentTypeOK, [RelayNext]_relayVars
      PROVE  [GuardiansNext]_guardianVars
  BY <1>2, RelayStep
<1>3. QED
  BY <1>1, <1>2, RelayInvariance, PTL DEF RelaySpec, GuardiansSpec

\* So a payout of an undisturbed record has its quorum of signers in the relay,
\* too; a batch of the scripts never disturbs one (BatchesAreReadBack).
THEOREM RelayedPayoutHasQuorum == RelaySpec => QuorumBacksPayout
BY RelayImplementsGuardians, PayoutHasQuorum


-----------------------------------------------------------------------------
(***************************************************************************)
(* FlattenSeq: by induction on the number of sequences.                    *)
(***************************************************************************)

\* What FlattenSeq recurses to.
Then(s, t) == s \o t
Flattens(seqs, n, f) ==
    f = [i \in 1..n |-> IF i = 1 THEN seqs[i] ELSE Then(f[i - 1], seqs[i])]

\* The recursion of FlattenSeq has a solution.
LEMMA FlattenExists ==
    ASSUME NEW seqs PROVE \A n \in Nat : \E f : Flattens(seqs, n, f)
<1> DEFINE Good == {n \in Nat : \E f : Flattens(seqs, n, f)}
<1>1. 0 \in Good
  <2> DEFINE f == [i \in 1..0 |-> seqs[i]]
  <2>1. Flattens(seqs, 0, f)
    BY DEF Flattens
  <2> HIDE DEF f
  <2>2. QED
    BY <2>1
<1>2. ASSUME NEW n \in Nat, n \in Good PROVE n + 1 \in Good
  <2>1. PICK f : Flattens(seqs, n, f)
    BY <1>2
  <2> DEFINE last == IF n = 0 THEN seqs[1] ELSE Then(f[n], seqs[n + 1])
             h == [i \in 1..(n + 1) |-> IF i = n + 1 THEN last ELSE f[i]]
             again == [i \in 1..(n + 1) |-> IF i = 1 THEN seqs[i] ELSE Then(h[i - 1], seqs[i])]
  <2>2. \A i \in 1..n : f[i] = IF i = 1 THEN seqs[i] ELSE Then(f[i - 1], seqs[i])
    BY <2>1 DEF Flattens
  <2>3. \A i \in 1..n : h[i] = f[i]
    OBVIOUS
  <2>4. h[n + 1] = last
    OBVIOUS
  <2>5. DOMAIN h = 1..(n + 1) /\ h = [i \in DOMAIN h |-> h[i]]
    OBVIOUS
  <2> HIDE DEF h
  <2>6. ASSUME NEW i \in 1..(n + 1)
        PROVE  h[i] = IF i = 1 THEN seqs[i] ELSE Then(h[i - 1], seqs[i])
    <3>1. CASE i = n + 1 /\ n = 0
      BY <2>4, <3>1
    <3>2. CASE i = n + 1 /\ n # 0
      <4>1. n \in 1..n /\ i - 1 = n /\ i # 1
        BY <3>2
      <4>2. h[n] = f[n]
        BY <2>3, <4>1
      <4>3. QED
        BY <2>4, <3>2, <4>1, <4>2
    <3>3. CASE i # n + 1
      <4>1. i \in 1..n /\ (i # 1 => i - 1 \in 1..n)
        BY <3>3
      <4>2. QED
        BY <2>2, <2>3, <4>1
    <3>4. QED
      BY <3>1, <3>2, <3>3
  <2>7. again = [i \in 1..(n + 1) |-> h[i]]
    BY <2>6
  <2>8. Flattens(seqs, n + 1, h)
    BY <2>5, <2>7 DEF Flattens
  <2>9. QED
    BY <2>8
<1> HIDE DEF Good
<1>3. \A n \in Nat : n \in Good
  BY <1>1, <1>2, NaturalInduction
<1>4. QED
  BY <1>3 DEF Good

\* So FlattenSeq puts one sequence after the other.
LEMMA FlattenSeqIsFlat ==
    ASSUME NEW n \in Nat \ {0}, NEW S, NEW seqs \in [1..n -> Seq(S)]
    PROVE  \E f : Flattens(seqs, n, f) /\ FlattenSeq(seqs) = f[n]
<1> DEFINE f == CHOOSE f : Flattens(seqs, n, f)
<1>1. Flattens(seqs, n, f)
  BY FlattenExists
<1>2. Len(seqs) = n /\ seqs \in Seq(Seq(S))
  OBVIOUS
<1>3. FlattenSeq(seqs) = f[n]
  BY <1>2 DEF FlattenSeq, Flattens, Then
<1> HIDE DEF f
<1>4. QED
  BY <1>1, <1>3

\* Where the items of two sequences are in the one made of both.
Joins(u, s, t) ==
    /\ Len(u) = Len(s) + Len(t)
    /\ \A i \in 1..Len(s) : u[i] = s[i]
    /\ \A j \in 1..Len(t) : u[Len(s) + j] = t[j]

\* They are in that order.
LEMMA Joined ==
    ASSUME NEW S, NEW s \in Seq(S), NEW t \in Seq(S)
    PROVE  Then(s, t) \in Seq(S) /\ Joins(Then(s, t), s, t)
<1>1. Then(s, t) \in Seq(S) /\ Len(Then(s, t)) = Len(s) + Len(t)
  BY DEF Then
<1>2. Len(s) \in Nat /\ Len(t) \in Nat
  OBVIOUS
<1>3. \A i \in 1..(Len(s) + Len(t)) :
          Then(s, t)[i] = IF i <= Len(s) THEN s[i] ELSE t[i - Len(s)]
  BY DEF Then
<1>4. \A i \in 1..Len(s) : Then(s, t)[i] = s[i]
  BY <1>2, <1>3
<1>5. ASSUME NEW j \in 1..Len(t) PROVE Then(s, t)[Len(s) + j] = t[j]
  <2>1. /\ Len(s) + j \in 1..(Len(s) + Len(t)) /\ ~ (Len(s) + j <= Len(s))
        /\ Len(s) + j - Len(s) = j
    BY <1>2
  <2>2. QED
    BY <1>3, <2>1
<1>6. QED
  BY <1>1, <1>4, <1>5 DEF Joins

\* Places in blocks of one length: those of the k-th come before the end of the
\* last.
LEMMA BlockPlaces ==
    ASSUME NEW L \in Nat, NEW m \in Nat, NEW k \in 1..m, NEW j \in 1..L
    PROVE  /\ (k - 1) * L \in Nat /\ m * L \in Nat
           /\ (k - 1) * L + j \in 1..(m * L)
<1>1. k - 1 \in Nat /\ m - k \in Nat
  OBVIOUS
<1>2. (k - 1) * L \in Nat /\ (m - k) * L \in Nat /\ m * L \in Nat
  BY <1>1
<1>3. m * L = (k - 1) * L + L + (m - k) * L
  OBVIOUS
<1>4. QED
  BY <1>2, <1>3

\* Sequences of one length, one after the other: where each of them is.
LEMMA FlattenBlocks ==
    ASSUME NEW n \in Nat \ {0}, NEW L \in Nat, NEW S, NEW seqs \in [1..n -> Seq(S)],
           \A k \in 1..n : Len(seqs[k]) = L
    PROVE  /\ FlattenSeq(seqs) \in Seq(S) /\ Len(FlattenSeq(seqs)) = n * L
           /\ \A k \in 1..n, j \in 1..L : FlattenSeq(seqs)[(k - 1) * L + j] = seqs[k][j]
<1>1. PICK f : Flattens(seqs, n, f) /\ FlattenSeq(seqs) = f[n]
  BY FlattenSeqIsFlat
<1> DEFINE Right(m) == /\ f[m] \in Seq(S) /\ Len(f[m]) = m * L
                       /\ \A k \in 1..m, j \in 1..L : f[m][(k - 1) * L + j] = seqs[k][j]
           Good == {m \in Nat : m \in 1..n => Right(m)}
<1>a. \A i \in 1..n : f[i] = IF i = 1 THEN seqs[i] ELSE Then(f[i - 1], seqs[i])
  BY <1>1 DEF Flattens
<1>b. f[1] = seqs[1]
  BY <1>a
<1>2. ASSUME NEW i \in 1..n, i # 1 PROVE f[i] = Then(f[i - 1], seqs[i])
  BY <1>a, <1>2
<1>3. 0 \in Good
  OBVIOUS
<1>4. ASSUME NEW m \in Nat, m \in Good PROVE m + 1 \in Good
  <2>1. SUFFICES ASSUME m + 1 \in 1..n PROVE Right(m + 1)
    OBVIOUS
  <2>2. CASE m = 0
    <3>1. f[1] = seqs[1]
      BY <1>b
    <3>2. f[1] \in Seq(S) /\ Len(f[1]) = L /\ 1 * L = L
      BY <3>1
    <3>3. ASSUME NEW k \in 1..1, NEW j \in 1..L PROVE f[1][(k - 1) * L + j] = seqs[k][j]
      <4>1. k = 1 /\ (1 - 1) * L + j = j
        OBVIOUS
      <4>2. QED
        BY <3>1, <4>1
    <3>4. QED
      BY <2>2, <3>2, <3>3
  <2>3. CASE m # 0
    <3> DEFINE front == f[m]
               block == seqs[m + 1]
               all == f[m + 1]
               end == m * L
    <3>1. m \in 1..n /\ Right(m)
      BY <1>4, <2>1, <2>3
    <3>2. all = Then(front, block)
      <4>1. m + 1 # 1 /\ m + 1 - 1 = m
        BY <2>3
      <4>2. QED
        BY ONLY <1>2, <2>1, <4>1
    <3>3. front \in Seq(S) /\ Len(front) = end /\ block \in Seq(S) /\ Len(block) = L
      BY <2>1, <3>1
    <3>4. end \in Nat /\ (m + 1) * L = end + L
      OBVIOUS
    <3>5. \A k \in 1..m, j \in 1..L :
              (k - 1) * L + j \in 1..end /\ front[(k - 1) * L + j] = seqs[k][j]
      BY <3>1, BlockPlaces
    <3>6. (m + 1 - 1) * L = end
      OBVIOUS
    <3> HIDE DEF front, block, all, end
    <3>7. /\ all \in Seq(S) /\ Len(all) = end + L
          /\ \A i \in 1..end : all[i] = front[i]
          /\ \A j \in 1..L : all[end + j] = block[j]
      <4>1. all \in Seq(S) /\ Joins(all, front, block)
        BY <3>2, <3>3, Joined
      <4>2. Len(front) = end /\ Len(block) = L
        BY <3>3
      <4>3. QED
        BY <4>1, <4>2 DEF Joins
    <3>8. ASSUME NEW k \in 1..(m + 1), NEW j \in 1..L
          PROVE  all[(k - 1) * L + j] = seqs[k][j]
      <4>1. CASE k = m + 1
        <5>1. (k - 1) * L + j = end + j
          BY <3>6, <4>1
        <5>2. all[end + j] = block[j]
          BY <3>7
        <5>3. QED
          BY <4>1, <5>1, <5>2 DEF block
      <4>2. CASE k # m + 1
        <5>1. k \in 1..m
          BY <4>2
        <5>2. QED
          BY <3>5, <3>7, <5>1
      <4>3. QED
        BY <4>1, <4>2
    <3>9. QED
      BY <3>4, <3>7, <3>8 DEF all
  <2>4. QED
    BY <2>2, <2>3
<1> HIDE DEF Good
<1>5. \A m \in Nat : m \in Good
  BY <1>3, <1>4, NaturalInduction
<1>6. Right(n)
  BY <1>5 DEF Good
<1>7. QED
  BY <1>1, <1>6

-----------------------------------------------------------------------------
(***************************************************************************)
(* Bytes: the numbers in an offset structure, and what a part of the data  *)
(* says of the whole.                                                      *)
(***************************************************************************)

\* Every byte the layouts write, and more.
AnyByte ==
    {"num", "key", "sig", "msg"}
        \X (Nat \cup Guardian \cup Message \cup (Guardian \X Message)) \X Nat

\* The first n u16's of w, in bytes.
U16 == 0..U16_MAX
Spells(s, n, w) ==
    /\ s \in Seq(AnyByte) /\ Len(s) = 2 * n
    /\ \A i \in 1..n : s[2 * i - 1][2] + 256 * s[2 * i][2] = w[i]

\* Two bytes hold a u16.
LEMMA TwoBytes ==
    ASSUME NEW v \in U16
    PROVE  /\ EncodeU16(v) \in Seq(AnyByte) /\ Len(EncodeU16(v)) = 2
           /\ EncodeU16(v)[1][2] + 256 * EncodeU16(v)[2][2] = v
<1> DEFINE q == v \div 256
           r == v % 256
<1>1. v \in Nat /\ v <= 65535
  BY DEF U16, U16_MAX
<1>2. q \in 0..255
  BY ONLY <1>1
<1>3. v = 256 * q + r /\ r \in 0..255
  BY ONLY <1>1
<1> HIDE DEF q, r
<1>4. q % 256 = q
  BY ONLY <1>2
<1>5. EncodeU16(v) = <<Byte(r), Byte(q)>>
  BY <1>4 DEF EncodeU16, q, r
<1>6. Byte(r) \in AnyByte /\ Byte(q) \in AnyByte
  BY <1>2, <1>3 DEF Byte, AnyByte
<1>7. Byte(r)[2] = r /\ Byte(q)[2] = q
  BY DEF Byte
<1> HIDE DEF Byte, AnyByte
<1>8. <<Byte(r), Byte(q)>> \in Seq(AnyByte) /\ Len(<<Byte(r), Byte(q)>>) = 2
  BY <1>6
<1>9. <<Byte(r), Byte(q)>>[1] = Byte(r) /\ <<Byte(r), Byte(q)>>[2] = Byte(q)
  OBVIOUS
<1>10. r + 256 * q = v
  BY <1>2, <1>3
<1>11. QED
  BY <1>5, <1>7, <1>8, <1>9, <1>10

\* One u16 more.
LEMMA SpellsOneMore ==
    ASSUME NEW n \in Nat, NEW w, NEW s, Spells(s, n, w), w[n + 1] \in U16
    PROVE  Spells(s \o EncodeU16(w[n + 1]), n + 1, w)
<1> DEFINE t == EncodeU16(w[n + 1])
           u == Then(s, t)
<1>1. t \in Seq(AnyByte) /\ Len(t) = 2 /\ t[1][2] + 256 * t[2][2] = w[n + 1]
  BY TwoBytes
<1>2. s \in Seq(AnyByte) /\ Len(s) = 2 * n
  BY DEF Spells
<1> HIDE DEF t
<1>3. u \in Seq(AnyByte) /\ Joins(u, s, t)
  BY <1>1, <1>2, Joined
<1> HIDE DEF u
<1>4. /\ Len(u) = 2 * (n + 1)
      /\ \A i \in 1..(2 * n) : u[i] = s[i]
      /\ u[2 * n + 1] = t[1] /\ u[2 * n + 2] = t[2]
  BY <1>1, <1>2, <1>3 DEF Joins
<1>5. ASSUME NEW i \in 1..(n + 1) PROVE u[2 * i - 1][2] + 256 * u[2 * i][2] = w[i]
  <2>1. CASE i = n + 1
    <3>1. 2 * i - 1 = 2 * n + 1 /\ 2 * i = 2 * n + 2
      BY <2>1
    <3>2. QED
      BY <1>1, <1>4, <2>1, <3>1
  <2>2. CASE i # n + 1
    <3>1. i \in 1..n /\ 2 * i - 1 \in 1..(2 * n) /\ 2 * i \in 1..(2 * n)
      BY <2>2
    <3>2. QED
      BY <1>4, <3>1 DEF Spells
  <2>3. QED
    BY <2>1, <2>2
<1>6. Spells(u, n + 1, w)
  BY <1>3, <1>4, <1>5 DEF Spells
<1>7. QED
  BY <1>6 DEF u, t, Then

\* What EncodeOffsets writes.
LEMMA EncodedOffsets ==
    ASSUME NEW pub, NEW at, NEW size, NEW ix,
           {pub, pub + PUBKEY_SERIALIZED_SIZE, at, size, ix} \subseteq U16
    PROVE  Spells(EncodeOffsets(pub, at, size, ix), 7,
                  <<pub + PUBKEY_SERIALIZED_SIZE, ix, pub, ix, at, size, ix>>)
<1> DEFINE w == <<pub + PUBKEY_SERIALIZED_SIZE, ix, pub, ix, at, size, ix>>
           one == EncodeU16(w[1])
           two == one \o EncodeU16(w[2])
           three == two \o EncodeU16(w[3])
           four == three \o EncodeU16(w[4])
           five == four \o EncodeU16(w[5])
           six == five \o EncodeU16(w[6])
           seven == six \o EncodeU16(w[7])
<1>1. seven = EncodeOffsets(pub, at, size, ix)
  BY DEF EncodeOffsets
<1>2. \A i \in 1..7 : w[i] \in U16
  OBVIOUS
<1> HIDE DEF w
<1>3. Spells(one, 1, w)
  BY <1>2, TwoBytes DEF Spells
<1> HIDE DEF one
<1>4. Spells(two, 2, w)
  BY <1>2, <1>3, SpellsOneMore
<1> HIDE DEF two
<1>5. Spells(three, 3, w)
  BY <1>2, <1>4, SpellsOneMore
<1> HIDE DEF three
<1>6. Spells(four, 4, w)
  BY <1>2, <1>5, SpellsOneMore
<1> HIDE DEF four
<1>7. Spells(five, 5, w)
  BY <1>2, <1>6, SpellsOneMore
<1> HIDE DEF five
<1>8. Spells(six, 6, w)
  BY <1>2, <1>7, SpellsOneMore
<1> HIDE DEF six
<1>9. Spells(seven, 7, w)
  BY <1>2, <1>8, SpellsOneMore
<1>10. QED
  BY <1>1, <1>9 DEF w

\* The bytes s are in data from place at on, counted from 0.
Holds(data, at, s) ==
    /\ at \in Nat /\ at + Len(s) <= Len(data)
    /\ \A i \in 1..Len(s) : data[at + i] = s[i]

\* A part of a part is a part.
LEMMA HoldsWithin ==
    ASSUME NEW d \in Seq(AnyByte), NEW s \in Seq(AnyByte), NEW t \in Seq(AnyByte),
           NEW a, NEW b, Holds(d, a, s), Holds(s, b, t)
    PROVE  Holds(d, a + b, t)
<1>1. a \in Nat /\ b \in Nat /\ Len(d) \in Nat /\ Len(s) \in Nat /\ Len(t) \in Nat
  BY DEF Holds
<1>2. a + Len(s) <= Len(d) /\ b + Len(t) <= Len(s)
  BY DEF Holds
<1>3. ASSUME NEW i \in 1..Len(t) PROVE d[a + b + i] = t[i]
  <2>1. b + i \in 1..Len(s) /\ a + (b + i) = a + b + i
    BY <1>1, <1>2
  <2>2. d[a + (b + i)] = s[b + i] /\ s[b + i] = t[i]
    BY <2>1 DEF Holds
  <2>3. QED
    BY <2>1, <2>2
<1>4. a + b \in Nat /\ a + b + Len(t) <= Len(d)
  BY <1>1, <1>2
<1>5. QED
  BY <1>3, <1>4 DEF Holds

\* Two sequences make one that holds both.
LEMMA HoldsBoth ==
    ASSUME NEW s \in Seq(AnyByte), NEW t \in Seq(AnyByte)
    PROVE  /\ Then(s, t) \in Seq(AnyByte) /\ Len(Then(s, t)) = Len(s) + Len(t)
           /\ Holds(Then(s, t), 0, s) /\ Holds(Then(s, t), Len(s), t)
<1> DEFINE u == Then(s, t)
<1>1. u \in Seq(AnyByte) /\ Joins(u, s, t)
  BY Joined
<1>2. Len(s) \in Nat /\ Len(t) \in Nat
  OBVIOUS
<1> HIDE DEF u
<1>3. Len(u) = Len(s) + Len(t)
  BY <1>1 DEF Joins
<1>4. Holds(u, Len(s), t)
  BY <1>1, <1>2, <1>3 DEF Joins, Holds
<1>5. \A i \in 1..Len(s) : u[0 + i] = s[i]
  BY <1>1 DEF Joins
<1>6. Holds(u, 0, s)
  BY <1>2, <1>3, <1>5 DEF Holds
<1>7. QED
  BY <1>1, <1>3, <1>4, <1>6 DEF u

\* Blocks of one length are held one after the other.
LEMMA HoldsBlocks ==
    ASSUME NEW n \in Nat \ {0}, NEW L \in Nat, NEW seqs \in [1..n -> Seq(AnyByte)],
           \A k \in 1..n : Len(seqs[k]) = L
    PROVE  /\ FlattenSeq(seqs) \in Seq(AnyByte) /\ Len(FlattenSeq(seqs)) = n * L
           /\ \A k \in 1..n : Holds(FlattenSeq(seqs), (k - 1) * L, seqs[k])
<1> DEFINE u == FlattenSeq(seqs)
<1>1. /\ u \in Seq(AnyByte) /\ Len(u) = n * L
      /\ \A k \in 1..n, j \in 1..L : u[(k - 1) * L + j] = seqs[k][j]
  BY FlattenBlocks
<1> HIDE DEF u
<1>2. ASSUME NEW k \in 1..n PROVE Holds(u, (k - 1) * L, seqs[k])
  <2> DEFINE start == (k - 1) * L
             end == n * L
  <2>1. start \in Nat /\ end \in Nat /\ start + L <= end
    <3>1. k - 1 \in Nat /\ n - k \in Nat
      OBVIOUS
    <3>2. (k - 1) * L \in Nat /\ (n - k) * L \in Nat /\ n * L \in Nat
      BY <3>1
    <3>3. n * L = (k - 1) * L + L + (n - k) * L
      OBVIOUS
    <3>4. QED
      BY <3>2, <3>3
  <2>2. \A j \in 1..L : u[start + j] = seqs[k][j]
    BY <1>1
  <2>3. Len(u) = end /\ Len(seqs[k]) = L
    BY <1>1
  <2> HIDE DEF start, end
  <2>4. Holds(u, start, seqs[k])
    BY <2>1, <2>2, <2>3 DEF Holds
  <2>5. QED
    BY <2>4 DEF start
<1>3. QED
  BY <1>1, <1>2 DEF u

\* What is held can be read.
LEMMA SliceHeld ==
    ASSUME NEW data \in Seq(AnyByte), NEW s \in Seq(AnyByte), NEW at, Holds(data, at, s)
    PROVE  InBounds(data, at, Len(s)) /\ Slice(data, at, Len(s)) = s
<1> DEFINE n == Len(s)
           t == SubSeq(data, at + 1, at + n)
<1>1. n \in Nat /\ at \in Nat /\ at + n <= Len(data) /\ Len(data) \in Nat
  BY DEF Holds
<1>2. \A i \in 1..n : data[at + i] = s[i]
  BY DEF Holds
<1>3. s = [i \in 1..n |-> s[i]]
  OBVIOUS
<1> HIDE DEF n
<1> DEFINE first == at + 1
           last == at + n
<1>4. first \in Int /\ last \in Int /\ \A i \in first..last : data[i] \in AnyByte
  BY <1>1
<1> HIDE DEF first, last
<1>5. /\ SubSeq(data, first, last) \in Seq(AnyByte)
      /\ Len(SubSeq(data, first, last)) = IF first <= last THEN last - first + 1 ELSE 0
      /\ \A i \in 1..(last - first + 1) : SubSeq(data, first, last)[i] = data[first + i - 1]
  BY <1>4, SubSeqProperties
<1>6. last - first + 1 = n /\ (first <= last <=> n > 0) /\ first \in Int
      /\ \A i \in Int : first + i - 1 = at + i
  BY <1>1 DEF first, last
<1>7. t = SubSeq(data, first, last)
  BY DEF first, last
<1> HIDE DEF t
<1>8. t \in Seq(AnyByte) /\ Len(t) = n
  BY <1>1, <1>5, <1>6, <1>7
<1>9. ASSUME NEW i \in 1..n PROVE t[i] = data[at + i]
  <2>1. i \in 1..(last - first + 1) /\ first + i - 1 = at + i
    BY <1>6
  <2>2. SubSeq(data, first, last)[i] = data[first + i - 1]
    BY <1>5, <2>1
  <2>3. QED
    BY <1>7, <2>1, <2>2
<1>10. t = [i \in 1..n |-> t[i]]
  BY <1>8
<1>11. t = s
  BY <1>2, <1>3, <1>9, <1>10
<1>12. QED
  BY <1>1, <1>11 DEF n, t, InBounds, Slice

-----------------------------------------------------------------------------
(***************************************************************************)
(* Reading: offset structures that point to keys, signatures and messages  *)
(* give these back, and both layouts have such structures.                 *)
(***************************************************************************)

\* The seven numbers of one offset structure.
OffsetFields(pub, at, ix) ==
    <<pub + PUBKEY_SERIALIZED_SIZE, ix, pub, ix, at, MESSAGE_DATA_SIZE, ix>>

\* An offset structure read back.
LEMMA FieldHeld ==
    ASSUME NEW data \in Seq(AnyByte), NEW k \in Nat \ {0}, NEW s, NEW w,
           Spells(s, 7, w), Holds(data, 2 + (k - 1) * 14, s), NEW f \in 0..6
    PROVE  Field(data, k, f) = w[f + 1]
<1> DEFINE start == 2 + (k - 1) * 14
<1>1. start \in Nat
  OBVIOUS
<1>2. SIGNATURE_OFFSETS_START + (k - 1) * SIGNATURE_OFFSETS_SERIALIZED_SIZE = start
  BY DEF SIGNATURE_OFFSETS_START, SIGNATURE_OFFSETS_SERIALIZED_SIZE
<1> HIDE DEF start
<1>3. /\ 2 * f + 1 \in 1..14 /\ 2 * f + 2 \in 1..14 /\ f + 1 \in 1..7
      /\ 2 * (f + 1) - 1 = 2 * f + 1 /\ 2 * (f + 1) = 2 * f + 2
      /\ start + 2 * f + 1 = start + (2 * f + 1) /\ start + 2 * f + 2 = start + (2 * f + 2)
  BY <1>1
<1>4. Len(s) = 14 /\ \A i \in 1..7 : s[2 * i - 1][2] + 256 * s[2 * i][2] = w[i]
  BY DEF Spells
<1>5. \A i \in 1..14 : data[start + i] = s[i]
  BY <1>4 DEF Holds, start
<1>6. s[2 * f + 1][2] + 256 * s[2 * f + 2][2] = w[f + 1]
  BY <1>3, <1>4
<1>7. data[start + (2 * f + 1)] = s[2 * f + 1] /\ data[start + (2 * f + 2)] = s[2 * f + 2]
  BY <1>3, <1>5
<1>8. Field(data, k, f) = data[start + 2 * f + 1][2] + 256 * data[start + 2 * f + 2][2]
  BY <1>2 DEF Field
<1>9. QED
  BY <1>3, <1>6, <1>7, <1>8

\* The data hold, for the k-th of n signers, an offset structure and what it
\* points to.
PointsTo(data, k, s, pub, at, ix, g, m) ==
    /\ Spells(s, 7, OffsetFields(pub, at, ix))
    /\ Holds(data, 2 + (k - 1) * 14, s)
    /\ Holds(data, pub, KeyBytes(g))
    /\ Holds(data, pub + PUBKEY_SERIALIZED_SIZE, SignatureBytes(g, m))
    /\ Holds(data, at, MessageBytes(m))

\* Keys, signatures and messages are bytes of their sizes.
LEMMA OpaqueBytes ==
    ASSUME NEW g \in Guardian, NEW m \in Message
    PROVE  /\ KeyBytes(g) \in Seq(AnyByte) /\ Len(KeyBytes(g)) = PUBKEY_SERIALIZED_SIZE
           /\ SignatureBytes(g, m) \in Seq(AnyByte)
           /\ Len(SignatureBytes(g, m)) = SIGNATURE_SERIALIZED_SIZE
           /\ MessageBytes(m) \in Seq(AnyByte) /\ Len(MessageBytes(m)) = MESSAGE_DATA_SIZE
<1>1. /\ PUBKEY_SERIALIZED_SIZE \in Nat /\ SIGNATURE_SERIALIZED_SIZE \in Nat
      /\ MESSAGE_DATA_SIZE \in Nat
  BY SizeAssumption
<1>2. ASSUME NEW kind \in {"key", "sig", "msg"},
             NEW owner \in Guardian \cup Message \cup (Guardian \X Message), NEW size \in Nat
      PROVE  Opaque(kind, owner, size) \in Seq(AnyByte) /\ Len(Opaque(kind, owner, size)) = size
  <2>1. \A i \in 1..size : <<kind, owner, i>> \in AnyByte
    BY DEF AnyByte
  <2> HIDE DEF AnyByte
  <2>2. QED
    BY <2>1 DEF Opaque
<1>3. g \in Guardian \cup Message \cup (Guardian \X Message)
  OBVIOUS
<1>4. m \in Guardian \cup Message \cup (Guardian \X Message)
  OBVIOUS
<1>5. <<g, m>> \in Guardian \cup Message \cup (Guardian \X Message)
  OBVIOUS
<1>6. QED
  BY <1>1, <1>2, <1>3, <1>4, <1>5 DEF KeyBytes, SignatureBytes, MessageBytes

\* One signature read back.
LEMMA SignatureHeld ==
    ASSUME NEW data \in Seq(AnyByte), NEW k \in Nat \ {0}, NEW s, NEW pub, NEW at, NEW ix,
           NEW g \in Guardian, NEW m \in Message, PointsTo(data, k, s, pub, at, ix, g, m)
    PROVE  /\ InBounds(data, SignatureOffset(data, k), SIGNATURE_SERIALIZED_SIZE)
           /\ InBounds(data, PublicKeyOffset(data, k), PUBKEY_SERIALIZED_SIZE)
           /\ InBounds(data, MessageDataOffset(data, k), MessageDataSize(data, k))
           /\ MessageDataSize(data, k) = MESSAGE_DATA_SIZE
           /\ Slice(data, PublicKeyOffset(data, k), PUBKEY_SERIALIZED_SIZE) = KeyBytes(g)
           /\ Slice(data, SignatureOffset(data, k), SIGNATURE_SERIALIZED_SIZE)
                  = SignatureBytes(g, m)
           /\ Slice(data, MessageDataOffset(data, k), MessageDataSize(data, k))
                  = MessageBytes(m)
           /\ ix = U16_MAX => PointsHere(data, k)
<1> DEFINE w == OffsetFields(pub, at, ix)
<1>1. Spells(s, 7, w) /\ Holds(data, 2 + (k - 1) * 14, s)
  BY DEF PointsTo
<1>2. /\ w[1] = pub + PUBKEY_SERIALIZED_SIZE /\ w[3] = pub /\ w[5] = at
      /\ w[6] = MESSAGE_DATA_SIZE /\ w[2] = ix /\ w[4] = ix /\ w[7] = ix
  BY DEF OffsetFields
<1> HIDE DEF w
<1>3. \A f \in 0..6 : Field(data, k, f) = w[f + 1]
  BY <1>1, FieldHeld
<1>4. /\ SignatureOffset(data, k) = pub + PUBKEY_SERIALIZED_SIZE
      /\ PublicKeyOffset(data, k) = pub
      /\ MessageDataOffset(data, k) = at
      /\ MessageDataSize(data, k) = MESSAGE_DATA_SIZE
  BY <1>2, <1>3
     DEF SignatureOffset, PublicKeyOffset, MessageDataOffset, MessageDataSize
<1>5. /\ Holds(data, pub, KeyBytes(g))
      /\ Holds(data, pub + PUBKEY_SERIALIZED_SIZE, SignatureBytes(g, m))
      /\ Holds(data, at, MessageBytes(m))
  BY DEF PointsTo
<1>6. ix = U16_MAX => PointsHere(data, k)
  BY <1>2, <1>3 DEF PointsHere, SignatureInstructionIndex, PublicKeyInstructionIndex,
                    MessageInstructionIndex
<1>7. QED
  BY <1>4, <1>5, <1>6, OpaqueBytes, SliceHeld

\* The data do so for a whole batch.
PointsToAll(data, n, ix, signers, m) ==
    \A k \in 1..n : \E s, pub, at : PointsTo(data, k, s, pub, at, ix, signers[k], m)

\* The program reads just these signatures, out of the bytes that were checked.
ReadsBack(data, sigs) ==
    Loadable(data) /\ LoadSignatures(data) = sigs /\ InstructionAt(data) = "this"

\* A whole batch read back.
LEMMA BatchHeld ==
    ASSUME NEW data \in Seq(AnyByte), NEW n \in Nat, NumSigs(data) = n,
           2 + n * 14 <= Len(data), NEW m \in Message,
           NEW signers \in [1..n -> Guardian], NEW ix, ix = U16_MAX,
           PointsToAll(data, n, ix, signers, m)
    PROVE  ReadsBack(data, [k \in 1..n |-> ConstructSig(signers[k], m)])
<1>1. ASSUME NEW k \in 1..n
      PROVE  /\ InBounds(data, SignatureOffset(data, k), SIGNATURE_SERIALIZED_SIZE)
             /\ InBounds(data, PublicKeyOffset(data, k), PUBKEY_SERIALIZED_SIZE)
             /\ InBounds(data, MessageDataOffset(data, k), MessageDataSize(data, k))
             /\ MessageDataSize(data, k) = MESSAGE_DATA_SIZE
             /\ [pubkey |-> Slice(data, PublicKeyOffset(data, k), PUBKEY_SERIALIZED_SIZE),
                 signature |-> Slice(data, SignatureOffset(data, k), SIGNATURE_SERIALIZED_SIZE),
                 msg |-> Slice(data, MessageDataOffset(data, k), MessageDataSize(data, k))]
                    = ConstructSig(signers[k], m)
             /\ PointsHere(data, k)
  <2>1. k \in Nat \ {0} /\ signers[k] \in Guardian
    OBVIOUS
  <2>2. PICK s, pub, at : PointsTo(data, k, s, pub, at, ix, signers[k], m)
    BY DEF PointsToAll
  <2>3. QED
    BY <2>1, <2>2, SignatureHeld DEF ConstructSig
<1>2. InBounds(data, SIGNATURE_OFFSETS_START,
               NumSigs(data) * SIGNATURE_OFFSETS_SERIALIZED_SIZE)
  BY DEF InBounds, SIGNATURE_OFFSETS_START, SIGNATURE_OFFSETS_SERIALIZED_SIZE
<1>3. Loadable(data)
  BY <1>1, <1>2 DEF Loadable, OffsetsInBounds, SignatureInBounds
<1>4. LoadSignatures(data) = [k \in 1..n |-> ConstructSig(signers[k], m)]
  BY <1>1 DEF LoadSignatures
<1>5. InstructionAt(data) = "this"
  BY <1>1 DEF InstructionAt
<1>6. QED
  BY <1>3, <1>4, <1>5 DEF ReadsBack

\* What can be told in two bytes.
LEMMA FitsTwoBytes ==
    /\ U16_MAX \in Nat
    /\ \A v \in Nat : v <= U16_MAX => v \in U16
<1>1. U16_MAX \in Nat
  BY DEF U16_MAX
<1>2. QED
  BY <1>1 DEF U16

\* Keys and messages are shorter than that.
LEMMA SizesFit ==
    /\ {PUBKEY_SERIALIZED_SIZE, SIGNATURE_SERIALIZED_SIZE, MESSAGE_DATA_SIZE} \subseteq Nat
    /\ MESSAGE_DATA_SIZE \in U16
<1>1. /\ PUBKEY_SERIALIZED_SIZE \in 1..255 /\ SIGNATURE_SERIALIZED_SIZE \in 1..255
      /\ MESSAGE_DATA_SIZE \in 1..255
  BY SizeAssumption
<1>2. 255 <= U16_MAX
  BY DEF U16_MAX
<1>3. MESSAGE_DATA_SIZE \in U16
  BY <1>1, <1>2, FitsTwoBytes
<1>4. QED
  BY <1>1, <1>3

\* Where the data have their offsets and what comes behind them.
LEMMA InstDataHolds ==
    ASSUME NEW n \in Nat \ {0}, NEW offsets \in [1..n -> Seq(AnyByte)],
           \A k \in 1..n : Len(offsets[k]) = 14, NEW payload \in Seq(AnyByte)
    PROVE  LET data == InstData(offsets, payload)
           IN  /\ data \in Seq(AnyByte) /\ NumSigs(data) = n
               /\ Len(data) = 2 + n * 14 + Len(payload)
               /\ \A k \in 1..n : Holds(data, 2 + (k - 1) * 14, offsets[k])
               /\ Holds(data, 2 + n * 14, payload)
<1> DEFINE head == <<Byte(n), Byte(0)>>
           flat == FlattenSeq(offsets)
           front == Then(head, flat)
           data == Then(front, payload)
<1>1. data = InstData(offsets, payload)
  BY DEF InstData, Then
<1>2. head \in Seq(AnyByte) /\ Len(head) = 2 /\ head[1] = Byte(n)
  <2>1. Byte(n) \in AnyByte /\ Byte(0) \in AnyByte
    BY DEF Byte, AnyByte
  <2> HIDE DEF AnyByte, Byte
  <2>2. QED
    BY <2>1
<1>3. /\ flat \in Seq(AnyByte) /\ Len(flat) = n * 14
      /\ \A k \in 1..n : Holds(flat, (k - 1) * 14, offsets[k])
  BY HoldsBlocks
<1> HIDE DEF head, flat
<1>4. /\ front \in Seq(AnyByte) /\ Len(front) = 2 + n * 14
      /\ Holds(front, 0, head) /\ Holds(front, 2, flat)
  BY <1>2, <1>3, HoldsBoth
<1> HIDE DEF front
<1>5. /\ data \in Seq(AnyByte) /\ Len(data) = 2 + n * 14 + Len(payload)
      /\ Holds(data, 0, front) /\ Holds(data, 2 + n * 14, payload)
  BY <1>4, HoldsBoth
<1> HIDE DEF data
<1>6. \A k \in 1..n : Holds(front, 2 + (k - 1) * 14, offsets[k])
  BY <1>3, <1>4, HoldsWithin
<1>7. ASSUME NEW k \in 1..n PROVE Holds(data, 2 + (k - 1) * 14, offsets[k])
  <2>1. Holds(data, 0 + (2 + (k - 1) * 14), offsets[k])
    BY <1>4, <1>5, <1>6, HoldsWithin
  <2>2. 0 + (2 + (k - 1) * 14) = 2 + (k - 1) * 14
    OBVIOUS
  <2>3. QED
    BY <2>1, <2>2
<1>8. NumSigs(data) = n
  <2>1. front[0 + 1] = head[1]
    BY <1>2, <1>4 DEF Holds
  <2>2. data[0 + 1] = front[1]
    BY <1>4, <1>5 DEF Holds
  <2>3. data[1] = Byte(n)
    BY <1>2, <2>1, <2>2
  <2>4. QED
    BY <2>3 DEF NumSigs, Byte
<1>9. QED
  BY <1>1, <1>5, <1>7, <1>8

\* One member of a batch is where the payload has it: pub and at count from
\* the start of the payload.
PayloadHas(payload, pub, at, g, m) ==
    /\ Holds(payload, pub, KeyBytes(g))
    /\ Holds(payload, pub + PUBKEY_SERIALIZED_SIZE, SignatureBytes(g, m))
    /\ Holds(payload, at, MessageBytes(m))

\* A batch is read back whatever the order of the payload, as long as every
\* place in it can be told in two bytes.
LEMMA LayoutReadBack ==
    ASSUME NEW n \in Nat \ {0}, NEW m \in Message, NEW signers \in [1..n -> Guardian],
           NEW payload \in Seq(AnyByte), NEW ix \in U16, ix = U16_MAX, NEW offsets, NEW pub, NEW at,
           2 + n * 14 + Len(payload) <= U16_MAX,
           \A k \in 1..n : PayloadHas(payload, pub[k], at[k], signers[k], m),
           offsets = [k \in 1..n |->
               EncodeOffsets(2 + n * 14 + pub[k], 2 + n * 14 + at[k], MESSAGE_DATA_SIZE, ix)]
    PROVE  ReadsBack(InstData(offsets, payload), [k \in 1..n |-> ConstructSig(signers[k], m)])
<1> DEFINE D == 2 + n * 14
           data == InstData(offsets, payload)
<1>1. D \in Nat /\ D + Len(payload) <= U16_MAX /\ Len(payload) \in Nat
  OBVIOUS
<1>2. PUBKEY_SERIALIZED_SIZE \in Nat /\ MESSAGE_DATA_SIZE \in U16
  BY SizesFit
<1> HIDE DEF D
<1>3. ASSUME NEW k \in 1..n
      PROVE  Spells(offsets[k], 7, OffsetFields(D + pub[k], D + at[k], ix))
  <2>1. PayloadHas(payload, pub[k], at[k], signers[k], m)
    OBVIOUS
  <2>2. /\ pub[k] \in Nat /\ pub[k] + PUBKEY_SERIALIZED_SIZE <= Len(payload)
        /\ at[k] \in Nat /\ at[k] + MESSAGE_DATA_SIZE <= Len(payload)
    BY <2>1, OpaqueBytes DEF PayloadHas, Holds
  <2> DEFINE p == pub[k]
             a == at[k]
             last == Len(payload)
  <2>a. p \in Nat /\ p + PUBKEY_SERIALIZED_SIZE <= last /\ a \in Nat /\ a + MESSAGE_DATA_SIZE <= last
    BY <2>2
  <2>b. D \in Nat /\ D + last <= U16_MAX /\ last \in Nat /\ MESSAGE_DATA_SIZE \in Nat
    BY <1>1, SizesFit
  <2> HIDE DEF p, a, last
  <2>c. D + p \in U16 /\ D + p + PUBKEY_SERIALIZED_SIZE \in U16 /\ D + a \in U16
    <3>1. /\ D + p \in Nat /\ D + p + PUBKEY_SERIALIZED_SIZE \in Nat /\ D + a \in Nat
          /\ D + p <= U16_MAX /\ D + p + PUBKEY_SERIALIZED_SIZE <= U16_MAX /\ D + a <= U16_MAX
      BY <1>2, <2>a, <2>b, FitsTwoBytes
    <3>2. QED
      BY <3>1, FitsTwoBytes
  <2>3. D + pub[k] \in U16 /\ D + pub[k] + PUBKEY_SERIALIZED_SIZE \in U16 /\ D + at[k] \in U16
    BY <2>c DEF p, a
  <2>4. offsets[k] = EncodeOffsets(D + pub[k], D + at[k], MESSAGE_DATA_SIZE, ix)
    BY DEF D
  <2>5. QED
    BY <1>2, <2>3, <2>4, EncodedOffsets DEF OffsetFields
<1>4. offsets \in [1..n -> Seq(AnyByte)] /\ \A k \in 1..n : Len(offsets[k]) = 14
  <2>1. offsets = [k \in 1..n |-> offsets[k]]
    OBVIOUS
  <2>2. \A k \in 1..n : offsets[k] \in Seq(AnyByte) /\ Len(offsets[k]) = 14
    <3>1. 2 * 7 = 14
      OBVIOUS
    <3>2. TAKE k \in 1..n
    <3>3. Spells(offsets[k], 7, OffsetFields(D + pub[k], D + at[k], ix))
      BY <1>3
    <3>4. QED
      BY <3>1, <3>3 DEF Spells
  <2>3. QED
    BY <2>1, <2>2
<1>5. /\ data \in Seq(AnyByte) /\ NumSigs(data) = n
      /\ Len(data) = D + Len(payload)
      /\ \A k \in 1..n : Holds(data, 2 + (k - 1) * 14, offsets[k])
      /\ Holds(data, D, payload)
  BY <1>4, InstDataHolds DEF D
<1> HIDE DEF data
<1>6. ASSUME NEW k \in 1..n
      PROVE  PointsTo(data, k, offsets[k], D + pub[k], D + at[k], ix, signers[k], m)
  <2>1. /\ Holds(payload, pub[k], KeyBytes(signers[k]))
        /\ Holds(payload, pub[k] + PUBKEY_SERIALIZED_SIZE, SignatureBytes(signers[k], m))
        /\ Holds(payload, at[k], MessageBytes(m))
    BY DEF PayloadHas
  <2>2. /\ KeyBytes(signers[k]) \in Seq(AnyByte) /\ MessageBytes(m) \in Seq(AnyByte)
        /\ SignatureBytes(signers[k], m) \in Seq(AnyByte)
    BY OpaqueBytes
  <2>3. /\ Holds(data, D + pub[k], KeyBytes(signers[k]))
        /\ Holds(data, D + (pub[k] + PUBKEY_SERIALIZED_SIZE), SignatureBytes(signers[k], m))
        /\ Holds(data, D + at[k], MessageBytes(m))
    BY <1>5, <2>1, <2>2, HoldsWithin
  <2>4. pub[k] \in Nat
    BY <2>1 DEF Holds
  <2>5. D + (pub[k] + PUBKEY_SERIALIZED_SIZE) = D + pub[k] + PUBKEY_SERIALIZED_SIZE
    BY <1>1, <1>2, <2>4
  <2>6. QED
    BY <1>3, <1>5, <2>3, <2>5 DEF PointsTo
<1>7. 2 + n * 14 <= Len(data)
  BY <1>1, <1>5 DEF D
<1>8. \A k \in 1..n : \E s, p, a : PointsTo(data, k, s, p, a, ix, signers[k], m)
  BY <1>6
<1>9. n \in Nat /\ data \in Seq(AnyByte) /\ NumSigs(data) = n
  BY <1>5
<1>10. ReadsBack(data, [k \in 1..n |-> ConstructSig(signers[k], m)])
  BY <1>7, <1>8, <1>9, BatchHeld DEF PointsToAll
<1>11. QED
  BY <1>10 DEF data

\* A batch of no more than all guardians fits.
LEMMA BatchFits ==
    ASSUME NEW n \in 1..MAX_GUARDIAN_COUNT
    PROVE  LET stride == PUBKEY_SERIALIZED_SIZE + SIGNATURE_SERIALIZED_SIZE
           IN  /\ 2 + n * 14 + (MESSAGE_DATA_SIZE + n * stride) <= U16_MAX
               /\ 2 + n * 14 + n * (stride + MESSAGE_DATA_SIZE) <= U16_MAX
<1> DEFINE stride == PUBKEY_SERIALIZED_SIZE + SIGNATURE_SERIALIZED_SIZE
           msg == MESSAGE_DATA_SIZE
           one == 14 + stride + msg
           C == MAX_GUARDIAN_COUNT
           max == U16_MAX
<1>1. stride \in Nat /\ msg \in Nat \ {0} /\ one = 14 + stride + msg /\ max \in Nat
  <2>1. /\ PUBKEY_SERIALIZED_SIZE \in 1..255 /\ SIGNATURE_SERIALIZED_SIZE \in 1..255
        /\ MESSAGE_DATA_SIZE \in 1..255
    BY SizeAssumption
  <2>2. QED
    BY <2>1, FitsTwoBytes
<1>2. C \in Nat /\ n \in 1..C
  BY CountAssumption
<1>3. 2 + C * one <= max
  <2>1. 14 + PUBKEY_SERIALIZED_SIZE + SIGNATURE_SERIALIZED_SIZE + MESSAGE_DATA_SIZE = one
    BY SizesFit
  <2>2. QED
    BY <2>1, DataAssumption DEF SIGNATURE_OFFSETS_START, SIGNATURE_OFFSETS_SERIALIZED_SIZE
<1> HIDE DEF stride, msg, one, C, max
<1>4. C - n \in Nat /\ n - 1 \in Nat /\ one \in Nat
  BY <1>1, <1>2
<1>5. (C - n) * one \in Nat /\ (n - 1) * msg \in Nat /\ n * stride \in Nat /\ n * msg \in Nat
  BY <1>1, <1>2, <1>4
<1>6. C * one = n * one + (C - n) * one
  BY <1>1, <1>2, <1>4
<1>7. n * one = n * 14 + n * stride + n * msg
  BY <1>1, <1>2
<1>8. n * msg = msg + (n - 1) * msg /\ n * (stride + msg) = n * stride + n * msg
  BY <1>1, <1>2
<1>9. 2 + n * 14 + (msg + n * stride) <= max /\ 2 + n * 14 + n * (stride + msg) <= max
  <2> DEFINE a == n * stride
             b == n * msg
             c == (C - n) * one
             d == (n - 1) * msg
             e == C * one
             f == n * one
             h == n * (stride + msg)
  <2>1. /\ a \in Nat /\ b \in Nat /\ c \in Nat /\ d \in Nat /\ e = f + c
        /\ f = n * 14 + a + b /\ b = msg + d /\ h = a + b /\ 2 + e <= max
    BY <1>3, <1>5, <1>6, <1>7, <1>8
  <2> HIDE DEF a, b, c, d, e, f, h
  <2>2. 2 + n * 14 + (msg + a) <= max /\ 2 + n * 14 + h <= max
    BY <1>1, <1>2, <2>1
  <2>3. QED
    BY <2>2 DEF a, h
<1>10. QED
  BY <1>9 DEF stride, msg, max

\* The packed layout: the message, then each key with its signature.
LEMMA PackedReadBack ==
    ASSUME NEW n \in 1..MAX_GUARDIAN_COUNT, NEW m \in Message,
           NEW signers \in [1..n -> Guardian]
    PROVE  LET sigs == [k \in 1..n |-> ConstructSig(signers[k], m)]
           IN  ReadsBack(MakeEd25519InstDataPacked(sigs, U16_MAX), sigs)
<1> DEFINE sigs == [k \in 1..n |-> ConstructSig(signers[k], m)]
           stride == PUBKEY_SERIALIZED_SIZE + SIGNATURE_SERIALIZED_SIZE
           M == MESSAGE_DATA_SIZE
           msg == MessageBytes(m)
           blocks == [k \in 1..n |-> Then(KeyBytes(signers[k]), SignatureBytes(signers[k], m))]
           flat == FlattenSeq(blocks)
           payload == Then(msg, flat)
           pub == [k \in 1..n |-> M + (k - 1) * stride]
           at == [k \in 1..n |-> 0]
           offsets == [k \in 1..n |->
               EncodeOffsets(2 + n * 14 + pub[k], 2 + n * 14 + at[k], MESSAGE_DATA_SIZE, U16_MAX)]
<1>1. n \in Nat \ {0} /\ U16_MAX \in U16
  BY FitsTwoBytes DEF U16
<1>2. stride \in Nat /\ M \in Nat
  BY SizesFit
<1>3. ASSUME NEW k \in 1..n
      PROVE  /\ blocks[k] \in Seq(AnyByte) /\ Len(blocks[k]) = stride
             /\ Holds(blocks[k], 0, KeyBytes(signers[k]))
             /\ Holds(blocks[k], PUBKEY_SERIALIZED_SIZE, SignatureBytes(signers[k], m))
  <2> DEFINE key == KeyBytes(signers[k])
             sig == SignatureBytes(signers[k], m)
  <2>1. /\ key \in Seq(AnyByte) /\ Len(key) = PUBKEY_SERIALIZED_SIZE
        /\ sig \in Seq(AnyByte) /\ Len(sig) = SIGNATURE_SERIALIZED_SIZE
    BY OpaqueBytes
  <2>2. blocks[k] = Then(key, sig)
    OBVIOUS
  <2> HIDE DEF key, sig, blocks
  <2>3. /\ blocks[k] \in Seq(AnyByte) /\ Len(blocks[k]) = stride
        /\ Holds(blocks[k], 0, key) /\ Holds(blocks[k], PUBKEY_SERIALIZED_SIZE, sig)
    BY <2>1, <2>2, HoldsBoth
  <2>4. QED
    BY <2>3 DEF key, sig
<1>4. MakeEd25519InstDataPacked(sigs, U16_MAX) = InstData(offsets, payload)
  <2>1. /\ DOMAIN sigs = 1..n /\ Len(sigs) = n
        /\ \A k \in 1..n : /\ sigs[k].pubkey = KeyBytes(signers[k])
                           /\ sigs[k].signature = SignatureBytes(signers[k], m)
                           /\ sigs[k].msg = msg
    BY <1>1 DEF ConstructSig
  <2> HIDE DEF sigs
  <2>2. [k \in DOMAIN sigs |-> sigs[k].pubkey \o sigs[k].signature] = blocks
    BY <2>1 DEF Then
  <2>3. sigs[1].msg = msg
    BY <1>1, <2>1
  <2>4. DataStart(sigs) = 2 + n * 14
    BY <1>1, <2>1
       DEF DataStart, SIGNATURE_OFFSETS_SERIALIZED_SIZE, SIGNATURE_OFFSETS_START
  <2>5. Len(msg) = M
    BY OpaqueBytes
  <2>6. \A k \in 1..n : /\ 2 + n * 14 + M + (k - 1) * stride = 2 + n * 14 + pub[k]
                        /\ 2 + n * 14 = 2 + n * 14 + at[k]
    <3>1. TAKE k \in 1..n
    <3>2. (k - 1) * stride \in Nat
      BY <1>2
    <3>3. QED
      BY <1>1, <1>2, <3>2
  <2>7. [k \in DOMAIN sigs |->
            EncodeOffsets(DataStart(sigs) + Len(sigs[1].msg) + (k - 1) * stride,
                          DataStart(sigs), Len(sigs[k].msg), U16_MAX)] = offsets
    BY <2>1, <2>3, <2>4, <2>5, <2>6
  <2>8. QED
    BY <2>2, <2>3, <2>7 DEF MakeEd25519InstDataPacked, Then
<1>5. blocks \in [1..n -> Seq(AnyByte)]
  BY <1>3
<1> HIDE DEF blocks
<1>6. /\ flat \in Seq(AnyByte) /\ Len(flat) = n * stride
      /\ \A k \in 1..n : Holds(flat, (k - 1) * stride, blocks[k])
  BY <1>1, <1>2, <1>3, <1>5, HoldsBlocks
<1> HIDE DEF flat
<1>7. msg \in Seq(AnyByte) /\ Len(msg) = M
  BY OpaqueBytes
<1>8. /\ payload \in Seq(AnyByte) /\ Len(payload) = M + n * stride
      /\ Holds(payload, 0, msg) /\ Holds(payload, M, flat)
  BY <1>6, <1>7, HoldsBoth
<1>9. 2 + n * 14 + Len(payload) <= U16_MAX
  BY <1>8, BatchFits
<1> HIDE DEF payload, M, stride
<1>10. ASSUME NEW k \in 1..n PROVE PayloadHas(payload, pub[k], at[k], signers[k], m)
  <2> DEFINE key == KeyBytes(signers[k])
             sig == SignatureBytes(signers[k], m)
             place == (k - 1) * stride
  <2>1. key \in Seq(AnyByte) /\ sig \in Seq(AnyByte)
    BY OpaqueBytes
  <2>a. Holds(flat, place, blocks[k]) /\ place \in Nat
    BY <1>2, <1>6
  <2> HIDE DEF place
  <2>2. Holds(payload, M + place, blocks[k]) /\ place \in Nat
    BY <1>3, <1>6, <1>8, <2>a, HoldsWithin
  <2>3. /\ Holds(payload, M + place + 0, key)
        /\ Holds(payload, M + place + PUBKEY_SERIALIZED_SIZE, sig)
    BY <1>3, <1>8, <2>1, <2>2, HoldsWithin
  <2>4. M + place + 0 = M + place
    BY <1>2, <2>2
  <2>5. pub[k] = M + place /\ at[k] = 0
    BY DEF place
  <2>6. QED
    BY <1>8, <2>3, <2>4, <2>5 DEF PayloadHas
<1> HIDE DEF pub, at, sigs
<1>11. ReadsBack(InstData(offsets, payload), [k \in 1..n |-> ConstructSig(signers[k], m)])
  BY <1>1, <1>8, <1>9, <1>10, LayoutReadBack
<1>12. QED
  BY <1>4, <1>11 DEF sigs

\* The other layout: each key, its signature and its message.
LEMMA UnpackedReadBack ==
    ASSUME NEW n \in 1..MAX_GUARDIAN_COUNT, NEW m \in Message,
           NEW signers \in [1..n -> Guardian]
    PROVE  LET sigs == [k \in 1..n |-> ConstructSig(signers[k], m)]
           IN  ReadsBack(MakeEd25519InstData(sigs, U16_MAX), sigs)
<1> DEFINE sigs == [k \in 1..n |-> ConstructSig(signers[k], m)]
           before == PUBKEY_SERIALIZED_SIZE + SIGNATURE_SERIALIZED_SIZE
           stride == before + MESSAGE_DATA_SIZE
           msg == MessageBytes(m)
           block(k) == Then(Then(KeyBytes(signers[k]), SignatureBytes(signers[k], m)), msg)
           blocks == [k \in 1..n |-> block(k)]
           payload == FlattenSeq(blocks)
           pub == [k \in 1..n |-> (k - 1) * stride]
           at == [k \in 1..n |-> (k - 1) * stride + before]
           offsets == [k \in 1..n |->
               EncodeOffsets(2 + n * 14 + pub[k], 2 + n * 14 + at[k], MESSAGE_DATA_SIZE, U16_MAX)]
<1>1. n \in Nat \ {0} /\ U16_MAX \in U16
  BY FitsTwoBytes DEF U16
<1>2. before \in Nat /\ stride \in Nat
  BY SizesFit
<1>3. ASSUME NEW k \in 1..n
      PROVE  /\ blocks[k] \in Seq(AnyByte) /\ Len(blocks[k]) = stride
             /\ Holds(blocks[k], 0, KeyBytes(signers[k]))
             /\ Holds(blocks[k], PUBKEY_SERIALIZED_SIZE, SignatureBytes(signers[k], m))
             /\ Holds(blocks[k], before, msg)
  <2> DEFINE key == KeyBytes(signers[k])
             sig == SignatureBytes(signers[k], m)
             both == Then(key, sig)
  <2>1. /\ key \in Seq(AnyByte) /\ Len(key) = PUBKEY_SERIALIZED_SIZE
        /\ sig \in Seq(AnyByte) /\ Len(sig) = SIGNATURE_SERIALIZED_SIZE
        /\ msg \in Seq(AnyByte) /\ Len(msg) = MESSAGE_DATA_SIZE
    BY OpaqueBytes
  <2>2. blocks[k] = Then(both, msg)
    OBVIOUS
  <2> HIDE DEF key, sig, msg, blocks
  <2>3. /\ both \in Seq(AnyByte) /\ Len(both) = before
        /\ Holds(both, 0, key) /\ Holds(both, PUBKEY_SERIALIZED_SIZE, sig)
    BY <2>1, HoldsBoth
  <2> HIDE DEF both
  <2>a. /\ Then(both, msg) \in Seq(AnyByte) /\ Len(Then(both, msg)) = Len(both) + Len(msg)
        /\ Holds(Then(both, msg), 0, both) /\ Holds(Then(both, msg), Len(both), msg)
    BY <2>1, <2>3, HoldsBoth
  <2>4. /\ blocks[k] \in Seq(AnyByte) /\ Len(blocks[k]) = stride
        /\ Holds(blocks[k], 0, both) /\ Holds(blocks[k], before, msg)
    BY <2>1, <2>2, <2>3, <2>a
  <2>5. /\ Holds(blocks[k], 0 + 0, key)
        /\ Holds(blocks[k], 0 + PUBKEY_SERIALIZED_SIZE, sig)
    BY <2>1, <2>3, <2>4, HoldsWithin
  <2>6. 0 + 0 = 0 /\ 0 + PUBKEY_SERIALIZED_SIZE = PUBKEY_SERIALIZED_SIZE
    BY SizesFit
  <2>7. QED
    BY <2>4, <2>5, <2>6 DEF key, sig
<1>4. MakeEd25519InstData(sigs, U16_MAX) = InstData(offsets, payload)
  <2>1. /\ DOMAIN sigs = 1..n /\ Len(sigs) = n
        /\ \A k \in 1..n : /\ sigs[k].pubkey = KeyBytes(signers[k])
                           /\ sigs[k].signature = SignatureBytes(signers[k], m)
                           /\ sigs[k].msg = msg
    BY <1>1 DEF ConstructSig
  <2> HIDE DEF sigs
  <2>2. [k \in DOMAIN sigs |-> sigs[k].pubkey \o sigs[k].signature \o sigs[k].msg] = blocks
    BY <2>1 DEF Then
  <2>3. DataStart(sigs) = 2 + n * 14
    BY <1>1, <2>1
       DEF DataStart, SIGNATURE_OFFSETS_SERIALIZED_SIZE, SIGNATURE_OFFSETS_START
  <2>4. Len(msg) = MESSAGE_DATA_SIZE
    BY OpaqueBytes
  <2>5. \A k \in 1..n : /\ 2 + n * 14 + (k - 1) * stride = 2 + n * 14 + pub[k]
                        /\ 2 + n * 14 + (k - 1) * stride + before = 2 + n * 14 + at[k]
    <3>1. TAKE k \in 1..n
    <3>2. (k - 1) * stride \in Nat
      BY <1>2
    <3>3. QED
      BY <1>1, <1>2, <3>2
  <2>6. [k \in DOMAIN sigs |->
            EncodeOffsets(DataStart(sigs) + (k - 1) * stride,
                          DataStart(sigs) + (k - 1) * stride + before,
                          Len(sigs[k].msg), U16_MAX)] = offsets
    BY <2>1, <2>3, <2>4, <2>5
  <2>7. QED
    BY <2>2, <2>6 DEF MakeEd25519InstData
<1>5. blocks \in [1..n -> Seq(AnyByte)]
  BY <1>3
<1> HIDE DEF blocks
<1>6. /\ payload \in Seq(AnyByte) /\ Len(payload) = n * stride
      /\ \A k \in 1..n : Holds(payload, (k - 1) * stride, blocks[k])
  BY <1>1, <1>2, <1>3, <1>5, HoldsBlocks
<1>7. 2 + n * 14 + Len(payload) <= U16_MAX
  BY <1>6, BatchFits
<1> HIDE DEF payload, stride
<1>8. ASSUME NEW k \in 1..n PROVE PayloadHas(payload, pub[k], at[k], signers[k], m)
  <2> DEFINE key == KeyBytes(signers[k])
             sig == SignatureBytes(signers[k], m)
             place == (k - 1) * stride
  <2>1. key \in Seq(AnyByte) /\ sig \in Seq(AnyByte) /\ msg \in Seq(AnyByte)
    BY OpaqueBytes
  <2>2. Holds(payload, place, blocks[k]) /\ place \in Nat
    BY <1>2, <1>6
  <2>3. pub[k] = place /\ at[k] = place + before
    OBVIOUS
  <2> HIDE DEF place, pub, at
  <2>4. /\ Holds(payload, place + 0, key)
        /\ Holds(payload, place + PUBKEY_SERIALIZED_SIZE, sig)
        /\ Holds(payload, place + before, msg)
    BY <1>3, <1>6, <2>1, <2>2, HoldsWithin
  <2>5. place + 0 = place
    BY <2>2
  <2>6. QED
    BY <2>3, <2>4, <2>5 DEF PayloadHas
<1> HIDE DEF pub, at, sigs
<1>9. ReadsBack(InstData(offsets, payload), [k \in 1..n |-> ConstructSig(signers[k], m)])
  BY <1>1, <1>6, <1>7, <1>8, LayoutReadBack
<1>10. QED
  BY <1>4, <1>9 DEF sigs

-----------------------------------------------------------------------------
\* What is under way is a batch of at most all guardians, as the scripts lay
\* it out.
SentAsPacked ==
    \A tx \in sent :
        /\ \E n \in 1..MAX_GUARDIAN_COUNT : tx.signers \in [1..n -> Guardian]
        /\ tx.msg_hash \in Message
        /\ DOMAIN tx.signer_indexes = DOMAIN tx.signers
        /\ tx.signer_indexes \in SignerIndexes
        /\ tx.data = MakeEd25519InstDataPacked(
               [k \in DOMAIN tx.signers |-> ConstructSig(tx.signers[k], tx.msg_hash)], U16_MAX)

\* Whatever the relayer submits is.
LEMMA SubmittedAsPacked ==
    ASSUME TypeOK, NEW m \in Message, NEW signers \in Batches(m), Submit(m, signers),
           SentAsPacked
    PROVE  SentAsPacked'
<1> DEFINE tx == Transaction(m, signers)
<1>1. PICK n \in 1..Len(guardians) : signers \in [1..n -> Signers(m)]
  BY DEF Batches
<1>2. n \in 1..MAX_GUARDIAN_COUNT
  BY <1>1, GuardiansType, CountAssumption
<1>3. tx.signer_indexes \in SignerIndexes /\ tx.signers \in [DOMAIN tx.signer_indexes -> Guardian]
  BY SubmittedTransaction
<1>4. /\ tx.msg_hash = m /\ tx.signers = signers
      /\ tx.data = MakeEd25519InstDataPacked(
             [k \in DOMAIN signers |-> ConstructSig(signers[k], m)], U16_MAX)
      /\ DOMAIN tx.signer_indexes = DOMAIN signers
  BY DEF Transaction
<1>5. sent' = sent \cup {tx}
  BY DEF Submit
<1> HIDE DEF tx
<1>6. signers \in [1..n -> Guardian]
  BY <1>1, <1>3, <1>4
<1>7. QED
  BY <1>2, <1>3, <1>4, <1>5, <1>6 DEF SentAsPacked

\* So it stays.
LEMMA PackedInvariance == RelaySpec => []SentAsPacked
<1>1. RelayInit => SentAsPacked
  BY DEF RelayInit, SentAsPacked
<1>2. ASSUME TypeOK, SentAsPacked, [RelayNext]_relayVars PROVE SentAsPacked'
  <2>1. CASE AnySubmit
    <3>1. PICK m \in Message : \E signers \in Batches(m) : Submit(m, signers)
      BY <2>1 DEF AnySubmit
    <3>2. PICK signers \in Batches(m) : Submit(m, signers)
      BY <3>1
    <3>3. QED
      BY <1>2, <3>2, SubmittedAsPacked
  <2>2. CASE sent' \subseteq sent
    BY <1>2, <2>2 DEF SentAsPacked
  <2>3. QED
    BY <1>2, <2>1, <2>2
       DEF RelayNext, relayVars, AnyLand, Land, AnyLandFromClient, LandFromClient, AnyDrop,
          Drop, Meanwhile
<1>3. IInv => TypeOK
  BY DEF IInv
<1>4. QED
  BY <1>1, <1>2, <1>3, RelayInvariance, PTL DEF RelaySpec

\* The bytes of such a batch give the batch.
LEMMA PackedIsReadBack ==
    ASSUME SentAsPacked, NEW tx \in sent
    PROVE  LET sigs == [k \in DOMAIN tx.signers |-> ConstructSig(tx.signers[k], tx.msg_hash)]
           IN  /\ ReadsBack(MakeEd25519InstDataPacked(sigs, U16_MAX), sigs)
               /\ ReadsBack(MakeEd25519InstData(sigs, U16_MAX), sigs)
<1>1. PICK n \in 1..MAX_GUARDIAN_COUNT : tx.signers \in [1..n -> Guardian]
  BY DEF SentAsPacked
<1>2. tx.msg_hash \in Message /\ DOMAIN tx.signers = 1..n
  BY <1>1 DEF SentAsPacked
<1>3. QED
  BY <1>1, <1>2, PackedReadBack, UnpackedReadBack

\* No offset is cut off or shifted and no index points elsewhere: for up to as
\* many guardians as the account holds and any sizes that fit, the program reads
\* the batch that was sent, in either layout, out of the bytes that were checked.
THEOREM BatchesAreReadBack == RelaySpec => []SignaturesReadBack
<1>1. SentAsPacked => SignaturesReadBack
  BY PackedIsReadBack DEF SignaturesReadBack, ReadsBack
<1>2. QED
  BY <1>1, PackedInvariance, PTL

\* Executing a transaction checks its signers against the list as it is.
LEMMA LandNamesSigners ==
    ASSUME SentAsPacked, NEW tx \in sent, Land(tx), NEW k \in DOMAIN tx.signers
    PROVE  GuardianAt(tx.signer_indexes[k]) = tx.signers[k]
<1> DEFINE sigs == [j \in DOMAIN tx.signers |-> ConstructSig(tx.signers[j], tx.msg_hash)]
           named == [j \in DOMAIN tx.signer_indexes |-> GuardianAt(tx.signer_indexes[j])]
<1>1. tx.data = MakeEd25519InstDataPacked(sigs, U16_MAX)
  BY DEF SentAsPacked
<1>2. ReadsBack(tx.data, sigs)
  BY <1>1, PackedIsReadBack
<1>3. VerifyEd25519Ix(tx.data, named, tx.msg_hash)
  BY DEF Land, Execute
<1>4. sigs[k].pubkey = KeyBytes(named[k])
  <2>1. k \in DOMAIN sigs
    OBVIOUS
  <2> HIDE DEF sigs, named
  <2>2. QED
    BY <1>2, <1>3, <2>1 DEF ReadsBack, VerifyEd25519Ix
<1>5. sigs[k].pubkey = KeyBytes(tx.signers[k])
  BY DEF ConstructSig
<1>6. k \in DOMAIN tx.signer_indexes
  BY DEF SentAsPacked
<1>7. KeyBytes(tx.signers[k]) = KeyBytes(GuardianAt(tx.signer_indexes[k]))
  BY <1>4, <1>5, <1>6
<1>8. QED
  BY <1>7, KeysDiffer

\* However stale its indexes are when it is executed, a batch is recorded only
\* for the guardians whose signatures it carries.
THEOREM BatchesNameTheirSigners == RelaySpec => IndexesNameTheSigners
<1> DEFINE NamedRight(tx) ==
        PubkeyIndex(tx.msg_hash)' = PubkeyIndex(tx.msg_hash) \o tx.signer_indexes =>
            \A k \in DOMAIN tx.signers : GuardianAt(tx.signer_indexes[k]) = tx.signers[k]
<1>1. ASSUME TypeOK, SentAsPacked, [RelayNext]_relayVars, NEW tx \in sent \ sent'
      PROVE  NamedRight(tx)
  <2>1. CASE AnyLand
    <3>1. PICK t \in sent : Land(t)
      BY <2>1 DEF AnyLand
    <3>2. t = tx
      BY <1>1, <3>1 DEF Land
    <3>3. QED
      BY <1>1, <3>1, <3>2, LandNamesSigners
  <2>2. CASE AnyDrop
    <3>1. guardianVars' = guardianVars
      BY <2>2 DEF AnyDrop, Drop
    <3>2. PubkeyIndex(tx.msg_hash)' = PubkeyIndex(tx.msg_hash)
      BY <3>1 DEF guardianVars, PubkeyIndex
    <3> DEFINE old == PubkeyIndex(tx.msg_hash)
               new == tx.signer_indexes
    <3>3. old \in Seq(Index)
      BY <1>1, PubkeyIndexType DEF SentAsPacked
    <3>4. new \in Seq(Index) /\ Len(new) > 0
      <4>1. PICK n \in 1..MAX_GUARDIAN_COUNT : new \in [1..n -> Index]
        BY <1>1 DEF SentAsPacked, SignerIndexes
      <4>2. n \in Nat /\ n > 0
        BY CountAssumption
      <4> HIDE DEF new
      <4>3. QED
        BY <4>1, <4>2
    <3>5. PubkeyIndex(tx.msg_hash)' = old
      BY <3>2
    <3>6. old # old \o new
      <4> HIDE DEF old, new
      <4>1. Len(old \o new) = Len(old) + Len(new) /\ Len(old) \in Nat /\ Len(new) \in Nat
        BY <3>3, <3>4
      <4>2. Len(old \o new) # Len(old)
        BY <3>4, <4>1
      <4>3. QED
        BY <4>2
    <3>7. QED
      BY <3>5, <3>6
  <2>3. CASE sent \subseteq sent'
    BY <1>1, <2>3
  <2>4. QED
    BY <1>1, <2>1, <2>2, <2>3 DEF RelayNext, relayVars, AnySubmit, Submit, AnyLandFromClient,
                                         LandFromClient, Meanwhile
<1>2. ASSUME TypeOK, SentAsPacked, [RelayNext]_relayVars
      PROVE  [\A tx \in sent \ sent' : NamedRight(tx)]_relayVars
  BY <1>1, <1>2
<1>3. IInv => TypeOK
  BY DEF IInv
<1>4. QED
  BY <1>2, <1>3, RelayInvariance, PackedInvariance, PTL DEF RelaySpec, IndexesNameTheSigners

=============================================================================
