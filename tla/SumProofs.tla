----------------------------- MODULE SumProofs -----------------------------
(***************************************************************************)
(* Sums over finite functions (SumFunction of module Functions): what they *)
(* are when a value is added, changed or moved.  The library defines them  *)
(* by recursion over subsets; the induction is done once, here, over sets  *)
(* of sets in place of predicates.                                         *)
(***************************************************************************)
EXTENDS Integers, FiniteSets, Functions, TLAPS, FiniteSetTheorems, WellFoundedInduction

-----------------------------------------------------------------------------

\* Among subsets of a finite set, one has no smaller beside it.
LEMMA SmallestSubset ==
    ASSUME NEW S, IsFiniteSet(S), NEW T \in SUBSET (SUBSET S), T # {}
    PROVE  \E s \in T : \A t \in T : t \subseteq s => t = s
<1> DEFINE R == StrictSubsetOrdering(S)
           F == FiniteSubsetsOf(S)
<1>1. IsWellFoundedOn(R, F)
  BY FS_StrictSubsetOrderingWellFounded
<1>2. T \subseteq F
  BY FS_Subset DEF FiniteSubsetsOf
<1> HIDE DEF R, F
<1>3. \E s \in T : \A t \in T : ~ (<<t, s>> \in R)
  BY <1>1, <1>2, WFMin
<1>4. QED
  BY <1>3 DEF R, StrictSubsetOrdering

\* Induction over the subsets of a finite set: Good is the set of those for
\* which the claim holds.
LEMMA SubsetInduction ==
    ASSUME NEW S, IsFiniteSet(S), NEW Good,
           \A s \in SUBSET S : (\A t \in SUBSET s : t # s => t \in Good) => s \in Good
    PROVE  \A s \in SUBSET S : s \in Good
<1> DEFINE Bad == {s \in SUBSET S : s \notin Good}
<1> SUFFICES ASSUME Bad # {} PROVE FALSE
  OBVIOUS
<1>1. PICK s \in Bad : \A t \in Bad : t \subseteq s => t = s
  <2>1. Bad \in SUBSET (SUBSET S)
    OBVIOUS
  <2> HIDE DEF Bad
  <2>2. QED
    BY <2>1, SmallestSubset
<1>2. \A t \in SUBSET s : t # s => t \in Good
  BY <1>1
<1>3. QED
  BY <1>1, <1>2

\* Induction over the natural numbers: Good is the set of those for which the
\* claim holds.
LEMMA NaturalInduction ==
    ASSUME NEW Good, 0 \in Good, \A n \in Nat : n \in Good => n + 1 \in Good
    PROVE  \A n \in Nat : n \in Good
<1> DEFINE Bad == {n \in Nat : n \notin Good}
           R == OpToRel(<, Nat)
<1> SUFFICES ASSUME Bad # {} PROVE FALSE
  OBVIOUS
<1>1. IsWellFoundedOn(R, Nat)
  BY NatLessThanWellFounded
<1>2. Bad \subseteq Nat
  OBVIOUS
<1> HIDE DEF Bad, R
<1>3. PICK n \in Bad : \A m \in Bad : ~ (<<m, n>> \in R)
  BY <1>1, <1>2, WFMin
<1>4. n \in Nat /\ n \notin Good /\ n # 0
  BY <1>3 DEF Bad
<1>5. n - 1 \in Nat /\ <<n - 1, n>> \in R
  BY <1>4 DEF R, OpToRel
<1>6. n - 1 \in Good
  BY <1>3, <1>5 DEF Bad
<1>7. n - 1 + 1 \in Good
  BY <1>5, <1>6
<1>8. QED
  BY <1>4, <1>7

-----------------------------------------------------------------------------
\* One step of the library's fold, given the sums of smaller sets.
SumStep(f, sums, s) ==
    IF s = {} THEN 0
    ELSE f[CHOOSE x \in s : TRUE] + sums[s \ {CHOOSE x \in s : TRUE}]
PartialSums(f) == CHOOSE sums : sums = [s \in SUBSET DOMAIN f |-> SumStep(f, sums, s)]

\* The library's sum of f, in these terms.
LEMMA SumIsPartialSum == \A f : SumFunction(f) = PartialSums(f)[DOMAIN f]
  BY DEF SumFunction, SumFunctionOnSet, FoldFunctionOnSet, MapThenFoldSet,
         PartialSums, SumStep

\* The recursion of the fold has a solution.
LEMMA PartialSumsExist ==
    ASSUME NEW D, IsFiniteSet(D), NEW f \in [D -> Int]
    PROVE  /\ PartialSums(f) \in [SUBSET D -> Int]
           /\ \A s \in SUBSET D : PartialSums(f)[s] = SumStep(f, PartialSums(f), s)
<1> DEFINE Solves(g, n) == \A s \in SUBSET D : Cardinality(s) <= n => g[s] = SumStep(f, g, s)
           Good == {n \in Nat : \E g \in [SUBSET D -> Int] : Solves(g, n)}
<1>0. \A s \in SUBSET D : /\ IsFiniteSet(s) /\ Cardinality(s) \in Nat
                          /\ Cardinality(s) <= Cardinality(D)
                          /\ Cardinality(s) = 0 <=> s = {}
                          /\ \A x \in s : Cardinality(s \ {x}) = Cardinality(s) - 1
  BY FS_Subset, FS_CardinalityType, FS_EmptySet, FS_RemoveElement
<1>a. \A s \in SUBSET D : s # {} => (CHOOSE x \in s : TRUE) \in s
  OBVIOUS
<1>1. 0 \in Good
  <2> DEFINE g == [s \in SUBSET D |-> 0]
  <2>1. Solves(g, 0)
    BY <1>0 DEF SumStep
  <2>2. g \in [SUBSET D -> Int]
    OBVIOUS
  <2> HIDE DEF g
  <2>3. QED
    BY <2>1, <2>2
<1>2. ASSUME NEW n \in Nat, n \in Good PROVE n + 1 \in Good
  <2>1. PICK g \in [SUBSET D -> Int] : Solves(g, n)
    BY <1>2
  <2> DEFINE h == [s \in SUBSET D |-> SumStep(f, g, s)]
  <2>2. h \in [SUBSET D -> Int]
    BY <1>a DEF SumStep
  <2>3. \A s \in SUBSET D : Cardinality(s) <= n => h[s] = g[s]
    BY <2>1
  <2>4. ASSUME NEW s \in SUBSET D, Cardinality(s) <= n + 1 PROVE h[s] = SumStep(f, h, s)
    <3>1. CASE s = {}
      BY <3>1 DEF SumStep
    <3>2. CASE s # {}
      <4> DEFINE x == CHOOSE x \in s : TRUE
      <4>1. x \in s /\ s \ {x} \in SUBSET D
        BY <1>a, <3>2
      <4> HIDE DEF x
      <4>2. Cardinality(s \ {x}) <= n
        BY <1>0, <2>4, <4>1
      <4>3. h[s \ {x}] = g[s \ {x}]
        BY <2>3, <4>1, <4>2
      <4>4. QED
        BY <3>2, <4>3 DEF SumStep, x
    <3>3. QED
      BY <3>1, <3>2
  <2> HIDE DEF h
  <2>5. Solves(h, n + 1)
    BY <2>4
  <2>6. QED
    BY <2>2, <2>5
<1> HIDE DEF Good
<1>3. Cardinality(D) \in Nat
  BY FS_CardinalityType
<1>4. Cardinality(D) \in Good
  BY <1>1, <1>2, <1>3, NaturalInduction
<1>5. PICK g \in [SUBSET D -> Int] : \A s \in SUBSET D : g[s] = SumStep(f, g, s)
  BY <1>0, <1>4 DEF Good
<1>6. DOMAIN f = D
  OBVIOUS
<1>7. g = [s \in SUBSET DOMAIN f |-> SumStep(f, g, s)]
  BY <1>5, <1>6
<1>8. PartialSums(f) = [s \in SUBSET D |-> SumStep(f, PartialSums(f), s)]
  BY <1>6, <1>7 DEF PartialSums
<1> DEFINE sums == PartialSums(f)
<1>9. DOMAIN sums = SUBSET D /\ \A s \in SUBSET D : sums[s] = SumStep(f, sums, s)
  BY <1>8
<1> HIDE DEF sums
<1>10. \A s \in SUBSET D : sums[s] \in Int
  <2> DEFINE Typed == {s \in SUBSET D : sums[s] \in Int}
  <2>1. ASSUME NEW s \in SUBSET D, \A t \in SUBSET s : t # s => t \in Typed
        PROVE  s \in Typed
    <3>1. CASE s = {}
      BY <1>9, <3>1 DEF SumStep
    <3>2. CASE s # {}
      <4> DEFINE x == CHOOSE x \in s : TRUE
      <4>1. x \in s /\ s \ {x} \in SUBSET s /\ s \ {x} # s
        BY <1>a, <3>2
      <4>2. sums[s] = f[x] + sums[s \ {x}]
        BY <1>9, <3>2 DEF SumStep
      <4> HIDE DEF x
      <4>3. QED
        BY <2>1, <4>1, <4>2
    <3>3. QED
      BY <3>1, <3>2
  <2> HIDE DEF Typed
  <2>2. \A s \in SUBSET D : s \in Typed
    BY <2>1, SubsetInduction
  <2>3. QED
    BY <2>2 DEF Typed
<1>11. QED
  <2>1. sums = [s \in SUBSET D |-> sums[s]]
    BY <1>8 DEF sums
  <2>2. QED
    BY <2>1, <1>9, <1>10 DEF sums

\* The element the fold chooses is as good as any other.
LEMMA PartialSumsSplit ==
    ASSUME NEW D, IsFiniteSet(D), NEW f \in [D -> Int]
    PROVE  \A s \in SUBSET D : \A x \in s :
               PartialSums(f)[s] = f[x] + PartialSums(f)[s \ {x}]
<1> DEFINE sums == PartialSums(f)
           Good == {s \in SUBSET D : \A x \in s : sums[s] = f[x] + sums[s \ {x}]}
<1>1. sums \in [SUBSET D -> Int] /\ \A s \in SUBSET D : sums[s] = SumStep(f, sums, s)
  BY PartialSumsExist
<1> HIDE DEF sums
<1>2. ASSUME NEW s \in SUBSET D, \A t \in SUBSET s : t # s => t \in Good
      PROVE  s \in Good
  <2> SUFFICES ASSUME NEW x \in s PROVE sums[s] = f[x] + sums[s \ {x}]
    OBVIOUS
  <2> DEFINE c == CHOOSE c \in s : TRUE
  <2>1. c \in s /\ sums[s] = f[c] + sums[s \ {c}]
    BY <1>1 DEF SumStep
  <2> HIDE DEF c
  <2>2. CASE c # x
    <3>1. sums[s \ {c}] = f[x] + sums[(s \ {c}) \ {x}]
      <4>1. s \ {c} \in Good /\ x \in s \ {c}
        BY <1>2, <2>1, <2>2
      <4>2. QED
        BY <4>1
    <3>2. sums[s \ {x}] = f[c] + sums[(s \ {x}) \ {c}]
      <4>1. s \ {x} \in Good /\ c \in s \ {x}
        BY <1>2, <2>1, <2>2
      <4>2. QED
        BY <4>1
    <3>3. (s \ {x}) \ {c} = (s \ {c}) \ {x}
      OBVIOUS
    <3>4. f[x] \in Int /\ f[c] \in Int /\ sums[(s \ {c}) \ {x}] \in Int
      BY <1>1, <2>1
    <3> DEFINE rest == sums[(s \ {c}) \ {x}]
    <3>5. /\ sums[s] = f[c] + (f[x] + rest) /\ sums[s \ {x}] = f[c] + rest
          /\ rest \in Int
      BY <2>1, <3>1, <3>2, <3>3, <3>4
    <3> HIDE DEF rest
    <3>6. QED
      BY <3>4, <3>5
  <2>3. QED
    BY <2>1, <2>2
<1> HIDE DEF Good
<1>3. \A s \in SUBSET D : s \in Good
  BY <1>2, SubsetInduction
<1>4. QED
  BY <1>3 DEF Good, sums

\* Sums of integers are integers.
LEMMA PartialSumsType ==
    ASSUME NEW D, IsFiniteSet(D), NEW f \in [D -> Int], NEW s \in SUBSET D
    PROVE  PartialSums(f)[s] \in Int
<1>1. PartialSums(f) \in [SUBSET D -> Int]
  BY PartialSumsExist
<1> HIDE DEF PartialSums
<1>2. QED
  BY <1>1

\* The sum over a set depends on the values there only.
LEMMA PartialSumsAgree ==
    ASSUME NEW D, IsFiniteSet(D), NEW f \in [D -> Int],
           NEW E, IsFiniteSet(E), NEW g \in [E -> Int],
           NEW S \in SUBSET (D \cap E), \A x \in S : f[x] = g[x]
    PROVE  PartialSums(f)[S] = PartialSums(g)[S]
<1> DEFINE Good == {s \in SUBSET S : PartialSums(f)[s] = PartialSums(g)[s]}
<1>1. /\ \A s \in SUBSET D : PartialSums(f)[s] = SumStep(f, PartialSums(f), s)
      /\ \A s \in SUBSET E : PartialSums(g)[s] = SumStep(g, PartialSums(g), s)
  BY PartialSumsExist
<1>2. ASSUME NEW s \in SUBSET S, \A t \in SUBSET s : t # s => t \in Good
      PROVE  s \in Good
  <2> DEFINE c == CHOOSE c \in s : TRUE
  <2>1. s # {} => c \in s
    OBVIOUS
  <2>2. s # {} => PartialSums(f)[s \ {c}] = PartialSums(g)[s \ {c}] /\ f[c] = g[c]
    <3> HIDE DEF c
    <3> QED
      BY <1>2, <2>1
  <2>3. /\ PartialSums(f)[s] = SumStep(f, PartialSums(f), s)
        /\ PartialSums(g)[s] = SumStep(g, PartialSums(g), s)
    BY <1>1
  <2>4. SumStep(f, PartialSums(f), s) = SumStep(g, PartialSums(g), s)
    BY <2>2 DEF SumStep
  <2>5. QED
    BY <2>3, <2>4
<1> HIDE DEF Good
<1>3. IsFiniteSet(S)
  BY FS_Subset
<1>4. S \in Good
  BY <1>2, <1>3, SubsetInduction
<1>5. QED
  BY <1>4 DEF Good

-----------------------------------------------------------------------------
(***************************************************************************)
(* What the other proofs cite.                                             *)
(***************************************************************************)

\* The sum of integers is an integer.
LEMMA SumType ==
    ASSUME NEW D, IsFiniteSet(D), NEW f \in [D -> Int]
    PROVE  SumFunction(f) \in Int
<1>1. SumFunction(f) = PartialSums(f)[D]
  BY SumIsPartialSum
<1>2. PartialSums(f)[D] \in Int
  BY PartialSumsType
<1>3. QED
  BY <1>1, <1>2

\* Nothing sums up to zero.
LEMMA SumEmpty ==
    ASSUME NEW f \in [{} -> Int]
    PROVE  SumFunction(f) = 0
<1>1. IsFiniteSet({})
  BY FS_EmptySet
<1>2. PartialSums(f)[{}] = 0
  BY <1>1, PartialSumsExist DEF SumStep
<1>3. QED
  BY <1>2, SumIsPartialSum

\* One more value.
LEMMA SumExtend ==
    ASSUME NEW E, IsFiniteSet(E), NEW x \in E, NEW f \in [E \ {x} -> Int],
           NEW g \in [E -> Int], \A y \in E \ {x} : g[y] = f[y]
    PROVE  SumFunction(g) = SumFunction(f) + g[x]
<1> DEFINE D == E \ {x}
<1>1. IsFiniteSet(D)
  BY FS_Subset
<1>2. PartialSums(g)[E] = g[x] + PartialSums(g)[D]
  BY PartialSumsSplit
<1>3. PartialSums(g)[D] = PartialSums(f)[D]
  BY <1>1, PartialSumsAgree
<1>4. PartialSums(f)[D] \in Int /\ g[x] \in Int
  BY <1>1, PartialSumsType
<1>5. DOMAIN g = E /\ DOMAIN f = D
  OBVIOUS
<1> HIDE DEF D
<1>6. SumFunction(g) = PartialSums(g)[E] /\ SumFunction(f) = PartialSums(f)[D]
  BY <1>5, SumIsPartialSum
<1>7. SumFunction(g) = g[x] + PartialSums(f)[D]
  BY <1>2, <1>3, <1>6
<1>8. QED
  BY <1>4, <1>6, <1>7

\* One value changed.
LEMMA SumChange ==
    ASSUME NEW D, IsFiniteSet(D), NEW f \in [D -> Int], NEW g \in [D -> Int],
           NEW x \in D, \A y \in D \ {x} : g[y] = f[y]
    PROVE  SumFunction(g) = SumFunction(f) - f[x] + g[x]
<1>1. /\ PartialSums(f)[D] = f[x] + PartialSums(f)[D \ {x}]
      /\ PartialSums(g)[D] = g[x] + PartialSums(g)[D \ {x}]
  BY PartialSumsSplit
<1>2. PartialSums(g)[D \ {x}] = PartialSums(f)[D \ {x}]
  BY PartialSumsAgree
<1>3. PartialSums(f)[D \ {x}] \in Int
  <2>1. D \ {x} \in SUBSET D
    OBVIOUS
  <2>2. QED
    BY <2>1, PartialSumsType
<1>4. SumFunction(g) = PartialSums(g)[D] /\ SumFunction(f) = PartialSums(f)[D]
  BY SumIsPartialSum
<1>5. QED
  BY <1>1, <1>2, <1>3, <1>4

\* Two values changed.
LEMMA SumChangeTwo ==
    ASSUME NEW D, IsFiniteSet(D), NEW f \in [D -> Int], NEW g \in [D -> Int],
           NEW x \in D, NEW y \in D, x # y, \A z \in D \ {x, y} : g[z] = f[z]
    PROVE  SumFunction(g) = SumFunction(f) - f[x] + g[x] - f[y] + g[y]
<1> DEFINE h == [f EXCEPT ![x] = g[x]]
<1>1. /\ h \in [D -> Int] /\ h[x] = g[x] /\ h[y] = f[y]
      /\ \A z \in D \ {x} : h[z] = f[z]
      /\ \A z \in D \ {y} : g[z] = h[z]
  OBVIOUS
<1> HIDE DEF h
<1>2. SumFunction(h) = SumFunction(f) - f[x] + h[x]
  BY <1>1, SumChange
<1>3. SumFunction(g) = SumFunction(h) - h[y] + g[y]
  BY <1>1, SumChange
<1>4. SumFunction(f) \in Int /\ f[x] \in Int /\ g[x] \in Int /\ f[y] \in Int /\ g[y] \in Int
  BY SumType
<1>5. QED
  BY <1>1, <1>2, <1>3, <1>4

\* Equal values have equal sums.
LEMMA SumSame ==
    ASSUME NEW D, IsFiniteSet(D), NEW f \in [D -> Int], NEW g \in [D -> Int],
           \A x \in D : f[x] = g[x]
    PROVE  SumFunction(f) = SumFunction(g)
<1>1. f = g
  OBVIOUS
<1>2. QED
  BY <1>1

\* The same value on part of the domain, nothing elsewhere.
LEMMA SumConstant ==
    ASSUME NEW D, IsFiniteSet(D), NEW S \in SUBSET D, NEW c \in Int, NEW f \in [D -> Int],
           \A x \in S : f[x] = c, \A x \in D \ S : f[x] = 0
    PROVE  SumFunction(f) = Cardinality(S) * c
<1> DEFINE sums == PartialSums(f)
           count(s) == Cardinality(s \cap S)
           Good == {s \in SUBSET D : sums[s] = count(s) * c}
<1>1. /\ sums[{}] = 0
      /\ \A s \in SUBSET D : \A x \in s : sums[s] = f[x] + sums[s \ {x}]
  <2>1. sums[{}] = SumStep(f, sums, {})
    BY PartialSumsExist
  <2>2. QED
    BY <2>1, PartialSumsSplit DEF SumStep
<1>2. /\ count({}) = 0
      /\ \A s \in SUBSET D : count(s) \in Nat
      /\ \A s \in SUBSET D : \A x \in s :
             count(s \ {x}) = IF x \in S THEN count(s) - 1 ELSE count(s)
  <2>1. {} \cap S = {} /\ Cardinality({}) = 0
    BY FS_EmptySet
  <2>2. ASSUME NEW s \in SUBSET D PROVE IsFiniteSet(s \cap S) /\ count(s) \in Nat
    <3>1. IsFiniteSet(s \cap S)
      BY FS_Subset
    <3>2. QED
      BY <3>1, FS_CardinalityType
  <2>3. ASSUME NEW s \in SUBSET D, NEW x \in s
        PROVE  count(s \ {x}) = IF x \in S THEN count(s) - 1 ELSE count(s)
    <3>1. CASE x \in S
      <4>1. (s \ {x}) \cap S = (s \cap S) \ {x} /\ x \in s \cap S
        BY <3>1
      <4>2. Cardinality((s \cap S) \ {x}) = Cardinality(s \cap S) - 1
        BY <2>2, <4>1, FS_RemoveElement
      <4>3. QED
        BY <3>1, <4>1, <4>2
    <3>2. CASE x \notin S
      <4>1. (s \ {x}) \cap S = s \cap S
        BY <3>2
      <4>2. QED
        BY <3>2, <4>1
    <3>3. QED
      BY <3>1, <3>2
  <2>4. QED
    BY <2>1, <2>2, <2>3
<1> HIDE DEF sums, count
<1>3. ASSUME NEW s \in SUBSET D, \A t \in SUBSET s : t # s => t \in Good
      PROVE  s \in Good
  <2>1. CASE s = {}
    BY <1>1, <1>2, <2>1
  <2>2. CASE s # {}
    <3>1. PICK x \in s : TRUE
      BY <2>2
    <3>2. s \ {x} \in Good
      BY <1>3, <3>1
    <3>3. sums[s] = f[x] + count(s \ {x}) * c
      BY <1>1, <3>1, <3>2
    <3>4. count(s) \in Int
      BY <1>2
    <3>5. CASE x \in S
      <4>1. f[x] = c /\ count(s \ {x}) = count(s) - 1
        BY <1>2, <3>1, <3>5
      <4>2. sums[s] = c + (count(s) - 1) * c
        BY <3>3, <4>1
      <4>3. c + (count(s) - 1) * c = count(s) * c
        BY <3>4
      <4>4. QED
        BY <4>2, <4>3
    <3>6. CASE x \notin S
      <4>1. f[x] = 0 /\ count(s \ {x}) = count(s)
        BY <1>2, <3>1, <3>6
      <4>2. sums[s] = 0 + count(s) * c
        BY <3>3, <4>1
      <4>3. 0 + count(s) * c = count(s) * c
        BY <3>4
      <4>4. QED
        BY <4>2, <4>3
    <3>7. QED
      BY <3>5, <3>6
  <2>3. QED
    BY <2>1, <2>2
<1> HIDE DEF Good
<1>4. D \in Good
  BY <1>3, SubsetInduction
<1>5. D \cap S = S
  OBVIOUS
<1>6. QED
  BY <1>4, <1>5, SumIsPartialSum DEF Good, sums, count

=============================================================================
