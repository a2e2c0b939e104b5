----------------------------- MODULE SharedFacts -----------------------------
(***************************************************************************)
(* Facts about natural numbers, finite sets and queues that the other      *)
(* proofs use.                                                             *)
(***************************************************************************)
EXTENDS Integers, FiniteSets, TLAPS, WellFoundedInduction, FiniteSetTheorems, SequenceTheorems

----------------------------------------------------------------------------
(***************************************************************************)
(* Natural numbers.                                                        *)
(***************************************************************************)
\* A set of natural numbers that is not empty has a least element.
LEMMA LeastOf ==
  ASSUME NEW S \in SUBSET Nat, S # {}
  PROVE  \E m \in S : \A n \in S : m <= n
<1>1. PICK m \in S : \A n \in S : ~(<<n, m>> \in OpToRel(<, Nat))
  BY NatLessThanWellFounded, WFMin, Zenon
<1>2. \A n \in S : ~(n < m)
  BY <1>1 DEF OpToRel
<1> QED
  BY <1>2

\* A bounded set of natural numbers that is not empty has a greatest element.
LEMMA GreatestOf ==
  ASSUME NEW S \in SUBSET Nat, S # {}, NEW bound \in Nat, \A n \in S : n <= bound
  PROVE  \E m \in S : \A n \in S : n <= m
<1> DEFINE D == {bound - n : n \in S}
<1>0. \A n \in S : bound - n \in Nat
  OBVIOUS
<1>1. D \in SUBSET Nat /\ D # {}
  BY <1>0, Zenon
<1>2. PICK d \in D : \A e \in D : d <= e
  BY <1>1, LeastOf
<1>3. PICK m \in S : d = bound - m
  OBVIOUS
<1>4. \A n \in S : n <= m
  BY <1>2, <1>3
<1> QED
  BY <1>4

----------------------------------------------------------------------------
LEMMA ProductSteps ==
  ASSUME NEW n \in Nat \ {0}, NEW p \in Nat, NEW q \in Nat, p < q
  PROVE  n * p + n <= n * q
<1>1. q - p \in Nat /\ q - p >= 1
  OBVIOUS
<1>2. n * (q - p) >= n
  BY <1>1
<1>3. n * (q - p) = n * q - n * p
  OBVIOUS
<1>4. n * p \in Nat /\ n * q \in Nat
  OBVIOUS
<1> QED
  BY <1>2, <1>3, <1>4

\* Two multiples of n are n apart at least.
LEMMA MultiplesApart ==
  ASSUME NEW n \in Nat \ {0}, NEW g \in Nat, NEW h \in Nat, g % n = 0, h % n = 0, g < h
  PROVE  g + n <= h
<1> DEFINE p == g \div n
           q == h \div n
<1>1. g = n * p + (g % n) /\ p \in Nat
  OBVIOUS
<1>2. h = n * q + (h % n) /\ q \in Nat
  OBVIOUS
<1> HIDE DEF p, q
<1>3. g = n * p /\ h = n * q
  BY <1>1, <1>2
<1>4. ~(q <= p)
  BY <1>1, <1>2, <1>3, ProductSteps
<1> QED
  BY <1>1, <1>2, <1>3, <1>4, ProductSteps

\* Adding n once leaves the remainder.
LEMMA SameRemainder ==
  ASSUME NEW n \in Nat \ {0}, NEW h \in Nat
  PROVE  (h + n) % n = h % n
<1> DEFINE q == h \div n
           r == h % n
<1>1. h = n * q + r /\ q \in Nat /\ r \in 0..(n - 1)
  OBVIOUS
<1> HIDE DEF q, r
<1>2. h + n = n * (q + 1) + r
  BY <1>1
<1>3. (n * (q + 1) + r) % n = r
  BY <1>1
<1> QED
  BY <1>2, <1>3 DEF r

\* h - (h % n) is the latest multiple of n up to h.
LEMMA LatestMultiple ==
  ASSUME NEW n \in Nat \ {0}, NEW h \in Nat
  PROVE  /\ h - (h % n) \in Nat /\ h - (h % n) <= h /\ h < h - (h % n) + n
         /\ (h - (h % n)) % n = 0
         /\ h % n = 0 <=> h - (h % n) = h
<1>1. PICK q \in Nat : h = n * q + (h % n)
  <2>1. h = n * (h \div n) + (h % n) /\ h \div n \in Nat
    OBVIOUS
  <2> QED
    BY <2>1
<1>2. h % n \in 0..(n - 1)
  OBVIOUS
<1>3. n * q \in Nat /\ h - (h % n) = n * q
  BY <1>1, <1>2
<1>4. (n * q) % n = 0
  <2>1. (n * q + 0) % n = 0
    OBVIOUS
  <2> QED
    BY <2>1, <1>3
<1>5. h % n = 0 <=> h - (h % n) = h
  BY <1>2
<1>6. h - (h % n) <= h /\ h < h - (h % n) + n
  BY <1>2
<1> QED
  BY <1>3, <1>4, <1>5, <1>6

----------------------------------------------------------------------------
(***************************************************************************)
(* Finite sets.                                                            *)
(***************************************************************************)
\* A set of subsets of a finite set has all of them, if it has each subset of which it
\* has all the smaller ones.
LEMMA InductionOnSize ==
  ASSUME NEW S, IsFiniteSet(S), NEW Good \in SUBSET (SUBSET S),
         \A R \in SUBSET S :
           (\A Q \in SUBSET S : Cardinality(Q) < Cardinality(R) => Q \in Good) => R \in Good
  PROVE  Good = SUBSET S
<1> DEFINE Sizes == {Cardinality(R) : R \in (SUBSET S) \ Good}
<1>1. \A R \in SUBSET S : Cardinality(R) \in Nat
  BY FS_Subset, FS_CardinalityType
<1>2. ASSUME NEW P \in SUBSET S, P \notin Good PROVE FALSE
  <2>1. Sizes \in SUBSET Nat /\ Sizes # {}
    BY <1>1, <1>2
  <2> HIDE DEF Sizes
  <2>2. PICK n \in Sizes : \A m \in Sizes : n <= m
    BY <2>1, LeastOf
  <2>3. PICK R \in (SUBSET S) \ Good : n = Cardinality(R)
    BY <2>2 DEF Sizes
  <2>4. ASSUME NEW Q \in SUBSET S, Cardinality(Q) < Cardinality(R) PROVE Q \in Good
    <3> SUFFICES ASSUME Q \notin Good PROVE FALSE
      OBVIOUS
    <3>1. Cardinality(Q) \in Sizes
      BY DEF Sizes
    <3> QED
      BY <1>1, <2>2, <2>3, <2>4, <3>1
  <2> QED
    BY <2>3, <2>4
<1> QED
  BY <1>2

\* A subset without one of its members.
LEMMA SmallerSet ==
  ASSUME NEW S, IsFiniteSet(S), NEW R \in SUBSET S, NEW x \in R
  PROVE  /\ IsFiniteSet(R) /\ R \ {x} \in SUBSET S /\ IsFiniteSet(R \ {x})
         /\ Cardinality(R) \in Nat /\ Cardinality(R \ {x}) \in Nat
         /\ Cardinality(R \ {x}) < Cardinality(R)
<1>1. IsFiniteSet(R)
  BY FS_Subset
<1>2. IsFiniteSet(R \ {x}) /\ Cardinality(R \ {x}) = Cardinality(R) - 1
  BY <1>1, FS_RemoveElement
<1> QED
  BY <1>1, <1>2, FS_CardinalityType

----------------------------------------------------------------------------
(***************************************************************************)
(* Queues: what taking the first one and adding one at the end do.         *)
(***************************************************************************)
\* What is left of a queue when its first block is taken.
LEMMA TailFacts ==
  ASSUME NEW S, NEW s \in Seq(S), s # <<>>
  PROVE  /\ Tail(s) \in Seq(S) /\ Head(s) \in S /\ Head(s) = s[1] /\ 1 \in DOMAIN s
         /\ \A i \in DOMAIN Tail(s) : i + 1 \in DOMAIN s /\ Tail(s)[i] = s[i + 1]
         /\ \A i \in DOMAIN s : i # 1 => i - 1 \in DOMAIN Tail(s) /\ Tail(s)[i - 1] = s[i]
  OBVIOUS

\* A queue with another block at its end.
LEMMA AppendFacts ==
  ASSUME NEW S, NEW s \in Seq(S), NEW x \in S
  PROVE  /\ Append(s, x) \in Seq(S)
         /\ Len(s) + 1 \in DOMAIN Append(s, x) /\ Append(s, x)[Len(s) + 1] = x
         /\ \A i \in DOMAIN s : i \in DOMAIN Append(s, x) /\ Append(s, x)[i] = s[i]
         /\ \A i \in DOMAIN Append(s, x) : i = Len(s) + 1 \/ i \in DOMAIN s
         /\ Len(s) + 1 \notin DOMAIN s
  OBVIOUS

\* A queue is indexed by numbers from 1 on; it is empty or has a first block.
LEMMA IndexFacts ==
  ASSUME NEW S, NEW s \in Seq(S)
  PROVE  /\ DOMAIN s \subseteq Nat \ {0}
         /\ \A i \in DOMAIN s : s[i] \in S /\ i <= Len(s) /\ s # <<>>
         /\ Len(s) \in Nat /\ (s = <<>> <=> Len(s) = 0)
  OBVIOUS

\* A block in front of two others.
LEMMA InFrontOfTwo ==
  ASSUME NEW a, NEW b, NEW c
  PROVE  <<a>> \o <<b, c>> = <<a, b, c>>
<1> DEFINE S == {a, b, c}
           l == <<a>> \o <<b, c>>
           r == <<a, b, c>>
<1>1. <<a>> \in Seq(S) /\ <<b, c>> \in Seq(S) /\ r \in Seq(S)
  OBVIOUS
<1>2. l \in Seq(S) /\ Len(l) = 3 /\ l[1] = a /\ l[2] = b /\ l[3] = c
  BY <1>1
<1>3. Len(r) = 3 /\ r[1] = a /\ r[2] = b /\ r[3] = c
  OBVIOUS
<1> HIDE DEF l, r, S
<1>4. \A i \in 1..3 : l[i] = r[i]
  BY <1>2, <1>3
<1> QED
  BY <1>1, <1>2, <1>3, <1>4, SeqEqual DEF l, r
==============================================================================
