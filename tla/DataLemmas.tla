----------------------------- MODULE DataLemmas -----------------------------
(***************************************************************************)
(* Facts about sequences and numbers that the proofs need: what is left of *)
(* a queue when an element is taken out (RemoveAt and RemoveFirst of       *)
(* SequencesExt), and least numbers.                                       *)
(***************************************************************************)
EXTENDS SequencesExt, SequenceTheorems, FiniteSetTheorems,
        WellFoundedInduction, TLAPS

(* The elements before the place stay, those behind it move up. *)
LEMMA RemoveAtProperties ==
  ASSUME NEW S, NEW s \in Seq(S), NEW i \in 1 .. Len(s)
  PROVE  /\ RemoveAt(s, i) \in Seq(S)
         /\ Len(RemoveAt(s, i)) = Len(s) - 1
         /\ \A j \in 1 .. Len(s) - 1 :
              RemoveAt(s, i)[j] = IF j < i THEN s[j] ELSE s[j + 1]
<1> DEFINE a == SubSeq(s, 1, i - 1)
           b == SubSeq(s, i + 1, Len(s))
<1>0. Len(s) \in Nat /\ \A j \in 1 .. Len(s) : s[j] \in S
  BY LenProperties, ElementOfSeq
<1>1. a \in Seq(S) /\ Len(a) = i - 1 /\ \A j \in 1 .. i - 1 : a[j] = s[j]
  BY <1>0, SubSeqProperties
<1>2. b \in Seq(S) /\ Len(b) = Len(s) - i /\ \A j \in 1 .. Len(s) - i : b[j] = s[i + j]
  <2>1. \A j \in i + 1 .. Len(s) : s[j] \in S
    BY <1>0
  <2>2. /\ b \in Seq(S)
        /\ Len(b) = IF i + 1 <= Len(s) THEN Len(s) - (i + 1) + 1 ELSE 0
        /\ \A j \in 1 .. Len(s) - (i + 1) + 1 : b[j] = s[i + 1 + j - 1]
    BY <1>0, <2>1, SubSeqProperties
  <2> HIDE DEF b
  <2>3. \A j \in 1 .. Len(s) - i : i + 1 + j - 1 = i + j
    BY <1>0
  <2> QED
    BY <1>0, <2>2, <2>3
<1> HIDE DEF a, b
<1>3. /\ a \o b \in Seq(S) /\ Len(a \o b) = Len(a) + Len(b)
      /\ \A j \in 1 .. Len(a) + Len(b) : (a \o b)[j] = IF j <= Len(a) THEN a[j] ELSE b[j - Len(a)]
  BY <1>1, <1>2, ConcatProperties
<1>4. ASSUME NEW j \in 1 .. Len(s) - 1
      PROVE  (a \o b)[j] = IF j < i THEN s[j] ELSE s[j + 1]
  <2>1. CASE j < i
    BY <1>0, <1>1, <1>2, <1>3, <2>1
  <2>2. CASE j >= i
    <3>1. j - (i - 1) \in 1 .. Len(s) - i /\ i + (j - (i - 1)) = j + 1
      BY <1>0, <2>2
    <3>2. b[j - (i - 1)] = s[j + 1]
      BY <1>2, <3>1
    <3>3. (a \o b)[j] = b[j - (i - 1)]
      BY <1>0, <1>1, <1>2, <1>3, <2>2
    <3> QED
      BY <2>2, <3>2, <3>3
  <2>3. j < i \/ j >= i
    BY <1>0
  <2> QED
    BY <2>1, <2>2, <2>3, Zenon
<1>5. Len(a \o b) = Len(s) - 1
  BY <1>0, <1>1, <1>2, <1>3
<1> QED
  BY <1>3, <1>4, <1>5 DEF RemoveAt, a, b

\* Where the elements of s are that are left without the i-th.
From(from, s, i) ==
  LET rest == RemoveAt(s, i) IN
  /\ from \in [1 .. Len(rest) -> (1 .. Len(s)) \ {i}]
  /\ \A j \in 1 .. Len(rest) : rest[j] = s[from[j]]
  /\ \A j, k \in 1 .. Len(rest) : j < k => from[j] < from[k]
  /\ \A p \in (1 .. Len(s)) \ {i} : \E j \in 1 .. Len(rest) : from[j] = p

(* Each element that is left is one of the others, in the same order. *)
LEMMA RemoveAtFrom ==
  ASSUME NEW S, NEW s \in Seq(S), NEW i \in 1 .. Len(s)
  PROVE  \E from : From(from, s, i)
<1> DEFINE n == Len(s)
           rest == RemoveAt(s, i)
           F == [j \in 1 .. n - 1 |-> IF j < i THEN j ELSE j + 1]
<1>0. n \in Nat
  BY LenProperties
<1>1. /\ Len(rest) = n - 1
      /\ \A j \in 1 .. n - 1 : rest[j] = IF j < i THEN s[j] ELSE s[j + 1]
  BY RemoveAtProperties DEF rest
<1> HIDE DEF n, rest
<1>2. i \in 1 .. n
  BY DEF n
<1>3. F \in [1 .. n - 1 -> (1 .. n) \ {i}]
  BY <1>0, <1>2
<1>4. \A j \in 1 .. n - 1 : F[j] = IF j < i THEN j ELSE j + 1
  OBVIOUS
<1> HIDE DEF F
<1>5. \A j \in 1 .. n - 1 : rest[j] = s[F[j]]
  BY <1>1, <1>4
<1>6. \A j, k \in 1 .. n - 1 : j < k => F[j] < F[k]
  BY <1>0, <1>2, <1>4
<1>7. ASSUME NEW p \in (1 .. n) \ {i} PROVE \E j \in 1 .. n - 1 : F[j] = p
  <2>1. CASE p < i
    BY <1>0, <1>2, <1>4, <2>1
  <2>2. CASE p > i
    <3>1. p - 1 \in 1 .. n - 1 /\ F[p - 1] = p
      BY <1>0, <1>2, <1>4, <2>2
    <3> QED
      BY <3>1
  <2> QED
    BY <1>0, <1>2, <2>1, <2>2
<1>8. /\ F \in [1 .. Len(rest) -> (1 .. n) \ {i}]
      /\ \A j \in 1 .. Len(rest) : rest[j] = s[F[j]]
      /\ \A j, k \in 1 .. Len(rest) : j < k => F[j] < F[k]
      /\ \A p \in (1 .. n) \ {i} : \E j \in 1 .. Len(rest) : F[j] = p
  BY <1>1, <1>3, <1>5, <1>6, <1>7
<1> QED
  BY <1>8, Zenon DEF n, rest, From

(* An element that is there once is taken out where it is ... *)
LEMMA RemoveFirstThere ==
  ASSUME NEW S, NEW s \in Seq(S), NEW i \in 1 .. Len(s), NEW e,
         s[i] = e, \A j \in 1 .. Len(s) : s[j] = e => j = i
  PROVE  RemoveFirst(s, e) = RemoveAt(s, i)
<1> DEFINE I == {j \in 1 .. Len(s) : s[j] = e}
<1>1. I = {i}
  OBVIOUS
<1>2. i \in Int /\ Min({i}) = i
  BY DEF Min
<1>3. SelectInSeq(s, LAMBDA v : v = e) = IF I # {} THEN Min(I) ELSE 0
  BY Zenon DEF SelectInSeq
<1>4. SelectInSeq(s, LAMBDA v : v = e) = i
  <2> HIDE DEF I
  <2> QED
    BY <1>1, <1>2, <1>3, Zenon
<1>5. \E j \in 1 .. Len(s) : s[j] = e
  OBVIOUS
<1> QED
  BY <1>4, <1>5, Zenon DEF RemoveFirst

(* ... and nothing happens if it is not. *)
LEMMA RemoveFirstNotThere ==
  ASSUME NEW s, NEW e, \A j \in 1 .. Len(s) : s[j] # e
  PROVE  RemoveFirst(s, e) = s
BY Zenon DEF RemoveFirst

(* A set of natural numbers has a least one, which is its Min. *)
LEMMA LeastNumber ==
  ASSUME NEW S \in SUBSET Nat, S # {}
  PROVE  Min(S) \in S /\ \A n \in S : Min(S) <= n
<1> DEFINE R == OpToRel(<, Nat)
<1>1. IsWellFoundedOn(R, Nat)
  BY NatLessThanWellFounded, Zenon
<1>2. \A x, y \in Nat : x < y => <<x, y>> \in R
  BY Zenon DEF OpToRel
<1> HIDE DEF R
<1>3. PICK m \in S : \A n \in S : ~ (<<n, m>> \in R)
  BY <1>1, WFMin
<1>4. \A n \in S : ~ (n < m)
  BY <1>2, <1>3, Zenon
<1>5. \A n \in S : m <= n
  BY <1>4
<1> QED
  BY <1>5, Zenon DEF Min
=============================================================================
