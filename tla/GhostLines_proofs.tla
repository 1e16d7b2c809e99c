------------------------- MODULE GhostLines_proofs -------------------------
(***************************************************************************)
(* Proofs about the lines of a pane, for any number of lines: the numbers  *)
(* of its real lines, its blocks of real lines and the binary search among *)
(* them, the line breaks that insertions and deletions leave, and the text *)
(* that the real lines make up.                                            *)
(***************************************************************************)
EXTENDS GhostLines, FiniteSetTheorems, SequenceTheorems, WellFoundedInduction, TLAPS

-----------------------------------------------------------------------------
(* Least and greatest members *)

(* A set of numbers has a least member ...                                 *)
LEMMA LeastOf ==
    ASSUME NEW S \in SUBSET Nat, S # {}
    PROVE  \E m \in S : \A k \in S : m <= k
<1> DEFINE R == { p \in Nat \X Nat : p[1] < p[2] }
<1>1. IsWellFoundedOn(R, Nat)
  BY NatLessThanWellFounded, Zenon DEF OpToRel
<1>2. PICK m \in S : \A k \in S : <<k, m>> \notin R
  BY <1>1, WFMin, Zenon
<1>3. \A a, b \in Nat : a < b => <<a, b>> \in R
  OBVIOUS
<1>4. m \in Nat /\ \A k \in S : ~(k < m)
  BY <1>2, <1>3
<1> QED BY <1>4

(* ... and a bounded one has a greatest, which Max chooses.                *)
LEMMA GreatestOf ==
    ASSUME NEW n \in Nat, NEW S \in SUBSET (0 .. n), S # {}
    PROVE  Max(S) \in S /\ \A k \in S : k <= Max(S)
<1> DEFINE D == { n - k : k \in S }
           P(g) == g \in S /\ \A k \in S : g >= k
<1>1. D \in SUBSET Nat /\ D # {}
  <2>1. \A k \in S : k \in Nat /\ k <= n
    OBVIOUS
  <2>2. \A k \in S : n - k \in Nat
    BY <2>1
  <2>3. \A d \in D : d \in Nat
    BY <2>2
  <2>4. PICK k \in S : TRUE
    OBVIOUS
  <2>5. n - k \in D
    BY <2>4
  <2> QED BY <2>3, <2>5
<1>2. PICK m \in D : \A d \in D : m <= d
  BY <1>1, LeastOf, Zenon
<1>3. PICK g \in S : m = n - g
  OBVIOUS
<1>4. \A k \in S : n - g <= n - k
  BY <1>2, <1>3
<1>5. P(g)
  BY <1>4
<1>6. P(CHOOSE x : P(x))
  BY <1>5, Zenon
<1>7. Max(S) = CHOOSE x : P(x)
  BY Zenon DEF Max
<1> QED BY <1>6, <1>7

(* The least member is the one that Min chooses.                           *)
LEMMA MinOf ==
    ASSUME NEW S \in SUBSET Nat, S # {}
    PROVE  Min(S) \in S /\ \A k \in S : Min(S) <= k
<1> DEFINE P(g) == g \in S /\ \A k \in S : g <= k
<1>1. \E g : P(g)
  BY LeastOf
<1>2. P(CHOOSE g : P(g))
  BY <1>1, Zenon
<1>3. Min(S) = CHOOSE g : P(g)
  BY Zenon DEF Min
<1> QED BY <1>2, <1>3

(* The greater of two numbers is what Max chooses.                         *)
LEMMA MaxOfTwo ==
    ASSUME NEW a \in Int, NEW b \in Int
    PROVE  Max({a, b}) = IF a >= b THEN a ELSE b
<1> DEFINE P(g) == g \in {a, b} /\ \A k \in {a, b} : g >= k
<1>1. P(IF a >= b THEN a ELSE b)
  OBVIOUS
<1>2. P(CHOOSE g : P(g))
  BY <1>1, Zenon
<1>3. Max({a, b}) = CHOOSE g : P(g)
  BY Zenon DEF Max
<1>4. Max({a, b}) \in {a, b} /\ Max({a, b}) >= a /\ Max({a, b}) >= b
  BY <1>2, <1>3
<1> QED BY <1>4

-----------------------------------------------------------------------------
(* Counting *)

(* The members up to a number                                              *)
UpTo(S, m) == {j \in S : j <= m}

(* The members up to a bound are finitely many.                            *)
LEMMA UpToIsFinite ==
    ASSUME NEW S \in SUBSET Nat, NEW m \in Int
    PROVE  IsFiniteSet(UpTo(S, m)) /\ Cardinality(UpTo(S, m)) \in Nat
<1>1. IsFiniteSet(0 .. m)
  BY FS_Interval
<1>2. UpTo(S, m) \in SUBSET (0 .. m)
  <2> SUFFICES ASSUME NEW j \in UpTo(S, m) PROVE j \in 0 .. m
    OBVIOUS
  <2> QED BY DEF UpTo
<1>3. IsFiniteSet(UpTo(S, m))
  BY <1>1, <1>2, FS_Subset
<1> QED BY <1>3, FS_CardinalityType

(* One number further                                                      *)
LEMMA UpToNext ==
    ASSUME NEW S \in SUBSET Nat, NEW m \in Int
    PROVE  Cardinality(UpTo(S, m + 1)) = Cardinality(UpTo(S, m)) + IF m + 1 \in S THEN 1 ELSE 0
<1> DEFINE old == UpTo(S, m)
<1>1. IsFiniteSet(old) /\ Cardinality(old) \in Nat
  BY UpToIsFinite
<1>2. m + 1 \notin old
  BY DEF UpTo
<1>3. UpTo(S, m + 1) = IF m + 1 \in S THEN old \cup {m + 1} ELSE old
  <2>1. \A j \in S : j \in Nat /\ (j <= m + 1 <=> j <= m \/ j = m + 1)
    OBVIOUS
  <2> QED BY <2>1 DEF UpTo
<1> HIDE DEF old
<1>4. Cardinality(old \cup {m + 1}) = Cardinality(old) + 1
  BY <1>1, <1>2, FS_AddElement
<1> QED BY <1>1, <1>3, <1>4 DEF old

(* A member counts more than what is before it.                            *)
LEMMA UpToGrows ==
    ASSUME NEW S \in SUBSET Nat, NEW i \in Int, NEW j \in S, i < j
    PROVE  Cardinality(UpTo(S, i)) < Cardinality(UpTo(S, j))
<1> DEFINE old == UpTo(S, i)
<1>1. IsFiniteSet(old) /\ Cardinality(old) \in Nat
  BY UpToIsFinite
<1>2. IsFiniteSet(UpTo(S, j)) /\ Cardinality(UpTo(S, j)) \in Nat
  BY UpToIsFinite
<1>3. j \notin old
  BY DEF UpTo
<1>4. old \cup {j} \in SUBSET UpTo(S, j)
  <2>1. j <= j /\ \A k \in S : k <= i => k <= j
    OBVIOUS
  <2> QED BY <2>1 DEF UpTo
<1>5. Cardinality(old \cup {j}) = Cardinality(old) + 1
  <2> HIDE DEF old
  <2> QED BY <1>1, <1>3, FS_AddElement
<1>6. Cardinality(old \cup {j}) <= Cardinality(UpTo(S, j))
  <2> HIDE DEF old
  <2> QED BY <1>2, <1>4, FS_Subset
<1> QED BY <1>1, <1>2, <1>5, <1>6

(* Nothing is counted twice.                                               *)
LEMMA UpToSame ==
    ASSUME NEW S \in SUBSET Nat, NEW i \in S, NEW j \in S,
           Cardinality(UpTo(S, i)) = Cardinality(UpTo(S, j))
    PROVE  i = j
<1>1. Cardinality(UpTo(S, i)) \in Nat /\ Cardinality(UpTo(S, j)) \in Nat
  BY UpToIsFinite
<1>2. ~ (i < j)
  BY <1>1, UpToGrows
<1>3. ~ (j < i)
  BY <1>1, UpToGrows
<1> QED BY <1>2, <1>3

(* Every number up to that of all members is the number of one of them.    *)
LEMMA UpToReaches ==
    ASSUME NEW n \in Nat, NEW S \in SUBSET (1 .. n), NEW k \in 1 .. Cardinality(S)
    PROVE  \E i \in S : Cardinality(UpTo(S, i)) = k
<1> DEFINE D == {m \in Nat : Cardinality(UpTo(S, m)) >= k}
           c(m) == Cardinality(UpTo(S, m))
<1>0. S \in SUBSET Nat
  OBVIOUS
<1>1. UpTo(S, n) = S
  <2>1. \A j \in S : j <= n
    OBVIOUS
  <2> QED BY <2>1 DEF UpTo
<1>2. n \in D
  BY <1>0, <1>1, UpToIsFinite
<1>3. PICK m \in D : \A e \in D : m <= e
  <2> HIDE DEF D
  <2>1. D \in SUBSET Nat /\ D # {}
    BY <1>2 DEF D
  <2> QED BY <2>1, LeastOf
<1>4. UpTo(S, 0) = {}
  <2>1. \A j \in S : ~ (j <= 0)
    OBVIOUS
  <2> QED BY <2>1 DEF UpTo
<1>5. c(0) = 0
  BY <1>4, FS_EmptySet
<1>6. m \in Nat /\ m # 0 /\ c(m) >= k
  BY <1>3, <1>5
<1>7. m - 1 \in Nat
  BY <1>6
<1>8. c(m - 1) \in Nat /\ c(m) \in Nat
  BY <1>0, <1>6, <1>7, UpToIsFinite
<1>9. ~ (c(m - 1) >= k)
  BY <1>3, <1>7
<1>10. c(m - 1 + 1) = c(m - 1) + IF m - 1 + 1 \in S THEN 1 ELSE 0
  BY <1>0, <1>7, UpToNext
<1>11. m - 1 + 1 = m
  BY <1>6
<1> HIDE DEF c, D
<1>12. m \in S /\ c(m) = k
  BY <1>6, <1>8, <1>9, <1>10, <1>11
<1> QED BY <1>12 DEF c

(* A gap counts nothing ...                                                *)
LEMMA UpToGap ==
    ASSUME NEW S \in SUBSET Nat, NEW a \in Int, NEW b \in Int, a <= b,
           \A i \in S : ~ (a < i /\ i <= b)
    PROVE  Cardinality(UpTo(S, b)) = Cardinality(UpTo(S, a))
<1>1. \A j \in S : j \in Int /\ (j <= a <=> j <= b)
  OBVIOUS
<1>2. UpTo(S, a) = UpTo(S, b)
  BY <1>1 DEF UpTo
<1> QED BY <1>2

(* ... and a run all of it.                                                *)
LEMMA UpToRun ==
    ASSUME NEW S \in SUBSET Nat, NEW a \in Int, NEW b \in Int, a <= b,
           \A i \in Int : a < i /\ i <= b => i \in S
    PROVE  Cardinality(UpTo(S, b)) = Cardinality(UpTo(S, a)) + (b - a)
<1> DEFINE old == UpTo(S, a)
           run == (a + 1) .. b
<1>1. IsFiniteSet(old) /\ Cardinality(old) \in Nat
  BY UpToIsFinite
<1>2. IsFiniteSet(run) /\ Cardinality(run) = b - a
  <2>1. a + 1 \in Int /\ (IF a + 1 > b THEN 0 ELSE b - (a + 1) + 1) = b - a
    OBVIOUS
  <2> QED BY <2>1, FS_Interval
<1>3. UpTo(S, b) = old \cup run
  <2>1. ASSUME NEW j \in S PROVE j <= b <=> j <= a \/ j \in run
    OBVIOUS
  <2>2. run \in SUBSET S
    OBVIOUS
  <2> HIDE DEF run
  <2> QED BY <2>1, <2>2 DEF UpTo
<1>4. old \cap run = {}
  BY DEF UpTo
<1> HIDE DEF old, run
<1>5. Cardinality(old \cup run) = Cardinality(old) + Cardinality(run) - Cardinality(old \cap run)
  BY <1>1, <1>2, FS_Union
<1>6. Cardinality(old \cap run) = 0
  BY <1>4, FS_EmptySet
<1> QED BY <1>1, <1>2, <1>3, <1>5, <1>6 DEF old

(* A higher bound takes in no fewer members.                               *)
LEMMA UpToMonotone ==
    ASSUME NEW S \in SUBSET Nat, NEW a \in Int, NEW b \in Int, a <= b
    PROVE  Cardinality(UpTo(S, a)) <= Cardinality(UpTo(S, b))
<1>1. IsFiniteSet(UpTo(S, b))
  BY UpToIsFinite
<1>2. UpTo(S, a) \in SUBSET UpTo(S, b)
  <2>1. \A j \in S : j <= a => j <= b
    OBVIOUS
  <2> QED BY <2>1 DEF UpTo
<1> QED BY <1>1, <1>2, FS_Subset

(* The members of S past a are those of T, shifted.                        *)
Displaced(S, T, a, m) == \A k \in 1 .. m : a + k \in S <=> k \in T

(* They count the same.                                                    *)
LEMMA UpToShift ==
    ASSUME NEW S \in SUBSET Nat, NEW T \in SUBSET (Nat \ {0}), NEW a \in Int, NEW m \in Nat,
           Displaced(S, T, a, m), NEW b, b = a + m
    PROVE  Cardinality(UpTo(S, b)) = Cardinality(UpTo(S, a)) + Cardinality(UpTo(T, m))
<1> DEFINE s(k) == Cardinality(UpTo(S, a + k))
           t(k) == Cardinality(UpTo(T, k))
           Bad == {k \in 0 .. m : s(k) # s(0) + t(k)}
<1>1. T \in SUBSET Nat
  OBVIOUS
<1>2. t(0) = 0
  <2>1. UpTo(T, 0) = {}
    <3>1. \A j \in T : ~ (j <= 0)
      OBVIOUS
    <3> QED BY <3>1 DEF UpTo
  <2> QED BY <2>1, FS_EmptySet
<1>3. \A k \in Int : s(k) \in Nat /\ t(k) \in Nat
  <2>1. \A k \in Int : a + k \in Int
    OBVIOUS
  <2> QED BY <1>1, <2>1, UpToIsFinite
<1>4. ASSUME NEW k \in 1 .. m PROVE s(k) - s(k - 1) = t(k) - t(k - 1)
  <2>1. k - 1 \in Int /\ k - 1 + 1 = k /\ a + (k - 1) \in Int /\ a + (k - 1) + 1 = a + k
    OBVIOUS
  <2>2. s(k) = s(k - 1) + IF a + k \in S THEN 1 ELSE 0
    BY <2>1, UpToNext
  <2>5. a + k \in S <=> k \in T
    BY DEF Displaced
  <2>3. t(k) = t(k - 1) + IF k \in T THEN 1 ELSE 0
    BY <1>1, <2>1, UpToNext
  <2>4. s(k - 1) \in Nat /\ t(k - 1) \in Nat
    BY <1>3, <2>1
  <2> HIDE DEF s, t
  <2> QED BY <2>2, <2>3, <2>4, <2>5
<1> HIDE DEF s, t
<1>5. Bad = {}
  <2> SUFFICES ASSUME Bad # {} PROVE FALSE
    OBVIOUS
  <2>1. PICK k \in Bad : \A j \in Bad : k <= j
    <3>1. Bad \in SUBSET Nat
      OBVIOUS
    <3> HIDE DEF Bad
    <3> QED BY <3>1, LeastOf
  <2>2. k \in 0 .. m /\ s(k) # s(0) + t(k)
    BY <2>1
  <2>3. k # 0
    BY <1>2, <1>3, <2>2
  <2>4. k \in 1 .. m /\ k - 1 \in 0 .. m /\ ~ (k <= k - 1)
    BY <2>2, <2>3
  <2>5. s(k - 1) = s(0) + t(k - 1)
    BY <2>1, <2>4
  <2>6. s(k) - s(k - 1) = t(k) - t(k - 1)
    BY <1>4, <2>4
  <2>7. s(k) \in Nat /\ s(k - 1) \in Nat /\ t(k) \in Nat /\ t(k - 1) \in Nat /\ s(0) \in Nat
    BY <1>3, <2>4
  <2> QED BY <2>2, <2>5, <2>6, <2>7
<1>6. s(m) = s(0) + t(m)
  BY <1>5
<1>7. a + 0 = a
  OBVIOUS
<1> QED BY <1>6, <1>7 DEF s, t

(* Members up to the greatest are all.                                     *)
LEMMA UpToAll ==
    ASSUME NEW n \in Int, NEW S \in SUBSET (1 .. n)
    PROVE  UpTo(S, n) = S
<1>1. \A j \in S : j <= n
  OBVIOUS
<1> QED BY <1>1 DEF UpTo

(* A member is followed by another one if it is not the last to be counted.*)
LEMMA FollowedIs ==
    ASSUME NEW n \in Nat, NEW S \in SUBSET (1 .. n), NEW i \in S
    PROVE  /\ Cardinality(S) \in Nat /\ Cardinality(UpTo(S, i)) \in 1 .. Cardinality(S)
           /\ (\E j \in S : i < j) <=> Cardinality(UpTo(S, i)) # Cardinality(S)
<1> DEFINE rank(j) == Cardinality(UpTo(S, j))
           M == Cardinality(S)
<1>1. S \in SUBSET Nat /\ IsFiniteSet(S) /\ M \in Nat
  <2>1. IsFiniteSet(1 .. n)
    BY FS_Interval
  <2>2. IsFiniteSet(S)
    BY <2>1, FS_Subset
  <2> QED BY <2>2, FS_CardinalityType
<1>2. ASSUME NEW j \in S PROVE rank(j) \in Nat /\ rank(j) <= M
  <2>1. UpTo(S, j) \in SUBSET S /\ j \in Int
    BY <1>1 DEF UpTo
  <2> QED BY <1>1, <2>1, FS_Subset, UpToIsFinite
<1>3. ASSUME NEW j \in S, i < j PROVE rank(i) # M
  <2>1. rank(i) < rank(j)
    BY <1>1, <1>3, UpToGrows
  <2>2. rank(i) \in Nat /\ rank(j) \in Nat /\ rank(j) <= M
    BY <1>2
  <2> HIDE DEF rank, M
  <2> QED BY <1>1, <2>1, <2>2
<1>4. ASSUME \A j \in S : ~ (i < j) PROVE rank(i) = M
  <2>1. \A j \in S : j <= i
    BY <1>1, <1>4
  <2>2. UpTo(S, i) = S
    BY <2>1 DEF UpTo
  <2> QED BY <2>2
<1>5. rank(i) # 0
  <2>1. i \in UpTo(S, i) /\ IsFiniteSet(UpTo(S, i))
    <3>1. i \in Int
      BY <1>1
    <3> QED BY <1>1, <3>1, UpToIsFinite DEF UpTo
  <2> QED BY <2>1, FS_EmptySet
<1>6. rank(i) \in 1 .. M
  <2>1. rank(i) \in Nat /\ rank(i) <= M
    BY <1>2
  <2> HIDE DEF rank, M
  <2> QED BY <1>1, <1>5, <2>1
<1> QED BY <1>1, <1>3, <1>4, <1>6

(* The k-th number of a set is one of its members and has k up to it.      *)
LEMMA RankedIs ==
    ASSUME NEW n \in Nat, NEW S \in SUBSET (1 .. n)
    PROVE  /\ Cardinality(S) \in Nat
           /\ DOMAIN Ranked(S) = 1 .. Cardinality(S)
           /\ Ranked(S) = [k \in 1 .. Cardinality(S) |-> Ranked(S)[k]]
           /\ \A k \in 1 .. Cardinality(S) :
                  Ranked(S)[k] \in S /\ Cardinality(UpTo(S, Ranked(S)[k])) = k
<1>1. Cardinality(S) \in Nat
  <2>1. IsFiniteSet(1 .. n)
    BY FS_Interval
  <2> QED BY <2>1, FS_Subset, FS_CardinalityType
<1>2. ASSUME NEW k \in 1 .. Cardinality(S)
      PROVE  Ranked(S)[k] \in S /\ Cardinality(UpTo(S, Ranked(S)[k])) = k
  <2> DEFINE P(i) == i \in S /\ Cardinality(UpTo(S, i)) = k
  <2>1. \E i : P(i)
    BY UpToReaches
  <2>2. P(CHOOSE i : P(i))
    BY <2>1, Zenon
  <2>3. Ranked(S)[k] = CHOOSE i \in S : Cardinality({j \in S : j <= i}) = k
    BY DEF Ranked
  <2>4. (CHOOSE i \in S : Cardinality({j \in S : j <= i}) = k) = CHOOSE i : P(i)
    BY Zenon DEF UpTo
  <2> QED BY <2>2, <2>3, <2>4
<1>3. DOMAIN Ranked(S) = 1 .. Cardinality(S)
  BY DEF Ranked
<1>4. Ranked(S) = [k \in 1 .. Cardinality(S) |-> Ranked(S)[k]]
  BY DEF Ranked
<1> QED BY <1>1, <1>2, <1>3, <1>4

(* They increase, and every member is one of them.                         *)
LEMMA RankedInOrder ==
    ASSUME NEW n \in Nat, NEW S \in SUBSET (1 .. n)
    PROVE  /\ \A j, k \in 1 .. Cardinality(S) : j < k => Ranked(S)[j] < Ranked(S)[k]
           /\ \A i \in S : \E k \in 1 .. Cardinality(S) : Ranked(S)[k] = i
<1>0. S \in SUBSET Nat
  OBVIOUS
<1>1. ASSUME NEW j \in 1 .. Cardinality(S), NEW k \in 1 .. Cardinality(S), j < k
      PROVE  Ranked(S)[j] < Ranked(S)[k]
  <2> DEFINE p == Ranked(S)[j]
             q == Ranked(S)[k]
  <2>1. /\ p \in S /\ Cardinality(UpTo(S, p)) = j
        /\ q \in S /\ Cardinality(UpTo(S, q)) = k
    BY RankedIs
  <2> HIDE DEF p, q
  <2>2. p \in Nat /\ q \in Nat
    BY <2>1
  <2>3. ASSUME q <= p PROVE FALSE
    <3>1. Cardinality(UpTo(S, q)) <= Cardinality(UpTo(S, p))
      BY <1>0, <2>2, <2>3, UpToMonotone
    <3> QED BY <1>1, <2>1, <3>1, RankedIs
  <2>4. p < q
    BY <2>2, <2>3
  <2> QED BY <2>4 DEF p, q
<1>2. ASSUME NEW i \in S
      PROVE  \E k \in 1 .. Cardinality(S) : Ranked(S)[k] = i
  <2> DEFINE k == Cardinality(UpTo(S, i))
  <2>1. k \in 1 .. Cardinality(S)
    <3>1. IsFiniteSet(S) /\ Cardinality(S) \in Nat
      <4>1. IsFiniteSet(1 .. n)
        BY FS_Interval
      <4> QED BY <4>1, FS_Subset, FS_CardinalityType
    <3>2. UpTo(S, i) \in SUBSET S /\ i \in UpTo(S, i)
      BY <1>0 DEF UpTo
    <3>3. k <= Cardinality(S)
      BY <3>1, <3>2, FS_Subset
    <3>4. k \in Nat
      BY <1>0, UpToIsFinite
    <3>5. k # 0
      BY <3>2, <1>0, UpToIsFinite, FS_EmptySet
    <3> HIDE DEF k
    <3> QED BY <3>1, <3>3, <3>4, <3>5
  <2>2. Ranked(S)[k] \in S /\ Cardinality(UpTo(S, Ranked(S)[k])) = k
    BY <2>1, RankedIs
  <2>3. Ranked(S)[k] = i
    <3> DEFINE r == Ranked(S)[k]
    <3>1. r \in S /\ Cardinality(UpTo(S, r)) = Cardinality(UpTo(S, i))
      BY <2>2
    <3> HIDE DEF r
    <3>2. r = i
      BY <1>0, <3>1, UpToSame
    <3> QED BY <3>2 DEF r
  <2> QED BY <2>1, <2>3
<1> QED BY <1>1, <1>2

-----------------------------------------------------------------------------
(* The binary search *)

(* What a search comes to when F is the first block that ends past a line: *)
(* the line is in the block or in the gap before it.                       *)
Reached(N, starts, line, F) == [found |-> F <= N /\ line >= starts[F], block |-> F]

(* It finds the first block that ends past the line.                       *)
LEMMA NearestIs ==
    ASSUME NEW N \in Nat, NEW starts \in [1 .. N -> Int], NEW pasts \in [1 .. N -> Int],
           \A k \in 1 .. N : starts[k] < pasts[k],
           NEW line \in Int, NEW F \in 1 .. N + 1,
           \A k \in 1 .. N : line < pasts[k] <=> k >= F,
           \A k \in 1 .. N : k > F => line < starts[k]
    PROVE  Nearest(starts, pasts, line) = Reached(N, starts, line, F)
<1> DEFINE Ranges == (0 .. Len(starts)) \X (0 .. Len(starts))
           mid(blo, bhi) == blo + (bhi - blo) \div 2
           lo(blo, bhi) == IF line >= starts[mid(blo, bhi) + 1] THEN mid(blo, bhi) + 1 ELSE blo
           hi(blo, bhi) == IF line < pasts[mid(blo, bhi) + 1] THEN mid(blo, bhi) ELSE bhi
           Done(blo, bhi) == [found |-> bhi < blo, block |-> bhi + 1]
           Body(search, range) ==
               IF range[1] >= range[2]
               THEN Done(range[1], range[2])
               ELSE search[<<lo(range[1], range[2]), hi(range[1], range[2])>>]
           Step(search) == [range \in Ranges |-> Body(search, range)]
           Chosen == CHOOSE search : search = Step(search)
           (* What the search comes to from any range                       *)
           Hit(blo, bhi) == bhi < blo \/ (blo < F /\ F <= bhi /\ line >= starts[F])
           Place(blo, bhi) == IF blo >= bhi \/ bhi < F THEN bhi + 1
                              ELSE IF F <= blo THEN blo + 1 ELSE F
           Found(blo, bhi) == [found |-> Hit(blo, bhi), block |-> Place(blo, bhi)]
           Result == [range \in Ranges |-> Found(range[1], range[2])]
<1>1. Nearest(starts, pasts, line) = Chosen[<<0, Len(starts)>>]
  BY DEF Nearest
<1>2. Len(starts) = N
  OBVIOUS
<1>3. ASSUME NEW blo \in 0 .. N, NEW bhi \in 0 .. N, blo < bhi
      PROVE  LET l == lo(blo, bhi)
                 h == hi(blo, bhi)
             IN  /\ l \in 0 .. N /\ h \in 0 .. N /\ h - l < bhi - blo
                 /\ Found(blo, bhi) = Found(l, h)
  <2> DEFINE b == mid(blo, bhi)
             low == lo(blo, bhi)
             high == hi(blo, bhi)
  <2>1. b \in blo .. bhi - 1 /\ b + 1 \in 1 .. N
    BY <1>3
  <2>0. /\ low = IF line >= starts[b + 1] THEN b + 1 ELSE blo
        /\ high = IF line < pasts[b + 1] THEN b ELSE bhi
    OBVIOUS
  <2> HIDE DEF b, low, high
  <2>2. starts[b + 1] \in Int /\ pasts[b + 1] \in Int /\ starts[b + 1] < pasts[b + 1]
    BY <2>1
  <2> DEFINE Same(l, h) == /\ l \in 0 .. N /\ h \in 0 .. N /\ h - l < bhi - blo
                           /\ Hit(blo, bhi) <=> Hit(l, h)
                           /\ Place(blo, bhi) = Place(l, h)
  <2>3. ASSUME NEW l, NEW h, Same(l, h)
        PROVE  Found(blo, bhi) = Found(l, h)
    <3>1. Hit(blo, bhi) = Hit(l, h)
      <4> HIDE DEF Place
      <4> QED BY <2>3, Zenon
    <3>2. Place(blo, bhi) = Place(l, h)
      BY <2>3, Zenon
    <3> HIDE DEF Hit, Place
    <3> QED BY <3>1, <3>2
  <2>4. F \in Int /\ (F \in 1 .. N => starts[F] \in Int)
    OBVIOUS
  <2>5. Same(low, high)
    <3>1. CASE b + 1 < F
      <4>1. ~ (line < pasts[b + 1])
        BY <2>1, <3>1
      <4>2. line >= starts[b + 1]
        BY <2>2, <4>1
      <4>3. low = b + 1 /\ high = bhi
        BY <4>1, <4>2, <2>0
      <4>4. Same(b + 1, bhi)
        BY <2>1, <3>1, <2>4, <1>3
      <4> HIDE DEF Same
      <4> QED BY <4>3, <4>4
    <3>2. CASE b + 1 = F
      <4>1. line < pasts[b + 1]
        BY <2>1, <3>2
      <4>2. high = b
        BY <4>1, <2>0
      <4>3. CASE line >= starts[b + 1]
        <5>1. low = b + 1
          BY <4>3, <2>0
        <5>2. Same(b + 1, b)
          BY <2>1, <3>2, <2>4, <4>3, <1>3
        <5> HIDE DEF Same
        <5> QED BY <4>2, <5>1, <5>2
      <4>4. CASE ~ (line >= starts[b + 1])
        <5>1. low = blo
          BY <4>4, <2>0
        <5>2. Same(blo, b)
          BY <2>1, <3>2, <2>4, <4>4, <1>3
        <5> HIDE DEF Same
        <5> QED BY <4>2, <5>1, <5>2
      <4> QED BY <4>3, <4>4
    <3>3. CASE b + 1 > F
      <4>1. line < pasts[b + 1] /\ line < starts[b + 1]
        BY <2>1, <3>3
      <4>2. ~ (line >= starts[b + 1])
        BY <2>2, <4>1
      <4>3. low = blo /\ high = b
        BY <4>1, <4>2, <2>0
      <4>4. Same(blo, b)
        BY SMTT(20), <2>1, <3>3, <2>4, <1>3
      <4> HIDE DEF Same
      <4> QED BY <4>3, <4>4
    <3> HIDE DEF Same
    <3> QED BY <3>1, <3>2, <3>3, <2>1
  <2>6. Found(blo, bhi) = Found(low, high)
    <3> HIDE DEF Same, Found
    <3> QED BY <2>3, <2>5
  <2> HIDE DEF Found, Hit, Place
  <2> QED BY <2>5, <2>6 DEF low, high
<1>4. Result = Step(Result)
  <2>1. \A blo \in 0 .. N, bhi \in 0 .. N : Result[<<blo, bhi>>] = Found(blo, bhi)
    BY <1>2
  <2>2. ASSUME NEW range \in Ranges
        PROVE  Found(range[1], range[2]) = Body(Result, range)
    <3> DEFINE blo == range[1]
               bhi == range[2]
    <3>0. blo \in 0 .. N /\ bhi \in 0 .. N
      BY <1>2
    <3> HIDE DEF Result
    <3>1. CASE blo >= bhi
      BY <3>0, <3>1
    <3>2. CASE blo < bhi
      <4> HIDE DEF lo, hi, Found
      <4> DEFINE l == lo(blo, bhi)
                 h == hi(blo, bhi)
      <4>1. l \in 0 .. N /\ h \in 0 .. N /\ Found(blo, bhi) = Found(l, h)
        BY <3>0, <3>2, <1>3
      <4>2. Body(Result, range) = Result[<<l, h>>]
        BY <3>0, <3>2
      <4> HIDE DEF l, h
      <4>3. Result[<<l, h>>] = Found(l, h)
        BY <4>1, <2>1
      <4> QED BY <4>1, <4>2, <4>3
    <3> QED BY <3>0, <3>1, <3>2
  <2> QED BY <2>2
<1>5. Chosen = Step(Chosen)
  <2> HIDE DEF Step, Result
  <2> QED BY <1>4, Zenon
<1> HIDE DEF Chosen, Result
<1>6. ASSUME NEW blo \in 0 .. N, NEW bhi \in 0 .. N
      PROVE  Chosen[<<blo, bhi>>] =
                 IF blo >= bhi THEN Done(blo, bhi)
                 ELSE Chosen[<<lo(blo, bhi), hi(blo, bhi)>>]
  <2> HIDE DEF lo, hi, Done
  <2> QED BY <1>2, <1>5
<1>7. \A blo \in 0 .. N, bhi \in 0 .. N : Chosen[<<blo, bhi>>] = Found(blo, bhi)
  <2> HIDE DEF lo, hi, Found, Done
  <2> DEFINE Bad == {d \in Nat : \E blo \in 0 .. N, bhi \in 0 .. N :
                        d = N + bhi - blo /\ Chosen[<<blo, bhi>>] # Found(blo, bhi)}
  <2>1. SUFFICES ASSUME Bad # {} PROVE FALSE
    <3> SUFFICES ASSUME NEW blo \in 0 .. N, NEW bhi \in 0 .. N,
                        Chosen[<<blo, bhi>>] # Found(blo, bhi)
                 PROVE  Bad # {}
      OBVIOUS
    <3>1. N + bhi - blo \in Nat
      OBVIOUS
    <3> QED BY <3>1
  <2>2. PICK d \in Bad : \A e \in Bad : d <= e
    BY <2>1, LeastOf
  <2>3. PICK blo \in 0 .. N, bhi \in 0 .. N :
            d = N + bhi - blo /\ Chosen[<<blo, bhi>>] # Found(blo, bhi)
    BY <2>2
  <2>4. ASSUME NEW l \in 0 .. N, NEW h \in 0 .. N, h - l < bhi - blo
        PROVE  Chosen[<<l, h>>] = Found(l, h)
    <3> DEFINE e == N + h - l
    <3>1. e \in Nat /\ e < d
      BY <2>3, <2>4
    <3>2. e \notin Bad
      <4> HIDE DEF Bad, e
      <4> QED BY <3>1, <2>2, <2>3
    <3> QED BY <3>1, <3>2
  <2> HIDE DEF Bad
  <2>5. CASE blo >= bhi
    <3>1. Chosen[<<blo, bhi>>] = Done(blo, bhi)
      BY <2>5, <1>6
    <3>2. Found(blo, bhi) = Done(blo, bhi)
      <4>1. Hit(blo, bhi) = (bhi < blo)
        BY <2>5
      <4>2. Place(blo, bhi) = bhi + 1
        BY <2>5
      <4> HIDE DEF Hit, Place
      <4> QED BY <4>1, <4>2 DEF Found, Done
    <3> QED BY <3>1, <3>2, <2>3
  <2>6. CASE blo < bhi
    <3> DEFINE l == lo(blo, bhi)
               h == hi(blo, bhi)
    <3>1. /\ l \in 0 .. N /\ h \in 0 .. N /\ h - l < bhi - blo
          /\ Found(blo, bhi) = Found(l, h)
      BY <2>6, <1>3
    <3>2. Chosen[<<blo, bhi>>] = Chosen[<<l, h>>]
      <4>1. ~ (blo >= bhi)
        BY <2>6
      <4> QED BY <4>1, <1>6, Zenon
    <3> HIDE DEF l, h
    <3> QED BY <3>1, <3>2, <2>3, <2>4
  <2> QED BY <2>5, <2>6
<1>8. Chosen[<<0, N>>] = Found(0, N)
  BY <1>7
<1>9. Found(0, N) = [found |-> F <= N /\ line >= starts[F], block |-> F]
  <2>1. Hit(0, N) <=> F <= N /\ line >= starts[F]
    OBVIOUS
  <2>2. Hit(0, N) = (F <= N /\ line >= starts[F])
    BY <2>1, Zenon
  <2>3. Place(0, N) = F
    OBVIOUS
  <2> HIDE DEF Hit, Place
  <2> QED BY <2>2, <2>3
<1> QED BY <1>1, <1>2, <1>8, <1>9 DEF Reached

-----------------------------------------------------------------------------
(* The blocks of real lines *)

(* The numbers of the real lines                                           *)
RealOf(lines) == {i \in DOMAIN lines : ~ lines[i].ghost}

(* A list of blocks says of a set S of real lines what it has to: blocks   *)
(* are runs of S, one below the other with a gap between, that have all of *)
(* S, and the real lines are counted through.                              *)
BlocksFit(blocks, S, n) ==
    /\ blocks \in Seq([nStartApparent : Nat, nStartReal : Nat, nCount : Nat])
    /\ Len(blocks) \in Nat /\ DOMAIN blocks = 1 .. Len(blocks)
    /\ \A k \in 1 .. Len(blocks) :
          LET start == blocks[k].nStartApparent
              past == PastApparent(blocks[k])
          IN  /\ blocks[k].nStartReal \in Nat /\ blocks[k].nCount \in Nat
              /\ start \in 1 .. n /\ past \in 1 .. n + 1 /\ start < past
              /\ \A i \in Int : start <= i /\ i < past => i \in S
              /\ blocks[k].nStartReal = Cardinality(UpTo(S, start - 1)) + 1
              /\ PastReal(blocks[k]) = Cardinality(UpTo(S, past - 1)) + 1
    /\ \A j, k \in 1 .. Len(blocks) :
          j < k => PastApparent(blocks[j]) < blocks[k].nStartApparent
    /\ \A i \in S : \E k \in 1 .. Len(blocks) :
          blocks[k].nStartApparent <= i /\ i < PastApparent(blocks[k])

(* The blocks of a set S of real lines among n lines                       *)
RealBlocks(S, n) ==
    LET start == Ranked({i \in S : i - 1 \notin S})
        past(s) == Min({j \in s .. n + 1 : j \notin S})
    IN  [k \in DOMAIN start |->
            [nStartApparent |-> start[k],
             nStartReal |-> Cardinality({j \in 1 .. start[k] : j \in S}),
             nCount |-> past(start[k]) - start[k]]]

(* The block list depends on nothing else.                                 *)
LEMMA BlocksOfIs ==
    ASSUME NEW lines, NEW n \in Nat, DOMAIN lines = 1 .. n, Len(lines) = n
    PROVE  BlocksOf(lines) = RealBlocks(RealOf(lines), n)
<1> DEFINE S == RealOf(lines)
           starts == {i \in S : i - 1 \notin S}
           After(s) == {j \in s .. n + 1 : j \notin S}
<1>1. \A i : i \in S <=> i \in DOMAIN lines /\ ~ lines[i].ghost
  BY DEF RealOf
<1>2. starts = {i \in DOMAIN lines : /\ i \in DOMAIN lines /\ ~ lines[i].ghost
                                     /\ ~ (i - 1 \in DOMAIN lines /\ ~ lines[i - 1].ghost)}
  BY <1>1
<1>3. \A s : After(s) = {j \in s .. Len(lines) + 1 :
                            ~ (j \in DOMAIN lines /\ ~ lines[j].ghost)}
  BY <1>1
<1>4. \A s : {j \in 1 .. s : j \in S} =
                {j \in 1 .. s : j \in DOMAIN lines /\ ~ lines[j].ghost}
  BY <1>1
<1>5. RealBlocks(S, n) = [k \in DOMAIN Ranked(starts) |->
                             [nStartApparent |-> Ranked(starts)[k],
                              nStartReal |-> Cardinality({j \in 1 .. Ranked(starts)[k] : j \in S}),
                              nCount |-> Min(After(Ranked(starts)[k])) - Ranked(starts)[k]]]
  BY DEF RealBlocks
<1> HIDE DEF starts, S, After
<1> QED BY <1>2, <1>3, <1>4, <1>5 DEF BlocksOf, S

(* The blocks that RecomputeRealityMapping makes do.                       *)
LEMMA BlocksOfFit ==
    ASSUME NEW lines, NEW n \in Nat, DOMAIN lines = 1 .. n, Len(lines) = n
    PROVE  BlocksFit(BlocksOf(lines), RealOf(lines), n)
<1> DEFINE S == RealOf(lines)
           starts == {i \in S : i - 1 \notin S}
           start == Ranked(starts)
           N == Cardinality(starts)
           After(s) == {j \in s .. n + 1 : j \notin S}
           past(s) == Min(After(s))
           blocks == BlocksOf(lines)
<1>1. S \in SUBSET (1 .. n) /\ S \in SUBSET Nat /\ starts \in SUBSET (1 .. n) /\ N \in Nat
  <2>1. S \in SUBSET (1 .. n)
    BY DEF RealOf
  <2>2. starts \in SUBSET (1 .. n)
    BY <2>1
  <2>3. N \in Nat
    BY <2>2, RankedIs
  <2> QED BY <2>1, <2>2, <2>3
<1>2. \A i : i \in S <=> i \in DOMAIN lines /\ ~ lines[i].ghost
  BY DEF RealOf
<1>3. blocks = [k \in DOMAIN start |->
                   [nStartApparent |-> start[k],
                    nStartReal |-> Cardinality({j \in 1 .. start[k] : j \in S}),
                    nCount |-> past(start[k]) - start[k]]]
  BY BlocksOfIs DEF RealBlocks
<1>4. DOMAIN start = 1 .. N
  BY <1>1, RankedIs
<1>5. DOMAIN blocks = 1 .. N /\ Len(blocks) = N
  <2> HIDE DEF start, N, blocks
  <2> QED BY <1>1, <1>3, <1>4
<1> HIDE DEF blocks
<1>6. ASSUME NEW s \in starts
      PROVE  /\ past(s) \in 1 .. n + 1 /\ s < past(s)
             /\ \A i \in Int : s <= i /\ i < past(s) => i \in S
             /\ past(s) \notin S
  <2>1. s \in 1 .. n /\ s \in S
    BY <1>1
  <2>2. n + 1 \in After(s)
    BY <1>1, <2>1
  <2>3. After(s) \in SUBSET Nat
    BY <2>1
  <2>4. past(s) \in After(s) /\ \A j \in After(s) : past(s) <= j
    <3> HIDE DEF After
    <3> QED BY <2>2, <2>3, MinOf
  <2> DEFINE p == past(s)
  <2>5. p \in s .. n + 1 /\ p \notin S
    BY <2>4
  <2>6. ASSUME NEW i \in Int, s <= i, i < p, i \notin S PROVE FALSE
    <3>1. i \in After(s)
      <4> HIDE DEF p
      <4> QED BY <2>1, <2>5, <2>6
    <3>2. p <= i
      BY <2>4, <3>1
    <3> HIDE DEF p
    <3> QED BY <2>5, <2>6, <3>2, <2>1
  <2> HIDE DEF p
  <2>7. p \in 1 .. n + 1 /\ s < p
    BY <2>1, <2>5
  <2> QED BY <2>5, <2>6, <2>7 DEF p
<1>7. ASSUME NEW k \in 1 .. N
      PROVE  /\ start[k] \in starts
             /\ blocks[k].nStartApparent = start[k]
             /\ blocks[k].nCount = past(start[k]) - start[k]
             /\ blocks[k].nStartReal = Cardinality(UpTo(S, start[k]))
             /\ PastApparent(blocks[k]) = past(start[k])
  <2>1. start[k] \in starts
    BY <1>1, RankedIs
  <2>2. start[k] \in Int /\ past(start[k]) \in Int
    <3>1. start[k] \in 1 .. n
      BY <1>1, <2>1
    <3>2. past(start[k]) \in 1 .. n + 1
      <4> HIDE DEF starts, past, start
      <4> QED BY <1>6, <2>1
    <3> HIDE DEF start, past
    <3> QED BY <3>1, <3>2
  <2>3. {j \in 1 .. start[k] : j \in S} = UpTo(S, start[k])
    <3>1. \A j \in S : j \in Int /\ 1 <= j
      BY <1>1
    <3> HIDE DEF S, start
    <3> QED BY <2>2, <3>1 DEF UpTo
  <2>4. blocks[k] = [nStartApparent |-> start[k],
                     nStartReal |-> Cardinality(UpTo(S, start[k])),
                     nCount |-> past(start[k]) - start[k]]
    <3> HIDE DEF start, S, past, N
    <3> QED BY <1>3, <1>4, <2>3
  <2> HIDE DEF start, S, past
  <2> QED BY <2>1, <2>2, <2>4 DEF PastApparent
<1> DEFINE c(m) == Cardinality(UpTo(S, m))
<1>8. ASSUME NEW k \in 1 .. N
      PROVE  LET s == start[k]
                 p == past(s)
             IN  /\ blocks[k].nStartReal \in Nat /\ blocks[k].nCount \in Nat
                 /\ blocks[k].nStartReal = c(s - 1) + 1
                 /\ PastReal(blocks[k]) = c(p - 1) + 1
  <2> DEFINE s == start[k]
             p == past(s)
  <2>1. /\ s \in starts /\ s \in S /\ s \in 1 .. n
        /\ p \in 1 .. n + 1 /\ s < p
        /\ \A i \in Int : s <= i /\ i < p => i \in S
    BY <1>1, <1>6, <1>7
  <2>2. blocks[k].nCount = p - s /\ blocks[k].nStartReal = c(s)
    BY <1>7
  <2> HIDE DEF s, p
  <2>3. c(s) \in Nat /\ c(s - 1) \in Nat
    BY <1>1, <2>1, UpToIsFinite
  <2>4. c(s) = c(s - 1) + 1
    <3>1. s - 1 \in Int /\ s - 1 <= s /\ s - (s - 1) = 1
      BY <2>1
    <3>2. \A i \in Int : s - 1 < i /\ i <= s => i \in S
      BY <2>1
    <3>3. c(s) = c(s - 1) + (s - (s - 1))
      <4> HIDE DEF S
      <4> QED BY <1>1, <2>1, <3>1, <3>2, UpToRun
    <3> QED BY <3>1, <3>3, <2>3
  <2>5. c(p - 1) = c(s) + (p - 1 - s)
    <3>1. p - 1 \in Int /\ s <= p - 1 /\ s \in Int
      BY <2>1
    <3>2. \A i \in Int : s < i /\ i <= p - 1 => i \in S
      BY <2>1
    <3> HIDE DEF S
    <3> QED BY <1>1, <3>1, <3>2, UpToRun
  <2> HIDE DEF c
  <2>6. PastReal(blocks[k]) = c(p - 1) + 1
    BY <2>1, <2>2, <2>3, <2>5 DEF PastReal
  <2>7. blocks[k].nCount \in Nat /\ blocks[k].nStartReal \in Nat /\ blocks[k].nStartReal = c(s - 1) + 1
    BY <2>1, <2>2, <2>3, <2>4
  <2> QED BY <2>6, <2>7 DEF s, p
<1>9. ASSUME NEW j \in 1 .. N, NEW k \in 1 .. N, j < k
      PROVE  past(start[j]) < start[k]
  <2> DEFINE s == start[k]
  <2>1. start[j] \in starts /\ s \in starts /\ start[j] < s
    BY <1>1, <1>7, <1>9, RankedInOrder
  <2> HIDE DEF s
  <2> DEFINE r == start[j]
  <2> HIDE DEF r
  <2>2. r \in starts /\ r < s /\ r \in 1 .. n /\ s \in 1 .. n /\ r \in S /\ s - 1 \notin S
    BY <1>1, <2>1 DEF r
  <2>3. past(r) \in 1 .. n + 1 /\ (s - 1 \in Int /\ r <= s - 1 => ~ (s - 1 < past(r)))
    BY <1>6, <2>2
  <2> HIDE DEF past, S, starts
  <2>4. past(r) < s
    BY <2>2, <2>3
  <2> QED BY <2>4 DEF r, s
<1>10. ASSUME NEW i \in S
       PROVE  \E k \in 1 .. N : start[k] <= i /\ i < past(start[k])
  <2> DEFINE Run == {m \in Nat : m <= i /\ \A j \in Int : m <= j /\ j <= i => j \in S}
  <2>1. i \in Run /\ i \in 1 .. n
    BY <1>1
  <2>2. PICK m \in Run : \A e \in Run : m <= e
    <3>1. Run \in SUBSET Nat /\ Run # {}
      BY <2>1
    <3> HIDE DEF Run
    <3> QED BY <3>1, LeastOf
  <2>3. m \in S /\ m \in 1 .. n /\ m <= i
    <3>1. m \in Nat /\ m <= i /\ m \in S
      BY <2>1
    <3> QED BY <3>1, <1>1
  <2>4. m - 1 \notin S
    <3> SUFFICES ASSUME m - 1 \in S PROVE FALSE
      OBVIOUS
    <3>1. m - 1 \in Nat /\ m - 1 <= i
      BY <1>1, <2>1, <2>3
    <3>2. ASSUME NEW j \in Int, m - 1 <= j, j <= i PROVE j \in S
      <4>1. CASE j = m - 1
        BY <4>1
      <4>2. CASE m <= j
        BY <2>2, <3>2, <4>2
      <4> QED BY <3>2, <4>1, <4>2, <2>3
    <3>3. m - 1 \in Run
      BY <3>1, <3>2
    <3> HIDE DEF Run
    <3> QED BY <2>2, <2>3, <3>3
  <2>5. m \in starts
    BY <2>3, <2>4
  <2>6. PICK k \in 1 .. N : start[k] = m
    BY <1>1, <2>5, RankedInOrder
  <2>7. i < past(m)
    <3> DEFINE p == past(m)
    <3>1. p \in 1 .. n + 1 /\ m < p /\ p \notin S
      BY <1>6, <2>5
    <3> HIDE DEF p
    <3>2. ~ (p <= i)
      BY <3>1, <2>2, <2>3
    <3> QED BY <3>1, <3>2, <2>1 DEF p
  <2> QED BY <2>3, <2>6, <2>7
<1>11. \A k \in 1 .. N :
          LET from == blocks[k].nStartApparent
              to == PastApparent(blocks[k])
          IN  /\ blocks[k].nStartReal \in Nat /\ blocks[k].nCount \in Nat
              /\ from \in 1 .. n /\ to \in 1 .. n + 1 /\ from < to
              /\ \A i \in Int : from <= i /\ i < to => i \in S
              /\ blocks[k].nStartReal = c(from - 1) + 1
              /\ PastReal(blocks[k]) = c(to - 1) + 1
  <2> SUFFICES ASSUME NEW k \in 1 .. N
               PROVE  LET from == blocks[k].nStartApparent
                          to == PastApparent(blocks[k])
                      IN  /\ blocks[k].nStartReal \in Nat /\ blocks[k].nCount \in Nat
                          /\ from \in 1 .. n /\ to \in 1 .. n + 1 /\ from < to
                          /\ \A i \in Int : from <= i /\ i < to => i \in S
                          /\ blocks[k].nStartReal = c(from - 1) + 1
                          /\ PastReal(blocks[k]) = c(to - 1) + 1
    OBVIOUS
  <2> DEFINE s == start[k]
             p == past(s)
  <2>1. /\ s \in 1 .. n /\ p \in 1 .. n + 1 /\ s < p
        /\ \A i \in Int : s <= i /\ i < p => i \in S
    BY <1>1, <1>6, <1>7
  <2>2. blocks[k].nStartApparent = s /\ PastApparent(blocks[k]) = p
    BY <1>7
  <2>3. /\ blocks[k].nStartReal \in Nat /\ blocks[k].nCount \in Nat
        /\ blocks[k].nStartReal = c(s - 1) + 1
        /\ PastReal(blocks[k]) = c(p - 1) + 1
    BY <1>8
  <2> HIDE DEF s, p, c, S
  <2> QED BY <2>1, <2>2, <2>3
<1>12. \A j, k \in 1 .. N : j < k => PastApparent(blocks[j]) < blocks[k].nStartApparent
  BY <1>7, <1>9, Zenon
<1>13. \A i \in S : \E k \in 1 .. N : blocks[k].nStartApparent <= i /\ i < PastApparent(blocks[k])
  <2> HIDE DEF start, past, S, N
  <2> QED BY <1>7, <1>10
<1>14. blocks \in Seq([nStartApparent : Nat, nStartReal : Nat, nCount : Nat])
  <2>1. \A k \in 1 .. N : blocks[k] \in [nStartApparent : Nat, nStartReal : Nat, nCount : Nat]
    <3> SUFFICES ASSUME NEW k \in 1 .. N
                 PROVE  blocks[k] \in [nStartApparent : Nat, nStartReal : Nat, nCount : Nat]
      OBVIOUS
    <3>1. blocks[k] = [nStartApparent |-> start[k],
                       nStartReal |-> Cardinality({j \in 1 .. start[k] : j \in S}),
                       nCount |-> past(start[k]) - start[k]]
      <4> HIDE DEF start, S, past, N
      <4> QED BY <1>3, <1>4
    <3>2. blocks[k].nStartApparent \in Nat /\ blocks[k].nStartReal \in Nat /\ blocks[k].nCount \in Nat
      BY <1>11
    <3> HIDE DEF start, past, S
    <3> QED BY <3>1, <3>2
  <2>2. blocks \in [1 .. N -> [nStartApparent : Nat, nStartReal : Nat, nCount : Nat]]
    <3> HIDE DEF start, past, S, N
    <3>1. \E f : blocks = [k \in DOMAIN start |-> f[k]]
      <4> DEFINE f == [k \in DOMAIN start |->
                   [nStartApparent |-> start[k],
                    nStartReal |-> Cardinality({j \in 1 .. start[k] : j \in S}),
                    nCount |-> past(start[k]) - start[k]]]
      <4>1. f = [k \in DOMAIN start |-> f[k]]
        OBVIOUS
      <4>2. blocks = f
        BY <1>3
      <4> HIDE DEF f
      <4> QED BY <4>1, <4>2
    <3> QED BY <1>4, <2>1, <3>1
  <2> DEFINE Block == [nStartApparent : Nat, nStartReal : Nat, nCount : Nat]
  <2>3. \A m \in Nat : \A f \in [1 .. m -> Block] : f \in Seq(Block)
    <3> HIDE DEF Block
    <3> QED OBVIOUS
  <2> HIDE DEF N
  <2> QED BY <1>1, <2>2, <2>3, Zenon
<1> HIDE DEF S, N
<1> QED BY <1>1, <1>5, <1>11, <1>12, <1>13, <1>14 DEF BlocksFit, S, blocks

-----------------------------------------------------------------------------
(* The conversions of line numbers *)

(* In a list of blocks one below the other the search finds the first that *)
(* ends past the line.                                                     *)
LEMMA NearestInOrder ==
    ASSUME NEW N \in Nat, NEW starts \in [1 .. N -> Int], NEW pasts \in [1 .. N -> Int],
           \A k \in 1 .. N : starts[k] < pasts[k],
           \A j, k \in 1 .. N : j < k => pasts[j] <= starts[k],
           NEW line \in Int
    PROVE  \E F \in 1 .. N + 1 :
               /\ \A k \in 1 .. N : line < pasts[k] <=> k >= F
               /\ Nearest(starts, pasts, line) = Reached(N, starts, line, F)
<1> DEFINE Ends == {k \in 1 .. N : line < pasts[k]} \cup {N + 1}
<1>1. PICK F \in Ends : \A k \in Ends : F <= k
  <2>1. Ends \in SUBSET Nat /\ Ends # {}
    OBVIOUS
  <2> HIDE DEF Ends
  <2> QED BY <2>1, LeastOf
<1>2. F \in 1 .. N + 1
  BY <1>1
<1>3. ASSUME NEW k \in 1 .. N PROVE line < pasts[k] <=> k >= F
  <2>1. line < pasts[k] => k >= F
    BY <1>1
  <2>2. CASE k = F
    BY <1>1, <2>2
  <2>3. ASSUME k > F PROVE line < pasts[k]
    <3>1. F \in 1 .. N /\ line < pasts[F]
      BY <1>1, <2>3
    <3>2. /\ pasts[F] \in Int /\ starts[k] \in Int /\ pasts[k] \in Int
          /\ pasts[F] <= starts[k] /\ starts[k] < pasts[k]
      BY <2>3, <3>1
    <3> QED BY <3>1, <3>2
  <2> QED BY <2>1, <2>2, <2>3, <1>2
<1>4. ASSUME NEW k \in 1 .. N, k > F PROVE line < starts[k]
  <2>1. F \in 1 .. N /\ line < pasts[F]
    BY <1>2, <1>3, <1>4
  <2>2. pasts[F] \in Int /\ starts[k] \in Int /\ pasts[F] <= starts[k]
    BY <1>4, <2>1
  <2> QED BY <2>1, <2>2
<1> HIDE DEF Ends
<1>5. Nearest(starts, pasts, line) = Reached(N, starts, line, F)
  BY <1>2, <1>3, <1>4, NearestIs, Zenon
<1> QED BY <1>2, <1>3, <1>5

(* By line, the search finds the first block that ends below the line.     *)
LEMMA NearestApparentIs ==
    ASSUME NEW n \in Nat, NEW S \in SUBSET (1 .. n), NEW blocks, BlocksFit(blocks, S, n),
           NEW y \in Int
    PROVE  \E F \in 1 .. Len(blocks) + 1 :
               /\ \A k \in 1 .. Len(blocks) : y < PastApparent(blocks[k]) <=> k >= F
               /\ NearestApparent(blocks, y).block = F
               /\ NearestApparent(blocks, y).found <=>
                      F <= Len(blocks) /\ y >= blocks[F].nStartApparent
<1> DEFINE N == Len(blocks)
           starts == [k \in DOMAIN blocks |-> blocks[k].nStartApparent]
           pasts == [k \in DOMAIN blocks |-> PastApparent(blocks[k])]
<1>1. /\ N \in Nat /\ DOMAIN blocks = 1 .. N
      /\ \A k \in 1 .. N : /\ blocks[k].nStartApparent \in Int
                           /\ PastApparent(blocks[k]) \in Int
                           /\ blocks[k].nStartApparent < PastApparent(blocks[k])
      /\ \A j, k \in 1 .. N : j < k => PastApparent(blocks[j]) <= blocks[k].nStartApparent
  <2>1. N \in Nat /\ DOMAIN blocks = 1 .. N
    BY DEF BlocksFit
  <2>2. ASSUME NEW k \in 1 .. N
        PROVE  /\ blocks[k].nStartApparent \in Int
               /\ PastApparent(blocks[k]) \in Int
               /\ blocks[k].nStartApparent < PastApparent(blocks[k])
    BY DEF BlocksFit
  <2>3. ASSUME NEW j \in 1 .. N, NEW k \in 1 .. N, j < k
        PROVE  PastApparent(blocks[j]) <= blocks[k].nStartApparent
    <3>1. PastApparent(blocks[j]) < blocks[k].nStartApparent
      BY <2>3 DEF BlocksFit
    <3> QED BY <2>2, <3>1
  <2> QED BY <2>1, <2>2, <2>3
<1>2. starts \in [1 .. N -> Int] /\ pasts \in [1 .. N -> Int]
  BY <1>1
<1>3. \A k \in 1 .. N : starts[k] = blocks[k].nStartApparent /\ pasts[k] = PastApparent(blocks[k])
  BY <1>1
<1> HIDE DEF starts, pasts
<1>a. \A k \in 1 .. N : starts[k] < pasts[k]
  BY <1>1, <1>3
<1>b. \A j, k \in 1 .. N : j < k => pasts[j] <= starts[k]
  BY <1>1, <1>3
<1>4. PICK F \in 1 .. N + 1 :
          /\ \A k \in 1 .. N : y < pasts[k] <=> k >= F
          /\ Nearest(starts, pasts, y) = Reached(N, starts, y, F)
  <2> HIDE DEF N
  <2> QED BY <1>1, <1>2, <1>a, <1>b, NearestInOrder, Zenon
<1>5. NearestApparent(blocks, y) = Nearest(starts, pasts, y)
  BY DEF NearestApparent, starts, pasts
<1>6. F <= N => starts[F] = blocks[F].nStartApparent
  BY <1>1, <1>3
<1>7. F <= N /\ y >= starts[F] <=> F <= N /\ y >= blocks[F].nStartApparent
  BY <1>6
<1>8. \A k \in 1 .. N : y < PastApparent(blocks[k]) <=> k >= F
  BY <1>3, <1>4
<1>9. /\ Reached(N, starts, y, F).block = F
      /\ Reached(N, starts, y, F).found <=> F <= N /\ y >= starts[F]
  <2> HIDE DEF N
  <2> QED BY DEF Reached
<1> QED BY <1>4, <1>5, <1>7, <1>8, <1>9

(* By real line, the search finds the first block that ends below it.      *)
LEMMA NearestRealIs ==
    ASSUME NEW n \in Nat, NEW S \in SUBSET (1 .. n), NEW blocks, BlocksFit(blocks, S, n),
           NEW real \in Int
    PROVE  \E F \in 1 .. Len(blocks) + 1 :
               /\ \A k \in 1 .. Len(blocks) : real < PastReal(blocks[k]) <=> k >= F
               /\ NearestReal(blocks, real).block = F
               /\ NearestReal(blocks, real).found <=>
                      F <= Len(blocks) /\ real >= blocks[F].nStartReal
               /\ \A j, k \in 1 .. Len(blocks) :
                      j < k => PastReal(blocks[j]) <= blocks[k].nStartReal
<1> DEFINE N == Len(blocks)
           starts == [k \in DOMAIN blocks |-> blocks[k].nStartReal]
           pasts == [k \in DOMAIN blocks |-> PastReal(blocks[k])]
           c(m) == Cardinality(UpTo(S, m))
<1>0. S \in SUBSET Nat
  OBVIOUS
<1>1. /\ N \in Nat /\ DOMAIN blocks = 1 .. N
      /\ \A k \in 1 .. N : /\ blocks[k].nStartReal \in Int
                           /\ PastReal(blocks[k]) \in Int
                           /\ blocks[k].nStartReal < PastReal(blocks[k])
      /\ \A j, k \in 1 .. N : j < k => PastReal(blocks[j]) <= blocks[k].nStartReal
  <2>1. N \in Nat /\ DOMAIN blocks = 1 .. N
    BY DEF BlocksFit
  <2>2. ASSUME NEW k \in 1 .. N
        PROVE  LET s == blocks[k].nStartApparent
                   p == PastApparent(blocks[k])
               IN  /\ s \in 1 .. n /\ p \in 1 .. n + 1 /\ s < p /\ p - 1 \in S
                   /\ blocks[k].nStartReal = c(s - 1) + 1
                   /\ PastReal(blocks[k]) = c(p - 1) + 1
                   /\ c(s - 1) \in Nat /\ c(p - 1) \in Nat
    <3> DEFINE s == blocks[k].nStartApparent
               p == PastApparent(blocks[k])
    <3>1. /\ s \in 1 .. n /\ p \in 1 .. n + 1 /\ s < p
          /\ \A i \in Int : s <= i /\ i < p => i \in S
          /\ blocks[k].nStartReal = c(s - 1) + 1
          /\ PastReal(blocks[k]) = c(p - 1) + 1
      BY DEF BlocksFit
    <3> HIDE DEF s, p
    <3>2. p - 1 \in S
      BY <3>1
    <3>3. c(s - 1) \in Nat /\ c(p - 1) \in Nat
      BY <1>0, <3>1, UpToIsFinite
    <3> QED BY <3>1, <3>2, <3>3 DEF s, p
  <2>3. ASSUME NEW k \in 1 .. N
        PROVE  /\ blocks[k].nStartReal \in Int
               /\ PastReal(blocks[k]) \in Int
               /\ blocks[k].nStartReal < PastReal(blocks[k])
    <3> DEFINE s == blocks[k].nStartApparent
               p == PastApparent(blocks[k])
    <3>1. /\ s \in 1 .. n /\ p \in 1 .. n + 1 /\ s < p /\ p - 1 \in S
          /\ blocks[k].nStartReal = c(s - 1) + 1
          /\ PastReal(blocks[k]) = c(p - 1) + 1
          /\ c(s - 1) \in Nat /\ c(p - 1) \in Nat
      BY <2>2
    <3> HIDE DEF s, p
    <3>2. s - 1 \in Int /\ s - 1 < p - 1
      BY <3>1
    <3>3. c(s - 1) < c(p - 1)
      BY <1>0, <3>1, <3>2, UpToGrows
    <3> HIDE DEF c
    <3> QED BY <3>1, <3>3
  <2>4. ASSUME NEW j \in 1 .. N, NEW k \in 1 .. N, j < k
        PROVE  PastReal(blocks[j]) <= blocks[k].nStartReal
    <3> DEFINE s == blocks[k].nStartApparent
               p == PastApparent(blocks[j])
    <3>1. p < s
      BY <2>4 DEF BlocksFit
    <3>2. /\ s \in 1 .. n /\ p \in 1 .. n + 1
          /\ blocks[k].nStartReal = c(s - 1) + 1
          /\ PastReal(blocks[j]) = c(p - 1) + 1
          /\ c(s - 1) \in Nat /\ c(p - 1) \in Nat
      BY <2>2
    <3> HIDE DEF s, p
    <3>3. s - 1 \in Int /\ p - 1 \in Int /\ p - 1 <= s - 1
      BY <3>1, <3>2
    <3>4. c(p - 1) <= c(s - 1)
      BY <1>0, <3>3, UpToMonotone
    <3> HIDE DEF c
    <3> QED BY <3>2, <3>4
  <2> QED BY <2>1, <2>3, <2>4
<1>2. starts \in [1 .. N -> Int] /\ pasts \in [1 .. N -> Int]
  BY <1>1
<1>3. \A k \in 1 .. N : starts[k] = blocks[k].nStartReal /\ pasts[k] = PastReal(blocks[k])
  BY <1>1
<1> HIDE DEF starts, pasts
<1>a. \A k \in 1 .. N : starts[k] < pasts[k]
  BY <1>1, <1>3
<1>b. \A j, k \in 1 .. N : j < k => pasts[j] <= starts[k]
  BY <1>1, <1>3
<1>4. PICK F \in 1 .. N + 1 :
          /\ \A k \in 1 .. N : real < pasts[k] <=> k >= F
          /\ Nearest(starts, pasts, real) = Reached(N, starts, real, F)
  <2> HIDE DEF N
  <2> QED BY <1>1, <1>2, <1>a, <1>b, NearestInOrder, Zenon
<1>5. NearestReal(blocks, real) = Nearest(starts, pasts, real)
  BY DEF NearestReal, starts, pasts
<1>6. F <= N => starts[F] = blocks[F].nStartReal
  BY <1>1, <1>3
<1>7. F <= N /\ real >= starts[F] <=> F <= N /\ real >= blocks[F].nStartReal
  BY <1>6
<1>8. \A k \in 1 .. N : real < PastReal(blocks[k]) <=> k >= F
  BY <1>3, <1>4
<1>9. /\ Reached(N, starts, real, F).block = F
      /\ Reached(N, starts, real, F).found <=> F <= N /\ real >= starts[F]
  <2> HIDE DEF N
  <2> QED BY DEF Reached
<1> QED BY <1>1, <1>4, <1>5, <1>7, <1>8, <1>9

(* The real line of an apparent one counts the real lines above it.        *)
LEMMA RealLineIs ==
    ASSUME NEW n \in Nat, NEW S \in SUBSET (1 .. n), S # {},
           NEW blocks, BlocksFit(blocks, S, n), NEW count \in Int, NEW y \in 1 .. n + 1
    PROVE  LET r == ComputeRealLineAndGhostAdjustment(blocks, count, y)
               N == Len(blocks)
               start(k) == blocks[k].nStartApparent
               past(k) == PastApparent(blocks[k])
           IN  /\ N \in Nat \ {0}
               /\ r.y = Cardinality(UpTo(S, y - 1)) + 1
               /\ \/ y >= past(N) /\ r.nGhost = count + 1 - y /\ r.y = PastReal(blocks[N])
                  \/ \E F \in 1 .. N : /\ start(F) <= y /\ y < past(F) /\ r.nGhost = 0
                                       /\ r.y = y - start(F) + blocks[F].nStartReal
                  \/ \E F \in 1 .. N : /\ y < start(F) /\ (F > 1 => past(F - 1) <= y)
                                       /\ r.nGhost = start(F) - y /\ r.y = blocks[F].nStartReal
<1> DEFINE r == ComputeRealLineAndGhostAdjustment(blocks, count, y)
           N == Len(blocks)
           start(k) == blocks[k].nStartApparent
           past(k) == PastApparent(blocks[k])
           c(m) == Cardinality(UpTo(S, m))
<1>0. S \in SUBSET Nat
  OBVIOUS
<1>1. /\ N \in Nat /\ DOMAIN blocks = 1 .. N
      /\ \A k \in 1 .. N : /\ start(k) \in 1 .. n /\ past(k) \in 1 .. n + 1 /\ start(k) < past(k)
                           /\ blocks[k].nStartReal = c(start(k) - 1) + 1
                           /\ PastReal(blocks[k]) = c(past(k) - 1) + 1
      /\ \A k \in 1 .. N : \A i \in Int : start(k) <= i /\ i < past(k) => i \in S
      /\ \A j, k \in 1 .. N : j < k => past(j) < start(k)
      /\ \A i \in S : \E k \in 1 .. N : start(k) <= i /\ i < past(k)
  BY DEF BlocksFit
<1>2. N # 0
  <2>1. PICK i \in S : TRUE
    OBVIOUS
  <2> HIDE DEF N, start, past
  <2> QED BY <2>1, <1>1
<1>3. blocks # <<>> /\ Last(blocks) = blocks[N]
  BY <1>1, <1>2 DEF Last
<1>4. \A m \in Int : c(m) \in Nat
  BY <1>0, UpToIsFinite
<1>5. CASE y >= past(N)
  <2>1. r = [y |-> PastReal(blocks[N]), nGhost |-> count + 1 - y]
    BY <1>3, <1>5 DEF ComputeRealLineAndGhostAdjustment
  <2>2. past(N) \in 1 .. n + 1 /\ PastReal(blocks[N]) = c(past(N) - 1) + 1
    BY <1>1, <1>2
  <2>3. \A i \in S : ~ (past(N) - 1 < i /\ i <= y - 1)
    <3> SUFFICES ASSUME NEW i \in S, past(N) - 1 < i PROVE FALSE
      OBVIOUS
    <3>1. PICK k \in 1 .. N : start(k) <= i /\ i < past(k)
      BY <1>1
    <3>2. k < N => past(k) < start(N) /\ start(N) < past(N) /\ start(N) \in 1 .. n
      BY <1>1, <1>2
    <3>3. past(k) \in Int /\ i \in Int
      BY <1>1
    <3> HIDE DEF past, start, N
    <3>4. k = N \/ k < N
      BY <1>1
    <3> QED BY <2>2, <3>1, <3>2, <3>3, <3>4
  <2>4. c(y - 1) = c(past(N) - 1)
    <3> DEFINE p == past(N)
    <3>1. p - 1 \in Int /\ y - 1 \in Int /\ p - 1 <= y - 1
      BY <1>5, <2>2
    <3>2. \A i \in S : ~ (p - 1 < i /\ i <= y - 1)
      BY <2>3
    <3> HIDE DEF p
    <3>3. c(y - 1) = c(p - 1)
      BY <1>0, <3>1, <3>2, UpToGap
    <3> QED BY <3>3 DEF p
  <2> HIDE DEF c, past, start
  <2> QED BY <1>1, <1>2, <1>5, <2>1, <2>2, <2>4 DEF c, past
<1>6. CASE ~ (y >= past(N))
  <2>1. PICK F \in 1 .. N + 1 :
            /\ \A k \in 1 .. N : y < past(k) <=> k >= F
            /\ NearestApparent(blocks, y).block = F
            /\ NearestApparent(blocks, y).found <=> F <= N /\ y >= start(F)
    <3>1. y \in Int
      OBVIOUS
    <3> QED BY <3>1, NearestApparentIs, Zenon
  <2>2. F \in 1 .. N /\ y < past(F)
    <3>1. N \in 1 .. N /\ past(N) \in Int
      BY <1>1, <1>2
    <3>2. y < past(N)
      BY <1>6, <3>1
    <3>3. N >= F
      BY <2>1, <3>1, <3>2
    <3>4. F \in 1 .. N
      BY <3>3, <1>1
    <3> QED BY <2>1, <3>4
  <2> DEFINE s == start(F)
             p == past(F)
  <2>3. /\ s \in 1 .. n /\ p \in 1 .. n + 1 /\ s < p /\ y < p
        /\ blocks[F].nStartReal = c(s - 1) + 1
        /\ \A i \in Int : s <= i /\ i < p => i \in S
    BY <1>1, <2>2
  <2>4. CASE y >= start(F)
    <3>0. NearestApparent(blocks, y).found /\ NearestApparent(blocks, y).block = F
      BY <2>1, <2>2, <2>4
    <3>1. r = [y |-> y - s + blocks[F].nStartReal, nGhost |-> 0]
      <4> HIDE DEF s
      <4> QED BY <1>3, <1>6, <3>0 DEF ComputeRealLineAndGhostAdjustment, s
    <3>2. c(y - 1) = c(s - 1) + (y - s)
      <4> HIDE DEF s, p
      <4>1. s <= y
        BY <2>3, <2>4 DEF s
      <4>2. s - 1 \in Int /\ y - 1 \in Int /\ s - 1 <= y - 1 /\ (y - 1) - (s - 1) = y - s
        BY <2>3, <4>1
      <4>3. \A i \in Int : s - 1 < i /\ i <= y - 1 => i \in S
        BY <2>3
      <4> QED BY <1>0, <4>2, <4>3, UpToRun
    <3>3. r.y = c(y - 1) + 1 /\ r.nGhost = 0 /\ r.y = y - s + blocks[F].nStartReal /\ s <= y
      <4>1. c(s - 1) \in Nat /\ y - s \in Int /\ s <= y
        <5>1. s \in Int /\ s - 1 \in Int /\ s <= y
          BY <2>3, <2>4
        <5> HIDE DEF s, c
        <5> QED BY SMTT(20), <1>4, <5>1
      <4> HIDE DEF c, s, r
      <4> QED BY <2>3, <3>1, <3>2, <4>1
    <3> HIDE DEF c, r, start, past
    <3> QED BY <1>1, <1>2, <2>2, <3>3 DEF c, r, start, past
  <2>5. CASE ~ (y >= start(F))
    <3>0. ~ NearestApparent(blocks, y).found /\ NearestApparent(blocks, y).block = F
      BY <2>1, <2>2, <2>5
    <3>1. r = [y |-> blocks[F].nStartReal, nGhost |-> s - y]
      BY <1>3, <1>6, <3>0 DEF ComputeRealLineAndGhostAdjustment
    <3>2. \A i \in S : ~ (y - 1 < i /\ i <= s - 1)
      <4> SUFFICES ASSUME NEW i \in S, y <= i, i < s PROVE FALSE
        <5>1. s \in Int /\ \A i \in S : i \in Int
          BY <1>0, <2>3
        <5> HIDE DEF s
        <5>2. \A i \in S : y - 1 < i /\ i <= s - 1 <=> y <= i /\ i < s
          BY <5>1
        <5> QED BY <5>2
      <4>1. PICK k \in 1 .. N : start(k) <= i /\ i < past(k)
        BY <1>1
      <4>2. past(k) \in Int /\ i \in Int
        BY <1>1
      <4>3. y < past(k)
        BY <4>1, <4>2
      <4>4. k >= F
        BY <2>1, <4>3
      <4>5. k # F => past(F) < start(k)
        BY <1>1, <2>2, <4>4
      <4>6. start(k) \in Int
        BY SMTT(30), <1>1
      <4> HIDE DEF start, past, N
      <4>7. CASE k = F
        BY <4>1, <4>2, <4>6, <4>7, <2>3 DEF s
      <4>8. CASE k # F
        BY <4>1, <4>2, <4>5, <4>6, <4>8, <2>3 DEF p, s
      <4> QED BY <4>7, <4>8
    <3>3. c(s - 1) = c(y - 1)
      <4>1. y - 1 \in Int /\ s - 1 \in Int /\ y - 1 <= s - 1
        BY <2>3, <2>5
      <4> HIDE DEF s
      <4> QED BY <1>0, <3>2, <4>1, UpToGap
    <3>4. ASSUME F > 1 PROVE past(F - 1) <= y
      <4>1. F - 1 \in 1 .. N /\ ~ (F - 1 >= F)
        BY <2>2, <3>4
      <4>2. ~ (y < past(F - 1)) /\ past(F - 1) \in Int
        BY <1>1, <2>1, <4>1
      <4> HIDE DEF past
      <4> QED BY <4>2
    <3>5. r.y = c(y - 1) + 1 /\ r.nGhost = s - y /\ r.y = blocks[F].nStartReal /\ y < s
      <4> HIDE DEF c, r
      <4> QED BY <2>3, <2>5, <3>1, <3>3
    <3> HIDE DEF c, r, start, past
    <3> QED BY <1>1, <1>2, <2>2, <3>4, <3>5 DEF c, r, start, past
  <2> QED BY <2>4, <2>5
<1> QED BY <1>5, <1>6

Larger(a, b) == IF a >= b THEN a ELSE b

(* The apparent line of a real one if F is the first block that ends past  *)
(* it: in the block, or above the block as far as there is room.           *)
ApparentAt(blocks, n, real, nGhost, F) ==
    LET inBlock == real - blocks[F].nStartReal + blocks[F].nStartApparent
    IN  IF F = Len(blocks) + 1
        THEN Larger(n + 1 - nGhost, PastApparent(blocks[Len(blocks)]))
        ELSE IF real > blocks[F].nStartReal THEN inBlock
        ELSE Larger(inBlock - nGhost, IF F = 1 THEN 1 ELSE PastApparent(blocks[F - 1]))

(* F is the first block that ends past the real line: the conversion to    *)
(* apparent lines goes by it.                                              *)
LooksUp(blocks, n, real, nGhost, F) ==
    /\ \A k \in 1 .. Len(blocks) : real < PastReal(blocks[k]) <=> k >= F
    /\ ComputeApparentLine(blocks, n, real, nGhost) = ApparentAt(blocks, n, real, nGhost, F)

(* The line that a real line and a number of ghosts lead to.               *)
LEMMA ApparentLineIs ==
    ASSUME NEW n \in Nat, NEW S \in SUBSET (1 .. n), S # {},
           NEW blocks, BlocksFit(blocks, S, n), NEW real \in Int, NEW nGhost \in Int
    PROVE  \E F \in 1 .. Len(blocks) + 1 : LooksUp(blocks, n, real, nGhost, F)
<1> DEFINE y == ComputeApparentLine(blocks, n, real, nGhost)
           N == Len(blocks)
           start(k) == blocks[k].nStartApparent
           past(k) == PastApparent(blocks[k])
<1>1. /\ N \in Nat /\ DOMAIN blocks = 1 .. N
      /\ \A k \in 1 .. N : /\ start(k) \in Int /\ past(k) \in Int
                           /\ blocks[k].nStartReal \in Int /\ PastReal(blocks[k]) \in Int
      /\ \A i \in S : \E k \in 1 .. N : start(k) <= i /\ i < past(k)
  <2>1. \A k \in 1 .. N : blocks[k].nStartReal \in Int /\ blocks[k].nCount \in Int
    BY SMTT(30) DEF BlocksFit
  <2>2. \A k \in 1 .. N : PastReal(blocks[k]) \in Int
    BY <2>1 DEF PastReal
  <2>3. \A k \in 1 .. N : start(k) \in Int /\ past(k) \in Int
    BY DEF BlocksFit
  <2>4. N \in Nat /\ DOMAIN blocks = 1 .. N
    BY DEF BlocksFit
  <2>5. \A i \in S : \E k \in 1 .. N : start(k) <= i /\ i < past(k)
    BY DEF BlocksFit
  <2> HIDE DEF start, past, N
  <2> QED BY <2>1, <2>2, <2>3, <2>4, <2>5
<1>2. N # 0
  <2>1. PICK i \in S : TRUE
    OBVIOUS
  <2> HIDE DEF N, start, past
  <2> QED BY <2>1, <1>1
<1>3. blocks # <<>> /\ Last(blocks) = blocks[N] /\ N \in 1 .. N
  BY <1>1, <1>2 DEF Last
<1>4. PICK F \in 1 .. N + 1 :
          /\ \A k \in 1 .. N : real < PastReal(blocks[k]) <=> k >= F
          /\ NearestReal(blocks, real).block = F
  BY NearestRealIs
<1>5. real >= PastReal(Last(blocks)) <=> F = N + 1
  BY <1>1, <1>3, <1>4
<1>6. CASE F = N + 1
  <2>1. y = Max({n + 1 - nGhost, past(N)})
    BY <1>3, <1>2, <1>4, <1>5, <1>6 DEF ComputeApparentLine
  <2>2. n + 1 - nGhost \in Int /\ past(N) \in Int
    BY <1>1, <1>3
  <2> HIDE DEF past, y
  <2>3. Max({n + 1 - nGhost, past(N)}) = Larger(n + 1 - nGhost, past(N))
    BY <2>2, MaxOfTwo DEF Larger
  <2>4. ~ (F <= N)
    BY <1>1, <1>6
  <2>5. y = ApparentAt(blocks, n, real, nGhost, F)
    BY <1>6, <2>1, <2>3 DEF ApparentAt, past
  <2> QED BY <1>4, <2>5 DEF LooksUp, y
<1>7. CASE F \in 1 .. N
  <2> DEFINE inBlock == real - blocks[F].nStartReal + start(F)
             room == IF F = 1 THEN 1 ELSE past(F - 1)
  <2>1. F # N + 1 /\ F - 1 # N /\ (F - 1 = 0 <=> F = 1) /\ (F # 1 => F - 1 \in 1 .. N)
    BY <1>1, <1>7
  <2>2. ~ (real >= PastReal(Last(blocks)))
    BY <1>5, <2>1
  <2>3. y = IF real > blocks[F].nStartReal THEN inBlock ELSE Max({inBlock - nGhost, room})
    <3>1. ComputeApparentLine(blocks, n, real, nGhost) =
              IF real > blocks[F].nStartReal THEN inBlock
              ELSE Max({inBlock - nGhost, IF F - 1 = 0 THEN 1 ELSE past(F - 1)})
      BY <1>3, <1>4, <2>2 DEF ComputeApparentLine
    <3> QED BY <3>1, <2>1
  <2>4. inBlock - nGhost \in Int /\ room \in Int
    <3>1. blocks[F].nStartReal \in Int /\ start(F) \in Int
      BY <1>1, <1>7
    <3>2. F # 1 => past(F - 1) \in Int
      BY <1>1, <2>1
    <3> HIDE DEF start, past
    <3> QED BY <3>1, <3>2
  <2> HIDE DEF inBlock, room
  <2>5. Max({inBlock - nGhost, room}) = Larger(inBlock - nGhost, room)
    BY <2>4, MaxOfTwo DEF Larger
  <2> HIDE DEF y
  <2>6. y = ApparentAt(blocks, n, real, nGhost, F)
    BY <2>1, <2>3, <2>5 DEF ApparentAt, inBlock, room
  <2> QED BY <1>4, <2>6 DEF LooksUp, y
<1>8. F = N + 1 \/ F \in 1 .. N
  <2>1. N \in Nat /\ F \in 1 .. N + 1
    BY <1>1, <1>4
  <2> HIDE DEF N
  <2> QED BY <2>1
<1> QED BY <1>6, <1>7, <1>8

(* There and back: an apparent line is found again from its real line and  *)
(* the ghost lines above it.                                               *)
LEMMA ConversionIsExact ==
    ASSUME NEW n \in Nat, NEW S \in SUBSET (1 .. n), S # {},
           NEW blocks, BlocksFit(blocks, S, n), NEW y \in 1 .. n + 1
    PROVE  LET r == ComputeRealLineAndGhostAdjustment(blocks, n, y)
           IN  /\ r.y \in Nat \ {0} /\ r.nGhost \in Nat
               /\ ComputeApparentLine(blocks, n, r.y, r.nGhost) = y
<1> DEFINE r == ComputeRealLineAndGhostAdjustment(blocks, n, y)
           N == Len(blocks)
           start(k) == blocks[k].nStartApparent
           past(k) == PastApparent(blocks[k])
<1>1. /\ N \in Nat \ {0}
      /\ r.y = Cardinality(UpTo(S, y - 1)) + 1
      /\ \/ y >= past(N) /\ r.nGhost = n + 1 - y /\ r.y = PastReal(blocks[N])
         \/ \E F \in 1 .. N : /\ start(F) <= y /\ y < past(F) /\ r.nGhost = 0
                              /\ r.y = y - start(F) + blocks[F].nStartReal
         \/ \E F \in 1 .. N : /\ y < start(F) /\ (F > 1 => past(F - 1) <= y)
                              /\ r.nGhost = start(F) - y /\ r.y = blocks[F].nStartReal
  <2>1. n \in Int
    OBVIOUS
  <2> QED BY <2>1, RealLineIs
<1>2. \A k \in 1 .. N : /\ start(k) \in Nat /\ past(k) \in Nat /\ start(k) < past(k)
                        /\ blocks[k].nStartReal \in Nat
                        /\ PastReal(blocks[k]) = blocks[k].nStartReal + (past(k) - start(k))
  <2>1. \A k \in 1 .. N : /\ start(k) \in 1 .. n /\ past(k) \in 1 .. n + 1 /\ start(k) < past(k)
                          /\ blocks[k].nStartReal \in Nat /\ blocks[k].nCount \in Nat
    BY DEF BlocksFit
  <2>2. ASSUME NEW k \in 1 .. N
        PROVE  PastReal(blocks[k]) = blocks[k].nStartReal + (past(k) - start(k))
    BY <2>1 DEF PastReal, PastApparent
  <2> QED BY <2>1, <2>2
<1>3. r.y \in Nat \ {0}
  <2>1. Cardinality(UpTo(S, y - 1)) \in Nat
    <3>1. S \in SUBSET Nat /\ y - 1 \in Int
      OBVIOUS
    <3> QED BY <3>1, UpToIsFinite
  <2> HIDE DEF r
  <2> QED BY <1>1, <2>1
<1> HIDE DEF r
<1>4. r.nGhost \in Nat
  <2>1. CASE y >= past(N) /\ r.nGhost = n + 1 - y
    BY <2>1
  <2>2. CASE r.nGhost = 0
    BY <2>2
  <2>3. CASE \E F \in 1 .. N : y < start(F) /\ r.nGhost = start(F) - y
    <3>1. PICK F \in 1 .. N : y < start(F) /\ r.nGhost = start(F) - y
      BY <2>3
    <3>2. start(F) \in Nat
      BY <1>2
    <3> HIDE DEF start
    <3> QED BY <3>1, <3>2
  <2> QED BY <1>1, <2>1, <2>2, <2>3
<1> DEFINE back == ComputeApparentLine(blocks, n, r.y, r.nGhost)
<1> SUFFICES back = y
  BY <1>3, <1>4 DEF r
<1>b. \A k \in 1 .. N : PastReal(blocks[k]) \in Int /\ blocks[k].nStartReal \in Int
  <2> HIDE DEF start, past, N
  <2> QED BY <1>2
<1>5. PICK F \in 1 .. N + 1 :
          /\ \A k \in 1 .. N : r.y < PastReal(blocks[k]) <=> k >= F
          /\ back = ApparentAt(blocks, n, r.y, r.nGhost, F)
  <2>1. r.y \in Int /\ r.nGhost \in Int
    BY <1>3, <1>4
  <2>2. PICK F \in 1 .. Len(blocks) + 1 : LooksUp(blocks, n, r.y, r.nGhost, F)
    BY <2>1, ApparentLineIs
  <2> QED BY <2>2, Zenon DEF LooksUp
<1>6. \A j, k \in 1 .. N : j < k => PastReal(blocks[j]) <= blocks[k].nStartReal
  <2>1. r.y \in Int
    BY <1>3
  <2> QED BY <2>1, NearestRealIs, Zenon
<1>7. ASSUME NEW G \in 1 .. N, blocks[G].nStartReal <= r.y, r.y < PastReal(blocks[G])
      PROVE  F = G
  <2>1. G >= F /\ F \in 1 .. N
    BY <1>1, <1>5, <1>7
  <2>2. ASSUME F < G PROVE FALSE
    <3>1. PastReal(blocks[F]) <= blocks[G].nStartReal
      BY <1>6, <2>1, <2>2
    <3>2. r.y < PastReal(blocks[F])
      BY <1>5, <2>1
    <3>3. PastReal(blocks[F]) \in Int /\ blocks[G].nStartReal \in Int
      BY <1>b, <2>1
    <3> QED BY <1>3, <1>7, <3>1, <3>2, <3>3
  <2> QED BY <2>1, <2>2
<1> HIDE DEF back
<1>8. CASE y >= past(N) /\ r.nGhost = n + 1 - y /\ r.y = PastReal(blocks[N])
  <2>1. F = N + 1
    <3>1. N \in 1 .. N /\ PastReal(blocks[N]) \in Int
      BY <1>1, <1>b
    <3>2. ~ (N >= F)
      BY <1>5, <1>8, <3>1
    <3> QED BY <3>2, <1>1
  <2>2. back = Larger(n + 1 - r.nGhost, past(N))
    BY <1>5, <2>1 DEF ApparentAt
  <2>3. n + 1 - r.nGhost = y /\ past(N) \in Int
    BY <1>1, <1>2, <1>8
  <2> HIDE DEF past
  <2> QED BY <1>8, <2>2, <2>3 DEF Larger
<1>9. CASE \E G \in 1 .. N : /\ start(G) <= y /\ y < past(G) /\ r.nGhost = 0
                             /\ r.y = y - start(G) + blocks[G].nStartReal
  <2>1. PICK G \in 1 .. N : /\ start(G) <= y /\ y < past(G) /\ r.nGhost = 0
                            /\ r.y = y - start(G) + blocks[G].nStartReal
    BY <1>9
  <2>2. /\ start(G) \in Nat /\ past(G) \in Nat /\ blocks[G].nStartReal \in Nat
        /\ PastReal(blocks[G]) = blocks[G].nStartReal + (past(G) - start(G))
    BY <1>2
  <2>3. blocks[G].nStartReal <= r.y /\ r.y < PastReal(blocks[G])
    <3> HIDE DEF start, past
    <3> QED BY <2>1, <2>2
  <2>4. F = G
    BY <1>7, <2>3
  <2>5. r.y - blocks[F].nStartReal + start(F) = y /\ r.nGhost = 0 /\ F \in 1 .. N
    <3> HIDE DEF start, past
    <3> QED BY <2>1, <2>2, <2>4
  <2>6. back = IF r.y > blocks[F].nStartReal THEN y
               ELSE Larger(y - r.nGhost, IF F = 1 THEN 1 ELSE past(F - 1))
    <3>1. F # N + 1
      BY <1>1, <2>5
    <3> DEFINE inBlock == r.y - blocks[F].nStartReal + start(F)
    <3>2. back = IF r.y > blocks[F].nStartReal THEN inBlock
                 ELSE Larger(inBlock - r.nGhost, IF F = 1 THEN 1 ELSE past(F - 1))
      BY <1>5, <3>1, Zenon DEF ApparentAt
    <3>3. inBlock = y
      BY <2>5
    <3> HIDE DEF past, start, inBlock
    <3> QED BY <3>2, <3>3
  <2>7. F # 1 => past(F - 1) \in Nat /\ past(F - 1) <= y
    <3> SUFFICES ASSUME F # 1 PROVE past(F - 1) \in Nat /\ past(F - 1) <= y
      OBVIOUS
    <3>1. F - 1 \in 1 .. N /\ F - 1 < F
      BY <2>5
    <3>2. past(F - 1) < start(F)
      BY <2>5, <3>1 DEF BlocksFit
    <3>3. past(F - 1) \in Nat
      BY <1>2, <3>1
    <3> HIDE DEF past, start
    <3> QED BY <2>1, <2>2, <2>4, <3>2, <3>3
  <2> HIDE DEF past, start
  <2> QED BY <2>5, <2>6, <2>7 DEF Larger
<1>10. CASE \E G \in 1 .. N : /\ y < start(G) /\ (G > 1 => past(G - 1) <= y)
                              /\ r.nGhost = start(G) - y /\ r.y = blocks[G].nStartReal
  <2>1. PICK G \in 1 .. N : /\ y < start(G) /\ (G > 1 => past(G - 1) <= y)
                            /\ r.nGhost = start(G) - y /\ r.y = blocks[G].nStartReal
    BY <1>10
  <2>2. /\ start(G) \in Nat /\ past(G) \in Nat /\ blocks[G].nStartReal \in Nat /\ start(G) < past(G)
        /\ PastReal(blocks[G]) = blocks[G].nStartReal + (past(G) - start(G))
    BY <1>2
  <2>3. blocks[G].nStartReal <= r.y /\ r.y < PastReal(blocks[G])
    <3> HIDE DEF start, past
    <3> QED BY <2>1, <2>2
  <2>4. F = G
    BY <1>7, <2>3
  <2> DEFINE inBlock == r.y - blocks[F].nStartReal + start(F)
             above == inBlock - r.nGhost
  <2>5. above = y /\ F \in 1 .. N /\ ~ (r.y > blocks[F].nStartReal)
    <3> DEFINE a == start(F)
               real == r.y
               nGhost == r.nGhost
    <3>1. /\ a \in Nat /\ real \in Nat /\ blocks[F].nStartReal = real /\ nGhost = a - y
          /\ F \in 1 .. N
      BY <2>1, <2>2, <2>4
    <3> HIDE DEF a, real, nGhost
    <3>2. (real - real + a) - nGhost = y /\ ~ (real > real)
      BY <3>1
    <3> QED BY <3>1, <3>2 DEF a, real, nGhost
  <2>6. back = Larger(y, IF F = 1 THEN 1 ELSE past(F - 1))
    <3>1. F # N + 1
      BY <1>1, <2>5
    <3>2. back = IF r.y > blocks[F].nStartReal THEN inBlock
                 ELSE Larger(above, IF F = 1 THEN 1 ELSE past(F - 1))
      BY <1>5, <3>1, Zenon DEF ApparentAt
    <3> HIDE DEF past, start, inBlock, above
    <3> QED BY <2>5, <3>2
  <2>7. F # 1 => past(F - 1) \in Nat /\ past(F - 1) <= y
    <3>1. F # 1 => F - 1 \in 1 .. N /\ F > 1
      BY <2>5
    <3>2. \A k \in 1 .. N : past(k) \in Nat
      BY <1>2
    <3> HIDE DEF past, start
    <3> QED BY <2>1, <2>4, <3>1, <3>2
  <2> HIDE DEF past, start
  <2> QED BY <2>6, <2>7 DEF Larger
<1> QED BY <1>1, <1>8, <1>9, <1>10

-----------------------------------------------------------------------------
(* Sequences, whatever they are made of *)

IsSeq(s) == s \in Seq({s[i] : i \in DOMAIN s})

(* What a sequence is: its length, its domain and its elements.            *)
LEMMA SeqIs ==
    ASSUME NEW s, IsSeq(s)
    PROVE  Len(s) \in Nat /\ DOMAIN s = 1 .. Len(s) /\ s = [i \in 1 .. Len(s) |-> s[i]]
<1> DEFINE S == {s[i] : i \in DOMAIN s}
<1>1. s \in Seq(S)
  BY DEF IsSeq
<1> HIDE DEF S
<1>2. Len(s) \in Nat /\ s \in [1 .. Len(s) -> S] /\ DOMAIN s = 1 .. Len(s)
  BY <1>1, LenProperties
<1> QED BY <1>2

(* A sequence is one over any set that has its elements.                   *)
LEMMA SeqOver ==
    ASSUME NEW S, NEW s \in Seq(S)
    PROVE  IsSeq(s)
<1>1. Len(s) \in Nat /\ s \in [1 .. Len(s) -> S] /\ DOMAIN s = 1 .. Len(s)
  BY LenProperties
<1> DEFINE T == {s[i] : i \in DOMAIN s}
<1>2. s \in [1 .. Len(s) -> T]
  BY <1>1
<1> HIDE DEF T
<1>3. s \in Seq(T)
  BY <1>1, <1>2
<1> QED BY <1>3 DEF IsSeq, T

(* A function from 1 .. n is a sequence of length n.                       *)
LEMMA FunctionIsSeq ==
    ASSUME NEW n \in Nat, NEW s, s = [i \in 1 .. n |-> s[i]]
    PROVE  IsSeq(s) /\ Len(s) = n /\ DOMAIN s = 1 .. n
<1> DEFINE T == {s[i] : i \in 1 .. n}
<1>1. DOMAIN s = 1 .. n
  OBVIOUS
<1>2. s \in [1 .. n -> T]
  OBVIOUS
<1> HIDE DEF T
<1>3. s \in Seq(T) /\ Len(s) = n
  BY <1>2
<1> QED BY <1>1, <1>3, SeqOver

(* The elements of a part of a sequence.                                   *)
LEMMA SubSeqIs ==
    ASSUME NEW s, NEW m \in Int, NEW n \in Int
    PROVE  /\ IsSeq(SubSeq(s, m, n))
           /\ Len(SubSeq(s, m, n)) = IF m <= n THEN n - m + 1 ELSE 0
           /\ \A i \in 1 .. n - m + 1 : SubSeq(s, m, n)[i] = s[m + i - 1]
<1> DEFINE S == {s[i] : i \in m .. n}
<1>1. \A i \in m .. n : s[i] \in S
  OBVIOUS
<1> HIDE DEF S
<1>2. /\ SubSeq(s, m, n) \in Seq(S)
      /\ Len(SubSeq(s, m, n)) = IF m <= n THEN n - m + 1 ELSE 0
      /\ \A i \in 1 .. n - m + 1 : SubSeq(s, m, n)[i] = s[m + i - 1]
  BY <1>1, SubSeqProperties
<1>3. IsSeq(SubSeq(s, m, n))
  BY <1>2, SeqOver
<1> QED BY <1>2, <1>3

(* The elements of two sequences one after the other.                      *)
LEMMA ConcatIs ==
    ASSUME NEW s, NEW t, IsSeq(s), IsSeq(t)
    PROVE  /\ IsSeq(s \o t)
           /\ Len(s \o t) = Len(s) + Len(t)
           /\ \A i \in 1 .. Len(s) + Len(t) :
                  (s \o t)[i] = IF i <= Len(s) THEN s[i] ELSE t[i - Len(s)]
<1> DEFINE S == {s[i] : i \in DOMAIN s} \cup {t[i] : i \in DOMAIN t}
<1>1. s \in Seq({s[i] : i \in DOMAIN s}) /\ t \in Seq({t[i] : i \in DOMAIN t})
  BY DEF IsSeq
<1>2. {s[i] : i \in DOMAIN s} \subseteq S /\ {t[i] : i \in DOMAIN t} \subseteq S
  OBVIOUS
<1>3. s \in Seq(S) /\ t \in Seq(S)
  <2> HIDE DEF S
  <2> QED BY <1>1, <1>2, SeqMonotonic, Zenon
<1> HIDE DEF S
<1> QED BY <1>3, ConcatProperties, SeqOver

(* The sequence of one element.                                            *)
LEMMA SingleIs ==
    ASSUME NEW e
    PROVE  IsSeq(<<e>>) /\ Len(<<e>>) = 1 /\ <<e>>[1] = e
<1>1. <<e>> \in Seq({e}) /\ Len(<<e>>) = 1 /\ <<e>>[1] = e
  OBVIOUS
<1> QED BY <1>1, SeqOver

(* The empty sequence.                                                     *)
LEMMA EmptyIs == IsSeq(<<>>) /\ Len(<<>>) = 0
<1>1. <<>> \in Seq({}) /\ Len(<<>>) = 0
  OBVIOUS
<1> QED BY <1>1, SeqOver

(* The elements after one is appended.                                     *)
LEMMA AppendIs ==
    ASSUME NEW s, IsSeq(s), NEW e
    PROVE  /\ IsSeq(Append(s, e))
           /\ Len(Append(s, e)) = Len(s) + 1
           /\ \A i \in 1 .. Len(s) + 1 : Append(s, e)[i] = IF i <= Len(s) THEN s[i] ELSE e
<1> DEFINE S == {s[i] : i \in DOMAIN s} \cup {e}
<1>1. s \in Seq({s[i] : i \in DOMAIN s})
  BY DEF IsSeq
<1>2. {s[i] : i \in DOMAIN s} \subseteq S /\ e \in S
  OBVIOUS
<1>3. s \in Seq(S)
  <2> HIDE DEF S
  <2> QED BY <1>1, <1>2, SeqMonotonic, Zenon
<1> HIDE DEF S
<1>4. Len(s) \in Nat
  BY SeqIs
<1>5. /\ Append(s, e) \in Seq(S)
      /\ Len(Append(s, e)) = Len(s) + 1
      /\ \A i \in 1 .. Len(s) : Append(s, e)[i] = s[i]
      /\ Append(s, e)[Len(s) + 1] = e
  BY <1>2, <1>3, AppendProperties
<1>6. IsSeq(Append(s, e))
  BY <1>5, SeqOver
<1>7. ASSUME NEW i \in 1 .. Len(s) + 1
      PROVE  Append(s, e)[i] = IF i <= Len(s) THEN s[i] ELSE e
  <2>1. (i <= Len(s) => i \in 1 .. Len(s)) /\ (~ (i <= Len(s)) => i = Len(s) + 1)
    BY <1>4
  <2> QED BY <1>5, <2>1
<1> QED BY <1>5, <1>6, <1>7

(* The line breaks in a text                                               *)
EolsOf(text) == {i \in DOMAIN text : text[i] = EOL}

(* There are finitely many.                                                *)
LEMMA EolsAre ==
    ASSUME NEW text, IsSeq(text)
    PROVE  /\ EolsOf(text) = {i \in 1 .. Len(text) : text[i] = EOL}
           /\ EolsOf(text) \in SUBSET (1 .. Len(text)) /\ Len(text) \in Nat
           /\ IsFiniteSet(EolsOf(text)) /\ Cardinality(EolsOf(text)) \in Nat
<1>1. DOMAIN text = 1 .. Len(text) /\ Len(text) \in Nat
  BY SeqIs
<1>2. EolsOf(text) = {i \in 1 .. Len(text) : text[i] = EOL}
  BY <1>1 DEF EolsOf
<1>3. EolsOf(text) \in SUBSET (1 .. Len(text)) /\ IsFiniteSet(1 .. Len(text))
  BY <1>1, <1>2, FS_Interval
<1>4. IsFiniteSet(EolsOf(text))
  BY <1>3, FS_Subset
<1> QED BY <1>1, <1>2, <1>3, <1>4, FS_CardinalityType

(* Texts put together have the line breaks of both.                        *)
LEMMA EolsConcat ==
    ASSUME NEW s, NEW t, IsSeq(s), IsSeq(t)
    PROVE  Cardinality(EolsOf(s \o t)) = Cardinality(EolsOf(s)) + Cardinality(EolsOf(t))
<1> DEFINE n == Len(s)
           m == Len(t)
           u == s \o t
           S == EolsOf(s)
           T == EolsOf(t)
           U == EolsOf(u)
<1>1. /\ IsSeq(u) /\ Len(u) = n + m
      /\ \A i \in 1 .. n + m : u[i] = IF i <= n THEN s[i] ELSE t[i - n]
  BY ConcatIs
<1> HIDE DEF u
<1>2. /\ n \in Nat /\ S = {i \in 1 .. n : s[i] = EOL} /\ S \in SUBSET (1 .. n)
      /\ m \in Nat /\ T = {i \in 1 .. m : t[i] = EOL} /\ T \in SUBSET (1 .. m)
      /\ U = {i \in 1 .. n + m : u[i] = EOL} /\ U \in SUBSET (1 .. n + m)
  BY <1>1, EolsAre
<1> HIDE DEF n, m, S, T, U
<1>3. \A i \in 1 .. n : i \in U <=> i \in S
  <2>1. \A i \in 1 .. n : i \in 1 .. n + m /\ i <= n
    BY <1>2
  <2> QED BY <1>1, <1>2, <2>1
<1>4. ASSUME NEW k \in 1 .. m PROVE n + k \in U <=> k \in T
  <2> DEFINE p == n + k
  <2>1. p \in 1 .. n + m /\ ~ (p <= n) /\ p - n = k
    BY <1>2
  <2> HIDE DEF p
  <2>2. u[p] = t[k]
    BY <1>1, <2>1
  <2>3. p \in U <=> k \in T
    BY <1>2, <2>1, <2>2
  <2> QED BY <2>3 DEF p
<1>5. UpTo(U, n) = S
  <2>1. \A i \in U : i <= n => i \in 1 .. n
    BY <1>2
  <2>2. \A i \in S : i \in 1 .. n /\ i <= n
    BY <1>2
  <2> QED BY <1>3, <2>1, <2>2 DEF UpTo
<1>6. UpTo(U, n + m) = U /\ UpTo(T, m) = T
  <2>1. n + m \in Int /\ m \in Int
    BY <1>2
  <2> QED BY <1>2, <2>1, UpToAll
<1>7. U \in SUBSET Nat /\ T \in SUBSET (Nat \ {0}) /\ n \in Int
  BY <1>2
<1>8. Cardinality(UpTo(U, n + m)) = Cardinality(UpTo(U, n)) + Cardinality(UpTo(T, m))
  <2>1. Displaced(U, T, n, m)
    BY <1>4 DEF Displaced
  <2> QED BY <1>2, <1>7, <2>1, UpToShift
<1> QED BY <1>5, <1>6, <1>8 DEF S, T, U, u

(* The sequences put together up to each one                               *)
LEMMA FlattenSteps ==
    ASSUME NEW s, IsSeq(s)
    PROVE  /\ Len(s) = 0 => FlattenSeq(s) = <<>>
           /\ Len(s) # 0 =>
                  \E f : /\ FlattenSeq(s) = f[Len(s)]
                         /\ \A i \in 1 .. Len(s) : f[i] = IF i = 1 THEN s[i] ELSE f[i - 1] \o s[i]
<1> DEFINE N == Len(s)
           Step(n, g) == [i \in 1 .. n |-> IF i = 1 THEN s[i] ELSE g[i - 1] \o s[i]]
           Good(n, g) == g = Step(n, g)
           Bad == {n \in 0 .. N : ~ \E g : Good(n, g)}
           Chosen == CHOOSE g : Good(N, g)
<1>1. N \in Nat /\ (N = 0 => s = <<>>)
  <2>1. Len(s) \in Nat /\ s = [i \in 1 .. Len(s) |-> s[i]]
    BY SeqIs
  <2> QED BY <2>1
<1>2. FlattenSeq(s) = IF N = 0 THEN s ELSE Chosen[N]
  BY DEF FlattenSeq
<1>3. Bad = {}
  <2> SUFFICES ASSUME Bad # {} PROVE FALSE
    OBVIOUS
  <2>1. PICK m \in Bad : \A k \in Bad : m <= k
    <3>1. Bad \in SUBSET Nat
      <4> HIDE DEF Good
      <4> QED BY <1>1
    <3> HIDE DEF Bad
    <3> QED BY <3>1, LeastOf
  <2>2. m \in 0 .. N /\ ~ \E g : Good(m, g)
    BY <2>1
  <2>3. m # 0
    <3>1. Good(0, <<>>)
      OBVIOUS
    <3> QED BY <2>2, <3>1
  <2>4. m - 1 \in 0 .. N /\ ~ (m <= m - 1)
    BY <2>2, <2>3, <1>1
  <2>5. PICK g : Good(m - 1, g)
    <3>1. m - 1 \notin Bad
      BY <2>1, <2>4
    <3> HIDE DEF Good
    <3> QED BY <2>4, <3>1
  <2> DEFINE h == [i \in 1 .. m |-> IF i = m THEN IF i = 1 THEN s[i] ELSE g[i - 1] \o s[i]
                                    ELSE g[i]]
  <2>6. \A i \in 1 .. m : h[i] = IF i = 1 THEN s[i] ELSE h[i - 1] \o s[i]
    <3>1. \A i \in 1 .. m - 1 : g[i] = IF i = 1 THEN s[i] ELSE g[i - 1] \o s[i]
      <4> DEFINE e(i) == IF i = 1 THEN s[i] ELSE g[i - 1] \o s[i]
      <4>1. g = [i \in 1 .. m - 1 |-> e(i)]
        BY <2>5
      <4>2. \A i \in 1 .. m - 1 : g[i] = e(i)
        <5> HIDE DEF e
        <5>1. \A i \in 1 .. m - 1 : [j \in 1 .. m - 1 |-> e(j)][i] = e(i)
          OBVIOUS
        <5> QED BY <4>1, <5>1, Zenon
      <4> QED BY <4>2
    <3>2. \A i \in 1 .. m : /\ i # m => i \in 1 .. m - 1
                            /\ i # 1 => i - 1 \in 1 .. m /\ i - 1 # m
      BY <2>2
    <3> QED BY <3>1, <3>2
  <2>7. Good(m, h)
    BY <2>6
  <2> QED BY <2>2, <2>7, Zenon
<1>4. CASE N # 0
  <2>1. Good(N, Chosen)
    <3>1. \E g : Good(N, g)
      <4> HIDE DEF Good
      <4>1. N \in 0 .. N /\ N \notin Bad
        BY <1>1, <1>3
      <4> QED BY <4>1
    <3> HIDE DEF Good
    <3> QED BY <3>1, Zenon
  <2>2. \A i \in 1 .. N : Chosen[i] = IF i = 1 THEN s[i] ELSE Chosen[i - 1] \o s[i]
    <3> HIDE DEF Chosen
    <3> DEFINE e(i) == IF i = 1 THEN s[i] ELSE Chosen[i - 1] \o s[i]
    <3>1. Chosen = [i \in 1 .. N |-> e(i)]
      BY <2>1
    <3>2. \A i \in 1 .. N : Chosen[i] = e(i)
      <4> HIDE DEF e
      <4>1. \A i \in 1 .. N : [j \in 1 .. N |-> e(j)][i] = e(i)
        OBVIOUS
      <4> QED BY <3>1, <4>1, Zenon
    <3> QED BY <3>2
  <2> HIDE DEF Chosen
  <2>3. FlattenSeq(s) = Chosen[N]
    BY <1>2, <1>4
  <2> QED BY <1>4, <2>2, <2>3
<1>5. CASE N = 0
  BY <1>1, <1>2, <1>5
<1> QED BY <1>4, <1>5

(* Sequences put together are one, with the line breaks of all of them.    *)
LEMMA FlattenIs ==
    ASSUME NEW s, IsSeq(s), \A i \in 1 .. Len(s) : IsSeq(s[i])
    PROVE  /\ IsSeq(FlattenSeq(s))
           /\ \A D \in SUBSET (1 .. Len(s)) :
                  (\A i \in D : EolsOf(s[i]) # {}) =>
                      Cardinality(D) <= Cardinality(EolsOf(FlattenSeq(s)))
<1> DEFINE N == Len(s)
           text == FlattenSeq(s)
<1>1. N \in Nat
  BY SeqIs
<1> SUFFICES ASSUME NEW D \in SUBSET (1 .. N), \A i \in D : EolsOf(s[i]) # {}
             PROVE  IsSeq(text) /\ Cardinality(D) <= Cardinality(EolsOf(text))
  <2>1. {} \in SUBSET (1 .. N) /\ \A i \in {} : EolsOf(s[i]) # {}
    OBVIOUS
  <2> HIDE DEF N, text
  <2> QED BY <2>1 DEF N, text
<1>2. CASE N = 0
  <2>1. text = <<>>
    BY <1>2, FlattenSteps
  <2>2. D = {}
    BY <1>2
  <2> HIDE DEF text
  <2>3. IsSeq(text)
    BY <2>1, EmptyIs
  <2>4. Cardinality(D) = 0
    BY <2>2, FS_EmptySet
  <2> QED BY <2>3, <2>4, EolsAre
<1>3. CASE N # 0
  <2> DEFINE Steps(f) == \A i \in 1 .. N : f[i] = IF i = 1 THEN s[i] ELSE f[i - 1] \o s[i]
  <2>1. PICK f : text = f[N] /\ Steps(f)
    BY <1>3, FlattenSteps
  <2> DEFINE Good(i) == /\ IsSeq(f[i])
                        /\ Cardinality(UpTo(D, i)) <= Cardinality(EolsOf(f[i]))
             Bad == {i \in 1 .. N : ~ Good(i)}
  <2>2. D \in SUBSET Nat
    OBVIOUS
  <2>3. ASSUME NEW i \in 1 .. N
        PROVE  /\ Cardinality(UpTo(D, i - 1)) \in Nat /\ Cardinality(UpTo(D, i)) \in Nat
               /\ Cardinality(EolsOf(s[i])) \in Nat
               /\ Cardinality(UpTo(D, i)) <= Cardinality(UpTo(D, i - 1)) + Cardinality(EolsOf(s[i]))
    <3>1. i - 1 \in Int /\ i \in Int /\ i - 1 + 1 = i
      OBVIOUS
    <3>2. Cardinality(UpTo(D, i - 1)) \in Nat /\ Cardinality(UpTo(D, i)) \in Nat
      BY <2>2, <3>1, UpToIsFinite
    <3>3. Cardinality(UpTo(D, i)) = Cardinality(UpTo(D, i - 1)) + IF i \in D THEN 1 ELSE 0
      BY <2>2, <3>1, UpToNext
    <3>4. IsFiniteSet(EolsOf(s[i])) /\ Cardinality(EolsOf(s[i])) \in Nat
      BY EolsAre
    <3>5. i \in D => Cardinality(EolsOf(s[i])) # 0
      BY <3>4, FS_EmptySet
    <3> QED BY <3>2, <3>3, <3>4, <3>5
  <2>4. Bad = {}
    <3> SUFFICES ASSUME Bad # {} PROVE FALSE
      OBVIOUS
    <3>1. PICK i \in Bad : \A j \in Bad : i <= j
      <4>1. Bad \in SUBSET Nat
        OBVIOUS
      <4> HIDE DEF Bad
      <4> QED BY <4>1, LeastOf
    <3>2. i \in 1 .. N /\ ~ Good(i)
      BY <3>1
    <3>3. CASE i = 1
      <4>1. f[i] = s[i]
        BY <2>1, <3>2, <3>3
      <4>2. UpTo(D, i - 1) = {}
        <5>1. \A j \in D : ~ (j <= i - 1)
          BY <3>3
        <5> QED BY <5>1 DEF UpTo
      <4>3. Cardinality(UpTo(D, i - 1)) = 0
        BY <4>2, FS_EmptySet
      <4>4. Cardinality(UpTo(D, i)) <= Cardinality(EolsOf(s[i]))
        BY <2>3, <3>2, <4>3
      <4> QED BY <3>2, <4>1, <4>4
    <3>4. CASE i # 1
      <4>1. i - 1 \in 1 .. N /\ ~ (i <= i - 1)
        BY <3>2, <3>4, <1>1
      <4>2. Good(i - 1)
        BY <3>1, <4>1
      <4>3. f[i] = f[i - 1] \o s[i]
        BY <2>1, <3>2, <3>4
      <4>4. IsSeq(f[i - 1]) /\ IsSeq(s[i])
        BY <3>2, <4>2
      <4>5. IsSeq(f[i]) /\ Cardinality(EolsOf(f[i])) =
                Cardinality(EolsOf(f[i - 1])) + Cardinality(EolsOf(s[i]))
        BY <4>3, <4>4, ConcatIs, EolsConcat
      <4>6. Cardinality(EolsOf(f[i - 1])) \in Nat
        BY <4>4, EolsAre
      <4>7. Cardinality(UpTo(D, i - 1)) <= Cardinality(EolsOf(f[i - 1]))
        BY <4>2
      <4> QED BY <2>3, <3>2, <4>5, <4>6, <4>7
    <3> QED BY <3>3, <3>4
  <2>5. N \in 1 .. N /\ Good(N)
    <3>1. N \in 1 .. N
      BY <1>1, <1>3
    <3> HIDE DEF Good
    <3> QED BY <2>4, <3>1
  <2>6. UpTo(D, N) = D
    BY <1>1, UpToAll
  <2> HIDE DEF text
  <2> QED BY <2>1, <2>5, <2>6
<1> QED BY <1>2, <1>3

-----------------------------------------------------------------------------
(* Lines *)

IsLine(l) ==
    /\ DOMAIN l = {"text", "eol", "ghost"} /\ l = [field \in DOMAIN l |-> l[field]]
    /\ IsSeq(l.text)

IsLines(lines) == IsSeq(lines) /\ \A i \in 1 .. Len(lines) : IsLine(lines[i])

(* The lines the operations make are lines.                                *)
LEMMA LineIs ==
    ASSUME NEW text, NEW eol, NEW ghost, IsSeq(text)
    PROVE  IsLine(Line(text, eol, ghost)) /\ Line(text, eol, ghost).ghost = ghost
BY DEF Line, IsLine

(* A line stays one when its text changes.                                 *)
LEMMA LineWith ==
    ASSUME NEW l, IsLine(l), NEW e
    PROVE  /\ IsLine([l EXCEPT !.eol = e]) /\ [l EXCEPT !.eol = e].ghost = l.ghost
           /\ IsLine([l EXCEPT !.ghost = e]) /\ [l EXCEPT !.ghost = e].ghost = e
           /\ [l EXCEPT !.ghost = e].eol = l.eol
BY DEF IsLine

(* What lines are.                                                         *)
LEMMA LinesAre ==
    ASSUME NEW n \in Nat, NEW lines, lines = [i \in 1 .. n |-> lines[i]],
           \A i \in 1 .. n : IsLine(lines[i])
    PROVE  IsLines(lines) /\ Len(lines) = n
BY FunctionIsSeq DEF IsLines

(* The numbers of the real lines.                                          *)
LEMMA RealOfIs ==
    ASSUME NEW lines, IsLines(lines)
    PROVE  RealOf(lines) = {i \in 1 .. Len(lines) : ~ lines[i].ghost}
BY SeqIs DEF IsLines, RealOf

(* Lines after lines are lines.                                            *)
LEMMA LinesConcat ==
    ASSUME NEW s, NEW t, IsLines(s), IsLines(t)
    PROVE  IsLines(s \o t) /\ Len(s \o t) = Len(s) + Len(t)
<1>1. Len(s) \in Nat /\ Len(t) \in Nat /\ IsSeq(s) /\ IsSeq(t)
  BY SeqIs DEF IsLines
<1>2. /\ IsSeq(s \o t) /\ Len(s \o t) = Len(s) + Len(t)
      /\ \A i \in 1 .. Len(s) + Len(t) :
             (s \o t)[i] = IF i <= Len(s) THEN s[i] ELSE t[i - Len(s)]
  BY <1>1, ConcatIs
<1>3. ASSUME NEW i \in 1 .. Len(s) + Len(t) PROVE IsLine((s \o t)[i])
  <2>1. (i <= Len(s) => i \in 1 .. Len(s)) /\ (~ (i <= Len(s)) => i - Len(s) \in 1 .. Len(t))
    BY <1>1
  <2> QED BY <1>2, <2>1 DEF IsLines
<1> QED BY <1>2, <1>3 DEF IsLines

(* A part of lines is lines.                                               *)
LEMMA LinesSub ==
    ASSUME NEW s, IsLines(s), NEW m \in Nat \ {0}, NEW n \in 0 .. Len(s)
    PROVE  IsLines(SubSeq(s, m, n)) /\ Len(SubSeq(s, m, n)) = IF m <= n THEN n - m + 1 ELSE 0
<1>1. Len(s) \in Nat /\ m \in Int /\ n \in Int
  BY SeqIs DEF IsLines
<1>2. /\ IsSeq(SubSeq(s, m, n))
      /\ Len(SubSeq(s, m, n)) = IF m <= n THEN n - m + 1 ELSE 0
      /\ \A i \in 1 .. n - m + 1 : SubSeq(s, m, n)[i] = s[m + i - 1]
  BY <1>1, SubSeqIs
<1>3. ASSUME NEW i \in 1 .. Len(SubSeq(s, m, n)) PROVE IsLine(SubSeq(s, m, n)[i])
  <2>1. m <= n /\ i \in 1 .. n - m + 1 /\ m + i - 1 \in 1 .. Len(s)
    BY <1>1, <1>2
  <2> QED BY <1>2, <2>1 DEF IsLines
<1> QED BY <1>2, <1>3 DEF IsLines

(* Lines stay lines when one of them is replaced.                          *)
LEMMA LinesExcept ==
    ASSUME NEW s, IsLines(s), NEW i \in 1 .. Len(s), NEW e, IsLine(e)
    PROVE  /\ IsLines([s EXCEPT ![i] = e]) /\ Len([s EXCEPT ![i] = e]) = Len(s)
           /\ \A j \in 1 .. Len(s) : [s EXCEPT ![i] = e][j] = IF j = i THEN e ELSE s[j]
<1> DEFINE t == [s EXCEPT ![i] = e]
           n == Len(s)
<1>1. n \in Nat /\ DOMAIN s = 1 .. n
  BY SeqIs DEF IsLines
<1>2. /\ t = [j \in 1 .. n |-> t[j]]
      /\ \A j \in 1 .. n : t[j] = IF j = i THEN e ELSE s[j]
  BY <1>1
<1>3. \A j \in 1 .. n : IsLine(t[j])
  BY <1>2 DEF IsLines
<1> HIDE DEF t
<1>4. IsLines(t) /\ Len(t) = n
  BY <1>1, <1>2, <1>3, LinesAre
<1> QED BY <1>2, <1>4 DEF t

-----------------------------------------------------------------------------
(* Line breaks *)

(* The numbers of the lines that end with a line break                     *)
BreaksOf(lines) == {i \in DOMAIN lines : lines[i].eol}

(* Every real line but the last one ends with one, and no other line.      *)
HasBreaks(lines) ==
    \A i \in 1 .. Len(lines) :
        i \in BreaksOf(lines) <=> i \in RealOf(lines) /\ \E j \in RealOf(lines) : i < j

(* A line is marked as another one is.                                     *)
Alike(s, i, t, j) ==
    /\ i \in RealOf(s) <=> j \in RealOf(t)
    /\ i \in BreaksOf(s) <=> j \in BreaksOf(t)

(* Lines t are lines s but for some of them, which are lines a to b now.   *)
Framed(s, t, a, b) ==
    /\ a \in 1 .. Len(s) + 1 /\ a \in 1 .. Len(t) + 1 /\ b \in Int
    /\ b >= a - 1 /\ b + (Len(s) - Len(t)) >= a - 1
    /\ \A i \in 1 .. a - 1 : Alike(s, i, t, i)
    /\ \A i \in b + 1 .. Len(t) : Alike(s, i + (Len(s) - Len(t)), t, i)

(* The numbers of the lines with a break.                                 *)
LEMMA BreaksOfIs ==
    ASSUME NEW lines, IsLines(lines)
    PROVE  BreaksOf(lines) = {i \in 1 .. Len(lines) : lines[i].eol}
BY SeqIs DEF IsLines, BreaksOf

(* The block list tells the last real line.                                *)
LEMMA LastRealIs ==
    ASSUME NEW lines, IsLines(lines)
    PROVE  LET last == ApparentLastRealLine(BlocksOf(lines))
           IN  /\ last \in 0 .. Len(lines)
               /\ last = 0 => RealOf(lines) = {}
               /\ last # 0 => last \in RealOf(lines)
               /\ \A i \in RealOf(lines) : i <= last
<1> DEFINE blocks == BlocksOf(lines)
           n == Len(lines)
           S == RealOf(lines)
           N == Len(blocks)
           past(k) == PastApparent(blocks[k])
           start(k) == blocks[k].nStartApparent
<1>1. n \in Nat /\ DOMAIN lines = 1 .. n
  BY SeqIs DEF IsLines
<1>2. S \in SUBSET (1 .. n)
  BY RealOfIs
<1>3. BlocksFit(blocks, S, n)
  BY <1>1, BlocksOfFit
<1> HIDE DEF blocks, S, n
<1>4. N \in Nat /\ blocks \in Seq([nStartApparent : Nat, nStartReal : Nat, nCount : Nat])
  BY <1>3 DEF BlocksFit
<1>5. CASE blocks = <<>>
  <2>1. ApparentLastRealLine(blocks) = 0
    BY <1>5 DEF ApparentLastRealLine
  <2>2. N = 0
    BY <1>5
  <2>3. S = {}
    <3>1. \A i \in S : \E k \in 1 .. N : TRUE
      BY <1>3 DEF BlocksFit
    <3> QED BY <2>2, <3>1
  <2> QED BY <1>1, <2>1, <2>3 DEF blocks, S, n
<1>6. CASE blocks # <<>>
  <2>1. N \in 1 .. N
    BY <1>4, <1>6
  <2>2. ApparentLastRealLine(blocks) = past(N) - 1
    BY <1>6 DEF ApparentLastRealLine, Last
  <2>3. /\ \A k \in 1 .. N :
              /\ start(k) \in 1 .. n /\ past(k) \in 1 .. n + 1 /\ start(k) < past(k)
              /\ \A i \in Int : start(k) <= i /\ i < past(k) => i \in S
        /\ \A j, k \in 1 .. N : j < k => past(j) < start(k)
        /\ \A i \in S : \E k \in 1 .. N : start(k) <= i /\ i < past(k)
    BY <1>3 DEF BlocksFit
  <2> HIDE DEF past, start, N
  <2>4. past(N) - 1 \in 1 .. n /\ past(N) - 1 \in S
    <3>1. /\ start(N) \in 1 .. n /\ past(N) \in 1 .. n + 1 /\ start(N) < past(N)
          /\ \A i \in Int : start(N) <= i /\ i < past(N) => i \in S
      BY <2>1, <2>3
    <3>2. /\ past(N) - 1 \in Int /\ past(N) - 1 \in 1 .. n
          /\ start(N) <= past(N) - 1 /\ past(N) - 1 < past(N)
      BY <1>1, <3>1
    <3> QED BY <3>1, <3>2
  <2>5. ASSUME NEW i \in S PROVE i <= past(N) - 1
    <3>1. PICK k \in 1 .. N : start(k) <= i /\ i < past(k)
      BY <2>3
    <3>2. k = N \/ k < N
      BY <1>4
    <3>3. past(k) <= past(N)
      BY <1>1, <2>1, <2>3, <3>2
    <3>4. past(k) \in Int /\ past(N) \in Int /\ i \in Int
      BY <1>1, <1>2, <2>1, <2>3
    <3> QED BY <3>1, <3>3, <3>4
  <2>6. past(N) - 1 # 0 /\ past(N) - 1 \in 0 .. n
    BY <1>1, <2>4
  <2> QED BY <2>2, <2>4, <2>5, <2>6 DEF blocks, S, n
<1> QED BY <1>5, <1>6

(* Lines in the place of others, a to c - 1                                *)
Splice(s, a, middle, c) == SubSeq(s, 1, a - 1) \o middle \o SubSeq(s, c, Len(s))

(* The rest of the lines is left, and lines to b are what is put in.       *)
Spliced(s, t, a, middle, c, b) ==
    /\ IsLines(t) /\ Len(t) = (a - 1) + Len(middle) + (Len(s) - c + 1)
    /\ Framed(s, t, a, b)
    /\ \A i \in 1 .. Len(middle) : t[a - 1 + i] = middle[i]

(* Lines that are put in the place of others leave the rest.               *)
LEMMA SpliceFramed ==
    ASSUME NEW s, IsLines(s), NEW middle, IsLines(middle),
           NEW a \in 1 .. Len(s) + 1, NEW c \in a .. Len(s) + 1,
           NEW b \in Int, b >= a - 1 + Len(middle)
    PROVE  Spliced(s, Splice(s, a, middle, c), a, middle, c, b)
<1> DEFINE n == Len(s)
           m == Len(middle)
           above == SubSeq(s, 1, a - 1)
           below == SubSeq(s, c, n)
           top == above \o middle
           t == top \o below
<1>1. n \in Nat /\ m \in Nat /\ a \in 1 .. n + 1 /\ c \in a .. n + 1
  BY SeqIs DEF IsLines
<1>2. IsLines(above) /\ Len(above) = a - 1 /\ \A i \in 1 .. a - 1 : above[i] = s[i]
  <2>1. /\ 1 \in Nat \ {0} /\ a - 1 \in 0 .. n /\ 1 \in Int /\ a - 1 \in Int
        /\ (IF 1 <= a - 1 THEN (a - 1) - 1 + 1 ELSE 0) = a - 1
    <3> HIDE DEF n
    <3> QED BY <1>1
  <2>2. IsLines(above) /\ Len(above) = a - 1
    BY <2>1, LinesSub
  <2>3. \A i \in 1 .. (a - 1) - 1 + 1 : above[i] = s[1 + i - 1]
    BY <2>1, SubSeqIs
  <2> HIDE DEF above
  <2>4. \A i \in 1 .. a - 1 : i \in 1 .. (a - 1) - 1 + 1 /\ 1 + i - 1 = i
    BY <2>1
  <2> QED BY <2>2, <2>3, <2>4
<1>3. IsLines(below) /\ Len(below) = n + 1 - c /\ \A i \in 1 .. n + 1 - c : below[i] = s[c + i - 1]
  <2>1. /\ c \in Nat \ {0} /\ n \in 0 .. n /\ c \in Int /\ n \in Int
        /\ (IF c <= n THEN n - c + 1 ELSE 0) = n + 1 - c
    <3> HIDE DEF n
    <3> QED BY <1>1
  <2>2. IsLines(below) /\ Len(below) = n + 1 - c
    BY <2>1, LinesSub
  <2>3. \A i \in 1 .. n - c + 1 : below[i] = s[c + i - 1]
    BY <2>1, SubSeqIs
  <2>4. n - c + 1 = n + 1 - c
    <3> HIDE DEF n
    <3> QED BY <2>1
  <2> HIDE DEF below, n
  <2> QED BY <2>2, <2>3, <2>4
<1> HIDE DEF above, below
<1>4. /\ IsLines(top) /\ Len(top) = a - 1 + m
      /\ \A i \in 1 .. a - 1 + m : top[i] = IF i <= a - 1 THEN above[i] ELSE middle[i - (a - 1)]
  <2>1. /\ IsLines(top) /\ Len(top) = Len(above) + Len(middle)
        /\ \A i \in 1 .. Len(above) + Len(middle) :
               top[i] = IF i <= Len(above) THEN above[i] ELSE middle[i - Len(above)]
    BY <1>2, LinesConcat, ConcatIs DEF IsLines
  <2> HIDE DEF top
  <2> QED BY <1>2, <2>1
<1> HIDE DEF top
<1>5. /\ IsLines(t) /\ Len(t) = (a - 1 + m) + (n + 1 - c)
      /\ \A i \in 1 .. (a - 1 + m) + (n + 1 - c) :
             t[i] = IF i <= a - 1 + m THEN top[i] ELSE below[i - (a - 1 + m)]
  <2>1. /\ IsLines(t) /\ Len(t) = Len(top) + Len(below)
        /\ \A i \in 1 .. Len(top) + Len(below) :
               t[i] = IF i <= Len(top) THEN top[i] ELSE below[i - Len(top)]
    BY <1>3, <1>4, LinesConcat, ConcatIs DEF IsLines
  <2> HIDE DEF t
  <2> QED BY <1>3, <1>4, <2>1
<1> HIDE DEF t, n, m
<1>6. ASSUME NEW i \in 1 .. a - 1 PROVE t[i] = s[i]
  <2>1. i \in 1 .. (a - 1 + m) + (n + 1 - c) /\ i <= a - 1 + m /\ i \in 1 .. a - 1 + m /\ i <= a - 1
    BY <1>1
  <2> QED BY <1>2, <1>4, <1>5, <2>1
<1>7. ASSUME NEW i \in b + 1 .. Len(t) PROVE t[i] = s[i + (n - Len(t))]
  <2> DEFINE k == i - (a - 1 + m)
  <2>1. /\ i \in 1 .. (a - 1 + m) + (n + 1 - c) /\ ~ (i <= a - 1 + m)
        /\ k \in 1 .. n + 1 - c /\ c + k - 1 = i + (n - Len(t))
    BY <1>1, <1>5 DEF m
  <2> HIDE DEF k
  <2>2. t[i] = below[k]
    BY <1>5, <2>1 DEF k
  <2> QED BY <1>3, <2>1, <2>2
<1>8. ASSUME NEW i \in 1 .. m PROVE t[a - 1 + i] = middle[i]
  <2> DEFINE k == a - 1 + i
  <2>1. /\ k \in 1 .. (a - 1 + m) + (n + 1 - c) /\ k <= a - 1 + m /\ k \in 1 .. a - 1 + m
        /\ ~ (k <= a - 1) /\ k - (a - 1) = i
    BY <1>1
  <2> HIDE DEF k
  <2>2. t[k] = middle[i]
    BY <1>4, <1>5, <2>1
  <2> QED BY <2>2 DEF k
<1>9. /\ RealOf(s) = {i \in 1 .. n : ~ s[i].ghost} /\ BreaksOf(s) = {i \in 1 .. n : s[i].eol}
      /\ RealOf(t) = {i \in 1 .. Len(t) : ~ t[i].ghost} /\ BreaksOf(t) = {i \in 1 .. Len(t) : t[i].eol}
  BY <1>5, RealOfIs, BreaksOfIs DEF n
<1>10. \A i \in 1 .. a - 1 : Alike(s, i, t, i)
  <2>1. \A i \in 1 .. a - 1 : i \in 1 .. n /\ i \in 1 .. Len(t)
    BY <1>1, <1>5
  <2> QED BY <1>6, <1>9, <2>1 DEF Alike
<1>11. ASSUME NEW i \in b + 1 .. Len(t) PROVE Alike(s, i + (n - Len(t)), t, i)
  <2> DEFINE k == i + (n - Len(t))
  <2>1. k \in 1 .. n /\ i \in 1 .. Len(t)
    BY <1>1, <1>5 DEF m
  <2>2. t[i] = s[k]
    BY <1>7
  <2> HIDE DEF k
  <2>3. Alike(s, k, t, i)
    BY <1>9, <2>1, <2>2 DEF Alike
  <2> QED BY <2>3 DEF k
<1>12. /\ a \in 1 .. n + 1 /\ a \in 1 .. Len(t) + 1 /\ b \in Int
       /\ b >= a - 1 /\ b + (n - Len(t)) >= a - 1
  BY <1>1, <1>5 DEF m
<1>13. Framed(s, t, a, b)
  BY <1>10, <1>11, <1>12 DEF Framed, n
<1>14. Len(t) = (a - 1) + m + (n - c + 1)
  BY <1>1, <1>5
<1> QED BY <1>5, <1>8, <1>13, <1>14 DEF Splice, Spliced, t, top, above, below, n, m

(* Marks that change within the frame                                      *)
LEMMA FramedWith ==
    ASSUME NEW s, NEW t, NEW new, NEW a, NEW b, Framed(s, t, a, b), Len(t) \in Nat,
           Len(new) = Len(t),
           \A i \in 1 .. Len(t) : i < a \/ i > b =>
               /\ i \in RealOf(t) <=> i \in RealOf(new)
               /\ i \in BreaksOf(t) <=> i \in BreaksOf(new)
    PROVE  Framed(s, new, a, b)
<1>1. /\ a \in 1 .. Len(s) + 1 /\ a \in 1 .. Len(t) + 1 /\ b \in Int
      /\ b >= a - 1 /\ b + (Len(s) - Len(t)) >= a - 1
      /\ \A i \in 1 .. a - 1 : Alike(s, i, t, i)
      /\ \A i \in b + 1 .. Len(t) : Alike(s, i + (Len(s) - Len(t)), t, i)
  BY DEF Framed
<1>2. \A i \in 1 .. a - 1 : i \in 1 .. Len(t) /\ i < a
  BY <1>1
<1>3. \A i \in b + 1 .. Len(t) : i \in 1 .. Len(t) /\ i > b
  BY <1>1
<1>4. \A i \in 1 .. a - 1 : Alike(s, i, new, i)
  BY <1>1, <1>2 DEF Alike
<1>5. \A i \in b + 1 .. Len(t) : Alike(s, i + (Len(s) - Len(t)), new, i)
  <2> DEFINE k(i) == i + (Len(s) - Len(t))
  <2>1. \A i \in b + 1 .. Len(t) : Alike(s, k(i), t, i)
    BY <1>1
  <2> HIDE DEF k
  <2>2. \A i \in b + 1 .. Len(t) : Alike(s, k(i), new, i)
    BY <1>3, <2>1 DEF Alike
  <2> QED BY <2>2 DEF k
<1> QED BY <1>1, <1>4, <1>5 DEF Framed

-----------------------------------------------------------------------------
(* Operations on the lines *)

(* The pieces of a text, one at least                                      *)
ArePieces(pieces) ==
    /\ IsSeq(pieces) /\ Len(pieces) \in Nat \ {0}
    /\ \A k \in 1 .. Len(pieces) : IsSeq(pieces[k])

(* The pieces of an inserted text are texts, at least one.                 *)
LEMMA PiecesAre ==
    ASSUME NEW text, IsSeq(text)
    PROVE  ArePieces(Pieces(text))
<1> DEFINE S == {i \in DOMAIN text : text[i] = EOL}
           breaks == Ranked(S)
           last == Len(text) + 1
           ends == <<0>> \o breaks \o <<last>>
           pieces == Pieces(text)
<1>1. Len(text) \in Nat /\ DOMAIN text = 1 .. Len(text)
  BY SeqIs
<1>2. S \in SUBSET (1 .. Len(text))
  BY <1>1
<1> HIDE DEF S
<1>3. Cardinality(S) \in Nat /\ breaks = [k \in 1 .. Cardinality(S) |-> breaks[k]]
      /\ \A k \in 1 .. Cardinality(S) : breaks[k] \in S
  BY <1>1, <1>2, RankedIs
<1> HIDE DEF breaks
<1>4. breaks \in Seq(Int)
  <2>1. breaks \in [1 .. Cardinality(S) -> Int]
    BY <1>2, <1>3
  <2> QED BY <1>3, <2>1
<1>5. ends \in Seq(Int) /\ Len(ends) = Len(breaks) + 2 /\ Len(breaks) \in Nat
  <2>1. <<0>> \in Seq(Int) /\ Len(<<0>>) = 1 /\ <<last>> \in Seq(Int) /\ Len(<<last>>) = 1
    BY <1>1
  <2>2. <<0>> \o breaks \in Seq(Int) /\ Len(<<0>> \o breaks) = 1 + Len(breaks)
    BY <1>4, <2>1, ConcatProperties
  <2>3. ends \in Seq(Int) /\ Len(ends) = (1 + Len(breaks)) + 1
    <3> HIDE DEF last
    <3> QED BY <2>1, <2>2, ConcatProperties
  <2>4. Len(breaks) \in Nat
    BY <1>4
  <2> QED BY <2>3, <2>4
<1> DEFINE n == Len(ends) - 1
           piece(k) == SubSeq(text, ends[k] + 1, PieceEnd(text, ends[k + 1]))
<1>6. pieces = [k \in 1 .. n |-> piece(k)]
  BY DEF Pieces, breaks, S
<1> HIDE DEF ends, last
<1>7. n \in Nat \ {0}
  BY <1>5
<1>8. ASSUME NEW k \in 1 .. n PROVE IsSeq(piece(k))
  <2>1. k \in 1 .. Len(ends) /\ k + 1 \in 1 .. Len(ends)
    BY <1>5
  <2>2. ends[k] \in Int /\ ends[k + 1] \in Int
    BY <1>5, <2>1
  <2>3. ends[k] + 1 \in Int /\ PieceEnd(text, ends[k + 1]) \in Int
    BY <2>2 DEF PieceEnd
  <2> QED BY <2>3, SubSeqIs
<1> HIDE DEF n, piece, pieces
<1>9. pieces = [k \in 1 .. n |-> pieces[k]] /\ \A k \in 1 .. n : pieces[k] = piece(k)
  BY <1>6
<1>10. IsSeq(pieces) /\ Len(pieces) = n
  BY <1>7, <1>9, FunctionIsSeq
<1>11. \A k \in 1 .. n : IsSeq(pieces[k])
  BY <1>8, <1>9
<1>12. ArePieces(pieces)
  BY <1>7, <1>10, <1>11 DEF ArePieces
<1> QED BY <1>12 DEF pieces

(* A text has a piece more than it has line breaks.                        *)
LEMMA PiecesCount ==
    ASSUME NEW text, IsSeq(text)
    PROVE  Len(Pieces(text)) = Cardinality(EolsOf(text)) + 1
<1> DEFINE S == {i \in DOMAIN text : text[i] = EOL}
           breaks == Ranked(S)
           last == Len(text) + 1
           ends == <<0>> \o breaks \o <<last>>
           pieces == Pieces(text)
<1>1. /\ S = EolsOf(text) /\ S \in SUBSET (1 .. Len(text)) /\ Len(text) \in Nat
      /\ Cardinality(S) \in Nat
  BY EolsAre DEF EolsOf
<1> HIDE DEF S
<1>2. breaks = [k \in 1 .. Cardinality(S) |-> breaks[k]]
      /\ \A k \in 1 .. Cardinality(S) : breaks[k] \in S
  BY <1>1, RankedIs
<1> HIDE DEF breaks
<1>3. breaks \in Seq(Int) /\ Len(breaks) = Cardinality(S)
  <2>1. breaks \in [1 .. Cardinality(S) -> Int]
    BY <1>1, <1>2
  <2> QED BY <1>1, <1>2, <2>1
<1>4. Len(ends) = Cardinality(S) + 2
  <2>1. <<0>> \in Seq(Int) /\ Len(<<0>>) = 1 /\ <<last>> \in Seq(Int) /\ Len(<<last>>) = 1
    BY <1>1
  <2>2. <<0>> \o breaks \in Seq(Int) /\ Len(<<0>> \o breaks) = 1 + Len(breaks)
    BY <1>3, <2>1, ConcatProperties
  <2>3. Len(ends) = (1 + Len(breaks)) + 1
    <3> HIDE DEF last
    <3> QED BY <2>1, <2>2, ConcatProperties
  <2> HIDE DEF ends
  <2> QED BY <1>1, <1>3, <2>3
<1> DEFINE n == Len(ends) - 1
           piece(k) == SubSeq(text, ends[k] + 1, PieceEnd(text, ends[k + 1]))
<1>5. pieces = [k \in 1 .. n |-> piece(k)]
  BY DEF Pieces, breaks, S
<1> HIDE DEF ends, last, piece
<1>6. n = Cardinality(S) + 1 /\ n \in Nat
  BY <1>1, <1>4
<1> HIDE DEF n
<1>7. Len(pieces) = n
  <2> HIDE DEF pieces
  <2> QED BY <1>5, <1>6
<1> QED BY <1>1, <1>6, <1>7 DEF pieces

(* The pieces of a text between what is before and behind it               *)
LEMMA InsertPiecesIs ==
    ASSUME NEW lines, IsLines(lines), NEW pieces, ArePieces(pieces),
           NEW at, at.y \in 1 .. Len(lines), at.x \in Int
    PROVE  LET ins == InsertPieces(lines, at, pieces)
           IN  /\ IsLines(ins.lines)
               /\ ins.end.y \in at.y .. Len(ins.lines) /\ ins.end.x \in Int
               /\ ins.end.y = at.y + Len(pieces) - 1
               /\ Framed(lines, ins.lines, at.y, ins.end.y)
               /\ ins.end.y = at.y =>
                      Len(ins.lines) = Len(lines) /\ RealOf(ins.lines) = RealOf(lines)
<1> DEFINE ins == InsertPieces(lines, at, pieces)
           li == lines[at.y]
           n == Len(pieces)
           N == Len(lines)
           head == SubSeq(li.text, 1, at.x)
           tail == SubSeq(li.text, at.x + 1, Len(li.text))
           text(k) == (IF k = 1 THEN head ELSE <<>>) \o pieces[k]
                          \o (IF k = n THEN tail ELSE <<>>)
           piece(k) == Line(text(k), k < n \/ li.eol, k = 1 /\ li.ghost)
           new == [k \in 1 .. n |-> piece(k)]
           dropped == n > 1 /\ new[n].text = <<>> /\ ~ li.eol /\ at.y < N
           middle == IF dropped THEN Front(new) ELSE new
           result == SubSeq(lines, 1, at.y - 1) \o middle \o SubSeq(lines, at.y + 1, N)
<1>1. ins = [lines |-> result,
             end |-> Point(at.y + n - 1, Len(pieces[n]) + IF n = 1 THEN at.x ELSE 0)]
  BY DEF InsertPieces
<1>2. N \in Nat /\ n \in Nat \ {0} /\ at.y \in 1 .. N
  BY SeqIs DEF IsLines, ArePieces
<1>3. IsSeq(head)
  BY SubSeqIs
<1>4. IsSeq(tail)
  <2>1. IsSeq(li.text)
    BY DEF IsLines, IsLine
  <2>2. Len(li.text) \in Int /\ at.x + 1 \in Int
    BY <2>1, SeqIs
  <2> QED BY <2>2, SubSeqIs
<1> HIDE DEF head, tail
<1>5. ASSUME NEW k \in 1 .. n
      PROVE  IsLine(piece(k)) /\ piece(k).ghost = (k = 1 /\ li.ghost)
  <2> DEFINE front == IF k = 1 THEN head ELSE <<>>
             back == IF k = n THEN tail ELSE <<>>
  <2>1. IsSeq(front) /\ IsSeq(back) /\ IsSeq(pieces[k])
    BY <1>3, <1>4, EmptyIs DEF ArePieces
  <2> HIDE DEF front, back
  <2>2. IsSeq(front \o pieces[k])
    BY <2>1, ConcatIs
  <2> DEFINE both == front \o pieces[k]
  <2> HIDE DEF both
  <2>3. IsSeq(both) /\ IsSeq(both \o back)
    BY <2>1, <2>2, ConcatIs DEF both
  <2>4. text(k) = both \o back
    BY DEF both, front, back
  <2> HIDE DEF text
  <2> QED BY <2>3, <2>4, LineIs
<1> HIDE DEF piece, text
<1>6. /\ new = [k \in 1 .. n |-> new[k]]
      /\ \A k \in 1 .. n : new[k] = piece(k)
  OBVIOUS
<1> HIDE DEF new
<1>7. IsLines(new) /\ Len(new) = n
  BY <1>2, <1>5, <1>6, LinesAre
<1>8. IsLines(middle) /\ Len(middle) = IF dropped THEN n - 1 ELSE n
  <2>1. 1 \in Nat \ {0} /\ n - 1 \in 0 .. n
    BY <1>2
  <2>2. IsLines(SubSeq(new, 1, n - 1))
        /\ Len(SubSeq(new, 1, n - 1)) = IF 1 <= n - 1 THEN (n - 1) - 1 + 1 ELSE 0
    BY <1>7, <2>1, LinesSub
  <2>3. Front(new) = SubSeq(new, 1, n - 1)
    BY <1>7 DEF Front
  <2>4. (IF 1 <= n - 1 THEN (n - 1) - 1 + 1 ELSE 0) = n - 1
    <3> HIDE DEF n
    <3> QED BY <1>2
  <2> QED BY <1>7, <2>2, <2>3, <2>4
<1>9. dropped => n > 1 /\ at.y < N
  OBVIOUS
<1> HIDE DEF middle, dropped, n, N
<1>10. (dropped => Len(middle) = n - 1) /\ (~ dropped => Len(middle) = n) /\ Len(middle) \in Nat
  BY <1>2, <1>8, SeqIs DEF IsLines
<1>11. /\ IsLines(result) /\ Len(result) = (at.y - 1) + Len(middle) + (N - at.y)
       /\ Framed(lines, result, at.y, at.y + n - 1)
       /\ \A i \in 1 .. Len(middle) : result[at.y - 1 + i] = middle[i]
  <2> DEFINE c == at.y + 1
             b == at.y + n - 1
             spliced == Splice(lines, at.y, middle, c)
  <2>1. result = spliced
    BY DEF Splice, N
  <2>2. Len(middle) \in 0 .. n
    BY <1>2, <1>10
  <2>3. /\ at.y \in 1 .. N + 1 /\ c \in at.y .. N + 1 /\ N - c + 1 = N - at.y
        /\ b \in Int /\ b >= at.y - 1 + Len(middle)
    <3> DEFINE k == Len(middle)
               y == at.y
    <3>1. N \in Nat /\ n \in Nat /\ y \in 1 .. N /\ k \in 0 .. n
      BY <1>2, <2>2
    <3>2. c = y + 1 /\ b = y + n - 1
      OBVIOUS
    <3> HIDE DEF k, y, b, c
    <3>3. y \in 1 .. N + 1 /\ c \in y .. N + 1 /\ N - c + 1 = N - y
      BY <3>1, <3>2
    <3>4. b \in Int /\ b >= y - 1 + k
      BY <3>1, <3>2
    <3> QED BY <3>3, <3>4 DEF k, y
  <2> HIDE DEF b, c, result
  <2>4. Spliced(lines, spliced, at.y, middle, c, b)
    BY <1>8, <2>3, SpliceFramed DEF N
  <2> HIDE DEF spliced
  <2> QED BY <2>1, <2>3, <2>4 DEF Spliced, b, N
<1>12. ins.lines = result /\ ins.end.y = at.y + n - 1
       /\ ins.end.x = Len(pieces[n]) + IF n = 1 THEN at.x ELSE 0
  <2> HIDE DEF ins, result
  <2> QED BY <1>1 DEF Point
<1>13. ins.end.x \in Int
  <2>1. n \in 1 .. n
    BY <1>2
  <2>2. Len(pieces[n]) \in Nat
    BY <2>1, SeqIs DEF ArePieces, n
  <2> HIDE DEF ins
  <2> QED BY <1>12, <2>2
<1> HIDE DEF ins, result
<1>14. ins.end.y \in at.y .. Len(result)
  <2>1. Len(result) \in at.y + n - 1 .. N + n
    <3>1. CASE dropped
      <4>1. Len(result) = (at.y - 1) + (n - 1) + (N - at.y)
        BY <1>10, <1>11, <3>1
      <4>2. n > 1 /\ at.y < N
        BY <1>9, <3>1
      <4> QED BY <1>2, <4>1, <4>2
    <3>2. CASE ~ dropped
      <4>1. Len(result) = (at.y - 1) + n + (N - at.y)
        BY <1>10, <1>11, <3>2
      <4> QED BY <1>2, <4>1
    <3> QED BY <3>1, <3>2
  <2> QED BY <1>2, <1>12, <2>1
<1>15. ASSUME ins.end.y = at.y
       PROVE  Len(result) = N /\ RealOf(result) = RealOf(lines)
  <2>1. n = 1 /\ ~ dropped
    BY <1>2, <1>9, <1>12, <1>15
  <2>2. Len(result) = N /\ Len(middle) = 1
    <3>1. Len(middle) = 1
      BY <1>10, <2>1
    <3> QED BY <1>2, <1>11, <3>1
  <2>3. result[at.y].ghost <=> lines[at.y].ghost
    <3>1. 1 \in 1 .. n /\ 1 \in 1 .. Len(middle) /\ at.y - 1 + 1 = at.y
      BY <1>2, <2>1, <2>2
    <3>2. piece(1).ghost = (1 = 1 /\ li.ghost)
      BY <1>5, <3>1
    <3>3. result[at.y] = piece(1)
      <4>1. result[at.y] = middle[1]
        BY <1>11, <3>1
      <4> QED BY <1>6, <2>1, <3>1, <4>1 DEF middle
    <3> QED BY <3>2, <3>3
  <2>4. RealOf(result) = {i \in 1 .. N : ~ result[i].ghost}
        /\ RealOf(lines) = {i \in 1 .. N : ~ lines[i].ghost}
    BY <1>11, <2>2, RealOfIs DEF N
  <2>5. ASSUME NEW i \in 1 .. N, i # at.y PROVE i \in RealOf(result) <=> i \in RealOf(lines)
    <3>1. i \in 1 .. at.y - 1 \/ i \in (at.y + n - 1) + 1 .. Len(result)
      BY <1>2, <2>1, <2>2, <2>5
    <3>2. i + (N - Len(result)) = i
      BY <1>2, <2>2
    <3>3. Alike(lines, i, result, i)
      BY <1>11, <3>1, <3>2 DEF Framed, N
    <3> QED BY <3>3 DEF Alike
  <2>6. at.y \in RealOf(result) <=> at.y \in RealOf(lines)
    BY <1>2, <2>3, <2>4
  <2> QED BY <2>2, <2>4, <2>5, <2>6
<1> QED BY <1>11, <1>12, <1>13, <1>14, <1>15 DEF ins, N, n

(* A sequence built line by line is lines.                                 *)
LEMMA LinesMade ==
    ASSUME NEW lines, IsLines(lines), NEW new,
           new = [i \in DOMAIN lines |-> new[i]],
           \A i \in DOMAIN lines : IsLine(new[i])
    PROVE  IsLines(new) /\ Len(new) = Len(lines)
<1>1. Len(lines) \in Nat /\ DOMAIN lines = 1 .. Len(lines)
  BY SeqIs DEF IsLines
<1> QED BY <1>1, LinesAre

(* Lines stay lines when their flags for ghosts are set.                   *)
LEMMA SetGhostsIs ==
    ASSUME NEW lines, IsLines(lines), NEW ghosts
    PROVE  LET new == SetGhosts(lines, ghosts)
           IN  /\ IsLines(new) /\ Len(new) = Len(lines) /\ BreaksOf(new) = BreaksOf(lines)
               /\ \A i \in 1 .. Len(lines) : new[i].ghost = (i \in ghosts)
<1> DEFINE new == SetGhosts(lines, ghosts)
           at(i) == [lines[i] EXCEPT !.ghost = i \in ghosts]
<1>1. DOMAIN lines = 1 .. Len(lines)
  BY SeqIs DEF IsLines
<1>2. new = [i \in DOMAIN lines |-> at(i)]
  BY DEF SetGhosts
<1>3. \A i \in DOMAIN lines : IsLine(at(i)) /\ at(i).ghost = (i \in ghosts)
  <2> SUFFICES ASSUME NEW i \in DOMAIN lines
               PROVE  IsLine(at(i)) /\ at(i).ghost = (i \in ghosts)
    OBVIOUS
  <2>1. IsLine(lines[i])
    BY <1>1 DEF IsLines
  <2> DEFINE l == lines[i]
             g == i \in ghosts
  <2>2. at(i) = [l EXCEPT !.ghost = g]
    OBVIOUS
  <2>3. IsLine(l)
    BY <2>1
  <2> HIDE DEF at, l, g
  <2>4. IsLine([l EXCEPT !.ghost = g]) /\ [l EXCEPT !.ghost = g].ghost = g
    BY <2>3, LineWith, Zenon
  <2> QED BY <2>2, <2>4, Zenon DEF g
<1> HIDE DEF new, at
<1>4. new = [i \in DOMAIN lines |-> new[i]] /\ \A i \in DOMAIN lines : new[i] = at(i)
  BY <1>2
<1>5. IsLines(new) /\ Len(new) = Len(lines)
  BY <1>3, <1>4, LinesMade
<1>6. \A i \in 1 .. Len(lines) : new[i].ghost = (i \in ghosts)
  BY <1>1, <1>3, <1>4
<1>7. BreaksOf(new) = BreaksOf(lines)
  <2>1. \A i \in DOMAIN lines : new[i].eol <=> lines[i].eol
    <3>1. \A i \in DOMAIN lines : at(i).eol = lines[i].eol
      BY <1>1, LineWith DEF IsLines, at
    <3> QED BY <1>4, <3>1, Zenon
  <2> QED BY <1>1, <1>5, <2>1, BreaksOfIs
<1> QED BY <1>5, <1>6, <1>7 DEF new

(* RecomputeEOL keeps the lines, but for the break of the last.            *)
LEMMA RecomputeEOLIs ==
    ASSUME NEW lines, IsLines(lines), NEW blocks, NEW start, NEW end
    PROVE  LET new == RecomputeEOL(lines, blocks, start, end)
           IN  IsLines(new) /\ Len(new) = Len(lines) /\ RealOf(new) = RealOf(lines)
<1> DEFINE new == RecomputeEOL(lines, blocks, start, end)
           eol(i) == ~ lines[i].ghost /\ i # ApparentLastRealLine(blocks)
           at(i) == IF i \in FirstForEOL(lines, blocks, start, end) .. end
                    THEN [lines[i] EXCEPT !.eol = eol(i)] ELSE lines[i]
<1>1. DOMAIN lines = 1 .. Len(lines)
  BY SeqIs DEF IsLines
<1>2. new = [i \in DOMAIN lines |-> at(i)]
  BY DEF RecomputeEOL
<1> HIDE DEF eol
<1>3. \A i \in DOMAIN lines : IsLine(at(i)) /\ at(i).ghost = lines[i].ghost
  BY <1>1, LineWith DEF IsLines
<1> HIDE DEF new, at
<1>4. new = [i \in DOMAIN lines |-> new[i]] /\ \A i \in DOMAIN lines : new[i] = at(i)
  BY <1>2
<1>5. IsLines(new) /\ Len(new) = Len(lines)
  BY <1>3, <1>4, LinesMade
<1>6. \A i \in 1 .. Len(lines) : new[i].ghost = lines[i].ghost
  BY <1>1, <1>3, <1>4
<1>7. RealOf(new) = RealOf(lines)
  BY <1>5, <1>6, RealOfIs
<1> QED BY <1>5, <1>7 DEF new

(* Which lines have a line break after RecomputeEOL.                       *)
LEMMA RecomputedBreaks ==
    ASSUME NEW lines, IsLines(lines), NEW blocks, NEW start, NEW end
    PROVE  LET new == RecomputeEOL(lines, blocks, start, end)
               first == FirstForEOL(lines, blocks, start, end)
           IN  \A i \in 1 .. Len(lines) :
                   i \in BreaksOf(new) <=>
                       IF i \in first .. end
                       THEN i \in RealOf(lines) /\ i # ApparentLastRealLine(blocks)
                       ELSE i \in BreaksOf(lines)
<1> DEFINE new == RecomputeEOL(lines, blocks, start, end)
           region == FirstForEOL(lines, blocks, start, end) .. end
           eol(i) == ~ lines[i].ghost /\ i # ApparentLastRealLine(blocks)
           at(i) == IF i \in region THEN [lines[i] EXCEPT !.eol = eol(i)] ELSE lines[i]
<1>1. DOMAIN lines = 1 .. Len(lines)
  BY SeqIs DEF IsLines
<1>2. new = [i \in DOMAIN lines |-> at(i)]
  BY DEF RecomputeEOL
<1> HIDE DEF new, region
<1>3. BreaksOf(new) = {i \in 1 .. Len(lines) : at(i).eol}
  <2> HIDE DEF at
  <2> QED BY <1>1, <1>2 DEF BreaksOf
<1> SUFFICES ASSUME NEW i \in 1 .. Len(lines)
             PROVE  i \in BreaksOf(new) <=>
                       IF i \in region
                       THEN i \in RealOf(lines) /\ i # ApparentLastRealLine(blocks)
                       ELSE i \in BreaksOf(lines)
  BY DEF new, region
<1>4. i \in BreaksOf(new) <=> at(i).eol
  <2> HIDE DEF at
  <2> QED BY <1>3
<1>5. CASE i \in region
  <2>1. at(i).eol = eol(i)
    <3>1. IsLine(lines[i])
      BY DEF IsLines
    <3>2. at(i) = [lines[i] EXCEPT !.eol = eol(i)]
      BY <1>5
    <3> HIDE DEF eol, at
    <3> QED BY <3>1, <3>2 DEF IsLine
  <2>2. i \in RealOf(lines) <=> ~ lines[i].ghost
    BY <1>1 DEF RealOf
  <2> HIDE DEF at
  <2>3. at(i).eol <=> eol(i)
    BY <2>1, Zenon
  <2> QED BY <1>4, <1>5, <2>2, <2>3
<1>6. CASE i \notin region
  <2>1. at(i) = lines[i]
    BY <1>6
  <2>2. i \in BreaksOf(lines) <=> lines[i].eol
    BY <1>1 DEF BreaksOf
  <2> HIDE DEF at
  <2> QED BY <1>4, <1>6, <2>1, <2>2
<1> QED BY <1>5, <1>6

(* RecomputeEOL puts right what a change of some lines did to the breaks,  *)
(* of those lines and of the real line above.                              *)
LEMMA BreaksRepaired ==
    ASSUME NEW s, NEW t, IsLines(s), IsLines(t), HasBreaks(s),
           NEW a, NEW b, Framed(s, t, a, b)
    PROVE  HasBreaks(RecomputeEOL(t, BlocksOf(t), a, b))
<1> DEFINE n == Len(s)
           m == Len(t)
           blocks == BlocksOf(t)
           new == RecomputeEOL(t, blocks, a, b)
           R == RealOf(s)
           S == RealOf(t)
           L == ApparentLastRealLine(blocks)
           F == FirstForEOL(t, blocks, a, b)
           above == {j \in 1 .. a - 1 : ~ t[j].ghost}
           Later(i) == \E j \in S : i < j
           Old(i) == i + (n - m)
<1>1. n \in Nat /\ m \in Nat /\ DOMAIN t = 1 .. m
  BY SeqIs DEF IsLines
<1>2. R \in SUBSET (1 .. n) /\ S \in SUBSET (1 .. m)
  BY RealOfIs
<1>3. /\ L \in 0 .. m /\ (L = 0 => S = {}) /\ (L # 0 => L \in S)
      /\ \A i \in S : i <= L
  BY LastRealIs
<1>4. /\ Len(new) = m /\ RealOf(new) = S
      /\ \A i \in 1 .. m : i \in BreaksOf(new) <=>
             IF i \in F .. b THEN i \in S /\ i # L ELSE i \in BreaksOf(t)
  BY RecomputeEOLIs, RecomputedBreaks
<1>5. /\ a \in 1 .. n + 1 /\ a \in 1 .. m + 1 /\ b \in Int
      /\ b >= a - 1 /\ b + (n - m) >= a - 1
      /\ \A i \in 1 .. a - 1 : (i \in R <=> i \in S) /\ (i \in BreaksOf(s) <=> i \in BreaksOf(t))
      /\ \A i \in b + 1 .. m :
             (Old(i) \in R <=> i \in S) /\ (Old(i) \in BreaksOf(s) <=> i \in BreaksOf(t))
  BY DEF Framed, Alike
<1>6. \A i \in 1 .. n : i \in BreaksOf(s) <=> i \in R /\ \E j \in R : i < j
  BY DEF HasBreaks
<1>7. above = {j \in 1 .. a - 1 : j \in S}
  BY <1>1, <1>5 DEF RealOf
<1>8. F = IF L <= b /\ above # {} THEN Max(above) ELSE a
  BY DEF FirstForEOL
<1>9. above # {} => Max(above) \in above
  <2>1. a - 1 \in Nat /\ above \in SUBSET (0 .. a - 1)
    BY <1>1, <1>5
  <2> HIDE DEF above
  <2> QED BY <2>1, GreatestOf
<1> HIDE DEF new, n, m, blocks, R, S, L, F, above
<1>10. ASSUME NEW i \in 1 .. m
       PROVE  i \in S /\ Later(i) <=> i \in S /\ i # L
  BY <1>1, <1>2, <1>3
<1> DEFINE New(j) == j - (n - m)
<1>11. \A i \in Int : Old(i) \in Int /\ New(i) \in Int /\ Old(New(i)) = i
  BY <1>1
<1>12. \A i, j \in Int : (i < j <=> Old(i) < Old(j)) /\ (i < New(j) <=> Old(i) < j)
  BY <1>1
<1>13. /\ \A i \in b + 1 .. m : i \in Int /\ Old(i) \in a .. n
       /\ \A i \in 1 .. n : i > Old(b) => New(i) \in b + 1 .. m
  BY <1>1, <1>5
<1> HIDE DEF Old, New
<1>14. ASSUME NEW i \in 1 .. m, i > b
       PROVE  i \in BreaksOf(t) <=> i \in S /\ Later(i)
  <2> DEFINE k == Old(i)
  <2>1. i \in b + 1 .. m /\ k \in 1 .. n /\ i \in Int /\ b < i
    BY <1>1, <1>5, <1>14, <1>13
  <2>2. i \in BreaksOf(t) <=> k \in R /\ \E j \in R : k < j
    BY <1>5, <1>6, <2>1
  <2>3. k \in R <=> i \in S
    BY <1>5, <2>1
  <2>4. ASSUME NEW j \in R, k < j PROVE Later(i)
    <3>1. j \in 1 .. n /\ j \in Int
      BY <1>1, <1>2
    <3>2. i < New(j) /\ Old(b) < k
      BY <1>5, <1>12, <2>1, <2>4, <3>1
    <3>3. New(j) \in b + 1 .. m
      BY <1>5, <1>11, <1>13, <2>1, <2>4, <3>1, <3>2
    <3>4. New(j) \in S
      BY <1>5, <1>11, <3>1, <3>3
    <3> QED BY <3>2, <3>4
  <2>5. ASSUME NEW j \in S, i < j PROVE \E e \in R : k < e
    <3>1. j \in b + 1 .. m /\ j \in Int
      BY <1>1, <1>2, <1>5, <1>14, <2>5
    <3>2. Old(j) \in R /\ k < Old(j)
      BY <1>5, <1>12, <2>1, <2>5, <3>1
    <3> QED BY <3>2
  <2> HIDE DEF k
  <2> QED BY <2>2, <2>3, <2>4, <2>5
<1>15. ASSUME NEW i \in 1 .. m, i < F
       PROVE  i \in BreaksOf(t) <=> i \in S /\ Later(i)
  <2>1. F <= a /\ F \in Int
    BY <1>1, <1>5, <1>7, <1>8, <1>9
  <2>2. i \in 1 .. a - 1 /\ i \in 1 .. n
    BY <1>1, <1>5, <1>15, <2>1
  <2>3. i \in BreaksOf(t) <=> i \in S /\ \E j \in R : i < j
    BY <1>5, <1>6, <2>2
  <2>4. ASSUME i \in S PROVE Later(i) /\ \E j \in R : i < j
    <3>1. i \in above
      BY <1>7, <2>2, <2>4
    <3>2. CASE L <= b
      <4>1. F = Max(above) /\ F \in above
        BY <1>8, <1>9, <3>1, <3>2
      <4>2. F \in S /\ F \in R
        BY <1>5, <1>7, <4>1
      <4> QED BY <1>15, <4>2
    <3>3. CASE ~ (L <= b)
      <4>1. L # 0 /\ L \in S /\ L \in b + 1 .. m /\ i < L
        BY <1>1, <1>3, <1>5, <2>2, <3>3
      <4>2. Old(L) \in R /\ Old(L) \in a .. n
        BY <1>5, <1>13, <4>1
      <4>3. i < Old(L)
        BY <1>1, <1>5, <2>2, <4>2
      <4> QED BY <4>1, <4>2, <4>3
    <3> QED BY <3>2, <3>3
  <2> QED BY <2>3, <2>4
<1>16. ASSUME NEW i \in 1 .. m
       PROVE  i \in BreaksOf(new) <=> i \in S /\ Later(i)
  <2>1. F \in Int
    BY <1>1, <1>5, <1>7, <1>8, <1>9
  <2>2. i \in F .. b \/ i > b \/ i < F
    BY <1>5, <2>1
  <2>3. i > b \/ i < F => i \notin F .. b
    BY <1>5, <2>1
  <2> HIDE DEF Later
  <2> QED BY <1>4, <1>10, <1>14, <1>15, <2>2, <2>3
<1>17. HasBreaks(new)
  BY <1>4, <1>16 DEF HasBreaks
<1> QED BY <1>17 DEF new, blocks

(* A line that is not real and has no break changes nothing.               *)
LEMMA BreaksKept ==
    ASSUME NEW s, NEW t, IsLines(s), IsLines(t), HasBreaks(s),
           NEW a, Framed(s, t, a, a), Len(t) = Len(s) + 1,
           a \notin RealOf(t), a \notin BreaksOf(t)
    PROVE  HasBreaks(t)
<1> DEFINE n == Len(s)
           m == Len(t)
           R == RealOf(s)
           S == RealOf(t)
           Old(i) == IF i < a THEN i ELSE i - 1
           New(j) == IF j < a THEN j ELSE j + 1
<1>1. n \in Nat /\ m \in Nat /\ m = n + 1
  BY SeqIs DEF IsLines
<1>2. R \in SUBSET (1 .. n) /\ S \in SUBSET (1 .. m)
  BY RealOfIs
<1>3. a \in 1 .. n + 1
  BY DEF Framed
<1>4. ASSUME NEW i \in 1 .. m, i # a
      PROVE  (Old(i) \in R <=> i \in S) /\ (Old(i) \in BreaksOf(s) <=> i \in BreaksOf(t))
  <2>1. CASE i < a
    <3>1. i \in 1 .. a - 1
      BY <1>3, <2>1
    <3> QED BY <2>1, <3>1 DEF Framed, Alike
  <2>2. CASE ~ (i < a)
    <3>1. i \in a + 1 .. m /\ i + (n - m) = i - 1 /\ i + (n - m) = Old(i)
      BY <1>1, <1>3, <1>4, <2>2
    <3>2. Alike(s, i + (n - m), t, i)
      BY <3>1 DEF Framed
    <3>3. Alike(s, Old(i), t, i)
      <4> HIDE DEF Old
      <4> QED BY <3>1, <3>2
    <3> QED BY <3>3 DEF Alike
  <2> QED BY <2>1, <2>2
<1>5. \A i \in 1 .. n : i \in BreaksOf(s) <=> i \in R /\ \E j \in R : i < j
  BY DEF HasBreaks
<1>6. \A i, j \in 1 .. m : i # a /\ j # a => Old(i) \in 1 .. n /\ (i < j <=> Old(i) < Old(j))
  <2> HIDE DEF n, m
  <2> QED BY <1>1, <1>3
<1>7. \A j \in 1 .. n : New(j) \in 1 .. m /\ New(j) # a /\ Old(New(j)) = j
  <2> HIDE DEF n, m
  <2> QED BY <1>1, <1>3
<1> HIDE DEF n, m, R, S, Old, New
<1>8. ASSUME NEW i \in 1 .. m, i # a
      PROVE  i \in BreaksOf(t) <=> i \in S /\ \E j \in S : i < j
  <2>1. Old(i) \in 1 .. n
    BY <1>6, <1>8
  <2>2. i \in BreaksOf(t) <=> i \in S /\ \E j \in R : Old(i) < j
    BY <1>4, <1>5, <1>8, <2>1
  <2>3. ASSUME NEW j \in R, Old(i) < j PROVE \E k \in S : i < k
    <3>1. j \in 1 .. n
      BY <1>2
    <3>2. New(j) \in S
      BY <1>4, <1>7, <3>1
    <3>3. i < New(j)
      BY <1>6, <1>7, <1>8, <2>3, <3>1
    <3> QED BY <3>2, <3>3
  <2>4. ASSUME NEW j \in S, i < j PROVE \E k \in R : Old(i) < k
    <3>1. j \in 1 .. m /\ j # a
      BY <1>2 DEF S
    <3>2. Old(j) \in R /\ Old(i) < Old(j)
      BY <1>4, <1>6, <1>8, <2>4, <3>1
    <3> QED BY <3>2
  <2> QED BY <2>2, <2>3, <2>4
<1>9. a \notin S /\ a \notin BreaksOf(t)
  BY DEF S
<1>10. \A i \in 1 .. m : i \in BreaksOf(t) <=> i \in S /\ \E j \in S : i < j
  BY <1>8, <1>9
<1> QED BY <1>10 DEF HasBreaks, m, S
-----------------------------------------------------------------------------
(* A buffer whose line breaks and block list are those of its lines *)

IsBuf(b) == IsLines(b.lines) /\ HasBreaks(b.lines) /\ b.blocks = BlocksOf(b.lines)

(* The blocks depend on which lines are real, and on nothing else.         *)
LEMMA BlocksSame ==
    ASSUME NEW lines, NEW new, IsLines(lines), IsLines(new),
           Len(new) = Len(lines), RealOf(new) = RealOf(lines)
    PROVE  BlocksOf(new) = BlocksOf(lines)
<1>1. /\ Len(lines) \in Nat /\ DOMAIN lines = 1 .. Len(lines)
      /\ DOMAIN new = 1 .. Len(new)
  BY SeqIs DEF IsLines
<1>2. BlocksOf(lines) = RealBlocks(RealOf(lines), Len(lines))
  BY <1>1, BlocksOfIs
<1>3. BlocksOf(new) = RealBlocks(RealOf(new), Len(new))
  BY <1>1, BlocksOfIs
<1> QED BY <1>2, <1>3

(* The end of every change of the lines leaves a buffer.                   *)
LEMMA Repaired ==
    ASSUME NEW before, IsLines(before), HasBreaks(before), NEW lines, IsLines(lines),
           NEW blocks, blocks = BlocksOf(lines),
           NEW start, NEW end, Framed(before, lines, start, end)
    PROVE  LET new == RecomputeEOL(lines, blocks, start, end)
           IN  IsLines(new) /\ HasBreaks(new) /\ Len(new) = Len(lines) /\ blocks = BlocksOf(new)
<1> DEFINE new == RecomputeEOL(lines, blocks, start, end)
<1>1. IsLines(new) /\ Len(new) = Len(lines) /\ RealOf(new) = RealOf(lines)
  BY RecomputeEOLIs
<1>2. HasBreaks(new)
  BY BreaksRepaired
<1> HIDE DEF new
<1>3. BlocksOf(new) = BlocksOf(lines)
  BY <1>1, BlocksSame
<1> QED BY <1>1, <1>2, <1>3 DEF new

(* The flags OnNotifyLineHasBeenEdited puts after an insertion.            *)
LEMMA MarkInsertedIs ==
    ASSUME NEW b, IsBuf(b), NEW at, NEW ins, IsLines(ins.lines),
           at.y \in 1 .. Len(ins.lines), ins.end.y \in Int,
           ins.end.y = at.y =>
               Len(ins.lines) = Len(b.lines) /\ RealOf(ins.lines) = RealOf(b.lines),
           ins.end.y >= at.y, Framed(b.lines, ins.lines, at.y, ins.end.y)
    PROVE  LET m == MarkInserted(b, at, ins)
           IN  IsBuf(m.buf) /\ Len(m.buf.lines) = Len(ins.lines) /\ m.end = ins.end
<1> DEFINE m == MarkInserted(b, at, ins)
           firstLineGhost == ins.lines[at.y].ghost
           discrepancy == firstLineGhost /\ ins.end.x = 0
           becomeReal == at.y .. (IF discrepancy THEN ins.end.y - 1 ELSE ins.end.y)
           ghosts == GhostsOf(ins.lines) \ becomeReal
           lines == SetGhosts(ins.lines, ghosts)
           blocks == IF MovesLines(at, ins.end, firstLineGhost) THEN BlocksOf(lines) ELSE b.blocks
           new == RecomputeEOL(lines, blocks, at.y, ins.end.y)
           N == Len(ins.lines)
<1>1. m.buf.lines = new /\ m.buf.blocks = blocks /\ m.end = ins.end
  BY DEF MarkInserted
<1>2. N \in Nat /\ DOMAIN ins.lines = 1 .. N /\ at.y \in 1 .. N
  BY SeqIs DEF IsLines
<1>3. /\ IsLines(lines) /\ Len(lines) = N /\ BreaksOf(lines) = BreaksOf(ins.lines)
      /\ \A i \in 1 .. N : lines[i].ghost = (i \in ghosts)
  BY SetGhostsIs
<1>4. blocks = BlocksOf(lines)
  <2>1. CASE MovesLines(at, ins.end, firstLineGhost)
    BY <2>1
  <2>2. CASE ~ MovesLines(at, ins.end, firstLineGhost)
    <3>1. ins.end.y = at.y /\ ~ firstLineGhost
      BY <1>2, <2>2 DEF MovesLines
    <3>2. Len(ins.lines) = Len(b.lines) /\ RealOf(ins.lines) = RealOf(b.lines)
      BY <3>1
    <3>3. \A i \in 1 .. N : i \in ghosts <=> ins.lines[i].ghost
      <4>1. becomeReal = at.y .. at.y
        BY <3>1
      <4>2. becomeReal = {at.y}
        BY <1>2, <4>1
      <4> HIDE DEF becomeReal
      <4> QED BY <1>2, <3>1, <4>2 DEF GhostsOf
    <3> HIDE DEF ghosts
    <3>4. RealOf(ins.lines) = {i \in 1 .. N : ~ ins.lines[i].ghost}
      BY RealOfIs
    <3>5. RealOf(lines) = {i \in 1 .. N : ~ lines[i].ghost}
      BY <1>3, RealOfIs
    <3> HIDE DEF lines
    <3>6. RealOf(lines) = RealOf(b.lines)
      BY <1>3, <3>2, <3>3, <3>4, <3>5
    <3>7. BlocksOf(lines) = BlocksOf(b.lines)
      BY <1>3, <3>2, <3>6, BlocksSame DEF IsBuf
    <3>8. blocks = b.blocks
      BY <2>2
    <3> QED BY <3>7, <3>8 DEF IsBuf
  <2> QED BY <2>1, <2>2
<1>5. Framed(b.lines, lines, at.y, ins.end.y)
  <2>1. RealOf(lines) = {i \in 1 .. N : ~ lines[i].ghost}
        /\ RealOf(ins.lines) = {i \in 1 .. N : ~ ins.lines[i].ghost}
    <3>1. RealOf(ins.lines) = {i \in 1 .. N : ~ ins.lines[i].ghost}
      BY RealOfIs, Zenon
    <3> HIDE DEF lines
    <3>2. RealOf(lines) = {i \in 1 .. Len(lines) : ~ lines[i].ghost}
      BY <1>3, RealOfIs, Zenon
    <3> QED BY <1>3, <3>1, <3>2
  <2>2. becomeReal \subseteq at.y .. ins.end.y
    <3>1. ins.end.y - 1 \in Int /\ ins.end.y - 1 < ins.end.y /\ at.y \in Int
      BY <1>2
    <3> QED BY <3>1
  <2>3. GhostsOf(ins.lines) = {i \in 1 .. N : ins.lines[i].ghost}
    BY <1>2 DEF GhostsOf
  <2>4. ASSUME NEW i \in 1 .. N, i < at.y \/ i > ins.end.y
        PROVE  i \in RealOf(ins.lines) <=> i \in RealOf(lines)
    <3>1. i \notin becomeReal
      BY <1>2, <2>2, <2>4
    <3> HIDE DEF becomeReal, lines
    <3>2. i \in ghosts <=> ins.lines[i].ghost
      BY <2>3, <3>1
    <3> HIDE DEF ghosts
    <3>3. lines[i].ghost <=> ins.lines[i].ghost
      BY <1>3, <3>2
    <3> QED BY <2>1, <3>3
  <2> HIDE DEF lines, becomeReal, ghosts
  <2> QED BY <1>2, <1>3, <2>4, FramedWith
<1> HIDE DEF lines, blocks
<1>6. /\ IsLines(new) /\ HasBreaks(new) /\ Len(new) = Len(lines) /\ blocks = BlocksOf(new)
  BY <1>3, <1>4, <1>5, Repaired DEF IsBuf
<1> HIDE DEF new, m
<1>7. IsBuf(m.buf)
  BY <1>1, <1>6 DEF IsBuf
<1> QED BY <1>1, <1>3, <1>6, <1>7 DEF m

(* An insertion leaves a buffer of lines with their blocks.                *)
LEMMA InsertTextIs ==
    ASSUME NEW b, IsBuf(b), NEW at, at.y \in 1 .. Len(b.lines), at.x \in Int,
           NEW text, IsSeq(text)
    PROVE  LET m == InsertText(b, at, text)
           IN  /\ IsBuf(m.buf)
               /\ m.end.y \in at.y .. Len(m.buf.lines) /\ m.end.x \in Int
<1> DEFINE ins == InternalInsertText(b.lines, at, text)
           m == InsertText(b, at, text)
           N == Len(ins.lines)
<1>1. Len(b.lines) \in Nat /\ IsLines(b.lines)
  BY SeqIs DEF IsBuf, IsLines
<1>2. /\ IsLines(ins.lines)
      /\ ins.end.y \in at.y .. N /\ ins.end.x \in Int
      /\ Framed(b.lines, ins.lines, at.y, ins.end.y)
      /\ ins.end.y = at.y =>
             Len(ins.lines) = Len(b.lines) /\ RealOf(ins.lines) = RealOf(b.lines)
  BY <1>1, PiecesAre, InsertPiecesIs DEF InternalInsertText
<1>3. m = MarkInserted(b, at, ins)
  BY DEF InsertText
<1> HIDE DEF ins, m
<1>4. N \in Nat
  BY <1>2, SeqIs DEF IsLines
<1>5. at.y \in 1 .. N /\ ins.end.y \in Int /\ ins.end.y >= at.y
  BY <1>1, <1>2, <1>4
<1>6. IsBuf(m.buf) /\ Len(m.buf.lines) = Len(ins.lines) /\ m.end = ins.end
  BY <1>2, <1>3, <1>5, MarkInsertedIs
<1> QED BY <1>2, <1>6 DEF m

(* A deletion that takes a whole last line ends before its break.          *)
LEMMA DeletionEndIs ==
    ASSUME NEW lines, IsLines(lines), NEW end, end.y \in 1 .. Len(lines)
    PROVE  /\ DeletionEnd(lines, end).y \in end.y .. Len(lines)
           /\ DeletionEnd(lines, end).x = end.x
<1> DEFINE N == Len(lines)
           S == {y \in end.y .. N : ~ lines[y].ghost \/ y = N}
<1>1. N \in Nat
  BY SeqIs DEF IsLines
<1>2. S \in SUBSET Nat /\ N \in S
  BY <1>1
<1>3. DeletionEnd(lines, end) = Point(Min(S), end.x)
  BY DEF DeletionEnd
<1>4. \A y \in S : y \in end.y .. N
  OBVIOUS
<1> HIDE DEF S
<1>5. Min(S) \in S
  BY <1>2, MinOf
<1>6. DeletionEnd(lines, end).y = Min(S) /\ DeletionEnd(lines, end).x = end.x
  BY <1>3 DEF Point
<1> QED BY <1>4, <1>5, <1>6

(* The text between two places is a sequence.                              *)
LEMMA GetTextIs ==
    ASSUME NEW lines, IsLines(lines), NEW start, NEW end,
           start.y \in 1 .. Len(lines), end.y \in start.y .. Len(lines),
           start.x \in Int, end.x \in Int
    PROVE  IsSeq(GetText(lines, start, end))
<1>1. Len(lines) \in Nat
  BY SeqIs DEF IsLines
<1>2. CASE start.y = end.y
  <2>1. GetText(lines, start, end) = SubSeq(lines[start.y].text, start.x + 1, end.x)
    BY <1>2 DEF GetText
  <2>2. start.x + 1 \in Int
    OBVIOUS
  <2> QED BY <2>1, <2>2, SubSeqIs
<1>3. CASE start.y # end.y
  <2> DEFINE first == FullText(lines[start.y])
             m == end.y - start.y - 1
             middle == [i \in 1 .. m |-> FullText(lines[start.y + i])]
             a == SubSeq(first, start.x + 1, Len(first))
             c == SubSeq(lines[end.y].text, 1, end.x)
             f == FlattenSeq(middle)
  <2>1. GetText(lines, start, end) = a \o f \o c
    BY <1>3 DEF GetText
  <2>2. \A i \in 1 .. Len(lines) : IsSeq(FullText(lines[i]))
    <3> SUFFICES ASSUME NEW i \in 1 .. Len(lines) PROVE IsSeq(FullText(lines[i]))
      OBVIOUS
    <3>1. IsSeq(lines[i].text)
      BY DEF IsLines, IsLine
    <3> QED BY <3>1, AppendIs DEF FullText
  <2>3. IsSeq(a)
    <3>1. IsSeq(first)
      BY <2>2
    <3> HIDE DEF first
    <3>2. Len(first) \in Int /\ start.x + 1 \in Int
      BY <3>1, SeqIs
    <3> QED BY <3>2, SubSeqIs
  <2>4. IsSeq(c)
    BY SubSeqIs
  <2>5. IsSeq(f)
    <3>1. m \in Nat /\ \A i \in 1 .. m : start.y + i \in 1 .. Len(lines)
      BY <1>1, <1>3
    <3>2. middle = [i \in 1 .. m |-> middle[i]] /\ \A i \in 1 .. m : IsSeq(middle[i])
      BY <2>2, <3>1
    <3> HIDE DEF middle, m
    <3>3. IsSeq(middle) /\ Len(middle) = m
      BY <3>1, <3>2, FunctionIsSeq
    <3> QED BY <3>2, <3>3, FlattenIs
  <2> HIDE DEF a, c, f
  <2>6. IsSeq(a \o f)
    BY <2>3, <2>5, ConcatIs
  <2> DEFINE af == a \o f
  <2> HIDE DEF af
  <2>7. IsSeq(af \o c)
    BY <2>4, <2>6, ConcatIs DEF af
  <2> QED BY <2>1, <2>7, ZenonT(30) DEF af
<1> QED BY <1>2, <1>3

(* No fewer lines up to a number are real than have a line break, and one  *)
(* more is real at most, if it is the last.                                *)
LEMMA RealsAndBreaks ==
    ASSUME NEW lines, IsLines(lines), HasBreaks(lines), NEW m \in Int
    PROVE  /\ Cardinality(UpTo(BreaksOf(lines), m)) \in Nat /\ Cardinality(UpTo(RealOf(lines), m)) \in Nat
           /\ Cardinality(UpTo(BreaksOf(lines), m)) <= Cardinality(UpTo(RealOf(lines), m))
           /\ Cardinality(UpTo(RealOf(lines), m)) <= Cardinality(UpTo(BreaksOf(lines), m)) + 1
           /\ (\E j \in RealOf(lines) : m < j) =>
                  Cardinality(UpTo(RealOf(lines), m)) = Cardinality(UpTo(BreaksOf(lines), m))
<1> DEFINE R == RealOf(lines)
           B == BreaksOf(lines)
           n == Len(lines)
<1>1. n \in Nat /\ R \in SUBSET (1 .. n) /\ B \in SUBSET (1 .. n)
  BY SeqIs, RealOfIs, BreaksOfIs DEF IsLines
<1>2. \A i \in 1 .. n : i \in B <=> i \in R /\ \E j \in R : i < j
  BY DEF HasBreaks
<1> HIDE DEF R, B, n
<1>3. R \in SUBSET Nat /\ B \in SUBSET Nat /\ B \in SUBSET R
  BY <1>1, <1>2
<1>4. /\ IsFiniteSet(UpTo(R, m)) /\ Cardinality(UpTo(R, m)) \in Nat
      /\ IsFiniteSet(UpTo(B, m)) /\ Cardinality(UpTo(B, m)) \in Nat
  BY <1>3, UpToIsFinite
<1>5. Cardinality(UpTo(B, m)) <= Cardinality(UpTo(R, m))
  <2>1. UpTo(B, m) \in SUBSET UpTo(R, m)
    BY <1>3 DEF UpTo
  <2> QED BY <1>4, <2>1, FS_Subset
<1>6. Cardinality(UpTo(R, m)) <= Cardinality(UpTo(B, m)) + 1
  <2>1. PICK r : UpTo(R, m) \in SUBSET (UpTo(B, m) \union {r})
    <3>1. CASE R = {}
      BY <3>1 DEF UpTo
    <3>2. CASE R # {}
      <4>1. PICK r \in R : \A j \in R : j <= r
        <5>1. R \in SUBSET (0 .. n)
          BY <1>1
        <5> QED BY <1>1, <3>2, <5>1, GreatestOf
      <4>2. ASSUME NEW i \in R, i # r PROVE i \in B
        <5>1. i \in 1 .. n /\ r \in 1 .. n /\ i <= r
          BY <1>1, <4>1
        <5>2. i < r
          BY <4>2, <5>1
        <5> QED BY <1>2, <5>1, <5>2
      <4> QED BY <4>2 DEF UpTo
    <3> QED BY <3>1, <3>2
  <2>2. /\ IsFiniteSet(UpTo(B, m) \union {r})
        /\ Cardinality(UpTo(B, m) \union {r}) <= Cardinality(UpTo(B, m)) + 1
        /\ Cardinality(UpTo(B, m) \union {r}) \in Nat
    <3> DEFINE old == UpTo(B, m)
    <3>1. /\ IsFiniteSet(old \union {r})
          /\ Cardinality(old \union {r}) = IF r \in old THEN Cardinality(old) ELSE Cardinality(old) + 1
      BY <1>4, FS_AddElement
    <3> HIDE DEF old
    <3> QED BY <1>4, <3>1 DEF old
  <2>3. Cardinality(UpTo(R, m)) <= Cardinality(UpTo(B, m) \union {r})
    BY <2>1, <2>2, FS_Subset
  <2> QED BY <1>4, <2>2, <2>3
<1>7. ASSUME NEW j \in R, m < j PROVE UpTo(R, m) = UpTo(B, m)
  <2>1. ASSUME NEW i \in R, i <= m PROVE i \in B
    <3>1. i \in 1 .. n /\ j \in 1 .. n /\ i < j
      BY <1>1, <1>7, <2>1
    <3> QED BY <1>2, <3>1
  <2> QED BY <1>3, <2>1 DEF UpTo
<1> QED BY <1>4, <1>5, <1>6, <1>7 DEF R, B

(* A text that starts in a line has the breaks of all lines it ends behind.*)
LEMMA GetTextBreaks ==
    ASSUME NEW lines, IsLines(lines), NEW start, NEW end,
           start.y \in 1 .. Len(lines), end.y \in start.y + 1 .. Len(lines),
           start.x \in 0 .. Len(lines[start.y].text), end.x \in Int
    PROVE  Cardinality(UpTo(BreaksOf(lines), end.y - 1))
               <= Cardinality(UpTo(BreaksOf(lines), start.y - 1))
                      + Cardinality(EolsOf(GetText(lines, start, end)))
<1> DEFINE B == BreaksOf(lines)
           first == FullText(lines[start.y])
           m == end.y - start.y - 1
           middle == [i \in 1 .. m |-> FullText(lines[start.y + i])]
           a == SubSeq(first, start.x + 1, Len(first))
           c == SubSeq(lines[end.y].text, 1, end.x)
           f == FlattenSeq(middle)
           af == a \o f
           c0 == Cardinality(UpTo(B, start.y - 1))
           c1 == Cardinality(UpTo(B, start.y))
           D == {k \in 1 .. m : start.y + k \in B}
<1>1. Len(lines) \in Nat
  BY SeqIs DEF IsLines
<1>2. m \in Nat /\ start.y # end.y /\ \A i \in 1 .. m : start.y + i \in 1 .. Len(lines)
  <2> DEFINE n == Len(lines)
             y == start.y
             z == end.y
  <2>1. n \in Nat /\ y \in 1 .. n /\ z \in y + 1 .. n /\ m = z - y - 1
    BY <1>1
  <2> HIDE DEF n, y, z, m
  <2>2. y \in Int /\ z \in Int /\ 1 <= y /\ y + 1 <= z /\ z <= n
    BY <2>1
  <2>3. m \in Nat /\ y # z
    BY <2>1, <2>2
  <2>4. \A i \in 1 .. m : y + i \in 1 .. n
    <3> SUFFICES ASSUME NEW i \in 1 .. m PROVE y + i \in 1 .. n
      OBVIOUS
    <3>1. n \in Nat /\ m = z - y - 1
      BY <2>1
    <3> QED BY <2>2, <3>1
  <2> QED BY <2>3, <2>4 DEF n, y, z
<1>3. GetText(lines, start, end) = af \o c
  BY <1>2, Zenon DEF GetText
<1>4. B = {i \in 1 .. Len(lines) : lines[i].eol} /\ B \in SUBSET Nat
  BY BreaksOfIs
<1>5. ASSUME NEW i \in 1 .. Len(lines)
      PROVE  /\ IsSeq(lines[i].text) /\ IsSeq(FullText(lines[i]))
             /\ i \in B => /\ FullText(lines[i]) = Append(lines[i].text, EOL)
                           /\ EolsOf(FullText(lines[i])) # {}
  <2> DEFINE text == lines[i].text
             full == FullText(lines[i])
  <2>1. IsSeq(text)
    BY DEF IsLines, IsLine
  <2>2. full = IF i \in B THEN Append(text, EOL) ELSE text
    BY <1>4 DEF FullText
  <2> HIDE DEF text, full, B
  <2>3. IsSeq(Append(text, EOL)) /\ Len(Append(text, EOL)) = Len(text) + 1
        /\ Append(text, EOL)[Len(text) + 1] = EOL /\ Len(text) \in Nat
    <3>1. /\ IsSeq(Append(text, EOL)) /\ Len(Append(text, EOL)) = Len(text) + 1
          /\ \A k \in 1 .. Len(text) + 1 : Append(text, EOL)[k] = IF k <= Len(text) THEN text[k] ELSE EOL
      BY <2>1, AppendIs
    <3>2. Len(text) \in Nat
      BY <2>1, SeqIs
    <3>3. Len(text) + 1 \in 1 .. Len(text) + 1 /\ ~ (Len(text) + 1 <= Len(text))
      BY <3>2
    <3> QED BY <3>1, <3>2, <3>3
  <2>4. IsSeq(full)
    BY <2>1, <2>2, <2>3
  <2>5. i \in B => EolsOf(full) # {}
    <3> SUFFICES ASSUME i \in B PROVE EolsOf(full) # {}
      OBVIOUS
    <3>1. Len(text) + 1 \in 1 .. Len(full) /\ full[Len(text) + 1] = EOL
      BY <2>2, <2>3
    <3>2. EolsOf(full) = {k \in 1 .. Len(full) : full[k] = EOL}
      BY <2>4, EolsAre
    <3> QED BY <3>1, <3>2
  <2> QED BY <2>1, <2>2, <2>4, <2>5 DEF text, full
<1>6. IsSeq(c)
  BY <1>5, SubSeqIs
<1>7. IsSeq(a) /\ (start.y \in B => EolsOf(a) # {})
  <2>1. IsSeq(first) /\ Len(first) \in Nat
    BY <1>5, SeqIs
  <2>2. IsSeq(a)
    <3> HIDE DEF first
    <3>1. Len(first) \in Int /\ start.x + 1 \in Int
      BY <2>1
    <3> QED BY <3>1, SubSeqIs
  <2>3. ASSUME start.y \in B PROVE EolsOf(a) # {}
    <3> DEFINE text == lines[start.y].text
               n == Len(text)
    <3>1. IsSeq(text) /\ n \in Nat /\ first = Append(text, EOL) /\ start.x \in 0 .. n
      BY <1>5, <2>3, SeqIs
    <3> HIDE DEF text, first
    <3>2. /\ IsSeq(Append(text, EOL)) /\ Len(Append(text, EOL)) = n + 1
          /\ \A k \in 1 .. n + 1 : Append(text, EOL)[k] = IF k <= n THEN text[k] ELSE EOL
      BY <3>1, AppendIs
    <3> HIDE DEF n
    <3> DEFINE from == start.x + 1
               until == n + 1
               last == until - from + 1
    <3>3. /\ from \in Int /\ until \in Int /\ until \in 1 .. n + 1 /\ ~ (until <= n)
          /\ last \in 1 .. until - from + 1 /\ from + last - 1 = until
          /\ (IF from <= until THEN until - from + 1 ELSE 0) = until - from + 1
      <4>1. from \in Int /\ from \in 1 .. n + 1 /\ n \in Nat
        BY <3>1
      <4> HIDE DEF from
      <4> QED BY <4>1
    <3> HIDE DEF a
    <3>4. a = SubSeq(first, from, until)
      BY <3>1, <3>2 DEF a
    <3> HIDE DEF from, until
    <3>5. first[until] = EOL
      BY <3>1, <3>2, <3>3
    <3>6. /\ Len(a) = until - from + 1
          /\ \A i \in 1 .. until - from + 1 : a[i] = first[from + i - 1]
      BY <3>3, <3>4, SubSeqIs
    <3> HIDE DEF last
    <3>7. a[last] = EOL /\ last \in 1 .. Len(a)
      BY <3>3, <3>5, <3>6
    <3>8. EolsOf(a) = {k \in 1 .. Len(a) : a[k] = EOL}
      BY <2>2, EolsAre DEF a
    <3> QED BY <3>7, <3>8
  <2> QED BY <2>2, <2>3
<1>8. IsSeq(f) /\ Cardinality(D) <= Cardinality(EolsOf(f))
  <2> HIDE DEF B
  <2>1. middle = [i \in 1 .. m |-> middle[i]]
        /\ \A i \in 1 .. m : middle[i] = FullText(lines[start.y + i])
    OBVIOUS
  <2>2. \A i \in 1 .. m : IsSeq(middle[i]) /\ (i \in D => EolsOf(middle[i]) # {})
    <3> SUFFICES ASSUME NEW i \in 1 .. m
                 PROVE  IsSeq(middle[i]) /\ (i \in D => EolsOf(middle[i]) # {})
      OBVIOUS
    <3> DEFINE k == start.y + i
    <3>1. k \in 1 .. Len(lines) /\ middle[i] = FullText(lines[k]) /\ (i \in D => k \in B)
      BY <1>2, <2>1
    <3> HIDE DEF k, middle, D
    <3> QED BY <1>5, <3>1
  <2>3. D \in SUBSET (1 .. m)
    OBVIOUS
  <2> HIDE DEF middle, m, D
  <2>4. IsSeq(middle) /\ Len(middle) = m
    BY <1>2, <2>1, FunctionIsSeq
  <2>5. \A i \in D : i \in 1 .. m
    BY <2>3
  <2> QED BY <2>2, <2>3, <2>4, <2>5, FlattenIs
<1>9. Cardinality(UpTo(B, start.y + m)) = c1 + Cardinality(UpTo(D, m)) /\ UpTo(D, m) = D
  <2>1. D \in SUBSET (1 .. m) /\ m \in Nat /\ start.y \in Int
    BY <1>2
  <2>2. \A k \in 1 .. m : start.y + k \in B <=> k \in D
    OBVIOUS
  <2> HIDE DEF B, D, m
  <2>3. D \in SUBSET (Nat \ {0}) /\ m \in Int
    BY <2>1
  <2>4. UpTo(D, m) = D
    BY <2>1, <2>3, UpToAll
  <2>5. Displaced(B, D, start.y, m)
    BY <2>2 DEF Displaced
  <2>6. Cardinality(UpTo(B, start.y + m)) = Cardinality(UpTo(B, start.y)) + Cardinality(UpTo(D, m))
    BY <1>4, <2>1, <2>3, <2>5, UpToShift
  <2> QED BY <2>4, <2>6
<1>10. c1 = c0 + IF start.y \in B THEN 1 ELSE 0
  <2> DEFINE k == start.y - 1
  <2>1. k \in Int /\ k + 1 = start.y
    BY <1>1
  <2> HIDE DEF B, k
  <2>2. Cardinality(UpTo(B, k + 1)) = Cardinality(UpTo(B, k)) + IF k + 1 \in B THEN 1 ELSE 0
    BY <1>4, <2>1, UpToNext
  <2> QED BY <2>1, <2>2 DEF k
<1>11. start.y + m = end.y - 1
  BY <1>1
<1>12. /\ Cardinality(EolsOf(af \o c)) = Cardinality(EolsOf(a)) + Cardinality(EolsOf(f))
                                          + Cardinality(EolsOf(c))
       /\ Cardinality(EolsOf(a)) \in Nat /\ Cardinality(EolsOf(f)) \in Nat
       /\ Cardinality(EolsOf(c)) \in Nat
       /\ start.y \in B => Cardinality(EolsOf(a)) # 0
  <2> HIDE DEF a, f, c, B
  <2>1. IsSeq(af) /\ Cardinality(EolsOf(af)) = Cardinality(EolsOf(a)) + Cardinality(EolsOf(f))
    BY <1>7, <1>8, ConcatIs, EolsConcat
  <2> HIDE DEF af
  <2>2. Cardinality(EolsOf(af \o c)) = Cardinality(EolsOf(af)) + Cardinality(EolsOf(c))
    BY <1>6, <2>1, EolsConcat
  <2>3. /\ IsFiniteSet(EolsOf(a)) /\ Cardinality(EolsOf(a)) \in Nat
        /\ Cardinality(EolsOf(f)) \in Nat /\ Cardinality(EolsOf(c)) \in Nat
    BY <1>6, <1>7, <1>8, EolsAre
  <2>4. start.y \in B => Cardinality(EolsOf(a)) # 0
    BY <1>7, <2>3, FS_EmptySet
  <2> QED BY <2>1, <2>2, <2>3, <2>4
<1>13. c0 \in Nat /\ Cardinality(D) \in Nat
  <2>1. D \in SUBSET (1 .. m)
    OBVIOUS
  <2>2. start.y - 1 \in Int /\ 1 \in Int /\ m \in Int
    BY <1>1, <1>2
  <2> HIDE DEF D, B, m
  <2>3. IsFiniteSet(1 .. m)
    BY <2>2, FS_Interval
  <2>4. IsFiniteSet(D)
    BY <2>1, <2>3, FS_Subset
  <2> QED BY <1>4, <2>2, <2>4, UpToIsFinite, FS_CardinalityType
<1> HIDE DEF a, f, c, af, B, D, m, c0, c1
<1>14. Cardinality(UpTo(B, end.y - 1)) = c1 + Cardinality(D)
  BY <1>9, <1>11
<1>15. c1 + Cardinality(D) <= c0 + Cardinality(EolsOf(af \o c))
  <2> DEFINE na == Cardinality(EolsOf(a))
             nf == Cardinality(EolsOf(f))
             nc == Cardinality(EolsOf(c))
             nD == Cardinality(D)
  <2>1. /\ nD \in Nat /\ nf \in Nat /\ nD <= nf /\ na \in Nat /\ nc \in Nat /\ c0 \in Nat
        /\ Cardinality(EolsOf(af \o c)) = na + nf + nc
    BY <1>8, <1>12, <1>13
  <2>2. c1 <= c0 + na /\ c1 \in Nat
    BY <1>10, <1>12, <1>13
  <2> HIDE DEF na, nf, nc, nD
  <2>3. c1 + nD <= c0 + (na + nf + nc)
    BY <2>1, <2>2
  <2> QED BY <2>1, <2>3 DEF nD
<1> QED BY <1>3, <1>14, <1>15 DEF B, c0

(* What is left of the lines between two places is one line.               *)
LEMMA InternalDeleteTextIs ==
    ASSUME NEW lines, IsLines(lines), NEW start, NEW end,
           start.y \in 1 .. Len(lines), end.y \in 1 .. Len(lines),
           start.x \in Int, end.x \in Int, start.y <= end.y
    PROVE  LET rest == InternalDeleteText(lines, start, end)
           IN  /\ IsLines(rest) /\ start.y \in 1 .. Len(rest)
               /\ Framed(lines, rest, start.y, start.y)
               /\ rest[start.y].ghost = lines[start.y].ghost
               /\ start.y = end.y =>
                      Len(rest) = Len(lines) /\ RealOf(rest) = RealOf(lines)
<1> DEFINE N == Len(lines)
           head == SubSeq(lines[start.y].text, 1, start.x)
           last == lines[end.y]
           tail == SubSeq(last.text, end.x + 1, Len(last.text))
           line == Line(head \o tail, last.eol, lines[start.y].ghost)
           single == <<line>>
           result == SubSeq(lines, 1, start.y - 1) \o single \o SubSeq(lines, end.y + 1, N)
           rest == InternalDeleteText(lines, start, end)
<1>1. rest = result
  BY DEF InternalDeleteText
<1>2. N \in Nat /\ start.y \in 1 .. N /\ end.y \in 1 .. N
  BY SeqIs DEF IsLines
<1>3. IsLine(line) /\ line.ghost = lines[start.y].ghost
  <2>1. IsSeq(head)
    BY SubSeqIs
  <2>2. IsSeq(tail)
    <3>1. IsSeq(last.text)
      BY DEF IsLines, IsLine
    <3>2. Len(last.text) \in Int /\ end.x + 1 \in Int
      BY <3>1, SeqIs
    <3> QED BY <3>2, SubSeqIs
  <2> HIDE DEF head, tail
  <2>3. IsSeq(head \o tail)
    BY <2>1, <2>2, ConcatIs
  <2> QED BY <2>3, LineIs
<1> HIDE DEF line
<1>4. IsLines(single) /\ Len(single) = 1 /\ single[1] = line
  <2>1. IsSeq(single) /\ Len(single) = 1 /\ single[1] = line
    BY SingleIs
  <2>2. \A i \in 1 .. 1 : single[i] = line
    BY <2>1
  <2>3. \A i \in 1 .. Len(single) : IsLine(single[i])
    BY <1>3, <2>1, <2>2
  <2> QED BY <2>1, <2>3 DEF IsLines
<1> HIDE DEF single, N, rest
<1>5. /\ IsLines(result) /\ Len(result) = (start.y - 1) + Len(single) + (N - end.y)
      /\ Framed(lines, result, start.y, start.y)
      /\ \A i \in 1 .. Len(single) : result[start.y - 1 + i] = single[i]
  <2> DEFINE c == end.y + 1
             spliced == Splice(lines, start.y, single, c)
  <2>1. result = spliced
    BY DEF Splice, N
  <2>2. /\ start.y \in 1 .. N + 1 /\ c \in start.y .. N + 1 /\ N - c + 1 = N - end.y
        /\ start.y \in Int /\ start.y >= start.y - 1 + Len(single)
    BY <1>2, <1>4
  <2> HIDE DEF c, result
  <2>3. Spliced(lines, spliced, start.y, single, c, start.y)
    BY <1>4, <2>2, SpliceFramed DEF N
  <2> HIDE DEF spliced
  <2> QED BY <2>1, <2>2, <2>3 DEF Spliced, N
<1> HIDE DEF result
<1>6. Len(result) = start.y + (N - end.y) /\ start.y \in 1 .. Len(result)
  BY <1>2, <1>4, <1>5
<1>7. result[start.y].ghost = lines[start.y].ghost
  <2>1. 1 \in 1 .. Len(single) /\ start.y - 1 + 1 = start.y
    BY <1>2, <1>4
  <2>2. result[start.y] = line
    BY <1>4, <1>5, <2>1
  <2> QED BY <1>3, <2>2
<1>8. ASSUME start.y = end.y
      PROVE  Len(result) = N /\ RealOf(result) = RealOf(lines)
  <2>1. Len(result) = N
    BY <1>2, <1>6, <1>8
  <2>2. RealOf(result) = {i \in 1 .. N : ~ result[i].ghost}
        /\ RealOf(lines) = {i \in 1 .. N : ~ lines[i].ghost}
    BY <1>5, <2>1, RealOfIs DEF N
  <2>3. ASSUME NEW i \in 1 .. N, i # start.y PROVE i \in RealOf(result) <=> i \in RealOf(lines)
    <3>1. i \in 1 .. start.y - 1 \/ i \in start.y + 1 .. Len(result)
      BY <1>2, <2>1, <2>3
    <3>2. i + (N - Len(result)) = i
      BY <1>2, <2>1
    <3>3. Alike(lines, i, result, i)
      BY <1>5, <3>1, <3>2 DEF Framed, N
    <3> QED BY <3>3 DEF Alike
  <2> QED BY <1>2, <1>7, <2>1, <2>2, <2>3
<1> QED BY <1>1, <1>5, <1>6, <1>7, <1>8 DEF N, rest

(* A deletion leaves a buffer of lines with their breaks and blocks.       *)
LEMMA DeleteTextIs ==
    ASSUME NEW b, IsBuf(b), NEW start, NEW end,
           start.y \in 1 .. Len(b.lines), end.y \in 1 .. Len(b.lines),
           start.x \in Int, end.x \in Int, start.y <= end.y
    PROVE  LET del == DeleteText(b, start, end)
           IN  IsBuf(del.buf) /\ start.y \in 1 .. Len(del.buf.lines)
<1> DEFINE del == DeleteText(b, start, end)
           rest == InternalDeleteText(b.lines, start, end)
           lastLineGhost == b.lines[end.y].ghost
           ghost == RemainsGhost(rest[start.y].ghost, lastLineGhost)
           line == [rest[start.y] EXCEPT !.ghost = ghost]
           lines == [rest EXCEPT ![start.y] = line]
           blocks == IF start.y # end.y THEN BlocksOf(lines) ELSE b.blocks
           new == RecomputeEOL(lines, blocks, start.y, start.y)
<1>1. del.buf.lines = new /\ del.buf.blocks = blocks
  <2>1. del.buf = [lines |-> new, blocks |-> blocks]
    BY DEF DeleteText
  <2> HIDE DEF del, new, blocks
  <2> QED BY <2>1
<1>2. /\ IsLines(rest) /\ start.y \in 1 .. Len(rest)
      /\ Framed(b.lines, rest, start.y, start.y)
      /\ rest[start.y].ghost = b.lines[start.y].ghost
      /\ start.y = end.y =>
             Len(rest) = Len(b.lines) /\ RealOf(rest) = RealOf(b.lines)
  BY InternalDeleteTextIs DEF IsBuf
<1> HIDE DEF rest
<1>3. IsLine(line) /\ line.ghost = ghost
  <2>1. IsLine(rest[start.y])
    BY <1>2 DEF IsLines
  <2> HIDE DEF ghost
  <2> QED BY <2>1, LineWith
<1> HIDE DEF line
<1>4. /\ IsLines(lines) /\ Len(lines) = Len(rest) /\ Len(rest) \in Nat
      /\ \A i \in 1 .. Len(rest) : lines[i] = IF i = start.y THEN line ELSE rest[i]
  BY <1>2, <1>3, LinesExcept, SeqIs DEF IsLines
<1> HIDE DEF lines
<1>5. /\ RealOf(lines) = {i \in 1 .. Len(rest) : ~ lines[i].ghost}
      /\ RealOf(rest) = {i \in 1 .. Len(rest) : ~ rest[i].ghost}
      /\ BreaksOf(lines) = {i \in 1 .. Len(rest) : lines[i].eol}
      /\ BreaksOf(rest) = {i \in 1 .. Len(rest) : rest[i].eol}
  BY <1>2, <1>4, RealOfIs, BreaksOfIs
<1>6. \A i \in 1 .. Len(rest) : i # start.y => lines[i] = rest[i]
  BY <1>4
<1>7. Framed(b.lines, lines, start.y, start.y)
  <2>1. \A i \in 1 .. Len(rest) : i < start.y \/ i > start.y => i # start.y
    BY <1>2, <1>4
  <2>2. \A i \in 1 .. Len(rest) : i < start.y \/ i > start.y =>
            /\ i \in RealOf(rest) <=> i \in RealOf(lines)
            /\ i \in BreaksOf(rest) <=> i \in BreaksOf(lines)
    BY <1>5, <1>6, <2>1
  <2> QED BY <1>2, <1>4, <2>2, FramedWith
<1>8. blocks = BlocksOf(lines)
  <2>1. CASE start.y # end.y
    BY <2>1
  <2>2. CASE start.y = end.y
    <3>1. Len(rest) = Len(b.lines) /\ RealOf(rest) = RealOf(b.lines)
      BY <1>2, <2>2
    <3>2. start.y \in RealOf(lines) <=> start.y \in RealOf(rest)
      <4>1. lines[start.y] = line
        BY <1>2, <1>4
      <4>2. lines[start.y].ghost = (b.lines[start.y].ghost /\ b.lines[start.y].ghost)
        BY <1>2, <1>3, <2>2, <4>1, Zenon DEF ghost, lastLineGhost, RemainsGhost
      <4>3. lines[start.y].ghost <=> rest[start.y].ghost
        BY <1>2, <4>2, Zenon
      <4> QED BY <1>2, <1>5, <4>3
    <3>3. RealOf(lines) = RealOf(b.lines)
      BY <1>5, <1>6, <3>1, <3>2
    <3>4. BlocksOf(lines) = BlocksOf(b.lines)
      BY <1>4, <3>1, <3>3, BlocksSame DEF IsBuf
    <3>5. blocks = b.blocks
      BY <2>2
    <3> QED BY <3>4, <3>5 DEF IsBuf
  <2> QED BY <2>1, <2>2
<1> HIDE DEF blocks
<1>9. /\ IsLines(new) /\ HasBreaks(new) /\ Len(new) = Len(lines) /\ blocks = BlocksOf(new)
  BY <1>4, <1>7, <1>8, Repaired DEF IsBuf
<1> HIDE DEF new, del
<1>10. IsBuf(del.buf)
  BY <1>1, <1>9 DEF IsBuf
<1> QED BY <1>1, <1>2, <1>4, <1>9, <1>10 DEF del

(* With no real line there is no block.                                    *)
LEMMA NoBlocks ==
    ASSUME NEW n \in Nat, NEW blocks, BlocksFit(blocks, {}, n)
    PROVE  blocks = <<>>
<1>1. blocks \in Seq([nStartApparent : Nat, nStartReal : Nat, nCount : Nat])
      /\ Len(blocks) \in Nat
  BY DEF BlocksFit
<1>2. ASSUME Len(blocks) # 0 PROVE FALSE
  <2>1. 1 \in 1 .. Len(blocks)
    BY <1>1, <1>2
  <2> DEFINE start == blocks[1].nStartApparent
             past == PastApparent(blocks[1])
  <2>2. start \in 1 .. n /\ past \in 1 .. n + 1 /\ start < past
        /\ \A i \in Int : start <= i /\ i < past => i \in {}
    BY <2>1 DEF BlocksFit
  <2> HIDE DEF start, past
  <2>3. start \in Int /\ start <= start /\ start < past
    BY <2>2
  <2> QED BY <2>2, <2>3
<1> QED BY <1>1, <1>2

(* A place that is looked up is in the buffer or just past its last line.  *)
LEMMA ApparentInRange ==
    ASSUME NEW n \in Nat, NEW S \in SUBSET (1 .. n), NEW blocks, BlocksFit(blocks, S, n),
           NEW real \in Int, NEW nGhost \in Nat
    PROVE  ComputeApparentLine(blocks, n, real, nGhost) \in 1 .. n + 1
<1> DEFINE y == ComputeApparentLine(blocks, n, real, nGhost)
           N == Len(blocks)
           start(k) == blocks[k].nStartApparent
           past(k) == PastApparent(blocks[k])
           first(k) == blocks[k].nStartReal
           count(k) == blocks[k].nCount
<1>1. CASE S = {}
  <2>1. blocks = <<>>
    BY <1>1, NoBlocks
  <2>2. y = 1
    BY <2>1 DEF ComputeApparentLine
  <2> QED BY <2>2
<1>2. CASE S # {}
  <2>1. N \in Nat /\ \A k \in 1 .. N :
            /\ start(k) \in 1 .. n /\ past(k) \in 1 .. n + 1 /\ start(k) < past(k)
            /\ first(k) \in Nat /\ count(k) \in Nat
    BY DEF BlocksFit
  <2>2. \A k \in 1 .. N : past(k) = start(k) + count(k) /\ PastReal(blocks[k]) = first(k) + count(k)
    BY DEF PastApparent, PastReal
  <2>3. PICK F \in 1 .. N + 1 :
            /\ \A k \in 1 .. N : real < PastReal(blocks[k]) <=> k >= F
            /\ y = ApparentAt(blocks, n, real, nGhost, F)
    <3>1. nGhost \in Int /\ real \in Int
      OBVIOUS
    <3>2. S # {}
      BY <1>2
    <3>3. PICK F \in 1 .. Len(blocks) + 1 : LooksUp(blocks, n, real, nGhost, F)
      BY <3>1, <3>2, ApparentLineIs
    <3> QED BY <3>3, Zenon DEF LooksUp
  <2>4. N # 0
    <3>1. PICK i \in S : TRUE
      BY <1>2
    <3>2. \E k \in 1 .. N : blocks[k].nStartApparent <= i
      BY <3>1 DEF BlocksFit
    <3> HIDE DEF N
    <3> QED BY <3>2
  <2> HIDE DEF y
  <2>5. CASE F = N + 1
    <3>1. y = Larger(n + 1 - nGhost, past(N))
      BY <2>3, <2>5 DEF ApparentAt
    <3>2. past(N) \in 1 .. n + 1
      BY <2>1, <2>4
    <3> HIDE DEF past
    <3>3. y \in 1 .. n + 1
      BY <3>1, <3>2 DEF Larger
    <3> QED BY <3>3 DEF y
  <2>6. CASE F \in 1 .. N
    <3> DEFINE inBlock == real - first(F) + start(F)
               room == IF F = 1 THEN 1 ELSE past(F - 1)
    <3>1. F # N + 1 /\ F >= F
      BY <2>1, <2>6
    <3>2. y = IF real > first(F) THEN inBlock ELSE Larger(inBlock - nGhost, room)
      BY <2>3, <3>1, Zenon DEF ApparentAt
    <3>3. room \in 1 .. n + 1
      <4>1. F # 1 => F - 1 \in 1 .. N
        BY <2>6
      <4>2. F # 1 => past(F - 1) \in 1 .. n + 1
        BY <2>1, <4>1
      <4> HIDE DEF past
      <4> QED BY <4>2
    <3>4. real < first(F) + count(F)
      BY <2>2, <2>3, <2>6, <3>1
    <3>5. /\ start(F) \in 1 .. n /\ past(F) \in 1 .. n + 1 /\ first(F) \in Nat /\ count(F) \in Nat
          /\ past(F) = start(F) + count(F)
      BY <2>1, <2>2, <2>6
    <3> HIDE DEF room, start, past, first, count
    <3>6. y \in 1 .. n + 1
      BY SMTT(20), <3>2, <3>3, <3>4, <3>5 DEF Larger
    <3> QED BY <3>6 DEF y
  <2>7. F = N + 1 \/ F \in 1 .. N
    BY <2>1
  <2> QED BY <2>5, <2>6, <2>7
<1> QED BY <1>1, <1>2

(* The real number of a line counts the real lines above.                  *)
LEMMA RealLineCounts ==
    ASSUME NEW b, IsBuf(b), NEW y \in 1 .. Len(b.lines) + 1
    PROVE  ComputeRealLine(b.blocks, y) = Cardinality(UpTo(RealOf(b.lines), y - 1)) + 1
<1> DEFINE n == Len(b.lines)
           S == RealOf(b.lines)
<1>1. n \in Nat /\ DOMAIN b.lines = 1 .. n /\ S \in SUBSET (1 .. n)
  BY SeqIs, RealOfIs DEF IsBuf, IsLines
<1>2. BlocksFit(b.blocks, S, n)
  BY <1>1, BlocksOfFit DEF IsBuf
<1>3. y \in 1 .. n + 1 /\ 0 \in Int
  OBVIOUS
<1> HIDE DEF n, S
<1>4. CASE S = {}
  <2>1. b.blocks = <<>>
    BY <1>1, <1>2, <1>4, NoBlocks
  <2>2. ComputeRealLineAndGhostAdjustment(b.blocks, 0, y) = [y |-> 1, nGhost |-> 0]
    BY <2>1 DEF ComputeRealLineAndGhostAdjustment
  <2>3. ComputeRealLine(b.blocks, y) = 1
    BY <2>2 DEF ComputeRealLine
  <2>4. Cardinality(UpTo(S, y - 1)) = 0
    BY <1>4, FS_EmptySet DEF UpTo
  <2> QED BY <2>3, <2>4 DEF S
<1>5. CASE S # {}
  <2>1. ComputeRealLineAndGhostAdjustment(b.blocks, 0, y).y = Cardinality(UpTo(S, y - 1)) + 1
    BY <1>1, <1>2, <1>3, <1>5, RealLineIs
  <2> QED BY <2>1 DEF ComputeRealLine, S
<1> QED BY <1>4, <1>5

(* A deletion takes out no more real lines than its text has pieces, so    *)
(* that undoing it makes none of the lines below real.                     *)
LEMMA DeletedReals ==
    ASSUME NEW b, IsBuf(b), NEW start, NEW end,
           start.y \in 1 .. Len(b.lines), end.y \in start.y .. Len(b.lines),
           start.x \in 0 .. Len(b.lines[start.y].text), end.x \in Int
    PROVE  /\ DeleteText(b, start, end).nReal \in Nat
           /\ DeleteText(b, start, end).nReal <= Len(Pieces(GetText(b.lines, start, end)))
<1> DEFINE n == Len(b.lines)
           R == RealOf(b.lines)
           B == BreaksOf(b.lines)
           text == GetText(b.lines, start, end)
           r0 == Cardinality(UpTo(R, start.y - 1))
           r1 == Cardinality(UpTo(R, end.y - 1))
           b0 == Cardinality(UpTo(B, start.y - 1))
           b1 == Cardinality(UpTo(B, end.y - 1))
           e == Cardinality(EolsOf(text))
           nReal == DeleteText(b, start, end).nReal
           x == start.x
           len == Len(b.lines[start.y].text)
<1>1. n \in Nat /\ IsLines(b.lines) /\ HasBreaks(b.lines)
  BY SeqIs DEF IsBuf, IsLines
<1>2. /\ start.y \in 1 .. n /\ end.y \in 1 .. n /\ start.y <= end.y
      /\ start.y \in 1 .. n + 1 /\ end.y \in 1 .. n + 1
      /\ start.y - 1 \in Int /\ end.y - 1 \in Int /\ start.y - 1 <= end.y - 1
      /\ end.y - 1 < end.y /\ start.y - 1 < end.y
  BY <1>1
<1>3. ComputeRealLine(b.blocks, start.y) = r0 + 1 /\ ComputeRealLine(b.blocks, end.y) = r1 + 1
  BY <1>2, RealLineCounts
<1>4. nReal = ComputeRealLine(b.blocks, end.y) - ComputeRealLine(b.blocks, start.y)
                + IF b.lines[end.y].ghost THEN 0 ELSE 1
  BY DEF DeleteText
<1>5. end.y \in R <=> ~ b.lines[end.y].ghost
  BY <1>1, <1>2, RealOfIs
<1>6. /\ r0 \in Nat /\ r1 \in Nat /\ b0 \in Nat /\ b1 \in Nat
      /\ b0 <= r0 /\ r1 <= b1 + 1
      /\ end.y \in R => r0 = b0 /\ r1 = b1
  BY <1>1, <1>2, RealsAndBreaks
<1>7. r0 <= r1
  <2>1. R \in SUBSET Nat
    BY <1>1, RealOfIs
  <2> HIDE DEF R
  <2> QED BY <1>2, <2>1, UpToMonotone
<1>8. IsSeq(text)
  <2>1. x \in Int
    <3>1. len \in Nat
      BY <1>1, <1>2, SeqIs DEF IsLines, IsLine
    <3>2. x \in 0 .. len
      OBVIOUS
    <3> HIDE DEF x, len
    <3> QED BY <3>1, <3>2
  <2> HIDE DEF text
  <2> QED BY <1>1, <2>1, GetTextIs DEF text
<1>9. e \in Nat /\ Len(Pieces(text)) = e + 1
  <2> HIDE DEF text
  <2> QED BY <1>8, EolsAre, PiecesCount
<1>10. start.y # end.y => b1 <= b0 + e
  <2> SUFFICES ASSUME start.y # end.y PROVE b1 <= b0 + e
    OBVIOUS
  <2>1. end.y \in start.y + 1 .. Len(b.lines)
    BY <1>1
  <2> QED BY <1>1, <2>1, GetTextBreaks
<1>11. start.y = end.y => r1 = r0
  OBVIOUS
<1> HIDE DEF r0, r1, b0, b1, e, R, nReal, text
<1>12. nReal = r1 - r0 + IF end.y \in R THEN 1 ELSE 0
  BY <1>3, <1>4, <1>5, <1>6
<1>13. nReal \in Nat /\ nReal <= e + 1
  <2>1. CASE end.y \in R
    BY <1>6, <1>7, <1>9, <1>10, <1>11, <1>12, <2>1
  <2>2. CASE end.y \notin R
    BY <1>6, <1>7, <1>9, <1>10, <1>11, <1>12, <2>2
  <2> QED BY <2>1, <2>2
<1> QED BY <1>9, <1>13 DEF nReal, text

-----------------------------------------------------------------------------
(* The text of a file *)

(* The parts of a text that are empty add nothing to it.                   *)
LEMMA FlattenSkips ==
    ASSUME NEW s, IsSeq(s), NEW t, IsSeq(t),
           NEW S \in SUBSET (1 .. Len(s)), Len(t) = Cardinality(S),
           \A i \in 1 .. Len(s) : IsSeq(s[i]),
           \A i \in 1 .. Len(s) : i \notin S => s[i] = <<>>,
           \A i \in S : t[Cardinality(UpTo(S, i))] = s[i]
    PROVE  FlattenSeq(s) = FlattenSeq(t)
<1> DEFINE N == Len(s)
           M == Len(t)
           c(i) == Cardinality(UpTo(S, i))
<1>1. N \in Nat /\ M \in Nat /\ S \in SUBSET Nat
  BY SeqIs
<1>2. c(0) = 0
  <2>1. UpTo(S, 0) = {}
    <3>1. \A j \in S : ~ (j <= 0)
      OBVIOUS
    <3> QED BY <3>1 DEF UpTo
  <2> QED BY <2>1, FS_EmptySet
<1>3. c(N) = M
  <2>1. N \in Int
    BY <1>1
  <2> QED BY <2>1, UpToAll
<1>4. ASSUME NEW i \in 1 .. N
      PROVE  /\ c(i) \in Nat /\ c(i - 1) \in Nat
             /\ c(i) = c(i - 1) + IF i \in S THEN 1 ELSE 0
             /\ i \in S => c(i) \in 1 .. M
  <2>1. i - 1 \in Int /\ i - 1 + 1 = i /\ i \in Int /\ i <= N /\ N \in Int
    BY <1>1
  <2>2. c(i) \in Nat /\ c(i - 1) \in Nat
    BY <1>1, <2>1, UpToIsFinite
  <2>3. c(i) = c(i - 1) + IF i \in S THEN 1 ELSE 0
    BY <1>1, <2>1, UpToNext
  <2>4. c(i) <= c(N)
    BY <1>1, <2>1, UpToMonotone
  <2> HIDE DEF c
  <2> QED BY <1>1, <1>3, <2>2, <2>3, <2>4
<1> HIDE DEF c
<1>5. CASE N = 0
  <2>1. M = 0
    BY <1>2, <1>3, <1>5
  <2> QED BY <1>5, <2>1, FlattenSteps
<1>6. CASE N # 0 /\ M = 0
  <2> DEFINE Steps(f) == \A i \in 1 .. N : f[i] = IF i = 1 THEN s[i] ELSE f[i - 1] \o s[i]
  <2>1. PICK f : FlattenSeq(s) = f[N] /\ Steps(f)
    BY <1>6, FlattenSteps
  <2>2. FlattenSeq(t) = <<>>
    BY <1>6, FlattenSteps
  <2>3. \A i \in 1 .. N : s[i] = <<>>
    <3>1. \A i \in 1 .. N : i \notin S
      BY <1>4, <1>6
    <3> QED BY <3>1
  <2> DEFINE Bad == {i \in 1 .. N : f[i] # <<>>}
  <2>4. Bad = {}
    <3> SUFFICES ASSUME Bad # {} PROVE FALSE
      OBVIOUS
    <3>1. PICK i \in Bad : \A j \in Bad : i <= j
      <4>1. Bad \in SUBSET Nat
        OBVIOUS
      <4> HIDE DEF Bad
      <4> QED BY <4>1, LeastOf
    <3>2. i \in 1 .. N /\ f[i] # <<>>
      BY <3>1
    <3>3. i # 1
      BY <2>1, <2>3, <3>2
    <3>4. i - 1 \in 1 .. N /\ ~ (i <= i - 1)
      BY <1>1, <3>2, <3>3
    <3>5. f[i - 1] = <<>>
      BY <3>1, <3>4
    <3>6. f[i] = <<>> \o <<>>
      BY <2>1, <2>3, <3>2, <3>3, <3>5
    <3> QED BY <3>2, <3>6
  <2>5. N \in 1 .. N
    BY <1>1, <1>6
  <2> QED BY <2>1, <2>2, <2>4, <2>5
<1>7. CASE N # 0 /\ M # 0
  <2> DEFINE Steps(f) == \A i \in 1 .. N : f[i] = IF i = 1 THEN s[i] ELSE f[i - 1] \o s[i]
             Steps2(g) == \A k \in 1 .. M : g[k] = IF k = 1 THEN t[k] ELSE g[k - 1] \o t[k]
  <2>1. PICK f : FlattenSeq(s) = f[N] /\ Steps(f)
    BY <1>7, FlattenSteps
  <2>2. PICK g : FlattenSeq(t) = g[M] /\ Steps2(g)
    BY <1>7, FlattenSteps
  <2> DEFINE Good(i) == /\ IsSeq(f[i])
                        /\ f[i] = IF c(i) = 0 THEN <<>> ELSE g[c(i)]
             Bad == {i \in 1 .. N : ~ Good(i)}
  <2>3. Bad = {}
    <3> SUFFICES ASSUME Bad # {} PROVE FALSE
      OBVIOUS
    <3>1. PICK i \in Bad : \A j \in Bad : i <= j
      <4>1. Bad \in SUBSET Nat
        OBVIOUS
      <4> HIDE DEF Bad
      <4> QED BY <4>1, LeastOf
    <3>2. i \in 1 .. N /\ ~ Good(i)
      BY <3>1
    <3>3. /\ c(i) \in Nat /\ c(i - 1) \in Nat
          /\ c(i) = c(i - 1) + IF i \in S THEN 1 ELSE 0
          /\ i \in S => c(i) \in 1 .. M
      BY <1>4, <3>2
    <3>4. IsSeq(s[i]) /\ (i \notin S => s[i] = <<>>) /\ (i \in S => t[c(i)] = s[i])
      BY <3>2 DEF c
    <3>5. CASE i = 1
      <4>1. f[i] = s[i]
        BY <2>1, <3>2, <3>5
      <4>2. c(i - 1) = 0
        BY <1>2, <3>5
      <4>3. CASE i \notin S
        <5>1. c(i) = 0
          BY <3>3, <4>2, <4>3
        <5>2. f[i] = <<>> /\ IsSeq(f[i])
          BY <3>4, <4>1, <4>3
        <5> QED BY <3>2, <5>1, <5>2
      <4>4. CASE i \in S
        <5>1. c(i) = 1 /\ 1 \in 1 .. M
          BY <3>3, <4>2, <4>4
        <5>2. g[1] = t[1]
          BY <2>2, <5>1
        <5> QED BY <3>2, <3>4, <4>1, <4>4, <5>1, <5>2
      <4> QED BY <4>3, <4>4
    <3>6. CASE i # 1
      <4>1. i - 1 \in 1 .. N /\ ~ (i <= i - 1)
        BY <3>2, <3>6, <1>1
      <4>2. Good(i - 1)
        BY <3>1, <4>1
      <4>3. f[i] = f[i - 1] \o s[i]
        BY <2>1, <3>2, <3>6
      <4>4. IsSeq(f[i])
        BY <3>4, <4>2, <4>3, ConcatIs
      <4>5. CASE i \notin S
        <5>1. f[i] = f[i - 1]
          <6>1. f[i - 1] \o <<>> = f[i - 1]
            BY <4>2, ConcatEmptySeq DEF IsSeq
          <6> QED BY <3>4, <4>3, <4>5, <6>1
        <5>2. c(i) = c(i - 1)
          BY <3>3, <4>5
        <5> QED BY <3>2, <4>2, <4>4, <5>1, <5>2
      <4>6. CASE i \in S
        <5>1. c(i) = c(i - 1) + 1 /\ c(i) \in 1 .. M
          BY <3>3, <4>6
        <5>2. g[c(i)] = IF c(i) = 1 THEN t[c(i)] ELSE g[c(i) - 1] \o t[c(i)]
          BY <2>2, <5>1
        <5>3. CASE c(i - 1) = 0
          <6>1. f[i] = <<>> \o s[i]
            BY <4>2, <4>3, <5>3
          <6>2. <<>> \o s[i] = s[i]
            BY <3>4, ConcatEmptySeq DEF IsSeq
          <6>3. g[c(i)] = t[c(i)] /\ c(i) # 0
            BY <5>1, <5>2, <5>3
          <6> QED BY <3>2, <3>4, <4>4, <4>6, <6>1, <6>2, <6>3
        <5>4. CASE c(i - 1) # 0
          <6>1. f[i] = g[c(i - 1)] \o s[i]
            BY <4>2, <4>3, <5>4
          <6>2. c(i) # 1 /\ c(i) # 0 /\ c(i) - 1 = c(i - 1)
            BY <3>3, <5>1, <5>4
          <6>3. g[c(i)] = g[c(i - 1)] \o t[c(i)]
            BY <5>2, <6>2
          <6> QED BY <3>2, <3>4, <4>4, <4>6, <6>1, <6>2, <6>3
        <5> QED BY <5>3, <5>4
      <4> QED BY <4>5, <4>6
    <3> QED BY <3>5, <3>6
  <2>4. N \in 1 .. N
    BY <1>1, <1>7
  <2>5. Good(N)
    <3> HIDE DEF Good
    <3> QED BY <2>3, <2>4
  <2> QED BY <1>3, <1>7, <2>1, <2>2, <2>5
<1> QED BY <1>5, <1>6, <1>7

(* The texts of the lines, and the text of the file they are of            *)
FullTexts(lines) == [i \in DOMAIN lines |-> FullText(lines[i])]

(* They are texts.                                                         *)
LEMMA FullTextsAre ==
    ASSUME NEW lines, IsLines(lines)
    PROVE  /\ FileText(lines) = FlattenSeq(FullTexts(lines))
           /\ IsSeq(FullTexts(lines)) /\ Len(FullTexts(lines)) = Len(lines)
           /\ \A i \in 1 .. Len(lines) :
                  FullTexts(lines)[i] = FullText(lines[i]) /\ IsSeq(FullText(lines[i]))
<1> DEFINE texts == FullTexts(lines)
           n == Len(lines)
<1>1. n \in Nat /\ DOMAIN lines = 1 .. n
  BY SeqIs DEF IsLines
<1>2. FileText(lines) = FlattenSeq(texts)
  BY DEF FileText, FullTexts
<1>3. texts = [i \in 1 .. n |-> texts[i]] /\ \A i \in 1 .. n : texts[i] = FullText(lines[i])
  BY <1>1 DEF FullTexts
<1> HIDE DEF texts, n
<1>4. IsSeq(texts) /\ Len(texts) = n
  BY <1>1, <1>3, FunctionIsSeq
<1>5. ASSUME NEW i \in 1 .. n PROVE IsSeq(FullText(lines[i]))
  <2>1. IsSeq(lines[i].text)
    BY DEF IsLines, IsLine, n
  <2> QED BY <2>1, AppendIs DEF FullText
<1> QED BY <1>2, <1>3, <1>4, <1>5 DEF texts, n

(* The real lines of a buffer, in order                                    *)
LEMMA RealLinesInOrder ==
    ASSUME NEW lines, IsLines(lines)
    PROVE  /\ IsLines(RealLines(lines)) /\ Len(RealLines(lines)) = Cardinality(RealOf(lines))
           /\ \A i \in RealOf(lines) : RealLines(lines)[Cardinality(UpTo(RealOf(lines), i))] = lines[i]
           /\ \A k \in 1 .. Len(RealLines(lines)) :
                  \E i \in RealOf(lines) : RealLines(lines)[k] = lines[i]
                                             /\ k = Cardinality(UpTo(RealOf(lines), i))
<1> DEFINE n == Len(lines)
           S == RealOf(lines)
           M == Cardinality(S)
           real == RealLines(lines)
           at == Ranked(S)
<1>1. n \in Nat /\ DOMAIN lines = 1 .. n /\ S \in SUBSET (1 .. n)
  BY SeqIs, RealOfIs DEF IsLines
<1>2. S = {i \in DOMAIN lines : ~ lines[i].ghost}
  BY DEF RealOf
<1> HIDE DEF S, n
<1>3. /\ M \in Nat /\ DOMAIN at = 1 .. M
      /\ \A k \in 1 .. M : at[k] \in S /\ Cardinality(UpTo(S, at[k])) = k
      /\ \A i \in S : \E k \in 1 .. M : at[k] = i
  BY <1>1, RankedIs, RankedInOrder
<1>4. real = [k \in 1 .. M |-> lines[at[k]]]
  BY <1>2, <1>3 DEF RealLines
<1> HIDE DEF at, M
<1>5. real = [k \in 1 .. M |-> real[k]] /\ \A k \in 1 .. M : real[k] = lines[at[k]]
  <2> HIDE DEF real
  <2> QED BY <1>4
<1> HIDE DEF real
<1>6. \A k \in 1 .. M : IsLine(real[k])
  BY <1>1, <1>3, <1>5 DEF IsLines, n
<1>7. IsLines(real) /\ Len(real) = M
  BY <1>3, <1>5, <1>6, LinesAre
<1>8. ASSUME NEW i \in S PROVE real[Cardinality(UpTo(S, i))] = lines[i]
  <2>1. PICK k \in 1 .. M : at[k] = i
    BY <1>3
  <2> QED BY <1>3, <1>5, <2>1
<1>9. ASSUME NEW k \in 1 .. M
      PROVE  \E i \in S : real[k] = lines[i] /\ k = Cardinality(UpTo(S, i))
  BY <1>3, <1>5
<1> QED BY <1>7, <1>8, <1>9 DEF S, M, real

(* Ghosts without text and break leave no trace in the file.               *)
LEMMA GhostsLeaveNoText ==
    ASSUME NEW lines, IsLines(lines),
           \A i \in GhostsOf(lines) : FullText(lines[i]) = <<>>
    PROVE  FileText(RealLines(lines)) = FileText(lines)
<1> DEFINE S == RealOf(lines)
           real == RealLines(lines)
           s == FullTexts(lines)
           t == FullTexts(real)
           n == Len(lines)
           M == Cardinality(S)
           rank(i) == Cardinality(UpTo(S, i))
<1>1. n \in Nat /\ DOMAIN lines = 1 .. n /\ S = {i \in 1 .. n : ~ lines[i].ghost}
      /\ S \in SUBSET (1 .. n)
  BY SeqIs, RealOfIs DEF IsLines
<1>2. /\ IsLines(real) /\ Len(real) = M
      /\ \A i \in S : real[rank(i)] = lines[i]
  BY RealLinesInOrder
<1>3. /\ FileText(lines) = FlattenSeq(s) /\ IsSeq(s) /\ Len(s) = n
      /\ \A i \in 1 .. n : s[i] = FullText(lines[i]) /\ IsSeq(s[i])
  BY FullTextsAre
<1> HIDE DEF real
<1>4. /\ FileText(real) = FlattenSeq(t) /\ IsSeq(t) /\ Len(t) = M
      /\ \A k \in 1 .. M : t[k] = FullText(real[k])
  BY <1>2, FullTextsAre
<1>5. \A i \in S : rank(i) \in 1 .. M
  BY <1>1, FollowedIs
<1> HIDE DEF S, s, t, n, M, rank
<1>6. \A i \in 1 .. n : i \notin S => s[i] = <<>>
  BY <1>1, <1>3 DEF GhostsOf
<1>7. \A i \in S : t[rank(i)] = s[i]
  BY <1>1, <1>2, <1>3, <1>4, <1>5
<1>8. FlattenSeq(s) = FlattenSeq(t)
  <2>1. \A i \in S : t[Cardinality(UpTo(S, i))] = s[i]
    BY <1>7 DEF rank
  <2>2. Len(t) = Cardinality(S)
    BY <1>4 DEF M
  <2> QED BY <1>1, <1>3, <1>4, <1>6, <2>1, <2>2, FlattenSkips
<1> QED BY <1>3, <1>4, <1>8 DEF real

(* The lines are saved up to the first real one without a break.           *)
LEMMA RealLineBreaks ==
    ASSUME NEW lines, IsLines(lines), HasBreaks(lines)
    PROVE  \A k \in 1 .. Len(RealLines(lines)) :
               k \in BreaksOf(RealLines(lines)) <=> k # Len(RealLines(lines))
<1> DEFINE n == Len(lines)
           S == RealOf(lines)
           B == BreaksOf(lines)
           M == Cardinality(S)
           real == RealLines(lines)
           rank(i) == Cardinality(UpTo(S, i))
<1>1. n \in Nat /\ S \in SUBSET (1 .. n) /\ B = {i \in 1 .. n : lines[i].eol}
      /\ S \in SUBSET Nat
  BY SeqIs, RealOfIs, BreaksOfIs DEF IsLines
<1>2. IsLines(real) /\ Len(real) = M
      /\ \A k \in 1 .. M : \E i \in S : real[k] = lines[i] /\ k = rank(i)
  BY RealLinesInOrder
<1>3. BreaksOf(real) = {k \in 1 .. M : real[k].eol}
  BY <1>2, BreaksOfIs
<1>4. \A i \in 1 .. n : i \in B <=> i \in S /\ \E j \in S : i < j
  BY DEF HasBreaks
<1> HIDE DEF n, S, B, M, real
<1>5. ASSUME NEW k \in 1 .. M PROVE k \in BreaksOf(real) <=> k # M
  <2>1. PICK i \in S : real[k] = lines[i] /\ k = rank(i)
    BY <1>2
  <2>2. k \in BreaksOf(real) <=> i \in B
    BY <1>1, <1>3, <2>1
  <2>3. i \in B <=> \E j \in S : i < j
    BY <1>1, <1>4
  <2>4. (\E j \in S : i < j) <=> rank(i) # M
    BY <1>1, FollowedIs DEF M
  <2> QED BY <2>1, <2>2, <2>3, <2>4
<1> QED BY <1>2, <1>5 DEF real

(* So all of the real lines are saved.                                     *)
LEMMA RealLinesAreSaved ==
    ASSUME NEW lines, IsLines(lines), HasBreaks(lines)
    PROVE  LET real == RealLines(lines)
               stops == {k \in DOMAIN real : ~ real[k].eol} \union {Len(real)}
           IN  SubSeq(real, 1, Min(stops)) = real
<1> DEFINE real == RealLines(lines)
           M == Len(real)
           stops == {k \in DOMAIN real : ~ real[k].eol} \union {M}
<1>1. IsLines(real)
  BY RealLinesInOrder
<1>2. M \in Nat /\ DOMAIN real = 1 .. M /\ real \in Seq({real[i] : i \in DOMAIN real})
  BY <1>1, SeqIs DEF IsLines, IsSeq
<1>3. \A k \in 1 .. M : k \in BreaksOf(real) <=> k # M
  BY RealLineBreaks
<1>4. BreaksOf(real) = {k \in 1 .. M : real[k].eol}
  BY <1>1, BreaksOfIs
<1>5. \A k \in stops : k = M
  <2> HIDE DEF real, M
  <2> QED BY <1>2, <1>3, <1>4
<1>6. stops = {M}
  <2>1. M \in stops
    OBVIOUS
  <2> HIDE DEF stops, M
  <2> QED BY <1>5, <2>1
<1> HIDE DEF stops
<1>7. Min(stops) = M
  <2>1. {M} \in SUBSET Nat /\ {M} # {}
    BY <1>2
  <2>2. Min({M}) \in {M}
    BY <2>1, MinOf
  <2> QED BY <1>6, <2>2
<1>8. SubSeq(real, 1, M) = real
  <2> HIDE DEF real
  <2> QED BY <1>2
<1> QED BY <1>7, <1>8 DEF stops
=============================================================================
