------------------------- MODULE SideBySide_proofs -------------------------
(***************************************************************************)
(* Proofs about the search for differences by line and about what is       *)
(* copied, for every list of differences.                                  *)
(***************************************************************************)
EXTENDS SideBySide, GhostLines_proofs

(* The differences of a window, one below the other *)
Ordered(diffs) ==
    /\ Len(diffs) \in Nat /\ DOMAIN diffs = 1 .. Len(diffs)
    /\ \A k \in DOMAIN diffs :
          diffs[k].dbegin[1] \in Int /\ diffs[k].dend[1] \in Int
             /\ diffs[k].dbegin[1] <= diffs[k].dend[1]
    /\ \A j, k \in DOMAIN diffs : j < k => diffs[j].dend[1] < diffs[k].dbegin[1]

Holds(diffs, k, line) == diffs[k].dbegin[1] <= line /\ line <= diffs[k].dend[1]

(* The binary search finds the difference that a line is in, if any.       *)
LEMMA LineToDiffIsExact ==
    ASSUME NEW diffs, Ordered(diffs), NEW line \in Int
    PROVE  LET k == LineToDiff(diffs, line)
           IN  IF \E j \in DOMAIN diffs : Holds(diffs, j, line)
               THEN k \in DOMAIN diffs /\ Holds(diffs, k, line)
               ELSE k = None
<1> DEFINE n == Len(diffs)
           Ranges == (1 .. Len(diffs) + 1) \X (0 .. Len(diffs))
           Body(search, range) ==
                LET left == range[1]
                    right == range[2]
                    middle == (left + right) \div 2
                IN  IF left > right THEN None
                    ELSE IF line < diffs[middle].dbegin[1] THEN search[<<left, middle - 1>>]
                    ELSE IF IsAfter(diffs[middle], line) THEN search[<<middle + 1, right>>]
                    ELSE middle
           Step(search) == [range \in Ranges |-> Body(search, range)]
           Chosen == CHOOSE search : search = Step(search)
           K == IF \E j \in 1 .. n : Holds(diffs, j, line)
                THEN CHOOSE j \in 1 .. n : Holds(diffs, j, line) ELSE None
           Found(left, right) == IF K \in left .. right THEN K ELSE None
           Result == [range \in Ranges |-> Found(range[1], range[2])]
<1>1. LineToDiff(diffs, line) = Chosen[<<1, n>>]
  BY DEF LineToDiff
<1>2. n \in Nat /\ DOMAIN diffs = 1 .. n
  BY SMTT(30) DEF Ordered
<1>3. /\ K \in 0 .. n
      /\ K # None => Holds(diffs, K, line)
      /\ \A j \in 1 .. n : Holds(diffs, j, line) => K = j
  <2>1. ASSUME NEW j \in 1 .. n, NEW k \in 1 .. n, Holds(diffs, j, line), Holds(diffs, k, line)
        PROVE  j = k
    <3>1. ~ (j < k) /\ ~ (k < j)
      BY <2>1, <1>2 DEF Ordered, Holds
    <3> QED BY <3>1, <1>2
  <2>2. CASE \E j \in 1 .. n : Holds(diffs, j, line)
    <3>1. K \in 1 .. n /\ Holds(diffs, K, line)
      BY <2>2, Zenon
    <3> HIDE DEF K
    <3>2. K \in 0 .. n
      BY <3>1, <1>2
    <3> QED BY <3>1, <3>2, <2>1, Zenon
  <2>3. CASE ~ \E j \in 1 .. n : Holds(diffs, j, line)
    <3>1. K = None
      BY <2>3, Zenon
    <3> HIDE DEF K
    <3>2. K \in 0 .. n
      BY <3>1, <1>2 DEF None
    <3> QED BY <3>1, <3>2, <2>3, Zenon
  <2> QED BY <2>2, <2>3, Zenon
<1> HIDE DEF K
<1>4. ASSUME NEW left \in 1 .. n + 1, NEW right \in 0 .. n
      PROVE  LET middle == (left + right) \div 2
             IN  Found(left, right) =
                    IF left > right THEN None
                    ELSE IF line < diffs[middle].dbegin[1] THEN Found(left, middle - 1)
                    ELSE IF IsAfter(diffs[middle], line) THEN Found(middle + 1, right)
                    ELSE middle
  <2> DEFINE middle == (left + right) \div 2
  <2>1. CASE left > right
    BY <2>1, <1>2, <1>3
  <2>2. CASE left <= right
    <3>1. middle \in left .. right /\ middle \in 1 .. n
      BY <2>2, <1>2
    <3> HIDE DEF middle
    <3>2. CASE line < diffs[middle].dbegin[1]
      <4>1. ~ (K >= middle)
        <5> SUFFICES ASSUME K >= middle PROVE FALSE
          OBVIOUS
        <5>1. K \in 1 .. n /\ Holds(diffs, K, line)
          BY <3>1, <1>2, <1>3 DEF None
        <5>2. diffs[K].dbegin[1] >= diffs[middle].dbegin[1]
          BY <5>1, <3>1, <1>2, SMTT(30) DEF Ordered
        <5> QED BY <5>1, <5>2, <3>1, <3>2, <1>2 DEF Ordered, Holds
      <4> QED BY <4>1, <3>1, <3>2, <1>2, <1>3, <2>2 DEF middle, None
    <3>3. CASE ~ (line < diffs[middle].dbegin[1]) /\ IsAfter(diffs[middle], line)
      <4>1. K > middle \/ K = 0
        BY <3>1, <3>3, <1>2, <1>3, SMTT(30) DEF Ordered, Holds, None, IsAfter
      <4> QED BY <4>1, <3>1, <3>3, <1>2, <1>3, <2>2 DEF middle, None
    <3>4. CASE ~ (line < diffs[middle].dbegin[1]) /\ ~ IsAfter(diffs[middle], line)
      <4>1. K = middle
        BY <3>1, <3>4, <1>2, <1>3 DEF Ordered, Holds, None, IsAfter
      <4> QED BY <4>1, <3>1, <3>4, <1>2, <1>3, <2>2 DEF middle, None
    <3> QED BY <3>2, <3>3, <3>4
  <2> QED BY <2>1, <2>2, <1>2
<1>5. Result = Step(Result)
  <2>1. \A left \in 1 .. n + 1, right \in 0 .. n : Result[<<left, right>>] = Found(left, right)
    OBVIOUS
  <2>2. ASSUME NEW range \in Ranges
        PROVE  Found(range[1], range[2]) = Body(Result, range)
    <3> DEFINE left == range[1]
               right == range[2]
    <3>0. left \in 1 .. n + 1 /\ right \in 0 .. n
      OBVIOUS
    <3> HIDE DEF Result
    <3>1. CASE left > right
      BY <3>0, <3>1, <1>4
    <3>2. CASE left <= right
      <4> DEFINE middle == (left + right) \div 2
      <4>1. middle - 1 \in 0 .. n /\ middle + 1 \in 1 .. n + 1
        BY <3>0, <3>2, <1>2
      <4>2. /\ Result[<<left, middle - 1>>] = Found(left, middle - 1)
            /\ Result[<<middle + 1, right>>] = Found(middle + 1, right)
        BY <3>0, <4>1, <2>1
      <4> QED BY <3>0, <4>2, <1>4
    <3> QED BY <3>0, <3>1, <3>2, <1>2
  <2> QED BY <2>2
<1>6. Chosen = Step(Chosen)
  <2> HIDE DEF Step, Result
  <2> QED BY <1>5, Zenon
<1> HIDE DEF Chosen, Result
<1>7. ASSUME NEW left \in 1 .. n + 1, NEW right \in 0 .. n
      PROVE  Chosen[<<left, right>>] = Body(Chosen, <<left, right>>)
  BY <1>6
<1>8. \A left \in 1 .. n + 1, right \in 0 .. n : Chosen[<<left, right>>] = Found(left, right)
  <2> DEFINE Bad == {d \in Nat : \E left \in 1 .. n + 1, right \in 0 .. n :
                        d = n + 1 + right - left /\ Chosen[<<left, right>>] # Found(left, right)}
  <2>1. SUFFICES ASSUME Bad # {} PROVE FALSE
    <3> SUFFICES ASSUME NEW left \in 1 .. n + 1, NEW right \in 0 .. n,
                        Chosen[<<left, right>>] # Found(left, right)
                 PROVE  Bad # {}
      OBVIOUS
    <3>1. n + 1 + right - left \in Nat
      BY <1>2
    <3> QED BY <3>1
  <2>2. PICK d \in Bad : \A e \in Bad : d <= e
    BY <2>1, LeastOf
  <2>3. PICK left \in 1 .. n + 1, right \in 0 .. n :
            d = n + 1 + right - left /\ Chosen[<<left, right>>] # Found(left, right)
    BY <2>2
  <2>4. ASSUME NEW l \in 1 .. n + 1, NEW r \in 0 .. n, r - l < right - left
        PROVE  Chosen[<<l, r>>] = Found(l, r)
    <3> DEFINE e == n + 1 + r - l
    <3>1. e \in Nat /\ e < d
      BY <2>3, <2>4, <1>2
    <3>2. e \notin Bad
      <4> HIDE DEF Bad, e
      <4> QED BY <3>1, <2>2, <2>3, <1>2
    <3> QED BY <3>1, <3>2
  <2> HIDE DEF Bad
  <2>5. CASE left > right
    BY <2>5, <2>3, <1>4, <1>7
  <2>6. CASE left <= right
    <3> DEFINE middle == (left + right) \div 2
    <3>1. /\ middle - 1 \in 0 .. n /\ middle - 1 - left < right - left
          /\ middle + 1 \in 1 .. n + 1 /\ right - (middle + 1) < right - left
      BY <2>6, <1>2
    <3>2. /\ Chosen[<<left, middle - 1>>] = Found(left, middle - 1)
          /\ Chosen[<<middle + 1, right>>] = Found(middle + 1, right)
      BY <3>1, <2>4
    <3> QED BY <3>2, <1>4, <1>7, <2>3
  <2> QED BY <2>5, <2>6, <1>2
<1>9. Chosen[<<1, n>>] = K
  BY <1>8, <1>2, <1>3 DEF None
<1> QED BY <1>1, <1>9, <1>2, <1>3 DEF None

(* PrevSignificantDiffFromLine: the last significant one at or above a line.*)
LEMMA PrevIs ==
    ASSUME NEW diffs, Ordered(diffs), NEW line \in Int
    PROVE  LET p == PrevSignificantDiffFromLine(diffs, line)
               Prev == {k \in DOMAIN diffs : Significant(diffs, k) /\ diffs[k].dend[1] < line}
           IN  IF Prev = {} THEN p = None ELSE p \in Prev /\ \A k \in Prev : k <= p
<1> DEFINE Prev == {k \in DOMAIN diffs : Significant(diffs, k) /\ diffs[k].dend[1] < line}
           S == {None} \union Prev
           p == PrevSignificantDiffFromLine(diffs, line)
<1>1. Len(diffs) \in Nat /\ DOMAIN diffs = 1 .. Len(diffs)
  BY DEF Ordered
<1>2. S \in SUBSET (0 .. Len(diffs)) /\ S # {}
  BY <1>1 DEF None
<1>3. p = Max(S)
  BY DEF PrevSignificantDiffFromLine
<1>4. p \in S /\ \A k \in S : k <= p
  <2> HIDE DEF S, p
  <2> QED BY <1>1, <1>2, <1>3, GreatestOf
<1>5. \A k \in Prev : k \in 1 .. Len(diffs)
  BY <1>1
<1> HIDE DEF p
<1>6. CASE Prev = {}
  BY <1>4, <1>6 DEF p
<1>7. CASE Prev # {}
  <2>1. p # None
    BY <1>4, <1>5, <1>7 DEF None
  <2> QED BY <2>1, <1>4, <1>7 DEF p
<1> QED BY <1>6, <1>7

(* NextSignificantDiffFromLine: the first one at or below it.              *)
LEMMA NextIs ==
    ASSUME NEW diffs, Ordered(diffs), NEW line \in Int
    PROVE  LET n == NextSignificantDiffFromLine(diffs, line)
               Next == {k \in DOMAIN diffs : Significant(diffs, k) /\ diffs[k].dbegin[1] > line}
           IN  IF Next = {} THEN n = None ELSE n \in Next /\ \A k \in Next : n <= k
<1> DEFINE Next == {k \in DOMAIN diffs : Significant(diffs, k) /\ diffs[k].dbegin[1] > line}
           P(m) == m \in Next /\ \A k \in Next : m <= k
<1>1. NextSignificantDiffFromLine(diffs, line) = IF Next = {} THEN None ELSE Min(Next)
  BY DEF NextSignificantDiffFromLine
<1>2. CASE Next # {}
  <2>1. Next \in SUBSET Nat
    BY DEF Ordered
  <2>2. PICK m \in Next : \A k \in Next : m <= k
    <3> HIDE DEF Next
    <3> QED BY <2>1, <1>2, LeastOf
  <2>3. P(CHOOSE x : P(x))
    <3> HIDE DEF Next
    <3> QED BY <2>2, Zenon
  <2>4. Min(Next) = CHOOSE x : P(x)
    <3> HIDE DEF Next
    <3> QED BY Zenon DEF Min
  <2> QED BY <1>1, <1>2, <2>3, <2>4
<1> QED BY <1>1, <1>2


(* The differences that lines have a part of, and those wholly in them     *)
Touched(diffs, firstLine, lastLine) ==
    {k \in DOMAIN diffs : Significant(diffs, k) /\ \E l \in firstLine .. lastLine : Holds(diffs, k, l)}

Whole(diffs, firstLine, lastLine) ==
    {k \in DOMAIN diffs : Significant(diffs, k)
                            /\ firstLine <= diffs[k].dbegin[1] /\ diffs[k].dend[1] <= lastLine}

(* The first difference that the lines meet, or the next one               *)
LEMMA FirstIsNear ==
    ASSUME NEW diffs, Ordered(diffs), NEW line \in Int
    PROVE  LET at == LineToDiff(diffs, line)
               f == IF at = None THEN NextSignificantDiffFromLine(diffs, line) ELSE at
           IN  /\ f # None => f \in DOMAIN diffs /\ line <= diffs[f].dend[1]
               /\ \A k \in DOMAIN diffs : Significant(diffs, k) /\ line <= diffs[k].dbegin[1] =>
                     f # None /\ f <= k
<1> DEFINE at == LineToDiff(diffs, line)
           n == NextSignificantDiffFromLine(diffs, line)
           Next == {k \in DOMAIN diffs : Significant(diffs, k) /\ diffs[k].dbegin[1] > line}
<1>1. /\ DOMAIN diffs = 1 .. Len(diffs) /\ Len(diffs) \in Nat
      /\ \A k \in DOMAIN diffs : /\ diffs[k].dbegin[1] \in Int /\ diffs[k].dend[1] \in Int
                                 /\ diffs[k].dbegin[1] <= diffs[k].dend[1]
      /\ \A j, k \in DOMAIN diffs : j < k => diffs[j].dend[1] < diffs[k].dbegin[1]
  BY DEF Ordered
<1>2. CASE \E j \in DOMAIN diffs : Holds(diffs, j, line)
  <2>1. at \in DOMAIN diffs /\ Holds(diffs, at, line)
    BY <1>2, LineToDiffIsExact
  <2> HIDE DEF at
  <2>2. at # None /\ line <= diffs[at].dend[1] /\ diffs[at].dbegin[1] <= line
    BY <2>1, <1>1 DEF Holds, None
  <2>3. ASSUME NEW k \in DOMAIN diffs, line <= diffs[k].dbegin[1] PROVE at <= k
    <3> SUFFICES ASSUME k < at PROVE FALSE
      BY <2>1, <1>1
    <3>1. diffs[k].dend[1] < diffs[at].dbegin[1]
      BY <2>1, <1>1
    <3> QED BY <3>1, <2>1, <2>2, <2>3, <1>1
  <2> QED BY <2>1, <2>2, <2>3 DEF at
<1>3. CASE ~ \E j \in DOMAIN diffs : Holds(diffs, j, line)
  <2>1. at = None
    BY <1>3, LineToDiffIsExact
  <2>2. IF Next = {} THEN n = None ELSE n \in Next /\ \A k \in Next : n <= k
    BY NextIs
  <2> HIDE DEF at, n
  <2>3. n # None => n \in DOMAIN diffs /\ line <= diffs[n].dend[1]
    BY <2>2, <1>1
  <2>4. ASSUME NEW k \in DOMAIN diffs, Significant(diffs, k), line <= diffs[k].dbegin[1]
        PROVE  n # None /\ n <= k
    <3>1. line # diffs[k].dbegin[1]
      BY <1>1, <1>3 DEF Holds
    <3>2. k \in Next
      BY <3>1, <2>4, <1>1
    <3> QED BY <3>2, <2>2, <1>1 DEF None
  <2> QED BY <2>1, <2>3, <2>4 DEF at, n
<1> QED BY <1>2, <1>3

(* The last one, or the one before                                         *)
LEMMA LastIsNear ==
    ASSUME NEW diffs, Ordered(diffs), NEW line \in Int
    PROVE  LET at == LineToDiff(diffs, line)
               t == IF at = None THEN PrevSignificantDiffFromLine(diffs, line) ELSE at
           IN  /\ t # None => t \in DOMAIN diffs /\ diffs[t].dbegin[1] <= line
               /\ \A k \in DOMAIN diffs : Significant(diffs, k) /\ diffs[k].dend[1] <= line =>
                     t # None /\ k <= t
<1> DEFINE at == LineToDiff(diffs, line)
           p == PrevSignificantDiffFromLine(diffs, line)
           Prev == {k \in DOMAIN diffs : Significant(diffs, k) /\ diffs[k].dend[1] < line}
<1>1. /\ DOMAIN diffs = 1 .. Len(diffs) /\ Len(diffs) \in Nat
      /\ \A k \in DOMAIN diffs : /\ diffs[k].dbegin[1] \in Int /\ diffs[k].dend[1] \in Int
                                 /\ diffs[k].dbegin[1] <= diffs[k].dend[1]
      /\ \A j, k \in DOMAIN diffs : j < k => diffs[j].dend[1] < diffs[k].dbegin[1]
  BY DEF Ordered
<1>2. CASE \E j \in DOMAIN diffs : Holds(diffs, j, line)
  <2>1. at \in DOMAIN diffs /\ Holds(diffs, at, line)
    BY <1>2, LineToDiffIsExact
  <2> HIDE DEF at
  <2>2. at # None /\ line <= diffs[at].dend[1] /\ diffs[at].dbegin[1] <= line
    BY <2>1, <1>1 DEF Holds, None
  <2>3. ASSUME NEW k \in DOMAIN diffs, diffs[k].dend[1] <= line PROVE k <= at
    <3> SUFFICES ASSUME at < k PROVE FALSE
      BY <2>1, <1>1
    <3>1. diffs[at].dend[1] < diffs[k].dbegin[1]
      BY <2>1, <1>1
    <3> QED BY <3>1, <2>1, <2>2, <2>3, <1>1
  <2> QED BY <2>1, <2>2, <2>3 DEF at
<1>3. CASE ~ \E j \in DOMAIN diffs : Holds(diffs, j, line)
  <2>1. at = None
    BY <1>3, LineToDiffIsExact
  <2>2. IF Prev = {} THEN p = None ELSE p \in Prev /\ \A k \in Prev : k <= p
    BY PrevIs
  <2> HIDE DEF at, p
  <2>3. p # None => p \in DOMAIN diffs /\ diffs[p].dbegin[1] <= line
    BY <2>2, <1>1
  <2>4. ASSUME NEW k \in DOMAIN diffs, Significant(diffs, k), diffs[k].dend[1] <= line
        PROVE  p # None /\ k <= p
    <3>1. line # diffs[k].dend[1]
      BY <1>1, <1>3 DEF Holds
    <3>2. k \in Prev
      BY <3>1, <2>4, <1>1
    <3> QED BY <3>2, <2>2, <1>1 DEF None
  <2> QED BY <2>1, <2>3, <2>4 DEF at, p
<1> QED BY <1>2, <1>3

(* Of a selection of several lines the differences wholly in it are copied; *)
(* if there is none, one that the selection touches may be.                 *)
LEMMA ContextDiffIs ==
    ASSUME NEW diffs, Ordered(diffs), NEW firstLine \in Int, NEW lastLine \in Int,
           firstLine < lastLine
    PROVE  LET g == GetContextDiff(diffs, firstLine, lastLine)
               copied == {k \in DOMAIN diffs : k \in g.first .. g.last /\ Significant(diffs, k)}
               whole == Whole(diffs, firstLine, lastLine)
           IN  \/ copied = whole
               \/ whole = {} /\ \E k \in Touched(diffs, firstLine, lastLine) : copied = {k}
<1> DEFINE atFirst == LineToDiff(diffs, firstLine)
           atLast == LineToDiff(diffs, lastLine)
           f == IF atFirst = None THEN NextSignificantDiffFromLine(diffs, firstLine) ELSE atFirst
           t == IF atLast = None THEN PrevSignificantDiffFromLine(diffs, lastLine) ELSE atLast
           from == IF diffs[f].dbegin[1] < firstLine /\ f < t THEN f + 1 ELSE f
           to == IF diffs[t].dend[1] > lastLine /\ from < t THEN t - 1 ELSE t
           g == GetContextDiff(diffs, firstLine, lastLine)
           copied == {k \in DOMAIN diffs : k \in g.first .. g.last /\ Significant(diffs, k)}
           whole == Whole(diffs, firstLine, lastLine)
<1>1. /\ DOMAIN diffs = 1 .. Len(diffs) /\ Len(diffs) \in Nat
      /\ \A k \in DOMAIN diffs : /\ diffs[k].dbegin[1] \in Int /\ diffs[k].dend[1] \in Int
                                 /\ diffs[k].dbegin[1] <= diffs[k].dend[1]
      /\ \A j, k \in DOMAIN diffs : j < k => diffs[j].dend[1] < diffs[k].dbegin[1]
  BY DEF Ordered
<1>2. g = IF (\A k \in DOMAIN diffs : ~ Significant(diffs, k)) \/ f = None \/ t = None
          THEN [first |-> None, last |-> None]
          ELSE [first |-> from, last |-> to]
  BY DEF GetContextDiff
<1>3. /\ f # None => f \in DOMAIN diffs /\ firstLine <= diffs[f].dend[1]
      /\ \A k \in DOMAIN diffs : Significant(diffs, k) /\ firstLine <= diffs[k].dbegin[1] =>
            f # None /\ f <= k
  BY FirstIsNear
<1>4. /\ t # None => t \in DOMAIN diffs /\ diffs[t].dbegin[1] <= lastLine
      /\ \A k \in DOMAIN diffs : Significant(diffs, k) /\ diffs[k].dend[1] <= lastLine =>
            t # None /\ k <= t
  BY LastIsNear
<1> HIDE DEF f, t, g
<1>5. CASE (\A k \in DOMAIN diffs : ~ Significant(diffs, k)) \/ f = None \/ t = None
  <2>1. g.first = 0 /\ g.last = 0
    BY <1>2, <1>5 DEF None
  <2>2. copied = {}
    BY <2>1, <1>1
  <2>3. whole = {}
    BY <1>1, <1>3, <1>4, <1>5 DEF Whole
  <2> QED BY <2>2, <2>3 DEF g
<1>6. CASE ~ ((\A k \in DOMAIN diffs : ~ Significant(diffs, k)) \/ f = None \/ t = None)
  <2>0. /\ g.first = from /\ g.last = to
        /\ f \in DOMAIN diffs /\ t \in DOMAIN diffs
        /\ f \in 1 .. Len(diffs) /\ t \in 1 .. Len(diffs)
        /\ firstLine <= diffs[f].dend[1] /\ diffs[t].dbegin[1] <= lastLine
        /\ from \in {f, f + 1} /\ to \in {t, t - 1}
    BY <1>1, <1>2, <1>3, <1>4, <1>6
  <2>1. \A k \in copied : f <= k /\ k <= t /\ from <= k /\ k <= to
    BY <2>0, <1>1
  <2>2. \A k \in whole : k \in copied
    <3> SUFFICES ASSUME NEW k \in whole PROVE from <= k /\ k <= to
      BY <2>0, <1>1 DEF Whole
    <3>1. f <= k /\ k <= t /\ k \in 1 .. Len(diffs)
      BY <1>1, <1>3, <1>4 DEF Whole
    <3>2. firstLine <= diffs[k].dbegin[1] /\ diffs[k].dend[1] <= lastLine
      BY DEF Whole
    <3>3. from <= k
      BY <3>1, <3>2, <2>0, <1>1
    <3>4. k <= to
      BY <3>1, <3>2, <2>0, <1>1
    <3> QED BY <3>3, <3>4
  <2>3. ASSUME NEW k \in copied
        PROVE  firstLine <= diffs[k].dend[1] /\ diffs[k].dbegin[1] <= lastLine
    <3>1. k \in DOMAIN diffs /\ k \in 1 .. Len(diffs) /\ f <= k /\ k <= t
      BY <2>1, <1>1
    <3>2. k = f \/ f < k
      BY <3>1, <2>0
    <3>3. k = t \/ k < t
      BY <3>1, <2>0
    <3>4. firstLine <= diffs[k].dend[1]
      BY <3>1, <3>2, <2>0, <1>1
    <3>5. diffs[k].dbegin[1] <= lastLine
      <4>1. CASE k = t
        BY <4>1, <2>0
      <4>2. CASE k < t
        <5>1. diffs[k].dend[1] < diffs[t].dbegin[1]
          BY <4>2, <3>1, <2>0, <1>1
        <5> HIDE DEF copied, from, to
        <5> QED BY <5>1, <3>1, <2>0, <1>1
      <4> QED BY <4>1, <4>2, <3>3
    <3> QED BY <3>4, <3>5
  <2>4. \A k \in copied : k \in Touched(diffs, firstLine, lastLine)
    <3> SUFFICES ASSUME NEW k \in copied
                 PROVE  \E l \in firstLine .. lastLine : Holds(diffs, k, l)
      BY DEF Touched
    <3>1. CASE firstLine <= diffs[k].dbegin[1]
      BY <3>1, <2>3, <1>1 DEF Holds
    <3>2. CASE diffs[k].dbegin[1] < firstLine
      BY <3>2, <2>3, <1>1 DEF Holds
    <3> QED BY <3>1, <3>2, <1>1
  <2>5. ASSUME NEW k \in copied, k \notin whole
        PROVE  copied = {k}
    <3>1. \/ diffs[k].dbegin[1] < firstLine
          \/ lastLine < diffs[k].dend[1]
      BY <2>5, <1>1 DEF Whole
    <3>2. CASE diffs[k].dbegin[1] < firstLine
      <4>1. ~ (f < k)
        BY <3>2, <2>0, <1>1
      <4>2. k = f /\ f = from
        BY <4>1, <2>0, <2>1, <1>1
      <4>3. ~ (f < t)
        BY <4>2, <3>2, <2>0
      <4>4. f = t
        BY <4>2, <4>3, <2>0, <2>1, <1>1
      <4> QED BY <4>2, <4>4, <2>0, <2>1, <1>1
    <3>3. CASE lastLine < diffs[k].dend[1]
      <4>1. ~ (k < t)
        BY <3>3, <2>0, <1>1
      <4>2. k = t /\ to = t
        BY <4>1, <2>0, <2>1, <1>1
      <4>3. ~ (from < t)
        BY <4>2, <3>3, <2>0
      <4> QED BY <4>2, <4>3, <2>0, <2>1, <1>1
    <3> QED BY <3>1, <3>2, <3>3
  <2> HIDE DEF copied
  <2>6. CASE \A k \in copied : k \in whole
    BY <2>6, <2>2 DEF copied, g
  <2>7. CASE \E k \in copied : k \notin whole
    BY <2>7, <2>2, <2>4, <2>5 DEF copied, g
  <2> QED BY <2>6, <2>7
<1> QED BY <1>5, <1>6

(* What the copy commands copy, for any list of differences that lie one   *)
(* below the other, any current difference, any cursor and any selection:  *)
(* the difference that is current or at the cursor, if it is significant,  *)
(* nothing for a selection within one line, otherwise the differences that *)
(* lie wholly in the selected lines, and if there is none, at most one     *)
(* that the selection touches.                                             *)
THEOREM SelectedDiffsAreCopied ==
    ASSUME NEW diffs, Ordered(diffs), NEW nCurDiff \in 0 .. Len(diffs),
           NEW cursor \in Int, NEW firstLine \in Int, NEW lastLine \in Int
    PROVE  LET current == IF nCurDiff = None THEN {k \in DOMAIN diffs : Holds(diffs, k, cursor)}
                          ELSE {nCurDiff}
               significant == {k \in DOMAIN diffs : Significant(diffs, k)}
               copied == DiffsToCopy(diffs, nCurDiff, cursor, firstLine, lastLine)
               whole == Whole(diffs, firstLine, lastLine)
               touched == Touched(diffs, firstLine, lastLine)
           IN  IF current \intersect significant # {} THEN copied = current
               ELSE IF firstLine = lastLine THEN copied = {}
               ELSE copied = whole \/ (whole = {} /\ \E k \in touched : copied = {k})
<1> DEFINE at == IF nCurDiff = None THEN LineToDiff(diffs, cursor) ELSE nCurDiff
           current == IF nCurDiff = None THEN {k \in DOMAIN diffs : Holds(diffs, k, cursor)}
                      ELSE {nCurDiff}
           g == GetContextDiff(diffs, firstLine, lastLine)
           chosen == {k \in DOMAIN diffs : k \in g.first .. g.last /\ Significant(diffs, k)}
           copied == DiffsToCopy(diffs, nCurDiff, cursor, firstLine, lastLine)
<1>1. /\ DOMAIN diffs = 1 .. Len(diffs) /\ Len(diffs) \in Nat
      /\ \A k \in DOMAIN diffs : /\ diffs[k].dbegin[1] \in Int /\ diffs[k].dend[1] \in Int
                                 /\ diffs[k].dbegin[1] <= diffs[k].dend[1]
      /\ \A j, k \in DOMAIN diffs : j < k => diffs[j].dend[1] < diffs[k].dbegin[1]
  BY DEF Ordered
<1>2. /\ current \in SUBSET DOMAIN diffs
      /\ current = IF at = None THEN {} ELSE {at}
  <2>1. CASE nCurDiff # None
    BY <2>1, <1>1 DEF None
  <2>2. CASE nCurDiff = None
    <3>1. LET k == LineToDiff(diffs, cursor)
          IN  IF \E j \in DOMAIN diffs : Holds(diffs, j, cursor)
              THEN k \in DOMAIN diffs /\ Holds(diffs, k, cursor)
              ELSE k = None
      BY LineToDiffIsExact
    <3>2. \A j, k \in DOMAIN diffs : Holds(diffs, j, cursor) /\ Holds(diffs, k, cursor) => j = k
      <4> SUFFICES ASSUME NEW j \in DOMAIN diffs, NEW k \in DOMAIN diffs,
                          Holds(diffs, j, cursor), Holds(diffs, k, cursor)
                   PROVE  j = k
        OBVIOUS
      <4>1. ~ (j < k) /\ ~ (k < j)
        BY <1>1 DEF Holds
      <4>2. j \in Int /\ k \in Int
        BY <1>1
      <4> QED BY <4>1, <4>2
    <3>3. \A k \in DOMAIN diffs : k # None
      BY <1>1 DEF None
    <3> HIDE <1>1
    <3> QED BY <3>1, <3>2, <3>3, <2>2
  <2> QED BY <2>1, <2>2
<1>3. copied = IF at # None /\ Significant(diffs, at) THEN {at} ELSE chosen
  BY DEF DiffsToCopy
<1>4. \/ firstLine = lastLine \/ lastLine < firstLine => g.first = None /\ g.last = None
  BY DEF GetContextDiff
<1>5. firstLine = lastLine \/ lastLine < firstLine => chosen = {}
  <2> HIDE DEF g
  <2> QED BY <1>1, <1>4 DEF None
<1>6. lastLine < firstLine => Whole(diffs, firstLine, lastLine) = {}
  BY <1>1 DEF Whole
<1>7. firstLine < lastLine =>
         \/ chosen = Whole(diffs, firstLine, lastLine)
         \/ /\ Whole(diffs, firstLine, lastLine) = {}
            /\ \E k \in Touched(diffs, firstLine, lastLine) : chosen = {k}
  BY ContextDiffIs
<1>8. current \intersect {k \in DOMAIN diffs : Significant(diffs, k)} # {}
         <=> at # None /\ Significant(diffs, at)
  BY <1>2
<1> HIDE DEF at, current, chosen, copied
<1>9. CASE at # None /\ Significant(diffs, at)
  BY <1>2, <1>3, <1>8, <1>9 DEF current, copied
<1>10. CASE ~ (at # None /\ Significant(diffs, at))
  BY <1>3, <1>5, <1>6, <1>7, <1>8, <1>10 DEF current, copied
<1> QED BY <1>9, <1>10
=============================================================================
