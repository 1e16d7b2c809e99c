-------------------------- MODULE FolderScan_proofs --------------------------
(***************************************************************************)
(* Proofs about FolderScan, for every pool of threads and every tree.      *)
(***************************************************************************)
EXTENDS FolderScan, FiniteSetTheorems, TLAPS

(* The shape AddDiff and the collector's recursion give the item tree.     *)
TreeOK ==
    /\ \A i \in Linked : items[i].above \subseteq 1 .. i - 1
    /\ \A i \in Linked : /\ items[i].parent \in items[i].above \union {0}
                         /\ \A a \in items[i].above : a <= items[i].parent
    /\ \A i \in Linked : \A a \in items[i].above :
          items[a].above = { k \in items[i].above : k < a }
    /\ \A i \in Linked : i + 1 \in Linked =>
          items[i + 1].above = { a \in Chain(i) : a <= items[i + 1].parent }
    /\ \A i, j, m \in Linked :
          i \in items[j].above /\ i < m /\ m < j => i \in items[m].above
    /\ \A i \in Linked : \A p \in items[i].above \union {0} :
          \E r \in Chain(i) : items[r].parent = p

(* A set of numbers with a known smallest member: the choice is that one.  *)
LEMMA FirstIs ==
    ASSUME NEW S \in SUBSET Nat, NEW i \in S, \A j \in S : i <= j
    PROVE  First(S) = i
<1> DEFINE P(k) == k \in S /\ \A j \in S : k <= j
<1>1. P(i)
  OBVIOUS
<1>2. \A k : P(k) => k = i
  OBVIOUS
<1>3. P(CHOOSE k : P(k))
  BY <1>1, Zenon
<1>4. (CHOOSE k : P(k)) = i
  BY <1>2, <1>3
<1>5. First(S) = CHOOSE k : P(k)
  BY Zenon DEF First
<1> QED BY <1>4, <1>5

LEMMA NearestIs ==
    ASSUME NEW S \in SUBSET Nat, NEW i \in S, \A j \in S : j <= i
    PROVE  Nearest(S) = i
<1> DEFINE P(k) == k \in S /\ \A j \in S : j <= k
<1>1. P(i)
  OBVIOUS
<1>2. \A k : P(k) => k = i
  OBVIOUS
<1>3. P(CHOOSE k : P(k))
  BY <1>1, Zenon
<1>4. (CHOOSE k : P(k)) = i
  BY <1>2, <1>3
<1>5. Nearest(S) = CHOOSE k : P(k)
  BY Zenon DEF Nearest
<1> QED BY <1>4, <1>5

(* The walk of GetNextDiff meets the items in the order they were added.   *)
LEMMA WalkOrder ==
    ASSUME items \in Seq(ItemType), TreeOK, NEW c \in 0 .. Len(items)
    PROVE  GetNextDiff(c) = IF c < Len(items) THEN c + 1 ELSE 0
<1> DEFINE n == Len(items)
<1>0. /\ n \in Nat
      /\ Linked = 1 .. n
      /\ \A i \in Linked : items[i].parent \in Nat /\ items[i].above \in SUBSET Nat
  <2>1. n \in Nat /\ Linked = 1 .. n
    BY DEF Linked
  <2>2. \A i \in 1 .. n : items[i] \in ItemType
    OBVIOUS
  <2> QED BY <2>1, <2>2 DEF ItemType
<1>1. \A q, j, k \in Linked : k \in Chain(q) /\ q <= k => k = q
  BY <1>0 DEF TreeOK, Chain
(* No later sibling of a node on c's chain has been linked up to c.        *)
<1>2. \A q, j \in Linked :
         c # 0 /\ q \in Chain(c) /\ j \in LaterSiblings(q) => j > c
  <2> SUFFICES ASSUME NEW q \in Linked, NEW j \in Linked, c # 0, q \in Chain(c),
                      j \in LaterSiblings(q), j <= c
               PROVE  FALSE
    BY <1>0
  <2>1. c \in Linked /\ q < j /\ items[j].parent = items[q].parent
    BY <1>0 DEF LaterSiblings, Children
  <2>2. q < c /\ q \in items[c].above
    BY <2>1, <1>0 DEF Chain
  <2>3. q \in items[j].above
    BY <2>1, <2>2, <1>0 DEF TreeOK
  <2>4. q <= items[j].parent
    BY <2>3 DEF TreeOK
  <2>5. items[q].parent < q
    BY <1>0 DEF TreeOK
  <2> QED BY <2>1, <2>4, <2>5, <1>0
<1>3. CASE c = n
  <2>1. Children(c) = {}  \/ c = 0
    BY <1>0, <1>3 DEF Children, TreeOK
  <2>2. CASE c = 0
    BY <2>2, <1>3, <1>0 DEF GetNextDiff, Children
  <2>3. CASE c # 0
    <3>1. Chain(c) \subseteq Linked
      BY <2>3, <1>0 DEF Chain, TreeOK
    <3>2. \A q \in Chain(c) : LaterSiblings(q) = {}
      BY <3>1, <1>2, <1>3, <2>3, <1>0 DEF LaterSiblings, Children
    <3> QED BY <3>2, <2>1, <2>3, <1>3 DEF GetNextDiff
  <2> QED BY <2>2, <2>3
<1>4. CASE c < n
  <2> DEFINE p == items[c + 1].parent
  <2>0. c + 1 \in Linked /\ p \in Nat
    BY <1>4, <1>0
  <2>1. CASE p = c
    <3>1. c + 1 \in Children(c)
      BY <2>0, <2>1 DEF Children
    <3>2. \A j \in Children(c) : c + 1 <= j
      BY <1>0 DEF Children, TreeOK
    <3>3. First(Children(c)) = c + 1
      BY <3>1, <3>2, <1>0, FirstIs DEF Children
    <3> QED BY <3>1, <3>3, <1>4 DEF GetNextDiff
  <2>2. CASE p # c
    <3>1. c # 0
      BY <2>0, <2>2, <1>0 DEF TreeOK
    <3>2. c \in Linked /\ Chain(c) \subseteq Linked
      BY <3>1, <1>4, <1>0 DEF Chain, TreeOK
    <3>3. /\ items[c + 1].above = { a \in Chain(c) : a <= p }
          /\ p \in items[c].above \union {0}
      BY <3>2, <2>0, <2>2, <1>0 DEF TreeOK, Chain
    <3>4. p < c
      BY <3>3, <3>2, <2>2, <1>0 DEF TreeOK
    <3>5. Children(c) = {}
      <4> SUFFICES ASSUME NEW j \in Linked, items[j].parent = c
                   PROVE  FALSE
        BY DEF Children
      <4>1. c \in items[j].above /\ c < j
        BY <3>1, <1>0 DEF TreeOK
      <4>2. c + 1 < j
        BY <4>1, <2>2, <1>0
      <4>3. c \in items[c + 1].above
        BY <4>1, <4>2, <3>2, <2>0, <1>0 DEF TreeOK
      <4> QED BY <4>3, <3>3, <3>4, <2>0, <1>0
    <3>6. PICK r \in Chain(c) : items[r].parent = p
      BY <3>2, <3>3 DEF TreeOK
    <3>7. r \in Linked /\ r <= c
      BY <3>2, <3>6, <1>0 DEF Chain, TreeOK
    <3>8. c + 1 \in LaterSiblings(r)
      BY <3>6, <3>7, <2>0, <1>0 DEF LaterSiblings, Children
    <3>9. \A q \in Chain(c) : LaterSiblings(q) # {} => q <= r
      <4> SUFFICES ASSUME NEW q \in Chain(c), r < q, NEW j \in LaterSiblings(q)
                   PROVE  FALSE
        BY <3>2, <3>7, <1>0
      <4>1. q \in Linked /\ j \in Linked /\ j > c /\ items[j].parent = items[q].parent
        BY <3>1, <3>2, <1>2 DEF LaterSiblings, Children
      <4>2. r \in items[q].above
        BY <3>2, <3>6, <3>7, <4>1, <1>0 DEF Chain, TreeOK
      <4>3. r <= items[q].parent /\ items[q].parent < q /\ q <= c
        BY <4>1, <4>2, <3>2, <1>0 DEF TreeOK, Chain
      <4>4. items[j].parent \in items[j].above /\ items[j].parent # 0
        BY <4>1, <4>3, <3>7, <1>0 DEF TreeOK
      <4>5. p < r
        BY <3>6, <3>7, <1>0 DEF TreeOK
      <4>6. j # c + 1
        BY <4>1, <4>3, <4>5, <2>0, <3>7, <1>0
      <4>7. items[j].parent \in Linked /\ items[j].parent < c + 1 /\ c + 1 < j
        BY <4>1, <4>3, <4>4, <4>6, <2>0, <3>7, <3>2, <1>0 DEF TreeOK
      <4>8. items[j].parent \in items[c + 1].above
        BY <4>1, <4>4, <4>7, <2>0 DEF TreeOK
      <4> QED BY <4>8, <3>3, <4>1, <4>3, <4>5, <3>7, <2>0, <1>0
    <3> DEFINE climb == { q \in Chain(c) : LaterSiblings(q) # {} }
    <3>10. r \in climb /\ climb \in SUBSET Nat
      BY <3>2, <3>6, <3>8, <1>0
    <3>11. Nearest(climb) = r
      BY <3>9, <3>10, NearestIs
    <3>12. First(LaterSiblings(r)) = c + 1
      <4>1. \A j \in LaterSiblings(r) : c + 1 <= j
        BY <1>2, <3>1, <3>6, <3>7, <1>0 DEF LaterSiblings, Children
      <4>2. LaterSiblings(r) \in SUBSET Nat
        BY <1>0 DEF LaterSiblings, Children
      <4> QED BY <3>8, <4>1, <4>2, FirstIs
    <3> QED BY <3>1, <3>5, <3>10, <3>11, <3>12, <1>4 DEF GetNextDiff
  <2> QED BY <2>1, <2>2
<1> QED BY <1>3, <1>4, <1>0

(* Linking an item below the last one, an ancestor of it, or the root      *)
(* keeps the tree in shape.                                                *)
LEMMA LinkKeepsTree ==
    ASSUME items \in Seq(ItemType), TreeOK, CollectLink
    PROVE  /\ items' \in Seq(ItemType)
           /\ Len(items') = Len(items) + 1
           /\ TreeOK'
<1> DEFINE n    == Len(items)
           path == IF n = 0 THEN {} ELSE Chain(n)
<1>1. PICK parent \in path \union {0} :
         items' = Append(items, [parent |-> parent, above |-> { a \in path : a <= parent }])
  BY DEF CollectLink
<1> DEFINE new == [parent |-> parent, above |-> { a \in path : a <= parent }]
<1>2. /\ n \in Nat
      /\ Linked = 1 .. n
      /\ \A i \in 1 .. n : items[i].parent \in Nat /\ items[i].above \in SUBSET Nat
  <2>1. n \in Nat /\ Linked = 1 .. n
    BY DEF Linked
  <2>2. \A i \in 1 .. n : items[i] \in ItemType
    OBVIOUS
  <2> QED BY <2>1, <2>2 DEF ItemType
<1>3. path \subseteq 1 .. n
  BY <1>2 DEF Chain, TreeOK
<1>4. new \in ItemType /\ parent \in Nat /\ parent <= n
  BY <1>2, <1>3 DEF ItemType
<1>5. /\ items' \in Seq(ItemType)
      /\ Len(items') = n + 1
      /\ \A i \in 1 .. n : items'[i] = items[i]
      /\ items'[n + 1] = new
  BY <1>1, <1>2, <1>4
<1>6. Linked' = 1 .. n + 1
  BY <1>5 DEF Linked
<1> DEFINE above == { a \in path : a <= parent }
<1>7. above \subseteq 1 .. n /\ (parent # 0 => parent \in above) /\ \A a \in above : a <= parent
  BY <1>3, <1>4, <1>2
<1>8. items'[n + 1].above = above /\ items'[n + 1].parent = parent
  BY <1>5
<1>9. \A a \in path : items[a].above = { k \in path : k < a }
  BY <1>2, <1>3 DEF Chain, TreeOK
<1>a. TreeOK'
  <2>1. \A i \in Linked' : items'[i].above \subseteq 1 .. i - 1
    BY <1>2, <1>5, <1>6, <1>7, <1>8 DEF TreeOK
  <2>2. \A i \in Linked' : /\ items'[i].parent \in items'[i].above \union {0}
                           /\ \A a \in items'[i].above : a <= items'[i].parent
    BY <1>2, <1>5, <1>6, <1>7, <1>8 DEF TreeOK
  <2>3. \A i \in Linked' : \A a \in items'[i].above :
            items'[a].above = { k \in items'[i].above : k < a }
    <3> SUFFICES ASSUME NEW i \in Linked', NEW a \in items'[i].above
                 PROVE  items'[a].above = { k \in items'[i].above : k < a }
      OBVIOUS
    <3>1. CASE i \in 1 .. n
      <4>1. a \in 1 .. n
        BY <3>1, <1>2, <1>5 DEF TreeOK
      <4> QED BY <3>1, <4>1, <1>2, <1>5 DEF TreeOK
    <3>2. CASE i = n + 1
      <4>1. a \in above
        BY <3>2, <1>8
      <4>2. a \in path /\ a \in 1 .. n /\ a <= parent
        BY <4>1, <1>7
      <4>3. items'[a].above = { k \in path : k < a }
        BY <4>2, <1>5, <1>9
      <4>4. { k \in path : k < a } = { k \in above : k < a }
        BY <4>2, <1>3, <1>4
      <4> QED BY <4>3, <4>4, <3>2, <1>8
    <3> QED BY <3>1, <3>2, <1>6, <1>2
  <2>4. \A i \in Linked' : i + 1 \in Linked' =>
            items'[i + 1].above = { a \in Chain(i)' : a <= items'[i + 1].parent }
    <3> SUFFICES ASSUME NEW i \in Linked', i + 1 \in Linked'
                 PROVE  items'[i + 1].above = { a \in Chain(i)' : a <= items'[i + 1].parent }
      OBVIOUS
    <3>1. i \in 1 .. n /\ Chain(i)' = Chain(i)
      BY <1>2, <1>5, <1>6 DEF Chain
    <3>2. CASE i + 1 \in 1 .. n
      BY <3>1, <3>2, <1>2, <1>5 DEF TreeOK
    <3>3. CASE i = n
      BY <3>1, <3>3, <1>2, <1>8
    <3> QED BY <3>1, <3>2, <3>3, <1>2
  <2>5. \A i, j, m \in Linked' :
            i \in items'[j].above /\ i < m /\ m < j => i \in items'[m].above
    <3> SUFFICES ASSUME NEW i \in Linked', NEW j \in Linked', NEW m \in Linked',
                        i \in items'[j].above, i < m, m < j
                 PROVE  i \in items'[m].above
      OBVIOUS
    <3>1. i \in 1 .. n /\ m \in 1 .. n
      BY <1>2, <1>6
    <3>2. CASE j \in 1 .. n
      BY <3>1, <3>2, <1>2, <1>5 DEF TreeOK
    <3>3. CASE j = n + 1
      <4>1. i \in Chain(n) /\ i # n
        BY <3>1, <3>3, <1>2, <1>8
      <4>2. i \in items[n].above
        BY <4>1 DEF Chain
      <4>3. CASE m = n
        BY <4>2, <4>3, <3>1, <1>5
      <4>4. CASE m # n
        <5>1. n \in 1 .. n /\ m < n
          BY <4>4, <3>1, <1>2
        <5>2. i \in items[m].above
          BY <4>2, <5>1, <3>1, <1>2 DEF TreeOK
        <5> QED BY <5>2, <3>1, <1>5
      <4> QED BY <4>3, <4>4
    <3>4. j \in 1 .. n \/ j = n + 1
      BY <1>2, <1>6, SMTT(30)
    <3> QED BY <3>2, <3>3, <3>4
  <2>6. \A i \in Linked' : \A p \in items'[i].above \union {0} :
            \E r \in Chain(i)' : items'[r].parent = p
    <3> SUFFICES ASSUME NEW i \in Linked', NEW p \in items'[i].above \union {0}
                 PROVE  \E r \in Chain(i)' : items'[r].parent = p
      OBVIOUS
    <3>1. CASE i \in 1 .. n
      <4>1. PICK r \in Chain(i) : items[r].parent = p
        BY <3>1, <1>2, <1>5 DEF TreeOK
      <4>2. r \in 1 .. n
        BY <4>1, <3>1, <1>2 DEF Chain, TreeOK
      <4> QED BY <4>1, <4>2, <3>1, <1>5 DEF Chain
    <3>2. CASE i = n + 1 /\ p = parent
      BY <3>2, <1>8 DEF Chain
    <3>3. CASE i = n + 1 /\ p # parent
      <4>1. parent # 0 /\ parent \in above /\ parent \in path /\ parent \in 1 .. n
        BY <3>3, <1>3, <1>7, <1>8
      <4>2. items[parent].above = { k \in path : k < parent }
        BY <4>1, <1>9
      <4>3. p \in items[parent].above \union {0}
        BY <4>2, <3>3, <1>8, <1>7, <1>3, <1>4
      <4>4. PICK r \in Chain(parent) : items[r].parent = p
        BY <4>1, <4>3, <1>2 DEF TreeOK
      <4>5. r \in above /\ r \in 1 .. n
        BY <4>1, <4>2, <4>4, <1>3, <1>4 DEF Chain
      <4> QED BY <4>4, <4>5, <3>3, <1>5, <1>8 DEF Chain
    <3> QED BY <3>1, <3>2, <3>3, <1>6, <1>2
  <2> QED BY <2>1, <2>2, <2>3, <2>4, <2>5, <2>6 DEF TreeOK
<1> QED BY <1>5, <1>a

-----------------------------------------------------------------------------
(* TypeOK is not inductive: a thread that holds an item must hold one the  *)
(* cursor has passed, and the tree must have the shape WalkOrder needs.    *)
TypeInv ==
    /\ TypeOK
    /\ TreeOK
    /\ \A t \in Threads : Holding(t) => item[t] \in 1 .. cursor
    /\ colPc = "assign" => Len(items) > 0

LEMMA TypeInvInit == Init => TypeInv
<1> SUFFICES ASSUME Init PROVE TypeInv
  OBVIOUS
<1>1. items = << >> /\ items \in Seq(ItemType) /\ Len(items) = 0
  BY DEF Init
<1>2. Linked = {}
  BY <1>1 DEF Linked
<1>3. nCompareThreads \in Int
  BY ThreadsAssumption, FS_CardinalityType DEF Init
<1>4. TypeOK
  <2>1. item \in [Threads -> 0 .. Len(items)] /\ cursor \in 0 .. Len(items)
    BY <1>1 DEF Init
  <2>2. pc \in [Threads -> ThreadPc]
    BY DEF Init, ThreadPc
  <2> QED BY <1>1, <1>2, <1>3, <2>1, <2>2 DEF Init, TypeOK
<1>5. TreeOK
  BY <1>2 DEF TreeOK
<1> QED BY <1>4, <1>5 DEF Init, TypeInv, Holding

LEMMA TypeInvStep == TypeInv /\ [Next]_vars => TypeInv'
<1> SUFFICES ASSUME TypeInv, [Next]_vars PROVE TypeInv'
  OBVIOUS
<1> USE DEF TypeInv
<1>0. Len(items) \in Nat /\ Linked = 1 .. Len(items)
  BY DEF TypeOK, Linked
<1>1. CASE UNCHANGED items
  <2>1. TreeOK'
    BY <1>1 DEF TreeOK, Linked, Chain
  <2>2. Linked' = Linked /\ Len(items') = Len(items)
    BY <1>1 DEF Linked
  <2>a. CASE StartCollector
    BY <2>1, <2>2, <2>a DEF StartCollector, TypeOK, Holding, tree, pool, stats, user
  <2>b. CASE \E t \in Threads : StartCompareThread(t)
    <3> PICK t \in Threads : StartCompareThread(t)
      BY <2>b
    <3>1. /\ pc' \in [Threads -> ThreadPc]
          /\ \A u \in Threads : Holding(u)' => Holding(u)
      BY DEF StartCompareThread, TypeOK, Holding, ThreadPc
    <3>2. nCompareThreads' \in Int
      BY DEF StartCompareThread, TypeOK
    <3> QED BY <2>1, <2>2, <3>1, <3>2
            DEF StartCompareThread, TypeOK, Holding, tree, stats, user
  <2>c. CASE UpdateUI
    BY <2>1, <2>2, <2>c DEF UpdateUI, TypeOK, Holding, tree, pool, stats
  <2>d. CASE Cancel
    BY <2>1, <2>2, <2>d DEF Cancel, TypeOK, Holding, tree, pool, stats
  <2>e. CASE PauseContinue
    BY <2>1, <2>2, <2>e DEF PauseContinue, TypeOK, Holding, tree, pool, stats
  <2>f. CASE CollectCheck
    BY <2>1, <2>2, <2>f DEF CollectCheck, TypeOK, Holding, tree, pool, stats, user
  <2>g. CASE CollectAssign
    <3>1. Len(items) \in Linked
      BY <2>g, <1>0 DEF CollectAssign
    <3> QED BY <2>1, <2>2, <3>1, <2>g DEF CollectAssign, TypeOK, Holding, pool, user
  <2>h. CASE CollectRelease
    BY <2>1, <2>2, <2>h DEF CollectRelease, ReleaseSemaphore, TypeOK, Holding, tree, stats, user
  <2>i. CASE CollectFinish
    <3>1. tokens' \in Nat
      BY <2>i DEF CollectFinish, ReleaseSemaphore, TypeOK
    <3> QED BY <2>1, <2>2, <2>i, <3>1
            DEF CollectFinish, TypeOK, Holding, tree, stats, user
  <2>j. CASE \E t \in Threads : Wait(t)
    BY <2>1, <2>2, <2>j DEF Wait, TypeOK, ThreadPc, Holding, tree, stats, user
  <2>k. CASE \E t \in Threads : Pick(t)
    <3> PICK t \in Threads : Pick(t)
      BY <2>k
    <3> DEFINE p == GetNextDiff(cursor)
    <3>1. p = IF cursor < Len(items) THEN cursor + 1 ELSE 0
      BY WalkOrder DEF TypeOK
    <3>2. cursor \in 0 .. Len(items) /\ p \in 0 .. Len(items)
      BY <3>1, <1>0 DEF TypeOK
    <3>3. item' = [item EXCEPT ![t] = p] /\ item' \in [Threads -> 0 .. Len(items)]
      BY <3>2 DEF Pick, TypeOK
    <3>4. pc' \in [Threads -> ThreadPc]
      BY DEF Pick, TypeOK, ThreadPc
    <3>5. cursor' \in 0 .. Len(items) /\ cursor <= cursor'
      BY <3>1, <3>2, <1>0 DEF Pick
    <3>6. \A u \in Threads : Holding(u)' => item'[u] \in 1 .. cursor'
      <4> SUFFICES ASSUME NEW u \in Threads, Holding(u)'
                   PROVE  item'[u] \in 1 .. cursor'
        OBVIOUS
      <4>1. CASE u = t
        <5>1. p # 0
          BY <4>1 DEF Holding, Pick, TypeOK
        <5>2. cursor' = p /\ item'[u] = p
          BY <4>1, <5>1, <3>3 DEF Pick, TypeOK
        <5> QED BY <5>1, <5>2, <3>2, <1>0
      <4>2. CASE u # t
        <5>1. Holding(u) /\ item'[u] = item[u]
          BY <4>2, <3>3 DEF Holding, Pick, TypeOK
        <5> QED BY <5>1, <3>5, <1>0 DEF TypeOK
      <4> QED BY <4>1, <4>2
    <3> QED BY <2>1, <2>2, <3>3, <3>4, <3>5, <3>6 DEF Pick, TypeOK, tree, stats, user
  <2>l. CASE \E t \in Threads : Check(t)
    BY <2>1, <2>2, <2>l DEF Check, TypeOK, ThreadPc, Holding, tree, stats, user
  <2>m. CASE \E t \in Threads : Compare(t)
    <3> PICK t \in Threads : Compare(t)
      BY <2>m
    <3>1. item[t] \in Linked
      BY <1>0 DEF Compare, Holding, TypeOK
    <3> QED BY <2>1, <2>2, <3>1 DEF Compare, TypeOK, ThreadPc, Holding, tree, user
  <2>n. CASE \E t \in Threads : Store(t)
    BY <2>1, <2>2, <2>n, <1>0 DEF Store, TypeOK, ThreadPc, Holding, tree, user
  <2>o. CASE \E t \in Threads : Leave(t)
    BY <2>1, <2>2, <2>o, <1>0 DEF Leave, TypeOK, ThreadPc, Holding, tree, stats, user
  <2>p. CASE \E t \in Threads : Close(t)
    <3> PICK t \in Threads : Close(t)
      BY <2>p
    <3>1. pc' \in [Threads -> ThreadPc] /\ \A u \in Threads : Holding(u)' => Holding(u)
      BY DEF Close, TypeOK, ThreadPc, Holding
    <3> QED BY <2>1, <2>2, <3>1 DEF Close, TypeOK, Holding, tree, stats, user
  <2>q. CASE \E t \in Threads : Delete(t)
    BY <2>1, <2>2, <2>q, ZenonT(40) DEF Delete, TypeOK, ThreadPc, Holding, tree, stats, user
  <2>r. CASE \E t \in Threads : Post(t)
    BY <2>1, <2>2, <2>r DEF Post, TypeOK, ThreadPc, Holding, tree, stats
  <2>s. CASE CollectLink
    BY <2>s, <1>1, <1>0, LinkKeepsTree DEF TypeOK
  <2>t. CASE UNCHANGED vars
    BY <2>1, <2>2, <2>t DEF vars, TypeOK, Holding, tree, pool, stats, user
  <2> QED BY <2>a, <2>b, <2>c, <2>d, <2>e, <2>f, <2>g, <2>h, <2>i, <2>j, <2>k, <2>l,
             <2>m, <2>n, <2>o, <2>p, <2>q, <2>r, <2>s, <2>t
          DEF Next, UIThread, Collector, CompareThread
<1>2. CASE CollectLink
  <2>1. items' \in Seq(ItemType) /\ Len(items') = Len(items) + 1 /\ TreeOK'
    BY <1>2, LinkKeepsTree DEF TypeOK
  <2>2. Linked' = 1 .. Len(items) + 1
    BY <2>1 DEF Linked
  <2>3. UNCHANGED <<ready, pool, stats, user>> /\ colPc' = "assign"
    BY <1>2 DEF CollectLink
  <2>4. item' \in [Threads -> 0 .. Len(items')]
    BY <2>1, <2>3, <1>0 DEF pool, TypeOK
  <2> QED BY <1>0, <2>1, <2>2, <2>3, <2>4 DEF TypeOK, Holding, pool, stats, user
<1>3. UNCHANGED items \/ CollectLink
  BY DEF Next, UIThread, Collector, CompareThread, StartCollector, StartCompareThread,
         UpdateUI, Cancel, PauseContinue, CollectCheck, CollectAssign, CollectRelease,
         CollectFinish, Wait, Pick, Check, Compare, Store, Leave, Close, Delete, Post, vars, tree
<1> QED BY <1>1, <1>2, <1>3

(* TypeOK holds of every scan: all state stays in its type and the cursor, *)
(* the items in hand and the compared items stay within the tree.          *)
THEOREM TypeCorrect == Spec => []TypeOK
<1>1. Spec => []TypeInv
  BY TypeInvInit, TypeInvStep, PTL DEF Spec
<1>2. TypeInv => TypeOK
  BY DEF TypeInv
<1> QED BY <1>1, <1>2, PTL

-----------------------------------------------------------------------------
(* Counting threads by the place they are at.                              *)
At(p) == { t \in Threads : pc[t] = p }

LEMMA AtFinite ==
    ASSUME NEW p
    PROVE  IsFiniteSet(At(p)) /\ Cardinality(At(p)) \in Nat
<1>1. At(p) \in SUBSET Threads
  BY DEF At
<1>2. IsFiniteSet(At(p))
  BY <1>1, ThreadsAssumption, FS_Subset
<1> QED BY <1>2, FS_CardinalityType

LEMMA AtStays ==
    ASSUME NEW p, NEW q, NEW t \in Threads, TypeOK, pc[t] # p, q # p,
           pc' = [pc EXCEPT ![t] = q]
    PROVE  At(p)' = At(p)
  BY DEF At, TypeOK

LEMMA AtEnter ==
    ASSUME NEW p, NEW t \in Threads, TypeOK, pc[t] # p, pc' = [pc EXCEPT ![t] = p]
    PROVE  Cardinality(At(p)') = Cardinality(At(p)) + 1
<1>1. At(p)' = At(p) \union {t} /\ t \notin At(p)
  BY DEF At, TypeOK
<1> QED BY <1>1, AtFinite, FS_AddElement

LEMMA AtExit ==
    ASSUME NEW p, NEW q, NEW t \in Threads, TypeOK, pc[t] = p, q # p,
           pc' = [pc EXCEPT ![t] = q]
    PROVE  Cardinality(At(p)') = Cardinality(At(p)) - 1 /\ Cardinality(At(p)) > 0
<1>1. At(p)' = At(p) \ {t} /\ t \in At(p)
  BY DEF At, TypeOK
<1>2. Cardinality(At(p)') = Cardinality(At(p)) - 1
  BY <1>1, AtFinite, FS_RemoveElement
<1>3. Cardinality(At(p)) # 0
  BY <1>1, AtFinite, FS_EmptySet
<1> QED BY <1>2, <1>3, AtFinite

(* A token stands for one complete item the cursor has not reached, until  *)
(* the collector has finished and every item is complete.                  *)
Unfinished == IF colPc \in {"assign", "release"} THEN 1 ELSE 0

TokenInv ==
    /\ ready = 1 .. Len(items) - (IF colPc = "assign" THEN 1 ELSE 0)
    /\ colPc = "release" => Len(items) > 0
    /\ colPc # "done" =>
          cursor + tokens + Cardinality(At("pick")) <= Len(items) - Unfinished

LEMMA TokenInvInit == Init => TokenInv
<1> SUFFICES ASSUME Init PROVE TokenInv
  OBVIOUS
<1>1. At("pick") = {} /\ Len(items) = 0
  BY DEF Init, At
<1>2. Cardinality(At("pick")) = 0
  BY <1>1, FS_EmptySet
<1> QED BY <1>1, <1>2 DEF Init, TokenInv, Unfinished

LEMMA TokenInvStep == TypeInv /\ TokenInv /\ [Next]_vars => TokenInv'
<1> SUFFICES ASSUME TypeInv, TokenInv, [Next]_vars PROVE TokenInv'
  OBVIOUS
<1>0. /\ Len(items) \in Nat /\ tokens \in Nat /\ cursor \in 0 .. Len(items)
      /\ pc \in [Threads -> ThreadPc] /\ items \in Seq(ItemType) /\ TreeOK /\ TypeOK
      /\ Cardinality(At("pick")) \in Nat
  BY AtFinite DEF TypeInv, TypeOK
<1> USE DEF TokenInv, Unfinished
<1>1. CASE UIThread \/ Cancel \/ PauseContinue
  <2>1. UNCHANGED <<items, ready, cursor, tokens>>
    BY <1>1 DEF UIThread, StartCollector, StartCompareThread, UpdateUI, Cancel, PauseContinue,
                tree, pool
  <2>2. At("pick")' = At("pick")
    BY <1>1, <1>0, AtStays DEF UIThread, StartCollector, StartCompareThread, UpdateUI, Cancel,
       PauseContinue, pool, At
  <2>3. \/ colPc' = colPc
        \/ colPc = "new" /\ colPc' \in {"walk", "failed"}
    BY <1>1 DEF UIThread, StartCollector, StartCompareThread, UpdateUI, Cancel, PauseContinue
  <2> QED BY <2>1, <2>2, <2>3
<1>2. CASE CollectCheck
  BY <1>2, <1>0 DEF CollectCheck, tree, pool, At
<1>3. CASE CollectLink
  <2>1. Len(items') = Len(items) + 1
    BY <1>3, <1>0, LinkKeepsTree
  <2> QED BY <1>3, <1>0, <2>1 DEF CollectLink, pool, At
<1>4. CASE CollectAssign
  <2>1. Len(items) > 0
    BY <1>4 DEF CollectAssign, TypeInv
  <2>2. ready' = 1 .. Len(items)
    BY <1>4, <1>0, <2>1 DEF CollectAssign
  <2> QED BY <1>4, <1>0, <2>1, <2>2 DEF CollectAssign, pool, At
<1>5. CASE CollectRelease
  BY <1>5, <1>0 DEF CollectRelease, ReleaseSemaphore, tree, At
<1>6. CASE CollectFinish
  BY <1>6, <1>0 DEF CollectFinish, tree, At
<1>7. CASE \E t \in Threads : Wait(t)
  <2> PICK t \in Threads : Wait(t)
    BY <1>7
  <2>1. Cardinality(At("pick")') = Cardinality(At("pick")) + 1
    BY <1>0, AtEnter DEF Wait
  <2> QED BY <2>1, <1>0 DEF Wait, tree
<1>8. CASE \E t \in Threads : Pick(t)
  <2> PICK t \in Threads : Pick(t)
    BY <1>8
  <2>1. PICK q \in {"check", "leave"} : pc' = [pc EXCEPT ![t] = q]
    BY DEF Pick
  <2>2. Cardinality(At("pick")') = Cardinality(At("pick")) - 1
    BY <2>1, <1>0, AtExit DEF Pick
  <2>3. cursor' \in Nat /\ cursor' <= cursor + 1
    BY <1>0, WalkOrder DEF Pick
  <2> QED BY <2>2, <2>3, <1>0 DEF Pick, tree
<1>9. CASE \E t \in Threads : Check(t) \/ Compare(t) \/ Store(t) \/ Leave(t) \/ Close(t)
                              \/ Delete(t) \/ Post(t)
  <2> PICK t \in Threads : Check(t) \/ Compare(t) \/ Store(t) \/ Leave(t) \/ Close(t)
                           \/ Delete(t) \/ Post(t)
    BY <1>9
  <2>1. /\ UNCHANGED <<items, ready, colPc, cursor>>
        /\ tokens' \in {0, tokens}
        /\ pc[t] # "pick"
        /\ \E q \in ThreadPc \ {"pick"} : pc' = [pc EXCEPT ![t] = q]
    BY DEF Check, Compare, Store, Leave, Close, Delete, Post, ThreadPc, tree
  <2>2. At("pick")' = At("pick")
    BY <2>1, <1>0, AtStays
  <2> QED BY <2>1, <2>2, <1>0
<1>10. CASE UNCHANGED vars
  BY <1>10 DEF vars, tree, pool, At
<1> QED BY <1>1, <1>2, <1>3, <1>4, <1>5, <1>6, <1>7, <1>8, <1>9, <1>10
        DEF Next, Collector, CompareThread

(* No compare thread ever holds an item the collector has linked but not   *)
(* yet completed, although the list itself is read without a lock.         *)
THEOREM PickedItemsAreReady == Spec => []PickedIsReady
<1>1. Spec => [](TypeInv /\ TokenInv)
  BY TypeInvInit, TypeInvStep, TokenInvInit, TokenInvStep, PTL DEF Spec
<1>2. TypeInv /\ TokenInv => PickedIsReady
  <2> SUFFICES ASSUME TypeInv, TokenInv, NEW t \in Threads, Holding(t)
               PROVE  item[t] \in ready
    BY DEF PickedIsReady
  <2>1. /\ item[t] \in 1 .. cursor
        /\ cursor \in 0 .. Len(items) /\ Len(items) \in Nat /\ tokens \in Nat
        /\ Cardinality(At("pick")) \in Nat
    BY AtFinite DEF TypeInv, TypeOK
  <2>2. colPc = "assign" => cursor <= Len(items) - 1
    BY <2>1 DEF TokenInv, Unfinished
  <2> QED BY <2>1, <2>2 DEF TokenInv
<1> QED BY <1>1, <1>2, PTL

-----------------------------------------------------------------------------
(* NoItemTwice is inductive once the compared items are known to lie       *)
(* behind the cursor: a thread then picks what no other thread has had.    *)
OnceInv == NoItemTwice /\ compared \subseteq 1 .. cursor

LEMMA OnceInvInit == Init => OnceInv
  BY DEF Init, OnceInv, NoItemTwice

LEMMA OnceInvStep == TypeInv /\ OnceInv /\ [Next]_vars => OnceInv'
<1> SUFFICES ASSUME TypeInv, OnceInv, [Next]_vars PROVE OnceInv'
  OBVIOUS
<1>0. /\ Len(items) \in Nat /\ cursor \in 0 .. Len(items)
      /\ pc \in [Threads -> ThreadPc] /\ item \in [Threads -> 0 .. Len(items)]
      /\ items \in Seq(ItemType) /\ TreeOK
      /\ \A t \in Threads : Holding(t) => item[t] \in 1 .. cursor
  BY DEF TypeInv, TypeOK
<1> USE DEF OnceInv, NoItemTwice, Holding
<1>1. CASE UIThread \/ Cancel \/ PauseContinue \/ Collector
  <2>1. UNCHANGED <<item, cursor, compared>>
    BY <1>1 DEF UIThread, StartCollector, StartCompareThread, UpdateUI, Cancel, PauseContinue,
                Collector, CollectCheck, CollectLink, CollectAssign, CollectRelease, CollectFinish,
                pool, stats
  <2>2. \A u \in Threads : pc'[u] = pc[u] \/ pc'[u] \in {"wait", "failed"}
    BY <1>1, <1>0 DEF UIThread, StartCollector, StartCompareThread, UpdateUI, Cancel, PauseContinue,
                Collector, CollectCheck, CollectLink, CollectAssign, CollectRelease, CollectFinish,
                pool
  <2> QED BY <2>1, <2>2
<1>2. CASE \E t \in Threads : Pick(t)
  <2> PICK t \in Threads : Pick(t)
    BY <1>2
  <2>1. GetNextDiff(cursor) = IF cursor < Len(items) THEN cursor + 1 ELSE 0
    BY <1>0, WalkOrder
  <2>2. /\ \A u \in Threads \ {t} : pc'[u] = pc[u] /\ item'[u] = item[u]
        /\ UNCHANGED compared
    BY <1>0 DEF Pick, stats
  <2>3. CASE cursor < Len(items)
    <3>1. cursor' = cursor + 1 /\ item'[t] = cursor + 1 /\ pc'[t] = "check"
      BY <2>1, <2>3, <1>0 DEF Pick
    <3>2. \A u \in Threads \ {t} : Holding(u) => item[u] # cursor + 1
      BY <1>0
    <3>3. compared \subseteq 1 .. cursor' /\ cursor + 1 \notin compared
      BY <3>1, <1>0
    <3> QED BY <2>2, <3>1, <3>2, <3>3
  <2>4. CASE ~(cursor < Len(items))
    <3>1. cursor' = cursor /\ pc'[t] = "leave"
      BY <2>1, <2>4, <1>0 DEF Pick
    <3> QED BY <2>2, <3>1
  <2> QED BY <2>3, <2>4
<1>3. CASE \E t \in Threads : Compare(t)
  <2> PICK t \in Threads : Compare(t)
    BY <1>3
  <2>1. /\ \A u \in Threads \ {t} : pc'[u] = pc[u]
        /\ pc[t] = "compare" /\ pc'[t] = "store"
        /\ UNCHANGED <<item, cursor>>
        /\ compared' = compared \union {item[t]}
    BY <1>0 DEF Compare
  <2> QED BY <2>1, <1>0
<1>4. CASE \E t \in Threads : Wait(t) \/ Check(t) \/ Store(t) \/ Leave(t) \/ Close(t)
                              \/ Delete(t) \/ Post(t)
  <2> PICK t \in Threads : Wait(t) \/ Check(t) \/ Store(t) \/ Leave(t) \/ Close(t)
                           \/ Delete(t) \/ Post(t)
    BY <1>4
  <2>1. /\ \A u \in Threads \ {t} : pc'[u] = pc[u] /\ item'[u] = item[u]
        /\ UNCHANGED <<cursor, compared>>
        /\ \/ ~(pc'[t] \in {"check", "compare", "store"})
           \/ pc[t] = "check" /\ pc'[t] = "compare" /\ item'[t] = item[t]
    BY <1>0 DEF Wait, Check, Store, Leave, Close, Delete, Post, stats
  <2> QED BY <2>1, <1>0
<1>5. CASE UNCHANGED vars
  BY <1>5 DEF vars, pool, stats
<1> QED BY <1>1, <1>2, <1>3, <1>4, <1>5 DEF Next, CompareThread

(* Every item goes to one compare thread, once, however the threads        *)
(* interleave and whatever the tree.                                       *)
THEOREM ItemsComparedOnce == Spec => []NoItemTwice
<1>1. Spec => [](TypeInv /\ OnceInv)
  BY TypeInvInit, TypeInvStep, OnceInvInit, OnceInvStep, PTL DEF Spec
<1>2. OnceInv => NoItemTwice
  BY DEF OnceInv
<1> QED BY <1>1, <1>2, PTL

-----------------------------------------------------------------------------
(* What CompareStats has counted, and what it is about to count.           *)
CountInv ==
    /\ nTotal = Len(items) - (IF colPc = "assign" THEN 1 ELSE 0)
    /\ nCompared + Cardinality(At("store")) = Cardinality(compared)

LEMMA CountInvInit == Init => CountInv
<1> SUFFICES ASSUME Init PROVE CountInv
  OBVIOUS
<1>1. At("store") = {} /\ compared = {} /\ Len(items) = 0
  BY DEF Init, At
<1>2. Cardinality(At("store")) = 0 /\ Cardinality(compared) = 0
  BY <1>1, FS_EmptySet
<1> QED BY <1>1, <1>2 DEF Init, CountInv

LEMMA CountInvStep ==
    TypeInv /\ OnceInv /\ CountInv /\ [Next]_vars => CountInv'
<1> SUFFICES ASSUME TypeInv, OnceInv, CountInv, [Next]_vars PROVE CountInv'
  OBVIOUS
<1>0. /\ TypeOK /\ pc \in [Threads -> ThreadPc]
      /\ Len(items) \in Nat /\ cursor \in 0 .. Len(items) /\ nTotal \in Nat /\ nCompared \in Nat
      /\ items \in Seq(ItemType) /\ TreeOK
      /\ Cardinality(At("store")) \in Nat
      /\ colPc = "assign" => Len(items) > 0
  BY AtFinite DEF TypeInv, TypeOK
<1>f. IsFiniteSet(compared) /\ Cardinality(compared) \in Nat
  <2>1. compared \in SUBSET (1 .. cursor) /\ cursor \in Int
    BY <1>0 DEF OnceInv
  <2>2. IsFiniteSet(1 .. cursor)
    BY <2>1, FS_Interval
  <2> QED BY <2>1, <2>2, FS_Subset, FS_CardinalityType
<1> USE DEF CountInv
<1>1. CASE UIThread \/ Cancel \/ PauseContinue
  <2>1. UNCHANGED <<items, compared, nTotal, nCompared>>
    BY <1>1 DEF UIThread, StartCollector, StartCompareThread, UpdateUI, Cancel, PauseContinue,
                tree, stats
  <2>2. At("store")' = At("store")
    BY <1>1, <1>0, AtStays DEF UIThread, StartCollector, StartCompareThread, UpdateUI, Cancel,
       PauseContinue, pool, At
  <2>3. (colPc = "assign") = (colPc' = "assign")
    BY <1>1 DEF UIThread, StartCollector, StartCompareThread, UpdateUI, Cancel, PauseContinue
  <2> QED BY <2>1, <2>2, <2>3
<1>2. CASE CollectCheck \/ CollectRelease \/ CollectFinish
  <2>1. UNCHANGED <<items, pc, compared, nTotal, nCompared>>
    BY <1>2 DEF CollectCheck, CollectRelease, CollectFinish, tree, pool, stats
  <2>2. colPc # "assign" /\ colPc' # "assign"
    BY <1>2 DEF CollectCheck, CollectRelease, CollectFinish
  <2> QED BY <2>1, <2>2 DEF At
<1>3. CASE CollectLink
  <2>1. Len(items') = Len(items) + 1
    BY <1>3, <1>0, LinkKeepsTree
  <2> QED BY <1>3, <1>0, <2>1 DEF CollectLink, pool, stats, At
<1>4. CASE CollectAssign
  BY <1>4, <1>0 DEF CollectAssign, pool, At
<1>5. CASE \E t \in Threads : Compare(t)
  <2> PICK t \in Threads : Compare(t)
    BY <1>5
  <2>1. Cardinality(At("store")') = Cardinality(At("store")) + 1
    BY <1>0, AtEnter DEF Compare
  <2>2. item[t] \notin compared
    BY DEF OnceInv, NoItemTwice, Compare
  <2>3. Cardinality(compared') = Cardinality(compared) + 1
    BY <2>2, <1>f, FS_AddElement DEF Compare
  <2> QED BY <2>1, <2>3, <1>0, <1>f DEF Compare, tree
<1>6. CASE \E t \in Threads : Store(t)
  <2> PICK t \in Threads : Store(t)
    BY <1>6
  <2>1. Cardinality(At("store")') = Cardinality(At("store")) - 1
    BY <1>0, AtExit DEF Store
  <2> QED BY <2>1, <1>0, <1>f DEF Store, tree
<1>7. CASE \E t \in Threads : Wait(t) \/ Pick(t) \/ Check(t) \/ Leave(t) \/ Close(t)
                              \/ Delete(t) \/ Post(t)
  <2> PICK t \in Threads : Wait(t) \/ Pick(t) \/ Check(t) \/ Leave(t) \/ Close(t)
                           \/ Delete(t) \/ Post(t)
    BY <1>7
  <2>1. /\ UNCHANGED <<items, colPc, compared, nTotal, nCompared>>
        /\ pc[t] # "store"
        /\ \E q \in ThreadPc \ {"store"} : pc' = [pc EXCEPT ![t] = q]
    BY DEF Wait, Pick, Check, Leave, Close, Delete, Post, ThreadPc, tree, stats
  <2>2. At("store")' = At("store")
    BY <2>1, <1>0, AtStays
  <2> QED BY <2>1, <2>2
<1>8. CASE UNCHANGED vars
  BY <1>8 DEF vars, tree, pool, stats, At
<1> QED BY <1>1, <1>2, <1>3, <1>4, <1>5, <1>6, <1>7, <1>8 DEF Next, Collector, CompareThread

(* The assertion of CompareStats::AddItem holds at every moment of every   *)
(* scan, although the two counters are updated by different threads.       *)
THEOREM NeverMoreComparedThanFound == Spec => []ComparedWithinTotal
<1> DEFINE Inv == TypeInv /\ TokenInv /\ OnceInv /\ CountInv
<1>1. Init => Inv
  BY TypeInvInit, TokenInvInit, OnceInvInit, CountInvInit
<1>2. Inv /\ [Next]_vars => Inv'
  BY TypeInvStep, TokenInvStep, OnceInvStep, CountInvStep
<1>3. Inv => ComparedWithinTotal
  <2> SUFFICES ASSUME Inv PROVE nCompared <= nTotal
    BY DEF ComparedWithinTotal
  <2>1. /\ cursor \in Nat /\ tokens \in Nat /\ Len(items) \in Nat /\ cursor <= Len(items)
        /\ nCompared \in Nat /\ Cardinality(At("pick")) \in Nat
        /\ Cardinality(At("store")) \in Nat
    BY AtFinite DEF TypeInv, TypeOK
  <2>a. IsFiniteSet(1 .. cursor) /\ Cardinality(1 .. cursor) = IF 1 > cursor THEN 0 ELSE cursor - 1 + 1
    BY <2>1, FS_Interval
  <2>2. compared \in SUBSET (1 .. cursor) /\ IsFiniteSet(1 .. cursor)
        /\ Cardinality(1 .. cursor) = cursor
    BY <2>1, <2>a DEF OnceInv
  <2>3. Cardinality(compared) <= cursor /\ Cardinality(compared) \in Nat
    BY <2>2, FS_Subset, FS_CardinalityType
  <2>4. cursor <= nTotal
    BY <2>1 DEF TokenInv, Unfinished, CountInv
  <2> QED BY <2>1, <2>3, <2>4 DEF CountInv
<1> QED BY <1>1, <1>2, <1>3, PTL DEF Spec

-----------------------------------------------------------------------------
(* m_nCompareThreads counts the threads that have not yet left, and one    *)
(* that closes anything finds nobody left.                                 *)
ActivePc == {"new", "wait", "pick", "check", "compare", "store", "leave"}
Active == { t \in Threads : pc[t] \in ActivePc }

PoolInv ==
    /\ nCompareThreads = Cardinality(Active)
    /\ (\E t \in Threads : pc[t] \in {"close", "delete", "post"}) => Active = {}
    /\ ~(busy /\ csInit) => Active = {}

LEMMA PoolInvInit == Init => PoolInv
<1> SUFFICES ASSUME Init PROVE PoolInv
  OBVIOUS
<1>1. Active = Threads
  BY DEF Init, Active, ActivePc
<1> QED BY <1>1 DEF Init, PoolInv

LEMMA PoolInvStep == TypeInv /\ PoolInv /\ [Next]_vars => PoolInv'
<1> SUFFICES ASSUME TypeInv, PoolInv, [Next]_vars PROVE PoolInv'
  OBVIOUS
<1>0. /\ pc \in [Threads -> ThreadPc]
      /\ busy \in BOOLEAN /\ csInit \in BOOLEAN
  BY DEF TypeInv, TypeOK
<1>f. IsFiniteSet(Active) /\ Cardinality(Active) \in Nat
  <2>1. Active \in SUBSET Threads
    BY DEF Active
  <2> QED BY <2>1, ThreadsAssumption, FS_Subset, FS_CardinalityType
(* A thread that gives up, by failing to start or by leaving.              *)
<1>g. ASSUME NEW t \in Threads, pc[t] \in ActivePc,
             NEW q \in ThreadPc \ ActivePc, pc' = [pc EXCEPT ![t] = q]
      PROVE  /\ Active' = Active \ {t}
             /\ Cardinality(Active') = Cardinality(Active) - 1
             /\ Cardinality(Active') <= 0 => Active' = {}
  <2>1. t \in Active /\ Active' = Active \ {t}
    BY <1>g, <1>0 DEF Active
  <2>2. Cardinality(Active') = Cardinality(Active) - 1
    BY <2>1, <1>f, FS_RemoveElement
  <2>3. IsFiniteSet(Active') /\ Cardinality(Active') \in Nat
    BY <2>1, <1>f, FS_RemoveElement, FS_CardinalityType
  <2>4. Cardinality(Active') <= 0 => Active' = {}
    BY <2>3, FS_EmptySet
  <2> QED BY <2>1, <2>2, <2>4
<1>h. ASSUME NEW t \in Threads, NEW q,
             pc[t] \in ActivePc <=> q \in ActivePc, pc' = [pc EXCEPT ![t] = q]
      PROVE  Active' = Active
  BY <1>h, <1>0 DEF Active
<1>1. CASE StartCollector \/ UpdateUI \/ Cancel \/ PauseContinue \/ Collector
  <2>1. UNCHANGED <<pc, busy, csInit, nCompareThreads>>
    BY <1>1 DEF StartCollector, UpdateUI, Cancel, PauseContinue, Collector, CollectCheck,
                CollectLink, CollectAssign, CollectRelease, CollectFinish, pool
  <2> QED BY <2>1 DEF PoolInv, Active
<1>2. CASE \E t \in Threads : StartCompareThread(t)
  <2> PICK t \in Threads : StartCompareThread(t)
    BY <1>2
  <2>0. Active # {} /\ busy /\ csInit /\ UNCHANGED <<busy, csInit>>
        /\ ~ \E u \in Threads : pc[u] \in {"close", "delete", "post"}
    BY DEF StartCompareThread, PoolInv, Active, ActivePc
  <2>1. CASE pc' = [pc EXCEPT ![t] = "wait"] /\ UNCHANGED nCompareThreads
    <3>1. Active' = Active
      BY <2>1, <1>h DEF StartCompareThread, ActivePc
    <3> QED BY <3>1, <2>0, <2>1, <1>0 DEF PoolInv
  <2>2. CASE pc' = [pc EXCEPT ![t] = "failed"] /\ nCompareThreads' = nCompareThreads - 1
    <3>1. Cardinality(Active') = Cardinality(Active) - 1
      BY <2>2, <1>g DEF StartCompareThread, ActivePc, ThreadPc
    <3> QED BY <3>1, <2>0, <2>2, <1>0 DEF PoolInv
  <2> QED BY <2>1, <2>2 DEF StartCompareThread
<1>3. CASE \E t \in Threads : Leave(t)
  <2> PICK t \in Threads : Leave(t)
    BY <1>3
  <2>1. PICK q \in {"close", "done"} :
           /\ pc' = [pc EXCEPT ![t] = q]
           /\ q = "close" <=> LastOneOut(nCompareThreads - 1)
    BY DEF Leave
  <2>2. pc[t] \in ActivePc /\ q \in ThreadPc \ ActivePc
    BY <2>1 DEF Leave, ActivePc, ThreadPc
  <2>3. /\ Cardinality(Active') = Cardinality(Active) - 1
        /\ Cardinality(Active') <= 0 => Active' = {}
    BY <2>1, <2>2, <1>g
  <2>4. Active # {} /\ busy /\ csInit /\ UNCHANGED <<busy, csInit>>
        /\ ~ \E u \in Threads : pc[u] \in {"close", "delete", "post"}
    BY <2>2 DEF Leave, PoolInv, Active
  <2>5. nCompareThreads' = Cardinality(Active')
    BY <2>3 DEF Leave, PoolInv
  <2>6. (\E u \in Threads : pc'[u] \in {"close", "delete", "post"}) => q = "close"
    BY <2>1, <2>4, <1>0
  <2>7. q = "close" => Active' = {}
    BY <2>1, <2>3, <2>5 DEF LastOneOut, Leave
  <2> QED BY <2>4, <2>5, <2>6, <2>7 DEF PoolInv
<1>4. CASE \E t \in Threads : Close(t) \/ Delete(t) \/ Post(t)
  <2> PICK t \in Threads : Close(t) \/ Delete(t) \/ Post(t)
    BY <1>4
  <2>1. /\ pc[t] \in {"close", "delete", "post"}
        /\ UNCHANGED nCompareThreads
        /\ \E q \in {"delete", "post", "done"} : pc' = [pc EXCEPT ![t] = q]
    BY DEF Close, Delete, Post
  <2>2. Active' = Active /\ Active = {}
    BY <2>1, <1>h DEF ActivePc, PoolInv
  <2> QED BY <2>1, <2>2 DEF PoolInv
<1>5. CASE \E t \in Threads : Wait(t) \/ Pick(t) \/ Check(t) \/ Compare(t) \/ Store(t)
  <2> PICK t \in Threads : Wait(t) \/ Pick(t) \/ Check(t) \/ Compare(t) \/ Store(t)
    BY <1>5
  <2>1. /\ UNCHANGED <<busy, csInit, nCompareThreads>>
        /\ pc[t] \in ActivePc
        /\ \E q \in ActivePc : pc' = [pc EXCEPT ![t] = q]
    BY DEF Wait, Pick, Check, Compare, Store, ActivePc
  <2>2. Active' = Active
    BY <2>1, <1>h
  <2>3. Active # {}
    BY <2>1 DEF Active
  <2>4. ~ \E u \in Threads : pc'[u] \in {"close", "delete", "post"}
    BY <2>1, <2>3, <1>0 DEF PoolInv, ActivePc
  <2> QED BY <2>1, <2>2, <2>3, <2>4 DEF PoolInv
<1>6. CASE UNCHANGED vars
  BY <1>6 DEF vars, pool, PoolInv, Active
<1> QED BY <1>1, <1>2, <1>3, <1>4, <1>5, <1>6 DEF Next, UIThread, CompareThread

(* The semaphore and the critical section are there for as long as any     *)
(* compare thread may still use them, also when threads fail to start.     *)
THEOREM PoolOutlivesItsThreads == Spec => []LastOneOutClosesUp
<1>1. Spec => [](TypeInv /\ PoolInv)
  BY TypeInvInit, TypeInvStep, PoolInvInit, PoolInvStep, PTL DEF Spec
<1>2. PoolInv => LastOneOutClosesUp
  BY DEF PoolInv, LastOneOutClosesUp, Active, ActivePc
<1> QED BY <1>1, <1>2, PTL

-----------------------------------------------------------------------------
(* In a scan that is not aborted, a thread leaves the pool only when the   *)
(* collector is done and the cursor has passed every item, and each item   *)
(* the cursor has passed is compared or in a thread's hands.               *)
LeavingPc == {"leave", "close", "delete", "post", "done"}
InHands(i) == \E t \in Threads : pc[t] \in {"check", "compare"} /\ item[t] = i

EndInv ==
    /\ ~aborting =>
          /\ (\E t \in Threads : pc[t] \in LeavingPc) => colPc = "done" /\ cursor = Len(items)
          /\ \A i \in 1 .. cursor : i \in compared \/ InHands(i)
    /\ ~busy => \E t \in Threads : pc[t] \in LeavingPc
    /\ ui # "scanning" => ~busy
    /\ \A t \in Threads : pc[t] \in {"delete", "post"} => ~busy
    /\ Len(items) <= MaxItems
    /\ colPc = "link" => Len(items) < MaxItems

LEMMA EndInvInit == Init => EndInv
<1> SUFFICES ASSUME Init PROVE EndInv
  OBVIOUS
<1>1. Len(items) = 0 /\ cursor = 0
  BY DEF Init
<1> QED BY <1>1, MaxItemsAssumption DEF Init, EndInv, LeavingPc

LEMMA EndInvStep ==
    TypeInv /\ TokenInv /\ OnceInv /\ PoolInv /\ EndInv /\ [Next]_vars => EndInv'
<1> SUFFICES ASSUME TypeInv, TokenInv, OnceInv, PoolInv, EndInv, [Next]_vars PROVE EndInv'
  OBVIOUS
<1>0. /\ Len(items) \in Nat /\ tokens \in Nat /\ cursor \in 0 .. Len(items)
      /\ pc \in [Threads -> ThreadPc] /\ item \in [Threads -> 0 .. Len(items)]
      /\ items \in Seq(ItemType) /\ TreeOK /\ TypeOK
      /\ Cardinality(At("pick")) \in Nat
      /\ busy \in BOOLEAN /\ aborting \in BOOLEAN
      /\ MaxItems \in Nat
  BY AtFinite, MaxItemsAssumption DEF TypeInv, TypeOK
<1> USE DEF EndInv, LeavingPc, InHands
(* A thread that is still active, in a scan that is not aborted.           *)
<1>g. ASSUME NEW t \in Threads, pc[t] \in ActivePc
      PROVE  /\ busy /\ ui = "scanning"
             /\ \A u \in Threads : pc[u] \notin {"close", "delete", "post"}
  BY <1>g, <1>0 DEF PoolInv, Active
<1>1. CASE StartCollector \/ UpdateUI \/ PauseContinue \/ Cancel
  <2>1. /\ UNCHANGED <<items, cursor, compared, item, pc, busy>>
        /\ ~aborting' => ~aborting
        /\ colPc' = colPc \/ (colPc = "new" /\ colPc' \in {"walk", "failed"})
        /\ ui' # "scanning" => ui # "scanning"
    BY <1>1 DEF StartCollector, UpdateUI, PauseContinue, Cancel, tree, pool, stats, user
  <2> QED BY <2>1, <1>0
<1>2. CASE \E t \in Threads : StartCompareThread(t)
  <2> PICK t \in Threads : StartCompareThread(t)
    BY <1>2
  <2>1. /\ UNCHANGED <<items, cursor, compared, item, busy, aborting, ui, colPc>>
        /\ pc[t] = "new" /\ pc'[t] \in {"wait", "failed"}
        /\ \A u \in Threads \ {t} : pc'[u] = pc[u]
    BY <1>0 DEF StartCompareThread, tree, stats, user
  <2> QED BY <2>1, <1>0
<1>3. CASE CollectCheck
  <2>1. UNCHANGED <<items, cursor, compared, item, pc, busy, aborting, ui>>
    BY <1>3 DEF CollectCheck, tree, pool, stats, user
  <2>2. colPc = "walk" /\ (colPc' = "link" => Len(items) < MaxItems)
    BY <1>3 DEF CollectCheck
  <2> QED BY <2>1, <2>2, <1>0
<1>4. CASE CollectLink
  <2>1. Len(items') = Len(items) + 1
    BY <1>4, <1>0, LinkKeepsTree
  <2>2. UNCHANGED <<cursor, compared, item, pc, busy, aborting, ui>> /\ colPc = "link" /\ colPc' = "assign"
    BY <1>4 DEF CollectLink, pool, stats, user
  <2> QED BY <2>1, <2>2, <1>0
<1>5. CASE CollectAssign \/ CollectRelease \/ CollectFinish
  <2>1. /\ UNCHANGED <<items, cursor, compared, item, pc, busy, aborting, ui>>
        /\ colPc # "done" /\ colPc' # "link"
    BY <1>5 DEF CollectAssign, CollectRelease, CollectFinish, tree, pool, stats, user
  <2> QED BY <2>1, <1>0
<1>6. CASE \E t \in Threads : Pick(t)
  <2> PICK t \in Threads : Pick(t)
    BY <1>6
  <2>1. GetNextDiff(cursor) = IF cursor < Len(items) THEN cursor + 1 ELSE 0
    BY <1>0, WalkOrder
  <2>2. /\ \A u \in Threads \ {t} : pc'[u] = pc[u] /\ item'[u] = item[u]
        /\ pc[t] = "pick"
        /\ UNCHANGED <<items, compared, busy, aborting, ui, colPc>>
    BY <1>0 DEF Pick, tree, stats, user
  <2>3. CASE cursor < Len(items)
    <3>1. cursor' = cursor + 1 /\ item'[t] = cursor + 1 /\ pc'[t] = "check"
      BY <2>1, <2>3, <1>0 DEF Pick
    <3>2. busy /\ ui = "scanning" /\ \A u \in Threads : pc[u] \notin {"close", "delete", "post"}
      BY <2>2, <1>g DEF ActivePc
    <3>3. ~aborting => ~ \E u \in Threads : pc[u] \in LeavingPc
      BY <2>3, <1>0
    <3>4. ~aborting' => ~ \E u \in Threads : pc'[u] \in LeavingPc
      BY <3>1, <3>3, <2>2
    <3>5. ASSUME ~aborting', NEW i \in 1 .. cursor'
          PROVE  i \in compared' \/ InHands(i)'
      <4>1. CASE i = cursor + 1
        BY <4>1, <3>1
      <4>2. CASE i # cursor + 1
        <5>1. i \in 1 .. cursor
          BY <4>2, <3>1, <1>0
        <5>2. i \in compared \/ InHands(i)
          BY <5>1, <3>5, <2>2
        <5> QED BY <5>2, <2>2
      <4> QED BY <4>1, <4>2
    <3> QED BY <2>2, <3>1, <3>2, <3>4, <3>5, <1>0
  <2>4. CASE ~(cursor < Len(items))
    <3>1. cursor' = cursor /\ pc'[t] = "leave"
      BY <2>1, <2>4, <1>0 DEF Pick
    <3>2. Cardinality(At("pick")) > 0
      <4>1. t \in At("pick")
        BY <2>2 DEF At
      <4> QED BY <4>1, <1>0, AtFinite, FS_EmptySet
    <3>3. colPc = "done" /\ cursor = Len(items)
      BY <3>2, <2>4, <1>0 DEF TokenInv, Unfinished
    <3>4. ASSUME NEW i, InHands(i) PROVE InHands(i)'
      BY <3>4, <2>2
    <3> QED BY <2>2, <3>1, <3>3, <3>4, <1>0
  <2> QED BY <2>3, <2>4
<1>7. CASE \E t \in Threads : Compare(t)
  <2> PICK t \in Threads : Compare(t)
    BY <1>7
  <2>1. /\ \A u \in Threads \ {t} : pc'[u] = pc[u]
        /\ pc[t] = "compare" /\ pc'[t] = "store"
        /\ UNCHANGED <<items, item, cursor, busy, aborting, ui, colPc>>
        /\ compared' = compared \union {item[t]}
    BY <1>0 DEF Compare, tree, user
  <2>2. ASSUME NEW i, i \in compared \/ InHands(i) PROVE i \in compared' \/ InHands(i)'
    BY <2>1, <2>2
  <2> QED BY <2>1, <2>2, <1>0
<1>8. CASE \E t \in Threads : Check(t)
  <2> PICK t \in Threads : Check(t)
    BY <1>8
  <2>1. /\ \A u \in Threads \ {t} : pc'[u] = pc[u]
        /\ pc[t] = "check" /\ pc'[t] = IF aborting THEN "leave" ELSE "compare"
        /\ UNCHANGED <<items, item, cursor, compared, busy, aborting, ui, colPc>>
    BY <1>0 DEF Check, tree, stats, user
  <2>2. busy /\ ui = "scanning"
    BY <2>1, <1>g DEF ActivePc
  <2>3. ASSUME NEW i, ~aborting, InHands(i) PROVE InHands(i)'
    BY <2>1, <2>3
  <2> QED BY <2>1, <2>2, <2>3, <1>0
<1>9. CASE \E t \in Threads : Wait(t) \/ Store(t)
  <2> PICK t \in Threads : Wait(t) \/ Store(t)
    BY <1>9
  <2>1. /\ \A u \in Threads \ {t} : pc'[u] = pc[u] /\ item'[u] = item[u]
        /\ pc[t] \in {"wait", "store"} /\ pc'[t] \in {"pick", "wait"}
        /\ UNCHANGED <<items, cursor, compared, busy, aborting, ui, colPc>>
    BY <1>0 DEF Wait, Store, tree, stats, user
  <2>2. \A u \in Threads : pc'[u] \in LeavingPc => pc[u] \in LeavingPc /\ pc'[u] = pc[u]
    BY <2>1
  <2>3. \A u \in Threads : pc[u] \in LeavingPc => pc'[u] = pc[u]
    BY <2>1
  <2>4. ASSUME NEW i, InHands(i) PROVE InHands(i)'
    BY <2>1, <2>4
  <2>5. ~aborting' => /\ (\E u \in Threads : pc'[u] \in LeavingPc) => colPc' = "done" /\ cursor' = Len(items')
                      /\ \A i \in 1 .. cursor' : i \in compared' \/ InHands(i)'
    BY <2>1, <2>2, <2>4
  <2>6. /\ ~busy' => \E u \in Threads : pc'[u] \in LeavingPc
        /\ ui' # "scanning" => ~busy'
        /\ \A u \in Threads : pc'[u] \in {"delete", "post"} => ~busy'
    BY <2>1, <2>2, <2>3
  <2>7. Len(items') <= MaxItems /\ (colPc' = "link" => Len(items') < MaxItems)
    BY <2>1
  <2> QED BY <2>5, <2>6, <2>7
<1>10. CASE \E t \in Threads : Leave(t) \/ Close(t) \/ Delete(t) \/ Post(t)
  <2> PICK t \in Threads : Leave(t) \/ Close(t) \/ Delete(t) \/ Post(t)
    BY <1>10
  <2>1. /\ \A u \in Threads \ {t} : pc'[u] = pc[u] /\ item'[u] = item[u]
        /\ pc[t] \in LeavingPc /\ pc'[t] \in LeavingPc
        /\ UNCHANGED <<items, cursor, compared, aborting, colPc>>
        /\ busy' = busy \/ (busy' = FALSE /\ pc[t] = "close")
        /\ pc'[t] = "delete" => busy' = FALSE
        /\ pc'[t] = "post" => pc[t] = "delete" /\ busy' = busy
        /\ ui' # "scanning" => ui # "scanning" \/ pc[t] = "post"
        /\ pc[t] = "post" => busy' = busy
    BY <1>0 DEF Leave, Close, Delete, Post, tree, stats, user
  <2>2. ASSUME NEW i, InHands(i) PROVE InHands(i)'
    BY <2>1, <2>2
  <2>3. ~aborting' => /\ (\E u \in Threads : pc'[u] \in LeavingPc) => colPc' = "done" /\ cursor' = Len(items')
                      /\ \A i \in 1 .. cursor' : i \in compared' \/ InHands(i)'
    BY <2>1, <2>2
  <2>4. /\ ~busy' => \E u \in Threads : pc'[u] \in LeavingPc
        /\ ui' # "scanning" => ~busy'
        /\ \A u \in Threads : pc'[u] \in {"delete", "post"} => ~busy'
    BY <2>1, <1>0
  <2> QED BY <2>1, <2>3, <2>4
<1>11. CASE UNCHANGED vars
  BY <1>11 DEF vars, tree, pool, stats, user
<1> QED BY <1>1, <1>2, <1>3, <1>4, <1>5, <1>6, <1>7, <1>8, <1>9, <1>10, <1>11
        DEF Next, UIThread, Collector, CompareThread

(* The parts of the invariant of a whole scan, together.                   *)
ScanInv == TypeInv /\ TokenInv /\ OnceInv /\ CountInv /\ PoolInv /\ EndInv

LEMMA ScanInvariant == Spec => []ScanInv
<1>1. Init => ScanInv
  BY TypeInvInit, TokenInvInit, OnceInvInit, CountInvInit, PoolInvInit, EndInvInit DEF ScanInv
<1>2. ScanInv /\ [Next]_vars => ScanInv'
  BY TypeInvStep, TokenInvStep, OnceInvStep, CountInvStep, PoolInvStep, EndInvStep DEF ScanInv
<1> QED BY <1>1, <1>2, PTL DEF Spec

(* Once the last thread has closed the semaphore of a scan that was not    *)
(* aborted, nothing is left to find or to compare.                         *)
LEMMA OverIsComplete ==
    ASSUME ScanInv, ~aborting, Active = {}, \E t \in Threads : pc[t] \in LeavingPc
    PROVE  colPc = "done" /\ compared = Linked /\ ready = Linked
<1>0. Len(items) \in Nat /\ cursor \in 0 .. Len(items) /\ Linked = 1 .. Len(items)
  BY DEF ScanInv, TypeInv, TypeOK, Linked
<1>1. colPc = "done" /\ cursor = Len(items)
  BY DEF ScanInv, EndInv
<1>2. \A i : ~InHands(i)
  BY DEF InHands, Active, ActivePc
<1>3. Linked \subseteq compared
  BY <1>0, <1>1, <1>2 DEF ScanInv, EndInv
<1>4. compared \subseteq Linked
  BY <1>0, <1>1 DEF ScanInv, OnceInv
<1>5. ready = Linked
  BY <1>0, <1>1 DEF ScanInv, TokenInv
<1> QED BY <1>1, <1>3, <1>4, <1>5

(* A scan that was not cancelled reports back to the window only after     *)
(* every item found has been compared and counted, whatever the order in   *)
(* which the threads of the pool leave.                                    *)
THEOREM ReportedScansAreComplete == Spec => []ReportedScanIsComplete
<1>1. ScanInv => ReportedScanIsComplete
  <2> SUFFICES ASSUME ScanInv, ui # "scanning", ~aborting
               PROVE  colPc = "done" /\ compared = Linked /\ nCompared = nTotal
    BY DEF ReportedScanIsComplete
  <2>0. /\ Len(items) \in Nat /\ Linked = 1 .. Len(items) /\ nCompared \in Nat
    BY DEF ScanInv, TypeInv, TypeOK, Linked
  <2>1. ~busy /\ Active = {} /\ \E t \in Threads : pc[t] \in LeavingPc
    <3>1. ~busy /\ (~busy => \E t \in Threads : pc[t] \in LeavingPc)
      BY DEF ScanInv, EndInv
    <3>2. ~busy => Active = {}
      BY DEF ScanInv, PoolInv
    <3> QED BY <3>1, <3>2
  <2>2. colPc = "done" /\ compared = Linked
    BY <2>1, OverIsComplete
  <2>3. Cardinality(compared) = Len(items)
    <3>1. Cardinality(1 .. Len(items)) = IF 1 > Len(items) THEN 0 ELSE Len(items) - 1 + 1
      BY <2>0, FS_Interval
    <3> QED BY <3>1, <2>0, <2>2
  <2>4. At("store") = {}
    BY <2>1 DEF At, Active, ActivePc
  <2>5. Cardinality(At("store")) = 0
    BY <2>4, FS_EmptySet
  <2>6. nTotal = Len(items) /\ nCompared + Cardinality(At("store")) = Cardinality(compared)
    BY <2>0, <2>2 DEF ScanInv, CountInv
  <2> QED BY <2>0, <2>2, <2>3, <2>5, <2>6
<1> QED BY <1>1, ScanInvariant, PTL

-----------------------------------------------------------------------------
(* Each step of the threads is a step of AbstractScan or changes nothing   *)
(* that it knows of: CollectAssign finds an item, CompareDiffItem compares *)
(* one, and the close of the semaphore ends the scan.                      *)
LEMMA ScanStepRefines ==
    ScanInv /\ [Next]_vars => [Abstract!Next]_(Abstract!vars)
<1> SUFFICES ASSUME ScanInv, [Next]_vars
             PROVE  Abstract!Next \/ UNCHANGED Abstract!vars
  OBVIOUS
<1>0. /\ Len(items) \in Nat /\ cursor \in 0 .. Len(items) /\ Linked = 1 .. Len(items)
      /\ pc \in [Threads -> ThreadPc] /\ busy \in BOOLEAN /\ aborting \in BOOLEAN
      /\ MaxItems \in Nat /\ Len(items) <= MaxItems
  BY MaxItemsAssumption DEF ScanInv, TypeInv, TypeOK, EndInv, Linked
<1>1. CASE CollectAssign
  <2>1. /\ colPc = "assign" /\ ready' = ready \union {Len(items)}
        /\ UNCHANGED <<compared, busy, aborting>>
    BY <1>1 DEF CollectAssign, pool, user
  <2>2. Len(items) \in (1 .. MaxItems) \ ready
    BY <2>1, <1>0 DEF ScanInv, TypeInv, TokenInv
  <2>3. busy \/ aborting
    BY <2>1, <1>0 DEF ScanInv, EndInv
  <2>4. Abstract!Find
    BY <2>1, <2>2, <2>3 DEF Abstract!Find
  <2> QED BY <2>4 DEF Abstract!Next
<1>2. CASE \E t \in Threads : Compare(t)
  <2> PICK t \in Threads : Compare(t)
    BY <1>2
  <2>1. /\ pc[t] = "compare" /\ compared' = compared \union {item[t]}
        /\ UNCHANGED <<ready, busy, aborting>>
    BY DEF Compare, tree, user
  <2>2. busy
    BY <2>1 DEF ScanInv, PoolInv, Active, ActivePc
  <2>3. item[t] \notin compared
    BY <2>1 DEF ScanInv, OnceInv, NoItemTwice
  <2>4. item[t] \in ready
    <3>1. item[t] \in 1 .. cursor /\ tokens \in Nat /\ Cardinality(At("pick")) \in Nat
      BY <2>1, AtFinite DEF ScanInv, TypeInv, TypeOK, Holding
    <3>2. colPc = "assign" => cursor <= Len(items) - 1
      BY <3>1, <1>0 DEF ScanInv, TokenInv, Unfinished
    <3> QED BY <3>1, <3>2, <1>0 DEF ScanInv, TokenInv
  <2>5. Abstract!Compare
    BY <2>1, <2>2, <2>3, <2>4 DEF Abstract!Compare
  <2> QED BY <2>5 DEF Abstract!Next
<1>3. CASE Cancel
  <2>1. Abstract!Abort
    BY <1>3 DEF Cancel, Abstract!Abort, tree, pool, stats
  <2> QED BY <2>1 DEF Abstract!Next
<1>4. CASE \E t \in Threads : Close(t)
  <2> PICK t \in Threads : Close(t)
    BY <1>4
  <2>1. /\ pc[t] = "close" /\ busy' = FALSE
        /\ UNCHANGED <<ready, compared, aborting>>
    BY DEF Close, tree, stats, user
  <2>2. CASE busy
    <3>1. Active = {} /\ pc[t] \in LeavingPc
      BY <2>1 DEF ScanInv, PoolInv, LeavingPc
    <3>2. aborting \/ compared = ready
      BY <3>1, OverIsComplete, <1>0
    <3>3. Abstract!End
      BY <2>1, <2>2, <3>2 DEF Abstract!End
    <3> QED BY <3>3 DEF Abstract!Next
  <2>3. CASE ~busy
    BY <2>1, <2>3, <1>0 DEF Abstract!vars
  <2> QED BY <2>2, <2>3
<1>5. CASE \/ StartCollector \/ UpdateUI \/ PauseContinue
           \/ CollectCheck \/ CollectLink \/ CollectRelease \/ CollectFinish
           \/ \E t \in Threads : StartCompareThread(t)
           \/ \E t \in Threads : Wait(t) \/ Pick(t) \/ Check(t) \/ Store(t) \/ Leave(t)
                                 \/ Delete(t) \/ Post(t)
  <2>1. UNCHANGED <<ready, compared, busy, aborting>>
    BY <1>5 DEF StartCollector, UpdateUI, PauseContinue, CollectCheck, CollectLink, CollectRelease,
                CollectFinish, StartCompareThread, Wait, Pick, Check, Store, Leave, Delete, Post,
                tree, pool, stats, user
  <2> QED BY <2>1 DEF Abstract!vars
<1>6. CASE UNCHANGED vars
  <2>1. UNCHANGED <<ready, compared, busy, aborting>>
    BY <1>6 DEF vars, tree, pool, stats, user
  <2> QED BY <2>1 DEF Abstract!vars
<1> QED BY <1>1, <1>2, <1>3, <1>4, <1>5, <1>6 DEF Next, UIThread, Collector, CompareThread

(* The pool of threads, the semaphore and the shared cursor together keep  *)
(* the promise of a folder scan, AbstractScan.                             *)
THEOREM ScanImplementsAbstract == Spec => AbstractSpec
<1>1. Init => Abstract!Init
  BY DEF Init, Abstract!Init
<1>2. ScanInv /\ [Next]_vars => [Abstract!Next]_(Abstract!vars)
  BY ScanStepRefines
<1> QED BY <1>1, <1>2, ScanInvariant, PTL DEF Spec, AbstractSpec, Abstract!Spec
=============================================================================
