------------------------ MODULE FolderResults_proofs ------------------------
(***************************************************************************)
(* Proofs about FolderResults, for every number of threads, every tree and *)
(* all results that comparing two files may give.                          *)
(***************************************************************************)
EXTENDS FolderResults, WellFoundedInduction, TLAPS

(* The sides an item is on when it has been looked at.                     *)
Final(i) == IF Requested THEN disk[i].now ELSE disk[i].side

(* The two folders: a tree in pre-order, each item under its ancestors.    *)
DiskOK ==
    /\ disk \in [Items -> [above : SUBSET Items, dir : BOOLEAN, side : SUBSET Both,
                           now : SUBSET Both, skipped : BOOLEAN]]
    /\ \A i \in Items : disk[i].above \subseteq 1 .. i - 1
    /\ \A i \in Items : \A k \in disk[i].above :
          /\ disk[k].above = { j \in disk[i].above : j < k }
          /\ disk[k].dir /\ ~disk[k].skipped
          /\ disk[i].side \subseteq disk[k].side
          /\ Final(i) \subseteq Final(k)
    /\ \A i \in Items : disk[i].side # {}

(* An item in a thread's hands has been picked, and only one with a parent *)
(* is walked up from.                                                      *)
BaseInv ==
    /\ DiskOK
    /\ TypeOK
    /\ \A t \in Threads :
          /\ pc[t] # "pick" => di[t] \in 1 .. cursor
          /\ pc[t] = "walk" => Parent(di[t]) # 0
          /\ pc[t] = "update" => Requested

(* Who holds an item: a thread in one of these places, or none yet.        *)
At(t, i, where) == pc[t] \in where /\ di[t] = i

InHands(i) == \E t \in Threads : At(t, i, {"update", "compare", "classify"})

Untouched(i) == ~Requested /\ i > cursor

(* Every result is at the parent, or a thread is going to bring it there.  *)
Brought(i) ==
    \E t \in Threads : At(t, i, {"walk"}) /\ flag[t].cmpBits /\ Contribution(code[i]) <= flag[t].cmp

Carried(i) ==
    \/ Contribution(code[i]) <= code[Parent(i)].cmp
    \/ Untouched(i) \/ InHands(i) \/ Brought(i)

(* An item and its parent on both sides.                                   *)
EdgeOK(i) == Parent(i) # 0 /\ code[Parent(i)].side = Both => Carried(i)

(* One compare thread.                                                     *)
Alone == \A t, u \in Threads : t = u

(* The marks of a rescan go before the results, from the top down.         *)
MarksOK ==
    /\ \A i \in Items : code[i].side # Both => code[i].cmp = NOCMP
    /\ \A i \in Items : code[i].skipped => disk[i].skipped
    /\ \A i \in Items : code[i].side = IF code[i].needScan THEN {} ELSE Final(i)
    /\ \A i \in Items : code[i].needScan => Requested
    /\ \A i \in Items : \A k \in disk[i].above : code[k].needScan => code[i].needScan
    /\ \A i \in Items : i <= cursor /\ code[i].needScan =>
          \E t \in Threads : At(t, i, {"update"})
    /\ \A t \in Threads : pc[t] = "update" => code[di[t]].needScan /\ di[t] = cursor

(* No result is more severe than the parent's, unless it is on its way.    *)
WorstInv == MarksOK /\ \A i \in Items : EdgeOK(i)

(* What a result higher up rests on: an item that will not change any more.*)
Leaf(k) == ~(disk[k].dir /\ disk[k].side = Both) /\ ~disk[k].skipped

Comparing(i) == \E t \in Threads : At(t, i, {"compare"})

(* A result more severe than identical is that of a leaf in S.             *)
Witness(S, v) == v <= SAME \/ \E k \in S : Leaf(k) /\ Contribution(code[k]) = v

UniqueIn(S, s) == \E k \in S : disk[k].side = {s} /\ ~disk[k].skipped

(* Every result a folder has or a walk brings comes from a leaf below.     *)
SourceInv ==
    /\ \A t, u \in Threads : pc[t] = "compare" /\ At(u, di[t], {"compare"}) => t = u
    /\ \A t \in Threads : pc[t] = "classify" => code[di[t]].skipped = disk[di[t]].skipped
    /\ \A i \in Items : ~disk[i].dir /\ (i > cursor \/ Comparing(i)) => code[i].cmp = NOCMP
    /\ \A i \in Items : disk[i].dir /\ code[i].side = Both /\ i <= cursor =>
          code[i].cmp >= SAME \/ Comparing(i)
    /\ \A i \in Items : disk[i].dir => Witness(Descendants(i), code[i].cmp)
    /\ \A t \in Threads : pc[t] = "walk" /\ flag[t].cmpBits =>
          Witness(Descendants(di[t]) \union {di[t]}, flag[t].cmp)

Delivered(i, s) == \E t \in Threads : At(t, i, {"walk"}) /\ s \in flag[t].contains

(* Every CONTAINS bit comes from a unique item below, and every unique     *)
(* item has its bit at all its ancestors or on the way to them.            *)
UniqueInv ==
    /\ \A i \in Items : \A s \in Both : s \in code[i].contains => UniqueIn(Descendants(i), s)
    /\ \A t \in Threads : \A s \in Both : pc[t] = "walk" /\ s \in flag[t].contains =>
          UniqueIn(Descendants(di[t]) \union {di[t]}, s)
    /\ \A i \in Items : \A s \in Both : Parent(i) # 0 =>
          /\ s \in code[i].contains => s \in code[Parent(i)].contains \/ Delivered(i, s)
          /\ code[i].side = {s} /\ ~code[i].skipped =>
                \/ s \in code[Parent(i)].contains \/ Delivered(i, s)
                \/ Untouched(i) \/ InHands(i)

-----------------------------------------------------------------------------
(* A set of numbers has a least member ...                                 *)
LEMMA LeastOf ==
    ASSUME NEW S \in SUBSET Nat, S # {}
    PROVE  \E m \in S : \A k \in S : m <= k
<1> DEFINE R == { p \in Nat \X Nat : p[1] < p[2] }
<1>1. IsWellFoundedOn(R, Nat)
  BY NatLessThanWellFounded, Zenon DEF OpToRel
<1>2. PICK m \in S : \A k \in S : <<k, m>> \notin R
  BY <1>1, WFMin, Zenon
<1>3. \A a, b \in Nat : a < b => <<a, b>> \in R
  OBVIOUS
<1>4. m \in Nat /\ \A k \in S : ~(k < m)
  BY <1>2, <1>3
<1> QED BY <1>4

(* ... and a bounded one has a greatest, which Max chooses.                *)
LEMMA GreatestOf ==
    ASSUME NEW n \in Nat, NEW S \in SUBSET (0 .. n), S # {}
    PROVE  Max(S) \in S /\ \A k \in S : k <= Max(S)
<1> DEFINE D == { n - k : k \in S }
           P(g) == g \in S /\ \A k \in S : g >= k
<1>1. D \in SUBSET Nat /\ D # {}
  <2>1. \A k \in S : k \in Nat /\ k <= n
    OBVIOUS
  <2>2. \A k \in S : n - k \in Nat
    BY <2>1
  <2>3. \A d \in D : d \in Nat
    BY <2>2
  <2>4. PICK k \in S : TRUE
    OBVIOUS
  <2>5. n - k \in D
    BY <2>4
  <2> QED BY <2>3, <2>5
<1>2. PICK m \in D : \A d \in D : m <= d
  BY <1>1, LeastOf, Zenon
<1>3. PICK g \in S : m = n - g
  OBVIOUS
<1>4. \A k \in S : n - g <= n - k
  BY <1>2, <1>3
<1>5. P(g)
  BY <1>4
<1>6. P(CHOOSE x : P(x))
  BY <1>5, Zenon
<1>7. Max(S) = CHOOSE x : P(x)
  BY Zenon DEF Max
<1> QED BY <1>6, <1>7

(* The greatest of a few compare flags is known by its two properties.     *)
LEMMA MaxFlagIs ==
    ASSUME NEW S \in SUBSET CompareFlags, NEW v \in S, \A k \in S : k <= v
    PROVE  Max(S) = v
<1>1. S \in SUBSET (0 .. 4) /\ S # {}
  BY DEF CompareFlags, NOCMP, CMPABORT
<1>2. Max(S) \in S /\ \A k \in S : k <= Max(S)
  BY <1>1, GreatestOf
<1>3. Max(S) \in 0 .. 4 /\ v \in 0 .. 4
  BY <1>1, <1>2
<1>4. Max(S) <= v
  BY <1>2
<1>5. v <= Max(S)
  BY <1>2
<1> QED BY <1>3, <1>4, <1>5

-----------------------------------------------------------------------------
(* The parent is the last of an item's ancestors, the others are above it. *)
LEMMA ParentFacts ==
    ASSUME DiskOK, NEW i \in Items
    PROVE  /\ Parent(i) \in 0 .. NumItems
           /\ Parent(i) # 0 => Parent(i) \in disk[i].above /\ Parent(i) \in Items /\ Parent(i) < i
           /\ disk[i].above # {} => Parent(i) # 0
           /\ \A k \in disk[i].above : k = Parent(i) \/ k \in disk[Parent(i)].above
<1>0. i \in Nat /\ NumItems \in Nat /\ i <= NumItems /\ disk[i].above \subseteq 1 .. i - 1
  BY NumItemsAssumption DEF DiskOK, Items
<1>1. CASE disk[i].above = {}
  BY <1>0, <1>1 DEF Parent
<1>2. CASE disk[i].above # {}
  <2>1. disk[i].above \in SUBSET (0 .. i)
    BY <1>0
  <2>2. /\ Parent(i) = Max(disk[i].above)
        /\ Max(disk[i].above) \in disk[i].above
        /\ \A k \in disk[i].above : k <= Max(disk[i].above)
    BY <2>1, <1>0, <1>2, GreatestOf DEF Parent
  <2>3. disk[Parent(i)].above = { j \in disk[i].above : j < Parent(i) }
    BY <2>2 DEF DiskOK
  <2>4. Parent(i) \in 1 .. i - 1
    BY <2>2, <1>0
  <2> QED BY <2>2, <2>3, <2>4, <1>0 DEF Items
<1> QED BY <1>1, <1>2

(* What is below an item, and the item itself, is below its parent.        *)
LEMMA BelowParent ==
    ASSUME DiskOK, NEW i \in Items, Parent(i) # 0
    PROVE  Descendants(i) \union {i} \subseteq Descendants(Parent(i))
<1>1. Parent(i) \in disk[i].above /\ Parent(i) < i /\ Parent(i) \in Items
  BY ParentFacts
<1>2. ASSUME NEW k \in Items, i \in disk[k].above PROVE Parent(i) \in disk[k].above
  <2>1. disk[i].above = { j \in disk[k].above : j < i }
    BY <1>2 DEF DiskOK
  <2> QED BY <2>1, <1>1
<1> QED BY <1>1, <1>2 DEF Descendants

(* Every tree the folders may form is in shape: by the least item that     *)
(* would not be.                                                           *)
LEMMA TreesInShape ==
    ASSUME NEW above \in Trees
    PROVE  /\ \A i \in Items : above[i] \subseteq 1 .. i - 1
           /\ \A i \in Items : \A k \in above[i] : above[k] = { j \in above[i] : j < k }
<1> DEFINE Link(i, m) == above[i] = IF i = 1 THEN {} ELSE { k \in above[i - 1] \union {i - 1} : k <= m }
           Shape(i) == /\ above[i] \subseteq 1 .. i - 1
                       /\ \A k \in above[i] : above[k] = { j \in above[i] : j < k }
           Bad == { i \in Items : ~Shape(i) }
<1>0. Items \subseteq Nat /\ \A i \in Items : \E m \in 0 .. i - 1 : Link(i, m)
  BY NumItemsAssumption DEF Trees, Items
<1>1. Bad = {}
  <2> SUFFICES ASSUME Bad # {} PROVE FALSE
    OBVIOUS
  <2>1. PICK i \in Bad : \A k \in Bad : i <= k
    <3>1. Bad \in SUBSET Nat
      BY <1>0
    <3> QED BY <3>1, LeastOf, Zenon
  <2>2. PICK m \in 0 .. i - 1 : Link(i, m)
    BY <1>0
  <2>3. i # 1
    BY <2>1, <2>2
  <2>4. i \in Nat /\ i > 1 /\ i - 1 \in Items
    BY <2>1, <2>3, NumItemsAssumption DEF Items
  <2>5. Shape(i - 1)
    BY <2>1, <2>4
  <2>6. above[i] = { k \in above[i - 1] \union {i - 1} : k <= m }
    BY <2>2, <2>3
  <2>7. above[i] \subseteq 1 .. i - 1
    BY <2>4, <2>5, <2>6
  <2>8. ASSUME NEW k \in above[i] PROVE above[k] = { j \in above[i] : j < k }
    <3>1. k \in Nat /\ k <= m /\ \A j \in above[i - 1] : j \in Nat /\ j < i - 1
      BY <2>4, <2>5, <2>6
    <3>2. CASE k = i - 1
      BY <3>1, <3>2, <2>4, <2>5, <2>6
    <3>3. CASE k # i - 1
      <4>1. k \in above[i - 1] /\ k < i - 1
        BY <3>1, <3>3, <2>6
      <4>2. above[k] = { j \in above[i - 1] : j < k }
        BY <4>1, <2>5
      <4> QED BY <4>1, <4>2, <3>1, <2>4, <2>6
    <3> QED BY <3>2, <3>3
  <2> QED BY <2>1, <2>7, <2>8
<1> QED BY <1>1

(* Every pair of folders DiskInit may give is in that shape.               *)
LEMMA DiskInitOK == DiskInit => DiskOK
<1> SUFFICES ASSUME DiskInit PROVE DiskOK
  OBVIOUS
<1>1. PICK above \in Trees :
        LET folders == UNION { above[i] : i \in Items }
            sides   == { side \in [Items -> SUBSET Both] : Nested(side, above) }
        IN  \E dirs \in { d \in SUBSET Items : folders \subseteq d },
               listed \in { side \in sides : {} \notin { side[i] : i \in Items } },
               now \in IF Requested THEN sides ELSE {[i \in Items |-> Both]},
               skipped \in IF Filtering THEN SUBSET (Items \ folders) ELSE {{}} :
               disk = [i \in Items |-> [above |-> above[i], dir |-> i \in dirs, side |-> listed[i],
                                       now |-> now[i], skipped |-> i \in skipped]]
  BY Zenon DEF DiskInit
<1> DEFINE folders == UNION { above[i] : i \in Items }
           sides   == { side \in [Items -> SUBSET Both] : Nested(side, above) }
<1>2. PICK dirs \in { d \in SUBSET Items : folders \subseteq d },
           listed \in { side \in sides : {} \notin { side[i] : i \in Items } },
           now \in IF Requested THEN sides ELSE {[i \in Items |-> Both]},
           skipped \in IF Filtering THEN SUBSET (Items \ folders) ELSE {{}} :
               disk = [i \in Items |-> [above |-> above[i], dir |-> i \in dirs, side |-> listed[i],
                                       now |-> now[i], skipped |-> i \in skipped]]
  BY <1>1, Zenon
<1>3. /\ \A i \in Items : above[i] \subseteq 1 .. i - 1
      /\ \A i \in Items : \A k \in above[i] : above[k] = { j \in above[i] : j < k }
  BY TreesInShape
<1>4. /\ above \in [Items -> SUBSET Items]
      /\ \A i \in Items : above[i] \subseteq folders
      /\ folders \subseteq dirs
  BY DEF Trees
<1>5. listed \in [Items -> SUBSET Both] /\ Nested(listed, above) /\ \A i \in Items : listed[i] # {}
  OBVIOUS
<1>6. now \in [Items -> SUBSET Both] /\ (Requested => Nested(now, above))
  OBVIOUS
<1>7. skipped \in SUBSET (Items \ folders)
  OBVIOUS
<1> HIDE DEF folders, sides
<1>8. \A i \in Items : /\ disk[i].above = above[i] /\ disk[i].dir = (i \in dirs)
                       /\ disk[i].side = listed[i] /\ disk[i].now = now[i]
                       /\ disk[i].skipped = (i \in skipped)
  BY <1>2
<1>9. disk \in [Items -> [above : SUBSET Items, dir : BOOLEAN, side : SUBSET Both,
                          now : SUBSET Both, skipped : BOOLEAN]]
  BY <1>2, <1>4, <1>5, <1>6
<1>10. ASSUME NEW i \in Items, NEW k \in disk[i].above
       PROVE  /\ disk[k].above = { j \in disk[i].above : j < k }
              /\ disk[k].dir /\ ~disk[k].skipped
              /\ disk[i].side \subseteq disk[k].side
              /\ Final(i) \subseteq Final(k)
  <2>1. k \in above[i] /\ k \in Items
    BY <1>8, <1>4
  <2>2. k \in folders /\ k \in dirs /\ k \notin skipped
    BY <2>1, <1>4, <1>7
  <2>3. listed[i] \subseteq listed[k] /\ (Requested => now[i] \subseteq now[k])
    BY <2>1, <1>5, <1>6 DEF Nested
  <2>4. disk[k].dir /\ ~disk[k].skipped
    BY <2>1, <2>2, <1>8
  <2>5. disk[k].above = { j \in disk[i].above : j < k }
    BY <2>1, <1>3, <1>8
  <2>6. disk[i].side \subseteq disk[k].side /\ (Requested => disk[i].now \subseteq disk[k].now)
    BY <2>1, <2>3, <1>8
  <2> QED BY <2>4, <2>5, <2>6 DEF Final
<1> QED BY <1>3, <1>5, <1>8, <1>9, <1>10 DEF DiskOK

-----------------------------------------------------------------------------
(* What each step does to the diffcodes, field by field.                   *)
CodeType ==
    [side : SUBSET Both, cmp : CompareFlags, contains : SUBSET {"identical", "left", "right"},
     skipped : BOOLEAN, needScan : BOOLEAN]

FlagType ==
    [contains : SUBSET {"identical", "left", "right"}, cmpBits : BOOLEAN, cmp : CompareFlags]

(* What an item sends up: its CONTAINS bit if it is unique, and its        *)
(* contribution whenever that is a result.                                 *)
LEMMA FlagOfFacts ==
    ASSUME NEW c \in CodeType
    PROVE  /\ FlagOf(c) \in FlagType
           /\ \A s \in Both : s \in FlagOf(c).contains <=> c.side = {s} /\ c.cmp = NOCMP
           /\ FlagOf(c).cmpBits => FlagOf(c).cmp = Contribution([c EXCEPT !.skipped = FALSE])
           /\ ~FlagOf(c).cmpBits /\ (c.side # Both => c.cmp = NOCMP)
                => Contribution([c EXCEPT !.skipped = FALSE]) = NOCMP
  BY DEF CodeType, FlagType, FlagOf, Flag, NoFlag, Contribution, CompareFlags,
         NOCMP, SAME, DIFF, CMPERR, CMPABORT, Both

(* One parent: either it takes the result brought, or it keeps its own and *)
(* the walk goes on without one.                                           *)
LEMMA PropagateEffect ==
    ASSUME BaseInv, NEW t \in Threads, Propagate(t), NEW i, i = di[t], NEW p, p = Parent(i)
    PROVE  /\ i \in Items /\ p \in Items /\ p \in disk[i].above /\ p < i /\ i <= cursor
           /\ code' \in [Items -> CodeType] /\ flag' \in [Threads -> FlagType]
           /\ \A j \in Items \ {p} : code'[j] = code[j]
           /\ code'[p].side = code[p].side /\ code'[p].skipped = code[p].skipped
           /\ code'[p].needScan = code[p].needScan
           /\ code'[p].contains = code[p].contains \union flag[t].contains
           /\ flag'[t].contains = flag[t].contains
           /\ \/ /\ flag[t].cmpBits /\ code[p].side = Both /\ code[p].cmp <= flag[t].cmp
                 /\ code'[p].cmp = flag[t].cmp
                 /\ flag'[t].cmpBits /\ flag'[t].cmp = flag[t].cmp
              \/ /\ ~(flag[t].cmpBits /\ code[p].side = Both /\ code[p].cmp <= flag[t].cmp)
                 /\ code'[p].cmp = code[p].cmp
                 /\ ~flag'[t].cmpBits
           /\ \A u \in Threads \ {t} : pc'[u] = pc[u] /\ di'[u] = di[u] /\ flag'[u] = flag[u]
           /\ pc[t] = "walk" /\ pc'[t] \in {"pick", "walk"} /\ di'[t] = p
           /\ pc'[t] = "pick" => code'[p] = code[p] \/ Parent(p) = 0
           /\ pc'[t] = "walk" => Parent(p) # 0
           /\ disk' = disk /\ cursor' = cursor
<1>1. /\ i \in 1 .. cursor /\ cursor \in 0 .. NumItems /\ i \in Items
      /\ p # 0 /\ disk' = disk /\ cursor' = cursor /\ pc[t] = "walk"
      /\ code \in [Items -> CodeType] /\ flag \in [Threads -> FlagType]
      /\ pc \in [Threads -> {"pick", "update", "compare", "classify", "walk"}]
      /\ di \in [Threads -> 0 .. NumItems]
  BY NumItemsAssumption DEF BaseInv, TypeOK, Propagate, Items, CodeType, FlagType
<1>2. p \in Items /\ p \in disk[i].above /\ p < i /\ i <= cursor
  BY <1>1, ParentFacts DEF BaseInv
<1> DEFINE f   == Weaken(flag[t], code[p])
           new == Apply(f, code[p])
<1>3. /\ code' = [code EXCEPT ![p] = new] /\ flag' = [flag EXCEPT ![t] = f]
      /\ di' = [di EXCEPT ![t] = p]
      /\ pc' = [pc EXCEPT ![t] = IF new = code[p] \/ Parent(p) = 0 THEN "pick" ELSE "walk"]
  BY DEF Propagate
<1>4. code[p] \in CodeType /\ flag[t] \in FlagType
  BY <1>1, <1>2
<1>5. /\ f \in FlagType /\ f.contains = flag[t].contains
      /\ \/ /\ flag[t].cmpBits /\ code[p].side = Both /\ code[p].cmp <= flag[t].cmp
            /\ f.cmpBits /\ f.cmp = flag[t].cmp
         \/ /\ ~(flag[t].cmpBits /\ code[p].side = Both /\ code[p].cmp <= flag[t].cmp)
            /\ ~f.cmpBits
  <2>1. code[p].cmp \in Int /\ flag[t].cmp \in Int /\ NOCMP \in CompareFlags
    BY <1>4 DEF CodeType, FlagType, CompareFlags, NOCMP, CMPABORT
  <2>2. CASE code[p].side # Both \/ code[p].cmp > flag[t].cmp
    <3>1. f = [flag[t] EXCEPT !.cmpBits = FALSE, !.cmp = NOCMP]
      BY <2>2 DEF Weaken
    <3>2. f \in FlagType /\ f.contains = flag[t].contains /\ ~f.cmpBits
      BY <3>1, <2>1, <1>4 DEF FlagType
    <3>3. ~(code[p].side = Both /\ code[p].cmp <= flag[t].cmp)
      BY <2>1, <2>2
    <3> HIDE DEF f
    <3> QED BY <3>2, <3>3
  <2>3. CASE ~(code[p].side # Both \/ code[p].cmp > flag[t].cmp)
    <3>1. f = flag[t]
      BY <2>3 DEF Weaken
    <3>2. code[p].side = Both /\ code[p].cmp <= flag[t].cmp
      BY <2>1, <2>3
    <3> HIDE DEF f
    <3> QED BY <3>1, <3>2, <1>4
  <2> QED BY <2>2, <2>3
<1> HIDE DEF f
<1>6. /\ new \in CodeType /\ new.side = code[p].side /\ new.skipped = code[p].skipped
      /\ new.needScan = code[p].needScan /\ new.contains = code[p].contains \union f.contains
      /\ new.cmp = IF f.cmpBits THEN f.cmp ELSE code[p].cmp
  BY <1>4, <1>5 DEF Apply, CodeType, FlagType
<1> HIDE DEF new
<1>7. /\ code' \in [Items -> CodeType] /\ flag' \in [Threads -> FlagType]
      /\ code'[p] = new /\ flag'[t] = f
      /\ \A j \in Items \ {p} : code'[j] = code[j]
  BY <1>1, <1>2, <1>3, <1>5, <1>6
<1>8. /\ \A u \in Threads \ {t} : pc'[u] = pc[u] /\ di'[u] = di[u] /\ flag'[u] = flag[u]
      /\ pc'[t] \in {"pick", "walk"} /\ di'[t] = p
      /\ pc'[t] = "pick" => new = code[p] \/ Parent(p) = 0
      /\ pc'[t] = "walk" => Parent(p) # 0
  BY <1>1, <1>2, <1>3
<1> QED BY <1>1, <1>2, <1>5, <1>6, <1>7, <1>8

(* The other steps of a thread touch only the item in its hands.           *)
LEMMA HandEffect ==
    ASSUME BaseInv, NEW t \in Threads, Update(t) \/ CompareFolder(t) \/ CompareFile(t),
           NEW i, i = di[t]
    PROVE  /\ i \in Items /\ i <= cursor
           /\ code' \in [Items -> CodeType] /\ flag' = flag /\ di' = di
           /\ \A j \in Items \ {i} : code'[j] = code[j]
           /\ code'[i].contains = code[i].contains
           /\ \/ /\ pc[t] = "update" /\ pc'[t] \in {"compare", "classify"}
                 /\ code'[i].side = disk[i].now
                 /\ ~code'[i].needScan /\ code'[i].skipped = code[i].skipped
                 /\ code'[i].cmp = code[i].cmp
                 /\ pc'[t] = "classify" <=> disk[i].now = {}
              \/ /\ pc[t] = "compare" /\ pc'[t] = "classify" /\ disk[i].dir
                 /\ code'[i].side = code[i].side /\ code'[i].needScan = code[i].needScan
                 /\ code'[i].skipped = disk[i].skipped
                 /\ code'[i].cmp = IF code[i].cmp = NOCMP /\ code[i].side = Both THEN SAME
                                   ELSE code[i].cmp
              \/ /\ pc[t] = "compare" /\ pc'[t] = "classify" /\ ~disk[i].dir
                 /\ code'[i].side = code[i].side /\ code'[i].needScan = code[i].needScan
                 /\ code'[i].skipped = (code[i].skipped \/ disk[i].skipped)
                 /\ code'[i].cmp # code[i].cmp => code[i].side = Both /\ ~disk[i].skipped
           /\ \A u \in Threads \ {t} : pc'[u] = pc[u]
           /\ disk' = disk /\ cursor' = cursor
<1>1. /\ i \in 1 .. cursor /\ cursor \in 0 .. NumItems /\ i \in Items
      /\ disk' = disk /\ cursor' = cursor /\ flag' = flag /\ di' = di
      /\ code \in [Items -> CodeType]
      /\ pc \in [Threads -> {"pick", "update", "compare", "classify", "walk"}]
      /\ code[i] \in CodeType
      /\ disk[i] \in [above : SUBSET Items, dir : BOOLEAN, side : SUBSET Both,
                           now : SUBSET Both, skipped : BOOLEAN]
  <2>1. pc[t] # "pick" /\ flag' = flag /\ di' = di /\ disk' = disk /\ cursor' = cursor
    BY DEF Update, CompareFolder, CompareFile
  <2>2. i \in 1 .. cursor /\ cursor \in 0 .. NumItems /\ i \in Items
    BY <2>1, NumItemsAssumption DEF BaseInv, TypeOK, Items
  <2> QED BY <2>1, <2>2 DEF BaseInv, TypeOK, CodeType, DiskOK
<1>2. CASE Update(t)
  <2>1. /\ code' = [code EXCEPT ![i] = [code[i] EXCEPT !.needScan = FALSE, !.side = disk[i].now]]
        /\ pc' = [pc EXCEPT ![t] = IF disk[i].now = {} THEN "classify" ELSE "compare"]
        /\ pc[t] = "update"
    BY <1>1, <1>2 DEF Update
  <2> DEFINE new == [code[i] EXCEPT !.needScan = FALSE, !.side = disk[i].now]
  <2>2. /\ new \in CodeType /\ new.side = disk[i].now /\ ~new.needScan /\ new.skipped = code[i].skipped
        /\ new.cmp = code[i].cmp /\ new.contains = code[i].contains
    BY <1>1 DEF CodeType
  <2> HIDE DEF new
  <2>3. /\ code' \in [Items -> CodeType] /\ code'[i] = new
        /\ \A j \in Items \ {i} : code'[j] = code[j]
    BY <1>1, <2>1, <2>2 DEF new
  <2>4. /\ \A u \in Threads \ {t} : pc'[u] = pc[u]
        /\ pc'[t] \in {"compare", "classify"} /\ (pc'[t] = "classify" <=> disk[i].now = {})
    BY <1>1, <2>1
  <2> QED BY <1>1, <2>1, <2>2, <2>3, <2>4
<1>3. CASE CompareFolder(t)
  <2> DEFINE new == [code[i] EXCEPT !.skipped = disk[i].skipped,
                        !.cmp = IF code[i].cmp = NOCMP /\ code[i].side = Both THEN SAME ELSE code[i].cmp]
  <2>1. /\ code' = [code EXCEPT ![i] = new]
        /\ pc' = [pc EXCEPT ![t] = "classify"] /\ pc[t] = "compare" /\ disk[i].dir
    BY <1>1, <1>3 DEF CompareFolder
  <2>2. /\ new \in CodeType /\ new.side = code[i].side /\ new.needScan = code[i].needScan
        /\ new.skipped = disk[i].skipped /\ new.contains = code[i].contains
        /\ new.cmp = IF code[i].cmp = NOCMP /\ code[i].side = Both THEN SAME ELSE code[i].cmp
    <3> DEFINE v == IF code[i].cmp = NOCMP /\ code[i].side = Both THEN SAME ELSE code[i].cmp
    <3>1. v \in CompareFlags
      BY <1>1 DEF CodeType, CompareFlags, NOCMP, SAME, CMPABORT
    <3> HIDE DEF v
    <3>2. /\ [code[i] EXCEPT !.skipped = disk[i].skipped, !.cmp = v] \in CodeType
          /\ [code[i] EXCEPT !.skipped = disk[i].skipped, !.cmp = v].side = code[i].side
          /\ [code[i] EXCEPT !.skipped = disk[i].skipped, !.cmp = v].needScan = code[i].needScan
          /\ [code[i] EXCEPT !.skipped = disk[i].skipped, !.cmp = v].skipped = disk[i].skipped
          /\ [code[i] EXCEPT !.skipped = disk[i].skipped, !.cmp = v].contains = code[i].contains
          /\ [code[i] EXCEPT !.skipped = disk[i].skipped, !.cmp = v].cmp = v
      BY <1>1, <3>1 DEF CodeType
    <3> QED BY <3>2 DEF v
  <2> HIDE DEF new
  <2>3. /\ code' \in [Items -> CodeType] /\ code'[i] = new
        /\ \A j \in Items \ {i} : code'[j] = code[j]
    BY <1>1, <2>1, <2>2
  <2>4. \A u \in Threads \ {t} : pc'[u] = pc[u]
    BY <1>1, <2>1
  <2>5. pc'[t] = "classify"
    BY <1>1, <2>1
  <2> QED BY <1>1, <2>1, <2>2, <2>3, <2>4, <2>5
<1>4. CASE CompareFile(t)
  <2>1. pc' = [pc EXCEPT ![t] = "classify"] /\ pc[t] = "compare" /\ ~disk[i].dir
    BY <1>1, <1>4 DEF CompareFile
  <2>2. \A u \in Threads \ {t} : pc'[u] = pc[u]
    BY <1>1, <2>1
  <2>3. pc'[t] = "classify"
    BY <1>1, <2>1
  <2>4. \E new \in CodeType :
           /\ code' = [code EXCEPT ![i] = new] /\ new.side = code[i].side
           /\ new.needScan = code[i].needScan /\ new.contains = code[i].contains
           /\ new.skipped = (code[i].skipped \/ disk[i].skipped)
           /\ new.cmp # code[i].cmp => code[i].side = Both /\ ~disk[i].skipped
    <3>1. CASE disk[i].skipped /\ code' = [code EXCEPT ![i].skipped = TRUE]
      <4> DEFINE new == [code[i] EXCEPT !.skipped = TRUE]
      <4>1. new \in CodeType /\ code' = [code EXCEPT ![i] = new]
        BY <1>1, <3>1 DEF CodeType
      <4>2. /\ new.side = code[i].side /\ new.needScan = code[i].needScan /\ new.contains = code[i].contains
            /\ new.skipped = TRUE /\ new.cmp = code[i].cmp
        BY <1>1 DEF CodeType
      <4> HIDE DEF new
      <4> QED BY <4>1, <4>2, <3>1
    <3>2. CASE ~disk[i].skipped /\ code[i].side = Both
               /\ \E result \in Outcomes : code' = [code EXCEPT ![i].cmp = result]
      <4> PICK result \in Outcomes : code' = [code EXCEPT ![i].cmp = result]
        BY <3>2
      <4> DEFINE new == [code[i] EXCEPT !.cmp = result]
      <4>1. new \in CodeType /\ code' = [code EXCEPT ![i] = new]
        BY <1>1, OutcomesAssumption DEF CodeType
      <4>2. /\ new.side = code[i].side /\ new.needScan = code[i].needScan /\ new.contains = code[i].contains
            /\ new.skipped = code[i].skipped /\ new.skipped \in BOOLEAN
        BY <1>1 DEF CodeType
      <4> HIDE DEF new
      <4> QED BY <4>1, <4>2, <3>2
    <3>3. CASE ~disk[i].skipped /\ code[i].side # Both /\ UNCHANGED code
      <4>1. code' = [code EXCEPT ![i] = code[i]]
        BY <3>3, <1>1
      <4>2. code[i].skipped = (code[i].skipped \/ disk[i].skipped)
        BY <3>3, <1>1 DEF CodeType
      <4> QED BY <4>1, <4>2, <1>1
    <3> QED BY <3>1, <3>2, <3>3, <1>1, <1>4 DEF CompareFile
  <2>5. PICK new \in CodeType :
           /\ code' = [code EXCEPT ![i] = new] /\ new.side = code[i].side
           /\ new.needScan = code[i].needScan /\ new.contains = code[i].contains
           /\ new.skipped = (code[i].skipped \/ disk[i].skipped)
           /\ new.cmp # code[i].cmp => code[i].side = Both /\ ~disk[i].skipped
    BY <2>4
  <2>6. /\ code' \in [Items -> CodeType] /\ code'[i] = new
        /\ \A j \in Items \ {i} : code'[j] = code[j]
    BY <1>1, <2>5
  <2> QED BY <1>1, <2>1, <2>2, <2>3, <2>5, <2>6
<1> QED BY <1>2, <1>3, <1>4

-----------------------------------------------------------------------------
(* The results an earlier full scan left behind: each is at the parent.    *)
LEMMA ScannedFacts ==
    ASSUME DiskOK,
           NEW result \in [{ i \in Items : ~disk[i].dir /\ disk[i].side = Both } -> Outcomes]
    PROVE  /\ Scanned(result) \in [Items -> CodeType]
           /\ \A i \in Items :
                 /\ Scanned(result)[i].side = disk[i].side /\ ~Scanned(result)[i].needScan
                 /\ Scanned(result)[i].skipped = disk[i].skipped
                 /\ disk[i].side # Both => Scanned(result)[i].cmp = NOCMP
                 /\ Parent(i) # 0 /\ disk[Parent(i)].side = Both =>
                       Contribution(Scanned(result)[i]) <= Scanned(result)[Parent(i)].cmp
<1> DEFINE Files(i) == { f \in Descendants(i) : ~disk[f].dir /\ ~disk[f].skipped /\ disk[f].side = Both }
           Uniques(i) == { u \in Descendants(i) : ~disk[u].skipped /\ disk[u].side # Both }
           Below(i) == {SAME} \union { result[k] : k \in Files(i) } \union { DIFF : k \in Uniques(i) }
           cmp(i) == IF disk[i].side # Both THEN NOCMP
                     ELSE IF ~disk[i].dir THEN IF disk[i].skipped THEN NOCMP ELSE result[i]
                     ELSE Max(Below(i))
           contains(i) == { s \in Both :
                              \E k \in Descendants(i) : ~disk[k].skipped /\ disk[k].side = {s} }
           S == Scanned(result)
<1>1. \A i \in Items : S[i] = [side |-> disk[i].side, cmp |-> cmp(i), skipped |-> disk[i].skipped,
                               needScan |-> FALSE, contains |-> contains(i)]
  BY DEF Scanned
<1>2. DOMAIN S = Items /\ S = [i \in Items |-> S[i]]
  BY DEF Scanned
<1>3. ASSUME NEW i \in Items
      PROVE  /\ Below(i) \in SUBSET CompareFlags
             /\ Max(Below(i)) \in Below(i)
             /\ \A v \in Below(i) : v <= Max(Below(i))
  <2>1. \A k \in Files(i) : result[k] \in CompareFlags
    BY OutcomesAssumption DEF Descendants
  <2>2. SAME \in CompareFlags /\ DIFF \in CompareFlags
    BY DEF CompareFlags, NOCMP, SAME, DIFF, CMPABORT
  <2>3. Below(i) \in SUBSET CompareFlags
    BY <2>1, <2>2
  <2>4. Below(i) \in SUBSET (0 .. 4) /\ Below(i) # {}
    BY <2>3 DEF CompareFlags, NOCMP, CMPABORT
  <2> HIDE DEF Below
  <2> QED BY <2>3, <2>4, GreatestOf
<1> HIDE DEF Below
<1>4. ASSUME NEW i \in Items PROVE cmp(i) \in CompareFlags
  <2>1. NOCMP \in CompareFlags
    BY DEF CompareFlags, NOCMP, CMPABORT
  <2>2. disk[i].side = Both /\ ~disk[i].dir => result[i] \in CompareFlags
    BY OutcomesAssumption
  <2> QED BY <2>1, <2>2, <1>3
<1>5. S \in [Items -> CodeType]
  <2>1. ASSUME NEW i \in Items PROVE S[i] \in CodeType
    <3>1. contains(i) \in SUBSET {"identical", "left", "right"}
      BY DEF Both
    <3>2. disk[i].side \in SUBSET Both /\ disk[i].skipped \in BOOLEAN
      BY DEF DiskOK
    <3>3. cmp(i) \in CompareFlags
      BY <1>4
    <3>4. PICK x, y : x = cmp(i) /\ y = contains(i)
      OBVIOUS
    <3>5. S[i] = [side |-> disk[i].side, cmp |-> x, skipped |-> disk[i].skipped,
                  needScan |-> FALSE, contains |-> y]
      BY <1>1, <3>4
    <3>6. x \in CompareFlags /\ y \in SUBSET {"identical", "left", "right"}
      BY <3>1, <3>3, <3>4
    <3> HIDE DEF contains, cmp, S
    <3> QED BY <3>2, <3>5, <3>6 DEF CodeType
  <2> QED BY <2>1, <1>2
<1>6. ASSUME NEW i \in Items
      PROVE  /\ S[i].side = disk[i].side /\ ~S[i].needScan
             /\ S[i].skipped = disk[i].skipped
             /\ disk[i].side # Both => S[i].cmp = NOCMP
             /\ S[i].cmp = cmp(i)
  <2>1. disk[i].side # Both => cmp(i) = NOCMP
    OBVIOUS
  <2>2. PICK x, y : x = cmp(i) /\ y = contains(i)
    OBVIOUS
  <2>3. S[i] = [side |-> disk[i].side, cmp |-> x, skipped |-> disk[i].skipped,
                needScan |-> FALSE, contains |-> y]
    BY <1>1, <2>2
  <2> HIDE DEF contains, cmp, S
  <2> QED BY <2>1, <2>2, <2>3
<1>7. ASSUME NEW i \in Items, Parent(i) # 0, disk[Parent(i)].side = Both
      PROVE  Contribution(S[i]) <= S[Parent(i)].cmp
  <2> DEFINE p == Parent(i)
  <2>1. p \in Items /\ p \in disk[i].above /\ disk[p].dir
    BY <1>7, ParentFacts DEF DiskOK
  <2>2. Descendants(i) \union {i} \subseteq Descendants(p)
    BY <1>7, BelowParent
  <2>3. S[p].cmp = Max(Below(p))
    BY <1>6, <1>7, <2>1
  <2>4. Contribution(S[i]) = NOCMP \/ Contribution(S[i]) \in Below(p)
    <3>1. CASE disk[i].skipped
      BY <3>1, <1>6 DEF Contribution
    <3>2. CASE ~disk[i].skipped /\ disk[i].side # Both
      <4>1. i \in Uniques(p)
        BY <3>2, <2>2
      <4>2. DIFF \in Below(p)
        BY <4>1 DEF Below
      <4>3. Contribution(S[i]) \in {NOCMP, DIFF}
        BY <3>2, <1>6 DEF Contribution
      <4> QED BY <4>2, <4>3
    <3>3. CASE ~disk[i].skipped /\ disk[i].side = Both /\ ~disk[i].dir
      <4>1. i \in Files(p)
        BY <3>3, <2>2
      <4>2. result[i] \in Below(p)
        BY <4>1 DEF Below
      <4>3. Contribution(S[i]) = cmp(i)
        BY <3>3, <1>6 DEF Contribution, Both
      <4> QED BY <4>2, <4>3, <3>3
    <3>4. CASE ~disk[i].skipped /\ disk[i].side = Both /\ disk[i].dir
      <4>1. Files(i) \subseteq Files(p) /\ Uniques(i) \subseteq Uniques(p)
        BY <2>2
      <4>2. Below(i) \subseteq Below(p)
        BY <4>1 DEF Below
      <4>3. Contribution(S[i]) = cmp(i)
        BY <3>4, <1>6, SMTT(30) DEF Contribution, Both
      <4> QED BY <4>2, <4>3, <3>4, <1>3
    <3> QED BY <3>1, <3>2, <3>3, <3>4
  <2>5. Max(Below(p)) \in Int /\ NOCMP <= Max(Below(p))
    BY <1>3, <2>1 DEF CompareFlags, NOCMP, CMPABORT
  <2>6. CASE Contribution(S[i]) = NOCMP
    BY <2>3, <2>5, <2>6
  <2>7. CASE Contribution(S[i]) \in Below(p)
    BY <2>1, <2>3, <2>7, <1>3
  <2> QED BY <2>4, <2>6, <2>7
<1> HIDE DEF S, cmp, contains
<1> QED BY <1>5, <1>6, <1>7 DEF S

(* The diffcodes before a scan starts.                                     *)
LEMMA InitCodes ==
    ASSUME Init
    PROVE  /\ DiskOK
           /\ code \in [Items -> CodeType]
           /\ \A i \in Items :
                 /\ code[i].skipped => disk[i].skipped
                 /\ code[i].side # Both => code[i].cmp = NOCMP
                 /\ code[i].side = IF code[i].needScan THEN {} ELSE Final(i)
                 /\ code[i].needScan => Requested
                 /\ \A k \in disk[i].above : code[k].needScan => code[i].needScan
                 /\ Requested /\ Parent(i) # 0 /\ code[Parent(i)].side = Both =>
                       Contribution(code[i]) <= code[Parent(i)].cmp
           /\ ~Requested => \A i \in Items : code[i] = Uncompared(i)
<1>1. DiskOK
  BY DiskInitOK DEF Init
<1>2. CASE ~Requested
  <2>1. code = [i \in Items |-> Uncompared(i)]
    BY <1>2 DEF Init
  <2>2. ASSUME NEW i \in Items
        PROVE  /\ code[i] = Uncompared(i) /\ code[i] \in CodeType
               /\ ~code[i].skipped /\ ~code[i].needScan
               /\ code[i].cmp = NOCMP /\ code[i].side = Final(i)
    <3>1. disk[i].side \in SUBSET Both /\ NOCMP \in CompareFlags
      BY <1>1 DEF DiskOK, CompareFlags, NOCMP, CMPABORT
    <3>2. code[i] = Uncompared(i)
      BY <2>1
    <3> QED BY <3>1, <3>2, <1>2 DEF Uncompared, CodeType, Final
  <2>3. code \in [Items -> CodeType]
    <3> HIDE DEF CodeType
    <3> QED BY <2>1, <2>2
  <2>4. \A i \in Items : \A k \in disk[i].above : k \in Items
    BY <1>1 DEF DiskOK
  <2> QED BY <1>1, <1>2, <2>2, <2>3, <2>4
<1>3. CASE Requested
  <2>1. PICK selected \in (SUBSET Items) \ {{}} :
           /\ \A i \in Items \ Marked(selected) : disk[i].now = disk[i].side
           /\ \E result \in [{ i \in Items : ~disk[i].dir /\ disk[i].side = Both } -> Outcomes] :
                 code = Mark(Scanned(result), Marked(selected))
    BY <1>3 DEF Init
  <2>2. PICK result \in [{ i \in Items : ~disk[i].dir /\ disk[i].side = Both } -> Outcomes] :
           code = Mark(Scanned(result), Marked(selected))
    BY <2>1
  <2> DEFINE S == Scanned(result)
             M == Marked(selected)
  <2>3. /\ S \in [Items -> CodeType]
        /\ \A i \in Items :
              /\ S[i].side = disk[i].side /\ ~S[i].needScan
              /\ S[i].skipped = disk[i].skipped
              /\ disk[i].side # Both => S[i].cmp = NOCMP
              /\ Parent(i) # 0 /\ disk[Parent(i)].side = Both =>
                    Contribution(S[i]) <= S[Parent(i)].cmp
    BY <1>1, ScannedFacts
  <2>4. ASSUME NEW i \in Items, NEW k \in disk[i].above, k \in M PROVE i \in M
    <3>1. k \in Items
      BY <1>1 DEF DiskOK
    <3>2. CASE k \in selected
      BY <3>1, <3>2, <2>4 DEF Marked, Descendants
    <3>3. CASE \E r \in selected : k \in Descendants(r)
      <4>1. PICK r \in selected : k \in Descendants(r)
        BY <3>3
      <4>2. disk[k].above = { j \in disk[i].above : j < k }
        BY <2>4, <1>1 DEF DiskOK
      <4>3. r \in disk[i].above
        BY <4>1, <4>2 DEF Descendants
      <4> QED BY <4>1, <4>3, <2>1 DEF Marked, Descendants
    <3> QED BY <3>2, <3>3, <2>4 DEF Marked
  <2>5. \A i \in Items \ M : disk[i].now = disk[i].side
    BY <2>1
  <2> HIDE DEF S, M
  <2>6. ASSUME NEW i \in Items
        PROVE  code[i] = IF i \in M THEN [S[i] EXCEPT !.side = {}, !.cmp = NOCMP,
                                             !.contains = {}, !.needScan = TRUE]
                         ELSE S[i]
    BY <2>2 DEF Mark, S, M
  <2>7. NOCMP \in CompareFlags
    BY DEF CompareFlags, NOCMP, CMPABORT
  <2>8. ASSUME NEW i \in Items
        PROVE  /\ code[i] \in CodeType
               /\ code[i].skipped = disk[i].skipped
               /\ code[i].side # Both => code[i].cmp = NOCMP
               /\ code[i].side = IF code[i].needScan THEN {} ELSE Final(i)
               /\ code[i].needScan <=> i \in M
               /\ i \notin M => code[i] = S[i]
               /\ i \in M => code[i].side = {}
    <3>1. CASE i \in M
      <4>1. /\ code[i] \in CodeType /\ code[i].skipped = S[i].skipped
            /\ code[i].side = {} /\ code[i].cmp = NOCMP /\ code[i].needScan = TRUE
        <5>1. code[i] = [S[i] EXCEPT !.side = {}, !.cmp = NOCMP, !.contains = {}, !.needScan = TRUE]
          BY <3>1, <2>6
        <5>2. S[i] \in CodeType
          BY <2>3
        <5> QED BY <5>1, <5>2, <2>7 DEF CodeType
      <4> QED BY <4>1, <3>1, <2>3
    <3>2. CASE i \notin M
      <4>1. code[i] = S[i]
        BY <3>2, <2>6
      <4>2. Final(i) = disk[i].side
        BY <3>2, <2>5, <1>3 DEF Final
      <4> QED BY <4>1, <4>2, <3>2, <2>3
    <3> QED BY <3>1, <3>2
  <2>9. code \in [Items -> CodeType]
    <3>1. code = [i \in Items |-> code[i]]
      BY <2>2 DEF Mark
    <3> HIDE DEF CodeType
    <3> QED BY <3>1, <2>8
  <2>10. ASSUME NEW i \in Items, NEW k \in disk[i].above, code[k].needScan PROVE code[i].needScan
    <3>1. k \in Items
      BY <1>1 DEF DiskOK
    <3> QED BY <3>1, <2>4, <2>8, <2>10
  <2>11. ASSUME NEW i \in Items, Parent(i) # 0, code[Parent(i)].side = Both
         PROVE  Contribution(code[i]) <= code[Parent(i)].cmp
    <3>1. Parent(i) \in Items
      BY <2>11, <1>1, ParentFacts
    <3>2. Parent(i) \notin M /\ code[Parent(i)] = S[Parent(i)]
      BY <3>1, <2>8, <2>11 DEF Both
    <3>3. CASE i \in M
      <4>1. Contribution(code[i]) = NOCMP
        BY <2>8, <3>3 DEF Contribution, Both
      <4>2. code[Parent(i)].cmp \in CompareFlags
        BY <2>8, <3>1 DEF CodeType
      <4> QED BY <4>1, <4>2 DEF CompareFlags, NOCMP, CMPABORT
    <3>4. CASE i \notin M
      <4>1. code[i] = S[i] /\ disk[Parent(i)].side = Both
        BY <3>1, <3>2, <3>4, <2>3, <2>8, <2>11
      <4> QED BY <4>1, <3>2, <2>3, <2>11
    <3> QED BY <3>3, <3>4
  <2> QED BY <1>1, <1>3, <2>8, <2>9, <2>10, <2>11
<1> QED BY <1>2, <1>3

(* GetNextDiff changes no diffcode; the thread takes the item or, in a     *)
(* rescan, passes over it.                                                 *)
LEMMA PickEffect ==
    ASSUME BaseInv, NEW t \in Threads, Pick(t), NEW c, c = cursor + 1
    PROVE  /\ c \in Items /\ cursor' = c /\ cursor \in Nat
           /\ code' = code /\ flag' = flag /\ disk' = disk /\ pc[t] = "pick"
           /\ \A u \in Threads \ {t} : pc'[u] = pc[u] /\ di'[u] = di[u]
           /\ \/ Requested /\ ~code[c].needScan /\ pc' = pc /\ di' = di
              \/ /\ Requested => code[c].needScan
                 /\ pc'[t] = (IF Requested THEN "update" ELSE "compare") /\ di'[t] = c
           /\ pc' \in [Threads -> {"pick", "update", "compare", "classify", "walk"}]
           /\ di' \in [Threads -> 0 .. NumItems]
<1>1. /\ cursor \in 0 .. NumItems /\ NumItems \in Nat
      /\ pc \in [Threads -> {"pick", "update", "compare", "classify", "walk"}]
      /\ di \in [Threads -> 0 .. NumItems]
  BY NumItemsAssumption DEF BaseInv, TypeOK
<1>2. /\ pc[t] = "pick" /\ cursor < NumItems /\ cursor' = c
      /\ code' = code /\ flag' = flag /\ disk' = disk
      /\ \/ Requested /\ ~code[c].needScan /\ pc' = pc /\ di' = di
         \/ /\ Requested => code[c].needScan
            /\ pc' = [pc EXCEPT ![t] = IF Requested THEN "update" ELSE "compare"]
            /\ di' = [di EXCEPT ![t] = c]
  BY DEF Pick
<1>3. c \in Items /\ c \in 0 .. NumItems
  BY <1>1, <1>2 DEF Items
<1> QED BY <1>1, <1>2, <1>3

(* Classify changes no diffcode; the thread is done or starts the walk.    *)
LEMMA ClassifyEffect ==
    ASSUME BaseInv, NEW t \in Threads, Classify(t), NEW i, i = di[t]
    PROVE  /\ i \in Items /\ i <= cursor /\ pc[t] = "classify"
           /\ code' = code /\ di' = di /\ disk' = disk /\ cursor' = cursor
           /\ \A u \in Threads \ {t} : pc'[u] = pc[u] /\ flag'[u] = flag[u]
           /\ \/ pc'[t] = "pick" /\ flag' = flag /\ (code[i].skipped \/ Parent(i) = 0)
              \/ /\ pc'[t] = "walk" /\ flag'[t] = FlagOf(code[i])
                 /\ ~code[i].skipped /\ Parent(i) # 0
           /\ pc' \in [Threads -> {"pick", "update", "compare", "classify", "walk"}]
           /\ flag' \in [Threads -> FlagType]
<1>1. /\ i \in 1 .. cursor /\ cursor \in 0 .. NumItems /\ i \in Items /\ pc[t] = "classify"
      /\ code \in [Items -> CodeType] /\ flag \in [Threads -> FlagType]
      /\ pc \in [Threads -> {"pick", "update", "compare", "classify", "walk"}]
      /\ code[i] \in CodeType
  <2>1. pc[t] = "classify"
    BY DEF Classify
  <2>2. i \in 1 .. cursor /\ cursor \in 0 .. NumItems /\ i \in Items
    BY <2>1, NumItemsAssumption DEF BaseInv, TypeOK, Items
  <2> QED BY <2>1, <2>2 DEF BaseInv, TypeOK, CodeType, FlagType
<1>2. FlagOf(code[i]) \in FlagType
  BY <1>1, FlagOfFacts
<1>3. /\ code' = code /\ di' = di /\ disk' = disk /\ cursor' = cursor
      /\ \/ /\ code[i].skipped \/ Parent(i) = 0
            /\ pc' = [pc EXCEPT ![t] = "pick"] /\ flag' = flag
         \/ /\ ~code[i].skipped /\ Parent(i) # 0
            /\ pc' = [pc EXCEPT ![t] = "walk"]
            /\ flag' = [flag EXCEPT ![t] = FlagOf(code[i])]
  BY DEF Classify
<1> HIDE DEF CodeType, FlagType
<1> QED BY <1>1, <1>2, <1>3

(* What is defined by the folders alone stays.                             *)
LEMMA SameDisk ==
    ASSUME disk' = disk
    PROVE  /\ \A i : Parent(i)' = Parent(i) /\ Descendants(i)' = Descendants(i)
           /\ \A i : Final(i)' = Final(i)
           /\ \A i : Leaf(i)' = Leaf(i)
           /\ \A S, s : UniqueIn(S, s)' = UniqueIn(S, s)
           /\ DiskOK' = DiskOK
<1>1. \A i : Final(i)' = Final(i)
  BY DEF Final
<1>2. \A i : Leaf(i)' = Leaf(i)
  BY DEF Leaf
<1>3. \A S, s : UniqueIn(S, s)' = UniqueIn(S, s)
  BY DEF UniqueIn
<1>4. DiskOK' = DiskOK
  BY DEF DiskOK, Final
<1>5. \A i : Parent(i)' = Parent(i) /\ Descendants(i)' = Descendants(i)
  BY DEF Parent, Descendants
<1> QED BY <1>1, <1>2, <1>3, <1>4, <1>5

-----------------------------------------------------------------------------
(* BaseInv holds before a scan starts.                                     *)
LEMMA BaseInvInit == Init => BaseInv
<1> SUFFICES ASSUME Init PROVE BaseInv
  OBVIOUS
<1>1. DiskOK /\ code \in [Items -> CodeType]
  BY InitCodes
<1>2. /\ cursor = 0 /\ pc = [t \in Threads |-> "pick"] /\ di = [t \in Threads |-> 0]
      /\ flag = [t \in Threads |-> NoFlag]
  BY DEF Init
<1>3. NoFlag \in FlagType
  BY DEF NoFlag, FlagType, CompareFlags, NOCMP, CMPABORT
<1>4. flag \in [Threads -> FlagType]
  <2> HIDE DEF NoFlag, FlagType
  <2> QED BY <1>2, <1>3
<1>5. TypeOK
  <2>1. cursor \in 0 .. NumItems /\ di \in [Threads -> 0 .. NumItems]
    BY <1>2, NumItemsAssumption
  <2> QED BY <1>1, <1>2, <1>4, <2>1 DEF TypeOK, CodeType, FlagType
<1> QED BY <1>1, <1>2, <1>5 DEF BaseInv

(* Every step keeps BaseInv.                                               *)
LEMMA BaseInvStep == BaseInv /\ [Next]_vars => BaseInv'
<1> SUFFICES ASSUME BaseInv, [Next]_vars PROVE BaseInv'
  OBVIOUS
<1>1. /\ code \in [Items -> CodeType] /\ flag \in [Threads -> FlagType]
      /\ pc \in [Threads -> {"pick", "update", "compare", "classify", "walk"}]
      /\ di \in [Threads -> 0 .. NumItems] /\ cursor \in 0 .. NumItems /\ cursor \in Nat
      /\ \A t \in Threads : pc[t] # "pick" => di[t] \in 1 .. cursor
      /\ \A t \in Threads : pc[t] = "walk" => Parent(di[t]) # 0
      /\ \A t \in Threads : pc[t] = "update" => Requested
      /\ DiskOK /\ NumItems \in Nat
  BY NumItemsAssumption DEF BaseInv, TypeOK, CodeType, FlagType
<1> SUFFICES /\ disk' = disk
             /\ code' \in [Items -> CodeType] /\ flag' \in [Threads -> FlagType]
             /\ pc' \in [Threads -> {"pick", "update", "compare", "classify", "walk"}]
             /\ di' \in [Threads -> 0 .. NumItems] /\ cursor' \in 0 .. NumItems
             /\ \A t \in Threads : pc'[t] # "pick" => di'[t] \in 1 .. cursor'
             /\ \A t \in Threads : pc'[t] = "walk" => Parent(di'[t]) # 0
             /\ \A t \in Threads : pc'[t] = "update" => Requested
  BY <1>1, SameDisk DEF BaseInv, TypeOK, CodeType, FlagType
<1>2. CASE UNCHANGED vars
  BY <1>1, <1>2 DEF vars
<1>3. ASSUME NEW t \in Threads, Pick(t)
      PROVE  /\ disk' = disk
             /\ code' \in [Items -> CodeType] /\ flag' \in [Threads -> FlagType]
             /\ pc' \in [Threads -> {"pick", "update", "compare", "classify", "walk"}]
             /\ di' \in [Threads -> 0 .. NumItems] /\ cursor' \in 0 .. NumItems
             /\ \A u \in Threads : pc'[u] # "pick" => di'[u] \in 1 .. cursor'
             /\ \A u \in Threads : pc'[u] = "walk" => Parent(di'[u]) # 0
             /\ \A u \in Threads : pc'[u] = "update" => Requested
  <2> DEFINE c == cursor + 1
  <2>1. /\ c \in Items /\ cursor' = c /\ cursor \in Nat
        /\ code' = code /\ flag' = flag /\ disk' = disk /\ pc[t] = "pick"
        /\ \A u \in Threads \ {t} : pc'[u] = pc[u] /\ di'[u] = di[u]
        /\ \/ Requested /\ ~code[c].needScan /\ pc' = pc /\ di' = di
           \/ /\ Requested => code[c].needScan
              /\ pc'[t] = (IF Requested THEN "update" ELSE "compare") /\ di'[t] = c
        /\ pc' \in [Threads -> {"pick", "update", "compare", "classify", "walk"}]
        /\ di' \in [Threads -> 0 .. NumItems]
    BY <1>3, PickEffect
  <2>2. c \in 1 .. c /\ \A k \in 1 .. cursor : k \in 1 .. c
    BY <1>1
  <2>3. cursor' \in 0 .. NumItems
    BY <2>1, <1>1 DEF Items
  <2>4. ASSUME NEW u \in Threads
        PROVE  /\ pc'[u] # "pick" => di'[u] \in 1 .. cursor'
               /\ pc'[u] = "walk" => Parent(di'[u]) # 0
               /\ pc'[u] = "update" => Requested
    <3>1. CASE pc'[u] = pc[u] /\ di'[u] = di[u]
      BY <3>1, <1>1, <2>1, <2>2
    <3>2. CASE u = t /\ pc'[t] = (IF Requested THEN "update" ELSE "compare") /\ di'[t] = c
      BY <3>2, <2>1, <2>2
    <3> QED BY <3>1, <3>2, <2>1
  <2> QED BY <1>1, <2>1, <2>3, <2>4
<1>4. ASSUME NEW t \in Threads, Update(t) \/ CompareFolder(t) \/ CompareFile(t)
      PROVE  /\ disk' = disk
             /\ code' \in [Items -> CodeType] /\ flag' \in [Threads -> FlagType]
             /\ pc' \in [Threads -> {"pick", "update", "compare", "classify", "walk"}]
             /\ di' \in [Threads -> 0 .. NumItems] /\ cursor' \in 0 .. NumItems
             /\ \A u \in Threads : pc'[u] # "pick" => di'[u] \in 1 .. cursor'
             /\ \A u \in Threads : pc'[u] = "walk" => Parent(di'[u]) # 0
             /\ \A u \in Threads : pc'[u] = "update" => Requested
  <2>1. /\ code' \in [Items -> CodeType] /\ flag' = flag /\ di' = di
        /\ pc[t] # "pick" /\ pc'[t] \in {"compare", "classify"}
        /\ \A u \in Threads \ {t} : pc'[u] = pc[u]
        /\ disk' = disk /\ cursor' = cursor
    BY <1>4, HandEffect
  <2>2. pc' \in [Threads -> {"pick", "update", "compare", "classify", "walk"}]
    BY <1>1, <1>4 DEF Update, CompareFolder, CompareFile
  <2> QED BY <1>1, <2>1, <2>2
<1>5. ASSUME NEW t \in Threads, Classify(t)
      PROVE  /\ disk' = disk
             /\ code' \in [Items -> CodeType] /\ flag' \in [Threads -> FlagType]
             /\ pc' \in [Threads -> {"pick", "update", "compare", "classify", "walk"}]
             /\ di' \in [Threads -> 0 .. NumItems] /\ cursor' \in 0 .. NumItems
             /\ \A u \in Threads : pc'[u] # "pick" => di'[u] \in 1 .. cursor'
             /\ \A u \in Threads : pc'[u] = "walk" => Parent(di'[u]) # 0
             /\ \A u \in Threads : pc'[u] = "update" => Requested
  <2>1. /\ pc[t] = "classify"
        /\ code' = code /\ di' = di /\ disk' = disk /\ cursor' = cursor
        /\ \A u \in Threads \ {t} : pc'[u] = pc[u]
        /\ pc'[t] = "pick" \/ (pc'[t] = "walk" /\ Parent(di[t]) # 0)
        /\ pc' \in [Threads -> {"pick", "update", "compare", "classify", "walk"}]
        /\ flag' \in [Threads -> FlagType]
    BY <1>5, ClassifyEffect
  <2> QED BY <1>1, <2>1
<1>6. ASSUME NEW t \in Threads, Propagate(t)
      PROVE  /\ disk' = disk
             /\ code' \in [Items -> CodeType] /\ flag' \in [Threads -> FlagType]
             /\ pc' \in [Threads -> {"pick", "update", "compare", "classify", "walk"}]
             /\ di' \in [Threads -> 0 .. NumItems] /\ cursor' \in 0 .. NumItems
             /\ \A u \in Threads : pc'[u] # "pick" => di'[u] \in 1 .. cursor'
             /\ \A u \in Threads : pc'[u] = "walk" => Parent(di'[u]) # 0
             /\ \A u \in Threads : pc'[u] = "update" => Requested
  <2> DEFINE i == di[t]
             p == Parent(i)
  <2>1. /\ i \in Items /\ p \in Items /\ p < i /\ i <= cursor
        /\ code' \in [Items -> CodeType] /\ flag' \in [Threads -> FlagType]
        /\ \A u \in Threads \ {t} : pc'[u] = pc[u] /\ di'[u] = di[u]
        /\ pc[t] = "walk" /\ pc'[t] \in {"pick", "walk"} /\ di'[t] = p
        /\ pc'[t] = "walk" => Parent(p) # 0
        /\ disk' = disk /\ cursor' = cursor
    BY <1>6, PropagateEffect
  <2>2. p \in 1 .. cursor /\ p \in 0 .. NumItems
    BY <2>1, <1>1 DEF Items
  <2>3. /\ pc' \in [Threads -> {"pick", "update", "compare", "classify", "walk"}]
        /\ di' = [di EXCEPT ![t] = p]
    BY <1>1, <1>6 DEF Propagate
  <2> HIDE DEF p
  <2>4. di' \in [Threads -> 0 .. NumItems]
    BY <2>2, <2>3, <1>1
  <2> QED BY <1>1, <2>1, <2>2, <2>3, <2>4
<1> QED BY <1>2, <1>3, <1>4, <1>5, <1>6 DEF Next, Thread

(* Whatever the threads do, the diffcodes, the flags and where the threads *)
(* are stay what the code declares, and a thread that holds an item has    *)
(* picked it.                                                              *)
THEOREM BaseInvariant == Spec => []BaseInv
<1>1. Init => BaseInv
  BY BaseInvInit
<1>2. BaseInv /\ [Next]_vars => BaseInv'
  BY BaseInvStep
<1> QED BY <1>1, <1>2, PTL DEF Spec

(* TypeOK is an invariant: diffcodes, flags and threads keep their types.  *)
THEOREM TypeCorrect == Spec => []TypeOK
<1>1. BaseInv => TypeOK
  BY DEF BaseInv
<1> QED BY <1>1, BaseInvariant, PTL

(* CompareFolder only replaces a missing result and the walk of Propagate  *)
(* only one that is not more severe, so no step of any thread makes the    *)
(* result of a folder less severe, in a full scan and in a rescan.         *)
THEOREM SeverityOnlyGrows == Spec => SeverityGrows
<1>1. ASSUME BaseInv, [Next]_vars, NEW j \in Items, disk[j].dir
      PROVE  code'[j].cmp >= code[j].cmp
  <2>1. code[j].cmp \in CompareFlags /\ \A v \in CompareFlags : v \in Int /\ v >= NOCMP
    BY <1>1 DEF BaseInv, TypeOK, CompareFlags, NOCMP, CMPABORT
  <2>2. CASE code' = code
    BY <2>1, <2>2
  <2>3. ASSUME NEW t \in Threads, Update(t) \/ CompareFolder(t) \/ CompareFile(t)
        PROVE  code'[j].cmp >= code[j].cmp
    <3>1. j # di[t] => code'[j] = code[j]
      BY <1>1, <2>3, HandEffect
    <3>2. ASSUME j = di[t]
          PROVE  code'[j].cmp = code[j].cmp \/ (code[j].cmp = NOCMP /\ code'[j].cmp = SAME)
      BY <1>1, <2>3, <3>2, HandEffect
    <3> QED BY <3>1, <3>2, <2>1 DEF NOCMP, SAME
  <2>4. ASSUME NEW t \in Threads, Propagate(t) PROVE code'[j].cmp >= code[j].cmp
    <3>1. j # Parent(di[t]) => code'[j] = code[j]
      BY <1>1, <2>4, PropagateEffect
    <3>2. ASSUME j = Parent(di[t])
          PROVE  \/ code[j].cmp <= flag[t].cmp /\ code'[j].cmp = flag[t].cmp
                 \/ code'[j].cmp = code[j].cmp
      BY <1>1, <2>4, <3>2, PropagateEffect
    <3>3. flag[t].cmp \in CompareFlags
      BY <1>1 DEF BaseInv, TypeOK
    <3> QED BY <3>1, <3>2, <3>3, <2>1
  <2>5. ASSUME NEW t \in Threads, Pick(t) \/ Classify(t) PROVE code' = code
    BY <2>5 DEF Pick, Classify
  <2>6. UNCHANGED vars => code' = code
    BY DEF vars
  <2> QED BY <1>1, <2>2, <2>3, <2>4, <2>5, <2>6 DEF Next, Thread
<1>2. BaseInv /\ [Next]_vars => [\A i \in Items : disk[i].dir => code'[i].cmp >= code[i].cmp]_vars
  BY <1>1
<1> QED BY <1>2, BaseInvariant, PTL DEF Spec, SeverityGrows

-----------------------------------------------------------------------------
(* Compare flags are numbers, NOCMP the least of them.                     *)
LEMMA FlagsAreNumbers ==
    /\ \A v \in CompareFlags : v \in Int /\ NOCMP <= v
    /\ \A c \in CodeType : Contribution(c) \in CompareFlags
  BY DEF CompareFlags, NOCMP, SAME, DIFF, CMPERR, CMPABORT, CodeType, Contribution

(* What BaseInv says of the variables, in the terms of this module.        *)
LEMMA BaseFacts ==
    ASSUME BaseInv
    PROVE  /\ code \in [Items -> CodeType] /\ flag \in [Threads -> FlagType]
           /\ pc \in [Threads -> {"pick", "update", "compare", "classify", "walk"}]
           /\ cursor \in Nat /\ NumItems \in Nat /\ DiskOK
           /\ \A t \in Threads : pc[t] # "pick" => di[t] \in Items /\ di[t] <= cursor
           /\ \A i \in Items : i \in Nat /\ \A k \in disk[i].above : k \in Items /\ k < i
<1>1. \A i \in Items : i \in Nat
  BY NumItemsAssumption DEF Items
<1>2. \A i \in Items : \A k \in disk[i].above : k \in Items /\ k < i
  BY <1>1 DEF BaseInv, DiskOK
<1> QED BY <1>1, <1>2, NumItemsAssumption DEF BaseInv, TypeOK, CodeType, FlagType, Items

(* The diffcodes before a scan or a rescan starts satisfy MarksOK.         *)
LEMMA MarksOKInit == Init => MarksOK
<1> SUFFICES ASSUME Init PROVE MarksOK
  OBVIOUS
<1>1. \A i \in Items :
         /\ code[i].skipped => disk[i].skipped
         /\ code[i].side # Both => code[i].cmp = NOCMP
         /\ code[i].side = IF code[i].needScan THEN {} ELSE Final(i)
         /\ code[i].needScan => Requested
         /\ \A k \in disk[i].above : code[k].needScan => code[i].needScan
  BY InitCodes
<1>2. cursor = 0 /\ \A t \in Threads : pc[t] = "pick"
  BY DEF Init
<1>3. \A i \in Items : ~(i <= cursor)
  BY <1>2, NumItemsAssumption DEF Items
<1> QED BY <1>1, <1>2, <1>3 DEF MarksOK

(* MarksOK is kept where the diffcodes' marks and the threads at Update    *)
(* stay as they are.                                                       *)
LEMMA MarksOKKept ==
    ASSUME BaseInv, MarksOK, disk' = disk, cursor' = cursor,
           \A i \in Items :
              /\ code'[i].side = code[i].side /\ code'[i].needScan = code[i].needScan
              /\ code'[i].skipped => code[i].skipped \/ disk[i].skipped
              /\ code'[i].side # Both => code'[i].cmp = code[i].cmp,
           \A t \in Threads : /\ pc'[t] = "update" <=> pc[t] = "update"
                              /\ pc[t] = "update" => di'[t] = di[t]
    PROVE  MarksOK'
<1>1. \A i \in Items : code'[i].side # Both => code'[i].cmp = NOCMP
  BY DEF MarksOK
<1>2. \A i \in Items : code'[i].skipped => disk[i].skipped
  BY DEF MarksOK
<1>3. \A i \in Items : code'[i].side = IF code'[i].needScan THEN {} ELSE Final(i)
  BY DEF MarksOK
<1>4. \A i \in Items : code'[i].needScan => Requested
  BY DEF MarksOK
<1>5. \A i \in Items : \A k \in disk[i].above : code'[k].needScan => code'[i].needScan
  BY BaseFacts DEF MarksOK
<1>6. \A i \in Items : i <= cursor /\ code'[i].needScan => \E t \in Threads : At(t, i, {"update"})'
  BY DEF MarksOK, At
<1>7. \A t \in Threads : pc'[t] = "update" => code'[di'[t]].needScan /\ di'[t] = cursor
  BY BaseFacts DEF MarksOK
<1> QED BY <1>1, <1>2, <1>3, <1>4, <1>5, <1>6, <1>7, SameDisk DEF MarksOK

(* Every step keeps MarksOK: one thread alone takes marked items from the  *)
(* top down, and without a rescan there are no marks.                      *)
LEMMA MarksOKStep ==
    ASSUME BaseInv, MarksOK, ~Requested \/ Alone, [Next]_vars
    PROVE  MarksOK'
<1>1. CASE UNCHANGED vars
  BY <1>1, MarksOKKept DEF vars
<1>2. ASSUME NEW t \in Threads, Pick(t) PROVE MarksOK'
  <2> DEFINE c == cursor + 1
  <2>1. /\ c \in Items /\ cursor' = c
        /\ code' = code /\ disk' = disk /\ pc[t] = "pick"
        /\ \A u \in Threads \ {t} : pc'[u] = pc[u] /\ di'[u] = di[u]
        /\ \/ Requested /\ ~code[c].needScan /\ pc' = pc /\ di' = di
           \/ /\ Requested => code[c].needScan
              /\ pc'[t] = (IF Requested THEN "update" ELSE "compare") /\ di'[t] = c
    BY <1>2, PickEffect
  <2>2. ASSUME NEW u \in Threads, pc'[u] = "update" PROVE code'[di'[u]].needScan /\ di'[u] = cursor'
    <3>1. CASE pc[u] = "update"
      BY <3>1, <2>1 DEF BaseInv, Alone
    <3>2. CASE pc[u] # "update"
      BY <3>2, <2>1, <2>2 DEF BaseInv
    <3> QED BY <3>1, <3>2
  <2>3. ASSUME NEW j \in Items, j <= cursor', code'[j].needScan
        PROVE  \E u \in Threads : At(u, j, {"update"})'
    <3>1. CASE j = c
      <4>1. pc'[t] = "update" /\ di'[t] = c
        BY <3>1, <2>1, <2>3 DEF MarksOK
      <4> QED BY <4>1, <3>1 DEF At
    <3>2. CASE j # c
      <4>1. j <= cursor
        BY <3>2, <2>1, <2>3, BaseFacts
      <4>2. PICK u \in Threads : At(u, j, {"update"})
        BY <4>1, <2>1, <2>3 DEF MarksOK
      <4>3. pc'[u] = pc[u] /\ di'[u] = di[u]
        BY <4>2, <2>1 DEF At
      <4> QED BY <4>2, <4>3 DEF At
    <3> QED BY <3>1, <3>2
  <2> QED BY <2>1, <2>2, <2>3, SameDisk DEF MarksOK
<1>3. ASSUME NEW t \in Threads, Update(t) PROVE MarksOK'
  <2> DEFINE i == di[t]
  <2>1. /\ i \in Items /\ i <= cursor /\ pc[t] = "update" /\ Requested
        /\ code[i].needScan /\ i = cursor /\ code[i].side = {}
    BY <1>3, HandEffect, ZenonT(40) DEF MarksOK, BaseInv, Update
  <2>2. /\ di' = di /\ disk' = disk /\ cursor' = cursor
        /\ \A j \in Items \ {i} : code'[j] = code[j]
        /\ pc'[t] # "update"
        /\ code'[i].side = disk[i].now /\ ~code'[i].needScan
        /\ code'[i].skipped = code[i].skipped /\ code'[i].cmp = code[i].cmp
        /\ \A u \in Threads \ {t} : pc'[u] = pc[u]
    BY <1>3, <2>1, HandEffect
  <2>3. \A u \in Threads : u = t
    BY <2>1 DEF Alone
  <2>4. \A j \in Items : code'[j].side # Both => code'[j].cmp = NOCMP
    BY <2>1, <2>2 DEF MarksOK, Both
  <2>5. \A j \in Items : code'[j].skipped => disk[j].skipped
    BY <2>2 DEF MarksOK
  <2>6. \A j \in Items : code'[j].side = IF code'[j].needScan THEN {} ELSE Final(j)
    BY <2>1, <2>2 DEF MarksOK, Final
  <2>7. ASSUME NEW j \in Items, NEW k \in disk[j].above, code'[k].needScan PROVE code'[j].needScan
    <3>1. k \in Items /\ k < j /\ k # i /\ code[k].needScan
      BY <2>2, <2>7, BaseFacts
    <3>2. CASE j = i
      <4>1. k <= cursor
        BY <2>1, <3>1, <3>2, BaseFacts
      <4>2. PICK u \in Threads : At(u, k, {"update"})
        BY <4>1, <3>1 DEF MarksOK
      <4> QED BY <4>2, <2>3, <3>1 DEF At
    <3>3. CASE j # i
      BY <3>1, <3>3, <2>2 DEF MarksOK
    <3> QED BY <3>2, <3>3
  <2>8. ASSUME NEW j \in Items, j <= cursor, code'[j].needScan PROVE FALSE
    <3>1. j # i /\ code[j].needScan
      BY <2>2, <2>8
    <3>2. PICK u \in Threads : At(u, j, {"update"})
      BY <3>1, <2>8 DEF MarksOK
    <3> QED BY <3>1, <3>2, <2>3 DEF At
  <2>9. \A u \in Threads : pc'[u] # "update"
    BY <2>2, <2>3
  <2>10. \A j \in Items : code'[j].needScan => Requested
    BY <2>1
  <2> HIDE DEF i
  <2> QED BY <2>2, <2>4, <2>5, <2>6, <2>7, <2>8, <2>9, <2>10, SameDisk DEF MarksOK
<1>4. ASSUME NEW t \in Threads, CompareFolder(t) \/ CompareFile(t) PROVE MarksOK'
  <2> DEFINE i == di[t]
  <2>1. /\ i \in Items /\ pc[t] = "compare"
        /\ di' = di /\ disk' = disk /\ cursor' = cursor
        /\ \A j \in Items \ {i} : code'[j] = code[j]
        /\ pc'[t] = "classify"
        /\ code'[i].side = code[i].side /\ code'[i].needScan = code[i].needScan
        /\ code'[i].skipped => code[i].skipped \/ disk[i].skipped
        /\ code'[i].cmp # code[i].cmp => code[i].side = Both
        /\ \A u \in Threads \ {t} : pc'[u] = pc[u]
    <3>1. pc[t] = "compare"
      BY <1>4 DEF CompareFolder, CompareFile
    <3> QED BY <1>4, <3>1, HandEffect
  <2> HIDE DEF i
  <2> QED BY <2>1, MarksOKKept
<1>5. ASSUME NEW t \in Threads, Classify(t) PROVE MarksOK'
  <2>1. /\ pc[t] = "classify" /\ pc'[t] \in {"pick", "walk"}
        /\ code' = code /\ di' = di /\ disk' = disk /\ cursor' = cursor
        /\ \A u \in Threads \ {t} : pc'[u] = pc[u]
    BY <1>5, ClassifyEffect
  <2> QED BY <2>1, MarksOKKept
<1>6. ASSUME NEW t \in Threads, Propagate(t) PROVE MarksOK'
  <2> DEFINE p == Parent(di[t])
  <2>1. /\ p \in Items
        /\ \A j \in Items \ {p} : code'[j] = code[j]
        /\ code'[p].side = code[p].side /\ code'[p].skipped = code[p].skipped
        /\ code'[p].needScan = code[p].needScan
        /\ code[p].side # Both => code'[p].cmp = code[p].cmp
        /\ \A u \in Threads \ {t} : pc'[u] = pc[u] /\ di'[u] = di[u]
        /\ pc[t] = "walk" /\ pc'[t] \in {"pick", "walk"}
        /\ disk' = disk /\ cursor' = cursor
    BY <1>6, PropagateEffect
  <2> HIDE DEF p
  <2> QED BY <2>1, MarksOKKept
<1> QED BY <1>1, <1>2, <1>3, <1>4, <1>5, <1>6 DEF Next, Thread

(* Before a full scan no item has been touched; before a rescan an earlier *)
(* scan has brought every result to the parent.                            *)
LEMMA EdgesInit == Init => \A i \in Items : EdgeOK(i)
<1> SUFFICES ASSUME Init, NEW i \in Items, Parent(i) # 0, code[Parent(i)].side = Both
             PROVE  Carried(i)
  BY DEF EdgeOK
<1>1. CASE Requested
  <2>1. Contribution(code[i]) <= code[Parent(i)].cmp
    BY <1>1, InitCodes
  <2> QED BY <2>1 DEF Carried
<1>2. CASE ~Requested
  <2>1. i > cursor
    BY NumItemsAssumption DEF Init, Items
  <2> QED BY <1>2, <2>1 DEF Carried, Untouched
<1> QED BY <1>1, <1>2

(* An edge whose two diffcodes stay, or whose parent only grows, is kept   *)
(* by a step of thread t if t does not hold the lower item.                *)
LEMMA EdgeKept ==
    ASSUME BaseInv, BaseInv', NEW t \in Threads, NEW i \in Items,
           disk' = disk, cursor' = cursor, code'[i] = code[i], Parent(i) # 0,
           code'[Parent(i)].cmp >= code[Parent(i)].cmp,
           \A u \in Threads \ {t} : pc'[u] = pc[u] /\ di'[u] = di[u] /\ flag'[u] = flag[u],
           di[t] # i \/ pc[t] = "pick",
           Carried(i)
    PROVE  Carried(i)'
<1>1. Parent(i) \in Items
  BY ParentFacts DEF BaseInv
<1>2. /\ code[Parent(i)].cmp \in CompareFlags /\ code'[Parent(i)].cmp \in CompareFlags
      /\ Contribution(code[i]) \in CompareFlags
  BY <1>1, BaseFacts, FlagsAreNumbers DEF BaseInv, TypeOK
<1>3. CASE Contribution(code[i]) <= code[Parent(i)].cmp
  <2>1. Contribution(code'[i]) <= code'[Parent(i)].cmp
    BY <1>2, <1>3, FlagsAreNumbers
  <2> QED BY <2>1, SameDisk DEF Carried
<1>4. CASE Untouched(i)
  BY <1>4 DEF Untouched, Carried
<1>5. CASE InHands(i)
  <2>1. PICK u \in Threads : At(u, i, {"update", "compare", "classify"})
    BY <1>5 DEF InHands
  <2>2. pc'[u] = pc[u] /\ di'[u] = di[u]
    BY <2>1 DEF At
  <2> QED BY <2>1, <2>2 DEF At, InHands, Carried
<1>6. CASE Brought(i)
  <2>1. PICK u \in Threads :
           At(u, i, {"walk"}) /\ flag[u].cmpBits /\ Contribution(code[i]) <= flag[u].cmp
    BY <1>6 DEF Brought
  <2>2. pc'[u] = pc[u] /\ di'[u] = di[u] /\ flag'[u] = flag[u]
    BY <2>1 DEF At
  <2>3. At(u, i, {"walk"})' /\ flag'[u].cmpBits /\ Contribution(code'[i]) <= flag'[u].cmp
    BY <2>1, <2>2 DEF At
  <2> QED BY <2>3 DEF Brought, Carried
<1> QED BY <1>3, <1>4, <1>5, <1>6 DEF Carried

(* GetNextDiff: the item picked is in the thread's hands.                  *)
LEMMA EdgesPick ==
    ASSUME BaseInv, NEW t \in Threads, Pick(t), NEW i \in Items, Carried(i)
    PROVE  Carried(i)'
<1> DEFINE c == cursor + 1
<1>1. /\ c \in Items /\ cursor' = c /\ cursor \in Nat
      /\ code' = code /\ flag' = flag /\ disk' = disk /\ pc[t] = "pick"
      /\ \A u \in Threads \ {t} : pc'[u] = pc[u] /\ di'[u] = di[u]
      /\ \/ Requested /\ ~code[c].needScan /\ pc' = pc /\ di' = di
         \/ /\ Requested => code[c].needScan
            /\ pc'[t] = (IF Requested THEN "update" ELSE "compare") /\ di'[t] = c
  BY PickEffect
<1>2. CASE Contribution(code[i]) <= code[Parent(i)].cmp
  BY <1>1, <1>2, SameDisk DEF Carried
<1>3. CASE Untouched(i)
  <2>1. CASE i = c
    <3>1. pc'[t] = "compare" /\ di'[t] = i
      BY <1>1, <1>3, <2>1 DEF Untouched
    <3> QED BY <3>1 DEF At, InHands, Carried
  <2>2. CASE i # c
    <3>1. i > cursor'
      BY <1>1, <1>3, <2>2, BaseFacts DEF Untouched
    <3> QED BY <3>1, <1>3 DEF Untouched, Carried
  <2> QED BY <2>1, <2>2
<1>4. CASE InHands(i)
  <2>1. PICK u \in Threads : At(u, i, {"update", "compare", "classify"})
    BY <1>4 DEF InHands
  <2>2. pc'[u] = pc[u] /\ di'[u] = di[u]
    BY <2>1, <1>1 DEF At
  <2> QED BY <2>1, <2>2 DEF At, InHands, Carried
<1>5. CASE Brought(i)
  <2>1. PICK u \in Threads :
           At(u, i, {"walk"}) /\ flag[u].cmpBits /\ Contribution(code[i]) <= flag[u].cmp
    BY <1>5 DEF Brought
  <2>2. At(u, i, {"walk"})' /\ flag'[u].cmpBits /\ Contribution(code'[i]) <= flag'[u].cmp
    BY <2>1, <1>1 DEF At
  <2> QED BY <2>2 DEF Brought, Carried
<1> QED BY <1>2, <1>3, <1>4, <1>5 DEF Carried

(* UpdateDiffItem and CompareDiffItem change an item in hand, and a folder *)
(* in hand either grows or has nothing to show for its children yet.       *)
LEMMA EdgesHand ==
    ASSUME BaseInv, BaseInv', WorstInv,
           NEW t \in Threads, Update(t) \/ CompareFolder(t) \/ CompareFile(t),
           NEW i \in Items, Parent(i) # 0, code'[Parent(i)].side = Both
    PROVE  Carried(i)'
<1> DEFINE h == di[t]
           q == Parent(i)
<1>1. /\ h \in Items /\ flag' = flag /\ di' = di
      /\ \A j \in Items \ {h} : code'[j] = code[j]
      /\ pc[t] \in {"update", "compare"} /\ pc'[t] \in {"compare", "classify"}
      /\ \A u \in Threads \ {t} : pc'[u] = pc[u]
      /\ disk' = disk /\ cursor' = cursor
  BY HandEffect
<1>2. q \in Items /\ q \in disk[i].above /\ q # i /\ disk[q].dir
  BY ParentFacts DEF BaseInv, DiskOK
<1>3. code[q] \in CodeType /\ code'[q] \in CodeType /\ code[i] \in CodeType
  BY <1>2, BaseFacts, HandEffect
<1>4. CASE i = h
  <2>1. At(t, i, {"update", "compare", "classify"})'
    BY <1>1, <1>4 DEF At
  <2> QED BY <2>1 DEF InHands, Carried
<1>5. CASE i # h
  <2>1. CASE q = h /\ pc[t] = "update"
    <3>1. code[q].needScan
      BY <2>1 DEF WorstInv, MarksOK
    <3>2. code[i].needScan /\ code[i].side = {}
      BY <3>1, <1>2 DEF WorstInv, MarksOK
    <3>3. Contribution(code[i]) = NOCMP
      BY <3>2 DEF Contribution, Both
    <3>4. code'[i] = code[i] /\ code'[q].cmp \in CompareFlags
      BY <1>1, <1>3, <1>5 DEF CodeType
    <3>5. Contribution(code'[i]) <= code'[q].cmp
      BY <3>3, <3>4, FlagsAreNumbers
    <3> QED BY <3>5, <1>1, SameDisk DEF Carried
  <2>2. CASE ~(q = h /\ pc[t] = "update")
    <3>1. code'[q].side = code[q].side /\ code'[q].cmp >= code[q].cmp
      <4>1. CASE q = h
        <5>1. /\ code'[q].side = code[q].side
              /\ code'[q].cmp = IF code[q].cmp = NOCMP /\ code[q].side = Both THEN SAME
                                ELSE code[q].cmp
          BY <1>1, <1>2, <2>2, <4>1, HandEffect
        <5>2. code[q].cmp \in Int
          BY <1>3, FlagsAreNumbers DEF CodeType
        <5> QED BY <5>1, <5>2 DEF NOCMP, SAME
      <4>2. CASE q # h
        <5>1. code[q].cmp \in Int
          BY <1>3, FlagsAreNumbers DEF CodeType
        <5> QED BY <4>2, <1>1, <1>2, <5>1
      <4> QED BY <4>1, <4>2
    <3>2. Carried(i)
      BY <3>1 DEF WorstInv, EdgeOK
    <3>3. code'[i] = code[i]
      BY <1>1, <1>5
    <3> HIDE DEF h
    <3> QED BY <1>1, <1>5, <3>1, <3>2, <3>3, EdgeKept DEF h
  <2> QED BY <2>1, <2>2
<1> QED BY <1>4, <1>5

(* An item is classified when its result is in, so what the walk brings is *)
(* its contribution.                                                       *)
LEMMA EdgesClassify ==
    ASSUME BaseInv, BaseInv', WorstInv, NEW t \in Threads, Classify(t),
           NEW i \in Items, Parent(i) # 0, code'[Parent(i)].side = Both
    PROVE  Carried(i)'
<1> DEFINE h == di[t]
<1>1. /\ h \in Items /\ pc[t] = "classify"
      /\ code' = code /\ di' = di /\ disk' = disk /\ cursor' = cursor
      /\ \A u \in Threads \ {t} : pc'[u] = pc[u] /\ flag'[u] = flag[u]
      /\ \/ pc'[t] = "pick" /\ flag' = flag /\ (code[h].skipped \/ Parent(h) = 0)
         \/ /\ pc'[t] = "walk" /\ flag'[t] = FlagOf(code[h])
            /\ ~code[h].skipped /\ Parent(h) # 0
  BY ClassifyEffect
<1>2. Parent(i) \in Items /\ code[Parent(i)].cmp \in CompareFlags /\ code[i] \in CodeType
  BY BaseFacts, ParentFacts DEF BaseInv, TypeOK
<1>3. Carried(i)
  BY <1>1 DEF WorstInv, EdgeOK
<1>4. CASE i # h
  <2>1. code'[Parent(i)].cmp >= code[Parent(i)].cmp
    BY <1>1, <1>2, FlagsAreNumbers
  <2> HIDE DEF h
  <2> QED BY <1>1, <1>3, <1>4, <2>1, EdgeKept DEF h
<1>5. CASE i = h /\ pc'[t] = "pick"
  <2>1. Contribution(code[i]) = NOCMP
    BY <1>1, <1>5 DEF Contribution
  <2>2. Contribution(code'[i]) <= code'[Parent(i)].cmp
    BY <2>1, <1>1, <1>2, FlagsAreNumbers
  <2> QED BY <2>2, <1>1, SameDisk DEF Carried
<1>6. CASE i = h /\ pc'[t] = "walk"
  <2>1. flag'[t] = FlagOf(code[i]) /\ code[i].skipped = FALSE
    BY <1>1, <1>2, <1>6 DEF CodeType
  <2>2. [code[i] EXCEPT !.skipped = FALSE] = code[i]
    BY <2>1, <1>2 DEF CodeType
  <2>3. /\ FlagOf(code[i]).cmpBits => FlagOf(code[i]).cmp = Contribution(code[i])
        /\ ~FlagOf(code[i]).cmpBits => Contribution(code[i]) = NOCMP
    BY <1>2, <2>2, FlagOfFacts DEF WorstInv, MarksOK
  <2>4. CASE flag'[t].cmpBits
    <3>1. Contribution(code'[i]) <= flag'[t].cmp
      BY <1>1, <1>2, <2>1, <2>3, <2>4, FlagsAreNumbers
    <3>2. At(t, i, {"walk"})'
      BY <1>1, <1>6 DEF At
    <3> QED BY <3>1, <3>2, <2>4 DEF Brought, Carried
  <2>5. CASE ~flag'[t].cmpBits
    <3>1. Contribution(code'[i]) <= code'[Parent(i)].cmp
      BY <1>1, <1>2, <2>1, <2>3, <2>5, FlagsAreNumbers
    <3> QED BY <3>1, <1>1, SameDisk DEF Carried
  <2> QED BY <2>4, <2>5
<1> QED BY <1>1, <1>4, <1>5, <1>6

(* The walk leaves a parent at least as severe as what it brings, and goes *)
(* on when that made the parent more severe.                               *)
LEMMA EdgesPropagate ==
    ASSUME BaseInv, BaseInv', WorstInv, NEW t \in Threads, Propagate(t),
           NEW i \in Items, Parent(i) # 0, code'[Parent(i)].side = Both
    PROVE  Carried(i)'
<1> DEFINE h == di[t]
           p == Parent(h)
           q == Parent(i)
<1>1. /\ h \in Items /\ p \in Items /\ p < h
      /\ \A j \in Items \ {p} : code'[j] = code[j]
      /\ code'[p].side = code[p].side /\ code'[p].skipped = code[p].skipped
      /\ \/ /\ flag[t].cmpBits /\ code[p].side = Both /\ code[p].cmp <= flag[t].cmp
            /\ code'[p].cmp = flag[t].cmp
            /\ flag'[t].cmpBits /\ flag'[t].cmp = flag[t].cmp
         \/ /\ ~(flag[t].cmpBits /\ code[p].side = Both /\ code[p].cmp <= flag[t].cmp)
            /\ code'[p].cmp = code[p].cmp
      /\ \A u \in Threads \ {t} : pc'[u] = pc[u] /\ di'[u] = di[u] /\ flag'[u] = flag[u]
      /\ pc[t] = "walk" /\ pc'[t] \in {"pick", "walk"} /\ di'[t] = p
      /\ pc'[t] = "pick" => code'[p] = code[p] \/ Parent(p) = 0
      /\ disk' = disk /\ cursor' = cursor
  BY PropagateEffect
<1>2. q \in Items /\ q < i /\ q # i /\ p # h /\ i \in Nat /\ h \in Nat /\ p \in Nat
  <2>1. q \in Items /\ q < i
    BY ParentFacts DEF BaseInv
  <2> QED BY <2>1, <1>1, BaseFacts
<1>3. \A j \in Items : code[j] \in CodeType /\ code'[j] \in CodeType /\ code[j].cmp \in CompareFlags
  BY BaseFacts, PropagateEffect DEF CodeType
<1>4. flag[t].cmp \in CompareFlags
  BY DEF BaseInv, TypeOK
<1>5. code'[q].side = code[q].side /\ code'[q].cmp >= code[q].cmp
  <2>1. code'[p].cmp >= code[p].cmp
    BY <1>1, <1>3, <1>4, FlagsAreNumbers
  <2>2. code[q].cmp >= code[q].cmp
    <3>1. code[q].cmp \in CompareFlags
      BY <1>2, <1>3
    <3> HIDE DEF q
    <3> QED BY <3>1, FlagsAreNumbers
  <2>3. CASE q = p
    BY <2>1, <2>3, <1>1
  <2>4. CASE q # p
    BY <2>2, <2>4, <1>1, <1>2
  <2> QED BY <2>3, <2>4
<1>6. Carried(i)
  BY <1>5 DEF WorstInv, EdgeOK
<1>7. CASE i = h
  <2>1. CASE Brought(i)
    <3>1. PICK u \in Threads :
             At(u, i, {"walk"}) /\ flag[u].cmpBits /\ Contribution(code[i]) <= flag[u].cmp
      BY <2>1 DEF Brought
    <3>2. CASE u = t
      <4>1. flag[t].cmp <= code'[p].cmp
        BY <1>1, <1>3, <1>4, <1>5, <1>7, <3>1, <3>2, FlagsAreNumbers
      <4>2. Contribution(code'[i]) <= code'[q].cmp
        <5>1. code'[i] = code[i] /\ Contribution(code[i]) \in CompareFlags /\ code'[p].cmp \in CompareFlags
          BY <1>1, <1>2, <1>3, <1>7, FlagsAreNumbers DEF CodeType
        <5> QED BY <5>1, <4>1, <3>1, <3>2, <1>7, <1>4, FlagsAreNumbers
      <4> QED BY <4>2, <1>1, SameDisk DEF Carried
    <3>3. CASE u # t
      <4>1. At(u, i, {"walk"})' /\ flag'[u].cmpBits /\ Contribution(code'[i]) <= flag'[u].cmp
        BY <3>1, <3>3, <1>1, <1>2, <1>7 DEF At
      <4> QED BY <4>1 DEF Brought, Carried
    <3> QED BY <3>2, <3>3
  <2>2. CASE InHands(i)
    <3>1. PICK u \in Threads : At(u, i, {"update", "compare", "classify"})
      BY <2>2 DEF InHands
    <3>2. At(u, i, {"update", "compare", "classify"})'
      BY <3>1, <1>1 DEF At
    <3> QED BY <3>2 DEF InHands, Carried
  <2>3. CASE Untouched(i)
    BY <2>3, <1>1 DEF Untouched, Carried
  <2>4. CASE Contribution(code[i]) <= code[q].cmp
    <3>1. /\ code'[i] = code[i] /\ code'[q].cmp \in CompareFlags /\ code[q].cmp \in CompareFlags
          /\ Contribution(code[i]) \in CompareFlags
      BY <1>1, <1>2, <1>3, <1>7, FlagsAreNumbers DEF CodeType
    <3> HIDE DEF q
    <3>2. Contribution(code'[i]) <= code'[q].cmp
      BY <3>1, <2>4, <1>5, FlagsAreNumbers
    <3> QED BY <3>2, <1>1, SameDisk DEF Carried, q
  <2> QED BY <2>1, <2>2, <2>3, <2>4, <1>6 DEF Carried
<1>8. CASE i # h /\ code'[i] = code[i]
  <2> HIDE DEF h, p, q
  <2> QED BY <1>1, <1>5, <1>6, <1>8, EdgeKept DEF h, q
<1>9. CASE i # h /\ code'[i] # code[i] /\ code'[p].cmp = code[p].cmp
  <2>1. i = p /\ q # p
    BY <1>1, <1>2, <1>9
  <2>2. Contribution(code'[i]) = Contribution(code[i])
    BY <1>1, <1>9, <2>1 DEF Contribution
  <2>3. code'[q] = code[q]
    BY <2>1, <1>1, <1>2
  <2>4. CASE Contribution(code[i]) <= code[q].cmp
    <3>1. Contribution(code'[i]) <= code'[q].cmp
      BY <2>2, <2>3, <2>4
    <3> QED BY <3>1, <1>1, SameDisk DEF Carried
  <2>5. CASE Untouched(i)
    BY <2>5, <1>1 DEF Untouched, Carried
  <2>6. CASE InHands(i)
    <3>1. PICK u \in Threads : At(u, i, {"update", "compare", "classify"})
      BY <2>6 DEF InHands
    <3>2. At(u, i, {"update", "compare", "classify"})'
      BY <3>1, <1>1 DEF At
    <3> QED BY <3>2 DEF InHands, Carried
  <2>7. CASE Brought(i)
    <3>1. PICK u \in Threads :
             At(u, i, {"walk"}) /\ flag[u].cmpBits /\ Contribution(code[i]) <= flag[u].cmp
      BY <2>7 DEF Brought
    <3>2. u # t
      BY <3>1, <1>9 DEF At
    <3>3. At(u, i, {"walk"})' /\ flag'[u].cmpBits /\ Contribution(code'[i]) <= flag'[u].cmp
      BY <3>1, <3>2, <1>1, <2>2 DEF At
    <3> QED BY <3>3 DEF Brought, Carried
  <2> QED BY <2>4, <2>5, <2>6, <2>7, <1>6 DEF Carried
<1>10. CASE i # h /\ code'[i] # code[i] /\ code'[p].cmp # code[p].cmp
  <2>1. i = p
    BY <1>1, <1>10
  <2>2. /\ flag'[t].cmpBits /\ code'[p].cmp = flag'[t].cmp /\ code'[p].side = Both
        /\ code'[p].cmp \in CompareFlags
    BY <1>1, <1>3, <1>10 DEF CodeType
  <2>3. pc'[t] = "walk" /\ di'[t] = i
    BY <1>1, <1>10, <2>1
  <2>4. Contribution(code'[i]) <= flag'[t].cmp
    <3>1. Contribution(code'[i]) \in {NOCMP, code'[i].cmp}
      BY <2>1, <2>2 DEF Contribution, Both
    <3> QED BY <3>1, <2>1, <2>2, FlagsAreNumbers
  <2>5. At(t, i, {"walk"})'
    BY <2>3 DEF At
  <2> QED BY <2>2, <2>4, <2>5 DEF Brought, Carried
<1> QED BY <1>7, <1>8, <1>9, <1>10

(* WorstInv holds before a scan starts.                                    *)
LEMMA WorstInvInit == Init => WorstInv
  BY MarksOKInit, EdgesInit DEF WorstInv

(* Every step keeps WorstInv.                                              *)
LEMMA WorstInvStep ==
    ASSUME ~Requested \/ Alone
    PROVE  BaseInv /\ WorstInv /\ [Next]_vars => WorstInv'
<1> SUFFICES ASSUME BaseInv, WorstInv, [Next]_vars PROVE WorstInv'
  OBVIOUS
<1>1. BaseInv'
  BY BaseInvStep
<1>2. MarksOK'
  BY MarksOKStep DEF WorstInv
<1>3. ASSUME NEW i \in Items, Parent(i) # 0, code'[Parent(i)].side = Both
      PROVE  Carried(i)'
  <2>1. CASE UNCHANGED vars
    <3>1. Carried(i)
      BY <1>3, <2>1 DEF WorstInv, EdgeOK, vars
    <3> QED BY <3>1, <2>1, SameDisk DEF Carried, Untouched, InHands, Brought, At, vars
  <2>2. ASSUME NEW t \in Threads, Pick(t) PROVE Carried(i)'
    <3>1. code' = code
      BY <2>2, PickEffect
    <3>2. Carried(i)
      BY <1>3, <3>1 DEF WorstInv, EdgeOK
    <3> QED BY <2>2, <3>2, EdgesPick
  <2>3. ASSUME NEW t \in Threads, Update(t) \/ CompareFolder(t) \/ CompareFile(t)
        PROVE  Carried(i)'
    BY <1>1, <1>3, <2>3, EdgesHand
  <2>4. ASSUME NEW t \in Threads, Classify(t) PROVE Carried(i)'
    BY <1>1, <1>3, <2>4, EdgesClassify
  <2>5. ASSUME NEW t \in Threads, Propagate(t) PROVE Carried(i)'
    BY <1>1, <1>3, <2>5, EdgesPropagate, SMTT(30)
  <2> QED BY <2>1, <2>2, <2>3, <2>4, <2>5 DEF Next, Thread
<1>4. disk' = disk
  BY DEF Next, Thread, Pick, Update, CompareFolder, CompareFile, Classify, Propagate, vars
<1> QED BY <1>2, <1>3, <1>4, SameDisk DEF WorstInv, EdgeOK

(* When the threads are through, what an item contributes has come all the *)
(* way up: by the first item down the tree whose contribution would not.   *)
LEMMA ChainUp ==
    ASSUME BaseInv, WorstInv, Finished,
           NEW i \in Items, code[i].side = Both, NEW k \in Descendants(i)
    PROVE  Contribution(code[k]) <= code[i].cmp
<1> DEFINE Bad == { j \in Descendants(i) : ~(Contribution(code[j]) <= code[i].cmp) }
<1>1. ASSUME NEW j \in Items
      PROVE  /\ code[j] \in CodeType /\ Contribution(code[j]) \in CompareFlags
             /\ code[j].side = Final(j) /\ (code[j].skipped => disk[j].skipped)
             /\ Parent(j) # 0 /\ code[Parent(j)].side = Both =>
                   Contribution(code[j]) <= code[Parent(j)].cmp
  <2>1. code[j] \in CodeType /\ Contribution(code[j]) \in CompareFlags
    BY BaseFacts, FlagsAreNumbers
  <2>2. j <= cursor
    BY NumItemsAssumption DEF Finished, Items
  <2>3. \A t \in Threads : pc[t] = "pick"
    BY DEF Finished
  <2>4. ~code[j].needScan
    BY <2>2, <2>3 DEF WorstInv, MarksOK, At
  <2>5. code[j].side = Final(j) /\ (code[j].skipped => disk[j].skipped)
    BY <2>4 DEF WorstInv, MarksOK
  <2>6. ~Untouched(j) /\ ~InHands(j) /\ ~Brought(j)
    BY <2>2, <2>3, BaseFacts DEF Untouched, InHands, Brought, At
  <2>7. Parent(j) # 0 /\ code[Parent(j)].side = Both => Contribution(code[j]) <= code[Parent(j)].cmp
    BY <2>6 DEF WorstInv, EdgeOK, Carried
  <2> QED BY <2>1, <2>5, <2>7
<1>2. Descendants(i) \subseteq Items /\ Items \subseteq Nat
  BY BaseFacts DEF Descendants
<1>3. Bad = {}
  <2> SUFFICES ASSUME Bad # {} PROVE FALSE
    OBVIOUS
  <2>1. PICK j \in Bad : \A b \in Bad : j <= b
    <3>1. Bad \in SUBSET Nat
      BY <1>2
    <3> QED BY <3>1, LeastOf, Zenon
  <2> DEFINE q == Parent(j)
  <2>2. j \in Items /\ i \in disk[j].above /\ ~(Contribution(code[j]) <= code[i].cmp) /\ j \in Nat
    BY <2>1, <1>2 DEF Descendants
  <2>3. q # 0 /\ q \in Items /\ q \in disk[j].above /\ q < j /\ (i = q \/ i \in disk[q].above)
    BY <2>2, ParentFacts DEF BaseInv
  <2>4. CASE q = i
    BY <2>2, <2>3, <2>4, <1>1
  <2>5. CASE q # i
    <3>1. Contribution(code[q]) <= code[i].cmp
      <4>1. q \in Descendants(i) /\ q \in Nat
        BY <2>3, <2>5, <1>2 DEF Descendants
      <4>2. ~(j <= q)
        BY <4>1, <2>2, <2>3
      <4> QED BY <4>1, <4>2, <2>1
    <3>2. ~code[q].skipped /\ Final(j) \subseteq Final(q)
      BY <2>2, <2>3, <1>1 DEF BaseInv, DiskOK
    <3>3. Contribution(code[j]) <= Contribution(code[q])
      <4>1. CASE code[q].side = Both
        <5>1. Contribution(code[q]) = code[q].cmp
          BY <4>1, <3>2 DEF Contribution, Both
        <5> QED BY <5>1, <4>1, <2>2, <2>3, <1>1
      <4>2. CASE code[q].side \in {{"left"}, {"right"}}
        <5>1. Contribution(code[q]) = DIFF
          BY <4>2, <3>2 DEF Contribution
        <5>2. code[j].side # Both
          <6>1. code[j].side \subseteq code[q].side
            BY <3>2, <2>2, <2>3, <1>1
          <6>2. "left" \notin code[q].side \/ "right" \notin code[q].side
            BY <4>2
          <6> QED BY <6>1, <6>2 DEF Both
        <5>3. Contribution(code[j]) \in {NOCMP, DIFF}
          BY <5>2 DEF Contribution
        <5> QED BY <5>1, <5>3 DEF NOCMP, DIFF
      <4>3. CASE code[q].side = {}
        <5>1. code[j].side = {}
          BY <4>3, <3>2, <2>2, <2>3, <1>1
        <5>2. Contribution(code[j]) = NOCMP
          BY <5>1 DEF Contribution, Both
        <5> QED BY <5>2, <2>3, <1>1, FlagsAreNumbers
      <4>4. code[q].side \in SUBSET Both
        BY <2>3, <1>1 DEF CodeType
      <4> QED BY <4>1, <4>2, <4>3, <4>4 DEF Both
    <3>4. /\ Contribution(code[j]) \in Int /\ Contribution(code[q]) \in Int /\ code[i].cmp \in Int
      BY <2>2, <2>3, <1>1, FlagsAreNumbers DEF CodeType
    <3> QED BY <3>1, <3>3, <3>4, <2>2
  <2> QED BY <2>4, <2>5
<1> QED BY <1>3

(* In a full scan, with any number of threads, and in a rescan with one    *)
(* thread, every result is at the parent or on its way there.              *)
THEOREM WorstInvariant ==
    ASSUME ~Requested \/ Alone
    PROVE  Spec => [](BaseInv /\ WorstInv)
<1>1. Init => BaseInv /\ WorstInv
  BY BaseInvInit, WorstInvInit
<1>2. BaseInv /\ WorstInv /\ [Next]_vars => BaseInv' /\ WorstInv'
  BY BaseInvStep, WorstInvStep
<1> QED BY <1>1, <1>2, PTL DEF Spec

(* After a full scan, with any number of threads, and after a rescan with  *)
(* one thread, no folder that shows identical has below it an item that    *)
(* differs, is unique or could not be compared.                            *)
THEOREM NoFolderIsFalselySame ==
    ASSUME ~Requested \/ Alone
    PROVE  Spec => []NoFalseSame
<1>1. BaseInv /\ WorstInv => NoFalseSame
  <2> SUFFICES ASSUME BaseInv, WorstInv, Finished, NEW i \in Items, code[i].side = Both,
                      code[i].cmp = SAME, NEW k \in Descendants(i)
               PROVE  Contribution(code[k]) <= SAME
    BY DEF NoFalseSame
  <2> QED BY ChainUp
<1> QED BY <1>1, WorstInvariant, PTL

-----------------------------------------------------------------------------
(* The result of a leaf, once it is more than identical, stays: a file is  *)
(* compared once, and what is on one side is not compared at all.          *)
LEMMA LeafKept ==
    ASSUME BaseInv, MarksOK, SourceInv, ~Requested, [Next]_vars,
           NEW k \in Items, Leaf(k), Contribution(code[k]) > SAME
    PROVE  Contribution(code'[k]) = Contribution(code[k])
<1>0. /\ code[k] \in CodeType /\ ~disk[k].skipped /\ ~code[k].skipped
      /\ code[k].side = disk[k].side /\ (code[k].side # Both => code[k].cmp = NOCMP)
      /\ code[k].side = Both => ~disk[k].dir
      /\ code[k].side = Both => Contribution(code[k]) = code[k].cmp
  <2>1. code[k].side = disk[k].side
    BY DEF MarksOK, Final
  <2> QED BY <2>1, BaseFacts, SMTT(30) DEF MarksOK, Leaf, Contribution, Both
<1>1. CASE code'[k] = code[k]
  BY <1>1
<1>2. ASSUME NEW t \in Threads, Update(t) \/ CompareFolder(t) \/ CompareFile(t), k = di[t]
      PROVE  Contribution(code'[k]) = Contribution(code[k])
  <2>1. /\ pc[t] = "compare" /\ code'[k].side = code[k].side /\ ~code'[k].skipped
        /\ code[k].side # Both => code'[k].cmp = code[k].cmp
    BY <1>0, <1>2, HandEffect, ZenonT(40) DEF BaseInv
  <2>2. code[k].side = Both => code[k].cmp = NOCMP
    BY <2>1, <1>0, <1>2 DEF SourceInv, Comparing, At
  <2>3. code[k].side # Both
    BY <2>2, <1>0 DEF NOCMP, SAME
  <2> QED BY <2>1, <2>3, <1>0 DEF Contribution
<1>3. ASSUME NEW t \in Threads, Propagate(t), k = Parent(di[t])
      PROVE  Contribution(code'[k]) = Contribution(code[k])
  <2>1. /\ k \in disk[di[t]].above /\ di[t] \in Items
        /\ code'[k].side = code[k].side /\ code'[k].skipped = code[k].skipped
        /\ code[k].side # Both => code'[k].cmp = code[k].cmp
    BY <1>3, PropagateEffect
  <2>2. code[k].side # Both
    BY <2>1, <1>0 DEF BaseInv, DiskOK
  <2> QED BY <2>1, <2>2 DEF Contribution
<1>4. ASSUME NEW t \in Threads, Pick(t) \/ Classify(t) PROVE code' = code
  BY <1>4 DEF Pick, Classify
<1>5. ASSUME NEW t \in Threads, Update(t) \/ CompareFolder(t) \/ CompareFile(t), k # di[t]
      PROVE  code'[k] = code[k]
  BY <1>5, HandEffect
<1>6. ASSUME NEW t \in Threads, Propagate(t), k # Parent(di[t]) PROVE code'[k] = code[k]
  BY <1>6, PropagateEffect
<1>7. UNCHANGED vars => code' = code
  BY DEF vars
<1> QED BY <1>1, <1>2, <1>3, <1>4, <1>5, <1>6, <1>7 DEF Next, Thread

(* So what a result rests on stays too.                                    *)
Rests(S, v) == v <= SAME \/ \E k \in S : Leaf(k) /\ Contribution(code'[k]) = v

(* ... for every set that contains the one it rested on.                   *)
LEMMA WitnessKept ==
    ASSUME BaseInv, MarksOK, SourceInv, ~Requested, [Next]_vars
    PROVE  /\ \A S \in SUBSET Items : \A T \in SUBSET S : \A v \in CompareFlags :
                  Witness(T, v) => Rests(S, v)
           /\ \A i \in Items : /\ Descendants(i) \in SUBSET Items
                               /\ Descendants(i) \union {i} \in SUBSET Items
<1>1. ASSUME NEW S \in SUBSET Items, NEW T \in SUBSET S, NEW v \in CompareFlags, Witness(T, v)
      PROVE  Rests(S, v)
  <2>1. CASE v <= SAME
    BY <2>1 DEF Rests
  <2>2. CASE ~(v <= SAME)
    <3>1. PICK k \in T : Leaf(k) /\ Contribution(code[k]) = v
      BY <1>1, <2>2 DEF Witness
    <3>2. v > SAME
      BY <2>2, FlagsAreNumbers DEF SAME
    <3>3. Contribution(code'[k]) = Contribution(code[k])
      BY <3>1, <3>2, LeafKept
    <3> QED BY <3>1, <3>3 DEF Rests
  <2> QED BY <2>1, <2>2
<1>2. \A i \in Items : /\ Descendants(i) \in SUBSET Items
                       /\ Descendants(i) \union {i} \in SUBSET Items
  BY DEF Descendants
<1> QED BY <1>1, <1>2

(* Before a full scan there are no results.                                *)
LEMMA SourceInvInit ==
    ASSUME ~Requested
    PROVE  Init => SourceInv
<1> SUFFICES ASSUME Init PROVE SourceInv
  OBVIOUS
<1>1. cursor = 0 /\ \A t \in Threads : pc[t] = "pick"
  BY DEF Init
<1>2. \A i \in Items : code[i].cmp = NOCMP /\ ~(i <= cursor)
  BY <1>1, InitCodes, NumItemsAssumption DEF Uncompared, Items
<1>3. \A i \in Items : Witness(Descendants(i), code[i].cmp)
  BY <1>2 DEF Witness, NOCMP, SAME
<1> QED BY <1>1, <1>2, <1>3 DEF SourceInv, At

(* SourceInv after a step, with what stays of it written out.              *)
LEMMA SourceInvNext ==
    ASSUME disk' = disk,
           \A t, u \in Threads : pc'[t] = "compare" /\ pc'[u] = "compare" /\ di'[u] = di'[t] => t = u,
           \A t \in Threads : pc'[t] = "classify" => code'[di'[t]].skipped = disk[di'[t]].skipped,
           \A i \in Items : ~disk[i].dir /\ (i > cursor' \/ Comparing(i)') => code'[i].cmp = NOCMP,
           \A i \in Items : disk[i].dir /\ code'[i].side = Both /\ i <= cursor' =>
               code'[i].cmp >= SAME \/ Comparing(i)',
           \A i \in Items : disk[i].dir => Rests(Descendants(i), code'[i].cmp),
           \A t \in Threads : pc'[t] = "walk" /\ flag'[t].cmpBits =>
               Rests(Descendants(di'[t]) \union {di'[t]}, flag'[t].cmp)
    PROVE  SourceInv'
<1>1. \A t, u \in Threads : pc'[t] = "compare" /\ At(u, di[t], {"compare"})' => t = u
  BY DEF At
<1>2. \A i \in Items : disk[i].dir => Witness(Descendants(i), code[i].cmp)'
  BY SameDisk DEF Witness, Rests
<1>3. \A t \in Threads : pc'[t] = "walk" /\ flag'[t].cmpBits =>
          Witness(Descendants(di[t]) \union {di[t]}, flag[t].cmp)'
  BY SameDisk DEF Witness, Rests
<1> QED BY <1>1, <1>2, <1>3 DEF SourceInv

(* GetNextDiff: no two threads get the same item.                          *)
LEMMA SourcePick ==
    ASSUME BaseInv, MarksOK, SourceInv, ~Requested, NEW t \in Threads, Pick(t)
    PROVE  SourceInv'
<1> DEFINE c == cursor + 1
<1>1. /\ c \in Items /\ cursor' = c /\ code' = code /\ flag' = flag /\ disk' = disk
      /\ pc[t] = "pick" /\ pc'[t] = "compare" /\ di'[t] = c
      /\ \A u \in Threads \ {t} : pc'[u] = pc[u] /\ di'[u] = di[u]
  BY PickEffect
<1>2. \A u \in Threads : pc[u] # "pick" => di[u] \in Items /\ di[u] <= cursor /\ di[u] # c
  BY BaseFacts
<1>3. \A u, v \in Threads : pc'[u] = "compare" /\ pc'[v] = "compare" /\ di'[v] = di'[u] => u = v
  BY <1>1, <1>2 DEF SourceInv, At
<1>4. \A u \in Threads : pc'[u] = "classify" => code'[di'[u]].skipped = disk[di'[u]].skipped
  BY <1>1 DEF SourceInv
<1>5. ASSUME NEW i \in Items
      PROVE  /\ i > cursor' => i > cursor
             /\ i <= cursor' => i <= cursor \/ i = c
             /\ Comparing(i)' => Comparing(i) \/ i > cursor
             /\ Comparing(i) \/ i = c => Comparing(i)'
  <2>1. i \in Nat /\ cursor \in Nat
    BY BaseFacts
  <2>2. Comparing(i) => Comparing(i)'
    BY <1>1 DEF Comparing, At
  <2>3. i = c => Comparing(i)'
    BY <1>1 DEF Comparing, At
  <2>4. Comparing(i)' => Comparing(i) \/ i = c
    BY <1>1 DEF Comparing, At
  <2> QED BY <2>1, <2>2, <2>3, <2>4, <1>1
<1>6. \A i \in Items : ~disk[i].dir /\ (i > cursor' \/ Comparing(i)') => code'[i].cmp = NOCMP
  BY <1>1, <1>5 DEF SourceInv
<1>7. \A i \in Items : disk[i].dir /\ code'[i].side = Both /\ i <= cursor' =>
          code'[i].cmp >= SAME \/ Comparing(i)'
  BY <1>1, <1>5 DEF SourceInv
<1>8. \A i \in Items : disk[i].dir => Rests(Descendants(i), code'[i].cmp)
  BY <1>1 DEF SourceInv, Witness, Rests
<1>9. \A u \in Threads : pc'[u] = "walk" /\ flag'[u].cmpBits =>
          Rests(Descendants(di'[u]) \union {di'[u]}, flag'[u].cmp)
  BY <1>1 DEF SourceInv, Witness, Rests
<1> HIDE DEF c
<1> QED BY <1>1, <1>3, <1>4, <1>6, <1>7, <1>8, <1>9, SourceInvNext

(* CompareDiffItem: a file is compared once, a folder starts at SAME.      *)
LEMMA SourceHand ==
    ASSUME BaseInv, MarksOK, SourceInv, ~Requested, [Next]_vars,
           NEW t \in Threads, Update(t) \/ CompareFolder(t) \/ CompareFile(t)
    PROVE  SourceInv'
<1> DEFINE h == di[t]
<1>1. /\ h \in Items /\ h <= cursor /\ flag' = flag /\ di' = di /\ disk' = disk /\ cursor' = cursor
      /\ \A j \in Items \ {h} : code'[j] = code[j]
      /\ pc[t] = "compare" /\ pc'[t] = "classify"
      /\ code'[h].side = code[h].side
      /\ code'[h].skipped = (code[h].skipped \/ disk[h].skipped) \/ code'[h].skipped = disk[h].skipped
      /\ disk[h].dir => code'[h].cmp = IF code[h].cmp = NOCMP /\ code[h].side = Both THEN SAME
                                       ELSE code[h].cmp
      /\ \A u \in Threads \ {t} : pc'[u] = pc[u]
  BY HandEffect DEF BaseInv
<1>2. /\ \A j \in Items : code[j].cmp \in CompareFlags /\ code[j].skipped \in BOOLEAN
      /\ \A j \in Items : disk[j].skipped \in BOOLEAN
      /\ \A u \in Threads : flag[u].cmp \in CompareFlags /\ (pc[u] # "pick" => di[u] \in Items)
      /\ \A j \in Items : j \in Nat
      /\ cursor \in Nat
  BY BaseFacts DEF CodeType, FlagType, DiskOK
<1>3. \A u, v \in Threads : pc'[u] = "compare" /\ pc'[v] = "compare" /\ di'[v] = di'[u] => u = v
  BY <1>1 DEF SourceInv, At
<1>4. code'[h].skipped = disk[h].skipped
  BY <1>1, <1>2 DEF MarksOK
<1>5. ASSUME NEW u \in Threads, pc'[u] = "classify"
      PROVE  code'[di'[u]].skipped = disk[di'[u]].skipped
  <2>1. CASE di[u] = h
    BY <2>1, <1>1, <1>4
  <2>2. CASE di[u] # h
    <3>1. pc[u] = "classify" /\ di[u] \in Items
      BY <2>2, <1>1, <1>2, <1>5
    <3> QED BY <3>1, <2>2, <1>1 DEF SourceInv
  <2> QED BY <2>1, <2>2
<1>6. ASSUME NEW i \in Items
      PROVE  /\ Comparing(i)' => Comparing(i) /\ i # h
             /\ Comparing(i) => Comparing(i)' \/ i = h
  <2>1. Comparing(i)' => Comparing(i) /\ i # h
    BY <1>1 DEF Comparing, At, SourceInv
  <2>2. Comparing(i) => Comparing(i)' \/ i = h
    BY <1>1 DEF Comparing, At
  <2> QED BY <2>1, <2>2
<1>7. ASSUME NEW i \in Items, ~disk[i].dir, i > cursor' \/ Comparing(i)'
      PROVE  code'[i].cmp = NOCMP
  <2>1. i # h /\ (i > cursor \/ Comparing(i))
    BY <1>1, <1>2, <1>6, <1>7
  <2> QED BY <2>1, <1>1, <1>7 DEF SourceInv
<1>8. ASSUME NEW i \in Items, disk[i].dir, code'[i].side = Both, i <= cursor'
      PROVE  code'[i].cmp >= SAME \/ Comparing(i)'
  <2>1. CASE i = h
    BY <2>1, <1>1, <1>2, <1>8, FlagsAreNumbers DEF CompareFlags, NOCMP, SAME, CMPABORT
  <2>2. CASE i # h
    BY <2>2, <1>1, <1>6, <1>8 DEF SourceInv
  <2> QED BY <2>1, <2>2
<1>9. ASSUME NEW i \in Items, disk[i].dir PROVE Rests(Descendants(i), code'[i].cmp)
  <2>1. CASE code'[i].cmp = code[i].cmp
    <3>1. Witness(Descendants(i), code[i].cmp)
      BY <1>9 DEF SourceInv
    <3>2. Descendants(i) \in SUBSET Items /\ Descendants(i) \in SUBSET Descendants(i)
      BY WitnessKept
    <3> QED BY <3>1, <3>2, <2>1, <1>2, WitnessKept
  <2>2. CASE code'[i].cmp # code[i].cmp
    <3>1. code'[i].cmp = SAME
      BY <2>2, <1>1, <1>9
    <3> QED BY <3>1 DEF Rests, SAME
  <2> QED BY <2>1, <2>2
<1>10. ASSUME NEW u \in Threads, pc'[u] = "walk", flag'[u].cmpBits
       PROVE  Rests(Descendants(di'[u]) \union {di'[u]}, flag'[u].cmp)
  <2>1. pc[u] = "walk" /\ flag'[u] = flag[u] /\ di'[u] = di[u] /\ di[u] \in Items
    BY <1>1, <1>2, <1>10
  <2> DEFINE S == Descendants(di[u]) \union {di[u]}
  <2>2. Witness(S, flag[u].cmp)
    BY <2>1, <1>10 DEF SourceInv
  <2>3. S \in SUBSET Items /\ S \in SUBSET S /\ flag[u].cmp \in CompareFlags
    BY <2>1, <1>2, WitnessKept
  <2>4. \A R \in SUBSET Items : \A T \in SUBSET R : \A v \in CompareFlags :
            Witness(T, v) => Rests(R, v)
    BY WitnessKept
  <2> HIDE DEF S
  <2>5. Rests(S, flag[u].cmp)
    BY <2>2, <2>3, <2>4
  <2> QED BY <2>5, <2>1 DEF S
<1> HIDE DEF h
<1> QED BY <1>1, <1>3, <1>5, <1>7, <1>8, <1>9, <1>10, SourceInvNext

(* Classify: what an item sends up is its own result or rests on what its  *)
(* own result rests on.                                                    *)
LEMMA SourceClassify ==
    ASSUME BaseInv, MarksOK, SourceInv, ~Requested, [Next]_vars, NEW t \in Threads, Classify(t)
    PROVE  SourceInv'
<1> DEFINE h == di[t]
<1>1. /\ h \in Items /\ h <= cursor /\ pc[t] = "classify"
      /\ code' = code /\ di' = di /\ disk' = disk /\ cursor' = cursor
      /\ \A u \in Threads \ {t} : pc'[u] = pc[u] /\ flag'[u] = flag[u]
      /\ \/ pc'[t] = "pick"
         \/ pc'[t] = "walk" /\ flag'[t] = FlagOf(code[h]) /\ ~code[h].skipped
  BY ClassifyEffect
<1>2. \A u, v \in Threads : pc'[u] = "compare" /\ pc'[v] = "compare" /\ di'[v] = di'[u] => u = v
  BY <1>1 DEF SourceInv, At
<1>3. \A u \in Threads : pc'[u] = "classify" => code'[di'[u]].skipped = disk[di'[u]].skipped
  BY <1>1 DEF SourceInv
<1>4. \A i \in Items : Comparing(i)' <=> Comparing(i)
  BY <1>1 DEF Comparing, At
<1>5. \A i \in Items : ~disk[i].dir /\ (i > cursor' \/ Comparing(i)') => code'[i].cmp = NOCMP
  BY <1>1, <1>4 DEF SourceInv
<1>6. \A i \in Items : disk[i].dir /\ code'[i].side = Both /\ i <= cursor' =>
          code'[i].cmp >= SAME \/ Comparing(i)'
  BY <1>1, <1>4 DEF SourceInv
<1>7. \A i \in Items : disk[i].dir => Rests(Descendants(i), code'[i].cmp)
  BY <1>1 DEF SourceInv, Witness, Rests
<1>8. ASSUME NEW u \in Threads, pc'[u] = "walk", flag'[u].cmpBits
      PROVE  Rests(Descendants(di'[u]) \union {di'[u]}, flag'[u].cmp)
  <2>1. CASE u # t
    <3>1. pc[u] = "walk" /\ flag'[u] = flag[u] /\ di'[u] = di[u]
      BY <1>1, <1>8, <2>1
    <3> QED BY <3>1, <1>1, <1>8 DEF SourceInv, Witness, Rests
  <2>2. CASE u = t
    <3>1. /\ code[h] \in CodeType /\ ~code[h].skipped /\ ~disk[h].skipped
          /\ disk[h].dir \in BOOLEAN /\ code[h].side = disk[h].side
      BY <1>1, <1>8, <2>2, BaseFacts DEF SourceInv, MarksOK, Final, DiskOK
    <3>2. flag'[t].cmp = Contribution(code[h])
      <4>1. [code[h] EXCEPT !.skipped = FALSE] = code[h]
        BY <3>1 DEF CodeType
      <4> QED BY <4>1, <3>1, <1>1, <1>8, <2>2, FlagOfFacts
    <3>3. CASE Leaf(h)
      <4>1. \E k \in Descendants(h) \union {h} : Leaf(k) /\ Contribution(code'[k]) = flag'[t].cmp
        BY <3>2, <3>3, <1>1
      <4> QED BY <4>1, <2>2, <1>1 DEF Rests
    <3>4. CASE ~Leaf(h)
      <4>1. disk[h].dir /\ code[h].side = Both
        BY <3>1, <3>4 DEF Leaf
      <4>2. flag'[t].cmp = code[h].cmp
        BY <3>1, <3>2, <4>1 DEF Contribution, Both
      <4>3. Rests(Descendants(h), code[h].cmp)
        BY <4>1, <1>1, <1>7
      <4> QED BY <4>2, <4>3, <2>2, <1>1 DEF Rests
    <3> QED BY <3>3, <3>4
  <2> QED BY <2>1, <2>2
<1> HIDE DEF h
<1> QED BY <1>1, <1>2, <1>3, <1>5, <1>6, <1>7, <1>8, SourceInvNext

(* The walk: what is below an item is below its parent too.               *)
LEMMA SourcePropagate ==
    ASSUME BaseInv, MarksOK, SourceInv, ~Requested, [Next]_vars, NEW t \in Threads, Propagate(t)
    PROVE  SourceInv'
<1> DEFINE h == di[t]
           p == Parent(h)
<1>1. /\ h \in Items /\ p \in Items /\ p \in disk[h].above
      /\ \A j \in Items \ {p} : code'[j] = code[j]
      /\ code'[p].side = code[p].side /\ code'[p].skipped = code[p].skipped
      /\ \/ /\ flag[t].cmpBits /\ code[p].cmp <= flag[t].cmp
            /\ code'[p].cmp = flag[t].cmp
            /\ flag'[t].cmpBits /\ flag'[t].cmp = flag[t].cmp
         \/ /\ code'[p].cmp = code[p].cmp
            /\ ~flag'[t].cmpBits
      /\ \A u \in Threads \ {t} : pc'[u] = pc[u] /\ di'[u] = di[u] /\ flag'[u] = flag[u]
      /\ pc[t] = "walk" /\ pc'[t] \in {"pick", "walk"} /\ di'[t] = p
      /\ disk' = disk /\ cursor' = cursor
  BY PropagateEffect
<1>2. /\ \A j \in Items : code[j].cmp \in CompareFlags
      /\ \A u \in Threads : flag[u].cmp \in CompareFlags /\ (pc[u] # "pick" => di[u] \in Items)
  BY BaseFacts DEF CodeType, FlagType
<1>3. disk[p].dir /\ Descendants(h) \union {h} \subseteq Descendants(p)
  <2>1. p # 0
    BY <1>1 DEF BaseInv
  <2> QED BY <2>1, <1>1, BelowParent DEF BaseInv, DiskOK
<1>4. \A R \in SUBSET Items : \A T \in SUBSET R : \A v \in CompareFlags :
          Witness(T, v) => Rests(R, v)
  BY WitnessKept
<1>5. \A i \in Items : Descendants(i) \in SUBSET Items /\ Descendants(i) \union {i} \in SUBSET Items
  BY WitnessKept
<1>6. flag[t].cmpBits => /\ Rests(Descendants(p), flag[t].cmp)
                         /\ Rests(Descendants(p) \union {p}, flag[t].cmp)
  <2> SUFFICES ASSUME flag[t].cmpBits
               PROVE  /\ Rests(Descendants(p), flag[t].cmp)
                      /\ Rests(Descendants(p) \union {p}, flag[t].cmp)
    OBVIOUS
  <2> DEFINE S == Descendants(h) \union {h}
  <2>1. Witness(S, flag[t].cmp)
    BY <1>1 DEF SourceInv
  <2>2. S \in SUBSET Descendants(p) /\ S \in SUBSET (Descendants(p) \union {p})
    BY <1>3
  <2> HIDE DEF S, p
  <2> QED BY <2>1, <2>2, <1>1, <1>2, <1>4, <1>5
<1>7. \A u, v \in Threads : pc'[u] = "compare" /\ pc'[v] = "compare" /\ di'[v] = di'[u] => u = v
  BY <1>1 DEF SourceInv, At
<1>8. ASSUME NEW u \in Threads, pc'[u] = "classify"
      PROVE  code'[di'[u]].skipped = disk[di'[u]].skipped
  <2>1. u # t /\ pc[u] = "classify" /\ di'[u] = di[u] /\ di[u] \in Items
    BY <1>1, <1>2, <1>8
  <2>2. code'[di[u]].skipped = code[di[u]].skipped
    BY <2>1, <1>1
  <2> QED BY <2>1, <2>2 DEF SourceInv
<1>9. \A i \in Items : Comparing(i)' <=> Comparing(i)
  BY <1>1 DEF Comparing, At
<1>10. \A i \in Items : ~disk[i].dir /\ (i > cursor' \/ Comparing(i)') => code'[i].cmp = NOCMP
  BY <1>1, <1>3, <1>9 DEF SourceInv
<1>11. ASSUME NEW i \in Items, disk[i].dir, code'[i].side = Both, i <= cursor'
       PROVE  code'[i].cmp >= SAME \/ Comparing(i)'
  <2>1. code[i].cmp >= SAME \/ Comparing(i)
    BY <1>1, <1>11 DEF SourceInv
  <2>2. CASE code'[i].cmp = code[i].cmp
    BY <2>1, <2>2, <1>9
  <2>3. CASE code'[i].cmp # code[i].cmp
    <3>1. code'[i].cmp = flag[t].cmp /\ code[i].cmp <= flag[t].cmp
      BY <2>3, <1>1
    <3>2. code[i].cmp \in Int /\ flag[t].cmp \in Int
      BY <1>2, FlagsAreNumbers
    <3>3. code[i].cmp >= SAME => code'[i].cmp >= SAME
      BY <3>1, <3>2 DEF SAME
    <3> QED BY <3>3, <2>1, <1>9
  <2> QED BY <2>2, <2>3
<1>12. ASSUME NEW i \in Items, disk[i].dir PROVE Rests(Descendants(i), code'[i].cmp)
  <2>1. CASE code'[i].cmp = code[i].cmp
    <3>1. Witness(Descendants(i), code[i].cmp) /\ code[i].cmp \in CompareFlags
      BY <1>2, <1>12 DEF SourceInv
    <3>2. Descendants(i) \in SUBSET Items /\ Descendants(i) \in SUBSET Descendants(i)
      BY <1>5
    <3> QED BY <3>1, <3>2, <2>1, <1>4
  <2>2. CASE code'[i].cmp # code[i].cmp
    BY <2>2, <1>1, <1>6
  <2> QED BY <2>1, <2>2
<1>13. ASSUME NEW u \in Threads, pc'[u] = "walk", flag'[u].cmpBits
       PROVE  Rests(Descendants(di'[u]) \union {di'[u]}, flag'[u].cmp)
  <2>1. CASE u = t
    BY <2>1, <1>1, <1>6, <1>13
  <2>2. CASE u # t
    <3> DEFINE S == Descendants(di[u]) \union {di[u]}
    <3>1. pc[u] = "walk" /\ flag'[u] = flag[u] /\ di'[u] = di[u] /\ di[u] \in Items
      BY <2>2, <1>1, <1>2, <1>13
    <3>2. Witness(S, flag[u].cmp) /\ S \in SUBSET Items /\ S \in SUBSET S
      BY <3>1, <1>5, <1>13 DEF SourceInv
    <3> HIDE DEF S
    <3>3. Rests(S, flag[u].cmp)
      BY <3>2, <1>2, <1>4
    <3> QED BY <3>1, <3>3 DEF S
  <2> QED BY <2>1, <2>2
<1> HIDE DEF h, p
<1> QED BY <1>1, <1>7, <1>8, <1>10, <1>11, <1>12, <1>13, SourceInvNext

(* Every step of a full scan keeps SourceInv.                              *)
LEMMA SourceInvStep ==
    ASSUME ~Requested
    PROVE  BaseInv /\ MarksOK /\ SourceInv /\ [Next]_vars => SourceInv'
<1> SUFFICES ASSUME BaseInv, MarksOK, SourceInv, [Next]_vars PROVE SourceInv'
  OBVIOUS
<1>1. CASE UNCHANGED vars
  <2>1. /\ \A i : Comparing(i)' = Comparing(i)
        /\ \A S, v : Witness(S, v) => Rests(S, v)
    BY <1>1 DEF Comparing, At, Witness, Rests, vars
  <2> QED BY <2>1, <1>1, SourceInvNext DEF SourceInv, At, vars
<1>2. ASSUME NEW t \in Threads, Pick(t) PROVE SourceInv'
  BY <1>2, SourcePick
<1>3. ASSUME NEW t \in Threads, Update(t) \/ CompareFolder(t) \/ CompareFile(t) PROVE SourceInv'
  BY <1>3, SourceHand
<1>4. ASSUME NEW t \in Threads, Classify(t) PROVE SourceInv'
  BY <1>4, SourceClassify
<1>5. ASSUME NEW t \in Threads, Propagate(t) PROVE SourceInv'
  BY <1>5, SourcePropagate
<1> QED BY <1>1, <1>2, <1>3, <1>4, <1>5 DEF Next, Thread

(* After a full scan, with any number of threads in any order, a folder on *)
(* both sides shows exactly the most severe result below it: WorstInv      *)
(* gives that nothing below is worse, SourceInv that something below is as *)
(* bad.                                                                    *)
THEOREM FoldersShowTheirWorst ==
    ASSUME ~Requested
    PROVE  Spec => []FolderShowsWorstChild
<1>1. Init => BaseInv /\ WorstInv /\ SourceInv
  BY BaseInvInit, WorstInvInit, SourceInvInit
<1>2. BaseInv /\ WorstInv /\ SourceInv /\ [Next]_vars => BaseInv' /\ WorstInv' /\ SourceInv'
  BY BaseInvStep, WorstInvStep, SourceInvStep DEF WorstInv
<1>3. BaseInv /\ WorstInv /\ SourceInv => FolderShowsWorstChild
  <2> SUFFICES ASSUME BaseInv, WorstInv, SourceInv, Finished,
                      NEW i \in Items, disk[i].dir, code[i].side = Both
               PROVE  code[i].cmp = FolderResult(i)
    BY DEF FolderShowsWorstChild
  <2> DEFINE S == {SAME} \union { Contribution(code[k]) : k \in Descendants(i) }
  <2>1. code[i].cmp \in CompareFlags /\ SAME \in CompareFlags
    BY BaseFacts DEF CodeType, CompareFlags, NOCMP, SAME, CMPABORT
  <2>2. S \in SUBSET CompareFlags
    <3>1. \A k \in Descendants(i) : Contribution(code[k]) \in CompareFlags
      BY BaseFacts, FlagsAreNumbers DEF Descendants
    <3> QED BY <3>1, <2>1
  <2>3. code[i].cmp >= SAME
    BY NumItemsAssumption DEF SourceInv, Finished, Comparing, At, Items
  <2>4. \A v \in S : v <= code[i].cmp
    <3>1. \A k \in Descendants(i) : Contribution(code[k]) <= code[i].cmp
      BY ChainUp
    <3>2. SAME <= code[i].cmp
      BY <2>1, <2>3, FlagsAreNumbers
    <3> QED BY <3>1, <3>2
  <2>5. code[i].cmp \in S
    <3>1. Witness(Descendants(i), code[i].cmp)
      BY DEF SourceInv
    <3>2. CASE code[i].cmp <= SAME
      <4>1. code[i].cmp = SAME
        BY <3>2, <2>1, <2>3, FlagsAreNumbers
      <4> QED BY <4>1
    <3>3. CASE \E k \in Descendants(i) : Leaf(k) /\ Contribution(code[k]) = code[i].cmp
      BY <3>3
    <3> QED BY <3>1, <3>2, <3>3 DEF Witness
  <2> HIDE DEF S
  <2>6. Max(S) = code[i].cmp
    BY <2>2, <2>4, <2>5, MaxFlagIs
  <2> QED BY <2>6 DEF FolderResult, S
<1> QED BY <1>1, <1>2, <1>3, PTL DEF Spec

-----------------------------------------------------------------------------
(* Before a full scan no CONTAINS bit is set and no item is touched.       *)
LEMMA UniqueInvInit ==
    ASSUME ~Requested
    PROVE  Init => UniqueInv
<1> SUFFICES ASSUME Init PROVE UniqueInv
  OBVIOUS
<1>1. cursor = 0 /\ \A t \in Threads : pc[t] = "pick"
  BY DEF Init
<1>2. \A i \in Items : code[i].contains = {} /\ i > cursor
  BY <1>1, InitCodes, NumItemsAssumption DEF Uncompared, Items
<1> QED BY <1>1, <1>2 DEF UniqueInv, Untouched

(* Thread t apart, the bits a thread delivers are still delivered.         *)
LEMMA DeliveredKept ==
    ASSUME NEW t \in Threads, NEW i, di[t] # i \/ pc[t] # "walk",
           \A u \in Threads \ {t} : pc'[u] = pc[u] /\ di'[u] = di[u] /\ flag'[u] = flag[u]
    PROVE  \A s : Delivered(i, s) => Delivered(i, s)'
  BY DEF Delivered, At

(* GetNextDiff: the item picked is in hand, the bits stay.                 *)
LEMMA UniquePick ==
    ASSUME BaseInv, UniqueInv, ~Requested, NEW t \in Threads, Pick(t)
    PROVE  UniqueInv'
<1> DEFINE c == cursor + 1
<1>1. /\ c \in Items /\ cursor' = c /\ code' = code /\ flag' = flag /\ disk' = disk
      /\ pc[t] = "pick" /\ pc'[t] = "compare" /\ di'[t] = c
      /\ \A u \in Threads \ {t} : pc'[u] = pc[u] /\ di'[u] = di[u]
  BY PickEffect
<1>2. \A i, s : Delivered(i, s) => Delivered(i, s)'
  BY <1>1, DeliveredKept
<1>3. ASSUME NEW i \in Items PROVE Untouched(i) \/ InHands(i) => Untouched(i)' \/ InHands(i)'
  <2>1. InHands(i) => InHands(i)'
    BY <1>1 DEF InHands, At
  <2>2. i = c => InHands(i)'
    BY <1>1 DEF InHands, At
  <2>3. Untouched(i) /\ i # c => Untouched(i)'
    BY <1>1, BaseFacts DEF Untouched
  <2> QED BY <2>1, <2>2, <2>3
<1>4. \A u \in Threads : pc'[u] = "walk" => pc[u] = "walk" /\ di'[u] = di[u]
  BY <1>1
<1>5. \A i \in Items : \A s \in Both : s \in code'[i].contains => UniqueIn(Descendants(i), s)
  BY <1>1 DEF UniqueInv
<1>6. \A u \in Threads : \A s \in Both : pc'[u] = "walk" /\ s \in flag'[u].contains =>
          UniqueIn(Descendants(di'[u]) \union {di'[u]}, s)
  BY <1>1, <1>4 DEF UniqueInv
<1>7. \A i \in Items : \A s \in Both : Parent(i) # 0 =>
          /\ s \in code'[i].contains => s \in code'[Parent(i)].contains \/ Delivered(i, s)'
          /\ code'[i].side = {s} /\ ~code'[i].skipped =>
                \/ s \in code'[Parent(i)].contains \/ Delivered(i, s)'
                \/ Untouched(i)' \/ InHands(i)'
  BY <1>1, <1>2, <1>3 DEF UniqueInv
<1> HIDE DEF c
<1> QED BY <1>1, <1>5, <1>6, <1>7, SameDisk DEF UniqueInv

(* CompareDiffItem changes no CONTAINS bit.                                *)
LEMMA UniqueHand ==
    ASSUME BaseInv, UniqueInv, ~Requested,
           NEW t \in Threads, Update(t) \/ CompareFolder(t) \/ CompareFile(t)
    PROVE  UniqueInv'
<1> DEFINE h == di[t]
<1>1. /\ h \in Items /\ flag' = flag /\ di' = di /\ disk' = disk /\ cursor' = cursor
      /\ \A j \in Items \ {h} : code'[j] = code[j]
      /\ code'[h].contains = code[h].contains
      /\ pc[t] = "compare" /\ pc'[t] = "classify"
      /\ \A u \in Threads \ {t} : pc'[u] = pc[u]
  BY HandEffect DEF BaseInv
<1>2. \A i, s : Delivered(i, s) => Delivered(i, s)'
  BY <1>1, DeliveredKept
<1>3. \A i \in Items : InHands(i) => InHands(i)'
  BY <1>1 DEF InHands, At
<1>5. \A i \in Items : Untouched(i) => Untouched(i)'
  BY <1>1 DEF Untouched
<1>6. \A i \in Items : code'[i].contains = code[i].contains
  BY <1>1
<1>7. \A i \in Items : \A s \in Both : s \in code'[i].contains => UniqueIn(Descendants(i), s)
  BY <1>6 DEF UniqueInv
<1>8. \A u \in Threads : \A s \in Both : pc'[u] = "walk" /\ s \in flag'[u].contains =>
          UniqueIn(Descendants(di'[u]) \union {di'[u]}, s)
  BY <1>1 DEF UniqueInv
<1>9. ASSUME NEW i \in Items, NEW s \in Both, Parent(i) # 0
      PROVE  /\ s \in code'[i].contains => s \in code'[Parent(i)].contains \/ Delivered(i, s)'
             /\ code'[i].side = {s} /\ ~code'[i].skipped =>
                   \/ s \in code'[Parent(i)].contains \/ Delivered(i, s)'
                   \/ Untouched(i)' \/ InHands(i)'
  <2>1. Parent(i) \in Items
    BY <1>9, ParentFacts DEF BaseInv
  <2>2. CASE i = h
    <3>1. s \in code[i].contains => s \in code[Parent(i)].contains \/ Delivered(i, s)
      BY <1>9 DEF UniqueInv
    <3>2. code'[i].contains = code[i].contains /\ code'[Parent(i)].contains = code[Parent(i)].contains
      BY <2>1, <1>6
    <3>3. InHands(i)'
      BY <2>2, <1>1 DEF InHands, At
    <3> QED BY <3>1, <3>2, <3>3, <1>2
  <2>3. CASE i # h
    <3>1. code'[i] = code[i] /\ code'[Parent(i)].contains = code[Parent(i)].contains
      BY <2>1, <2>3, <1>1, <1>6
    <3> QED BY <3>1, <1>2, <1>3, <1>5, <1>9 DEF UniqueInv
  <2> QED BY <2>2, <2>3
<1> HIDE DEF h
<1> QED BY <1>1, <1>7, <1>8, <1>9, SameDisk DEF UniqueInv

(* Classify: a unique item in hand becomes a bit on its way.               *)
LEMMA UniqueClassify ==
    ASSUME BaseInv, MarksOK, SourceInv, UniqueInv, ~Requested, NEW t \in Threads, Classify(t)
    PROVE  UniqueInv'
<1> DEFINE h == di[t]
<1>1. /\ h \in Items /\ pc[t] = "classify"
      /\ code' = code /\ di' = di /\ disk' = disk /\ cursor' = cursor
      /\ \A u \in Threads \ {t} : pc'[u] = pc[u] /\ flag'[u] = flag[u]
      /\ \/ pc'[t] = "pick" /\ (code[h].skipped \/ Parent(h) = 0)
         \/ pc'[t] = "walk" /\ flag'[t] = FlagOf(code[h]) /\ ~code[h].skipped
  BY ClassifyEffect
<1>2. /\ code[h] \in CodeType /\ disk[h].skipped = code[h].skipped
      /\ code[h].side = disk[h].side /\ (code[h].side # Both => code[h].cmp = NOCMP)
  BY <1>1, BaseFacts DEF SourceInv, MarksOK, Final
<1>3. \A s \in Both : s \in FlagOf(code[h]).contains <=> code[h].side = {s}
  <2>1. \A s \in Both : {s} # Both
    BY DEF Both
  <2> QED BY <2>1, <1>2, FlagOfFacts
<1>4. \A i, s : Delivered(i, s) => Delivered(i, s)'
  BY <1>1, DeliveredKept
<1>5. ASSUME NEW i \in Items, InHands(i), i # h PROVE InHands(i)'
  BY <1>1, <1>5 DEF InHands, At
<1>6. \A i \in Items : \A s \in Both : s \in code'[i].contains => UniqueIn(Descendants(i), s)
  BY <1>1 DEF UniqueInv
<1>7. ASSUME NEW u \in Threads, NEW s \in Both, pc'[u] = "walk", s \in flag'[u].contains
      PROVE  UniqueIn(Descendants(di'[u]) \union {di'[u]}, s)
  <2>1. CASE u = t
    <3>1. disk[h].side = {s} /\ ~disk[h].skipped
      BY <2>1, <1>1, <1>2, <1>3, <1>7
    <3> QED BY <3>1, <2>1, <1>1 DEF UniqueIn
  <2>2. CASE u # t
    BY <2>2, <1>1, <1>7 DEF UniqueInv
  <2> QED BY <2>1, <2>2
<1>8. ASSUME NEW i \in Items, NEW s \in Both, Parent(i) # 0
      PROVE  /\ s \in code'[i].contains => s \in code'[Parent(i)].contains \/ Delivered(i, s)'
             /\ code'[i].side = {s} /\ ~code'[i].skipped =>
                   \/ s \in code'[Parent(i)].contains \/ Delivered(i, s)'
                   \/ Untouched(i)' \/ InHands(i)'
  <2>1. s \in code'[i].contains => s \in code'[Parent(i)].contains \/ Delivered(i, s)'
    BY <1>1, <1>4, <1>8 DEF UniqueInv
  <2>2. ASSUME code'[i].side = {s}, ~code'[i].skipped
        PROVE  \/ s \in code'[Parent(i)].contains \/ Delivered(i, s)'
               \/ Untouched(i)' \/ InHands(i)'
    <3>1. CASE i = h
      <4>1. pc'[t] = "walk" /\ s \in flag'[t].contains /\ di'[t] = i
        BY <3>1, <2>2, <1>1, <1>3, <1>8
      <4> QED BY <4>1 DEF Delivered, At
    <3>2. CASE i # h
      <4>1. \/ s \in code[Parent(i)].contains \/ Delivered(i, s)
            \/ Untouched(i) \/ InHands(i)
        BY <2>2, <1>1, <1>8 DEF UniqueInv
      <4>2. Untouched(i) => Untouched(i)'
        BY <1>1 DEF Untouched
      <4> QED BY <4>1, <4>2, <3>2, <1>1, <1>4, <1>5
    <3> QED BY <3>1, <3>2
  <2> QED BY <2>1, <2>2
<1> HIDE DEF h
<1> QED BY <1>1, <1>6, <1>7, <1>8, SameDisk DEF UniqueInv

(* The walk: the bit arrives at the parent, and goes on if it was new.     *)
LEMMA UniquePropagate ==
    ASSUME BaseInv, UniqueInv, ~Requested, NEW t \in Threads, Propagate(t)
    PROVE  UniqueInv'
<1> DEFINE h == di[t]
           p == Parent(h)
<1>1. /\ h \in Items /\ p \in Items /\ p < h
      /\ \A j \in Items \ {p} : code'[j] = code[j]
      /\ code'[p].side = code[p].side /\ code'[p].skipped = code[p].skipped
      /\ code'[p].contains = code[p].contains \union flag[t].contains
      /\ flag'[t].contains = flag[t].contains
      /\ \A u \in Threads \ {t} : pc'[u] = pc[u] /\ di'[u] = di[u] /\ flag'[u] = flag[u]
      /\ pc[t] = "walk" /\ pc'[t] \in {"pick", "walk"} /\ di'[t] = p
      /\ pc'[t] = "pick" => code'[p] = code[p] \/ Parent(p) = 0
      /\ disk' = disk /\ cursor' = cursor
  BY PropagateEffect
<1>2. p # 0 /\ p # h /\ Descendants(h) \union {h} \subseteq Descendants(p)
  <2>1. p # 0
    BY <1>1 DEF BaseInv
  <2> QED BY <2>1, <1>1, BelowParent, BaseFacts DEF BaseInv
<1>3. \A s \in Both : s \in flag[t].contains =>
          UniqueIn(Descendants(p), s) /\ UniqueIn(Descendants(p) \union {p}, s)
  <2>1. \A s \in Both : s \in flag[t].contains => UniqueIn(Descendants(h) \union {h}, s)
    BY <1>1 DEF UniqueInv
  <2> HIDE DEF p, h
  <2> QED BY <2>1, <1>2 DEF UniqueIn
<1>4. \A i \in Items : code[i].contains \subseteq code'[i].contains
  BY <1>1
<1>5. ASSUME NEW i \in Items, i # h PROVE \A s : Delivered(i, s) => Delivered(i, s)'
  BY <1>1, <1>5, DeliveredKept
<1>6. \A i \in Items : Untouched(i) \/ InHands(i) => Untouched(i)' \/ InHands(i)'
  <2>1. \A i \in Items : InHands(i) => InHands(i)'
    BY <1>1 DEF InHands, At
  <2>2. \A i \in Items : Untouched(i) => Untouched(i)'
    BY <1>1 DEF Untouched
  <2> QED BY <2>1, <2>2
<1>7. ASSUME NEW i \in Items, NEW s \in Both, s \in code'[i].contains
      PROVE  UniqueIn(Descendants(i), s)
  <2>1. CASE s \in code[i].contains
    BY <2>1 DEF UniqueInv
  <2>2. CASE s \notin code[i].contains
    <3>1. i = p /\ s \in flag[t].contains
      BY <2>2, <1>1, <1>7
    <3> QED BY <3>1, <1>3
  <2> QED BY <2>1, <2>2
<1>8. ASSUME NEW u \in Threads, NEW s \in Both, pc'[u] = "walk", s \in flag'[u].contains
      PROVE  UniqueIn(Descendants(di'[u]) \union {di'[u]}, s)
  <2>1. CASE u = t
    BY <2>1, <1>1, <1>3, <1>8
  <2>2. CASE u # t
    BY <2>2, <1>1, <1>8 DEF UniqueInv
  <2> QED BY <2>1, <2>2
<1>9. ASSUME NEW i \in Items, NEW s \in Both, Parent(i) # 0
      PROVE  /\ s \in code'[i].contains => s \in code'[Parent(i)].contains \/ Delivered(i, s)'
             /\ code'[i].side = {s} /\ ~code'[i].skipped =>
                   \/ s \in code'[Parent(i)].contains \/ Delivered(i, s)'
                   \/ Untouched(i)' \/ InHands(i)'
  <2>1. Parent(i) \in Items
    BY <1>9, ParentFacts DEF BaseInv
  <2>2. ASSUME s \in code[Parent(i)].contains \/ Delivered(i, s)
        PROVE  s \in code'[Parent(i)].contains \/ Delivered(i, s)'
    <3>1. CASE s \in code[Parent(i)].contains
      BY <3>1, <2>1, <1>4
    <3>2. CASE Delivered(i, s) /\ i # h
      BY <3>2, <1>5
    <3>3. CASE Delivered(i, s) /\ i = h
      <4>1. PICK u \in Threads : At(u, i, {"walk"}) /\ s \in flag[u].contains
        BY <3>3 DEF Delivered
      <4>2. CASE u = t
        BY <4>1, <4>2, <3>3, <1>1
      <4>3. CASE u # t
        <5>1. At(u, i, {"walk"})' /\ s \in flag'[u].contains
          BY <4>1, <4>3, <1>1 DEF At
        <5> QED BY <5>1 DEF Delivered
      <4> QED BY <4>2, <4>3
    <3> QED BY <2>2, <3>1, <3>2, <3>3
  <2>3. ASSUME s \in code'[i].contains
        PROVE  s \in code'[Parent(i)].contains \/ Delivered(i, s)'
    <3>1. CASE s \in code[i].contains
      BY <3>1, <2>2, <1>9 DEF UniqueInv
    <3>2. CASE s \notin code[i].contains
      <4>1. i = p /\ s \in flag'[t].contains /\ code'[p] # code[p]
        BY <3>2, <2>3, <1>1
      <4>2. pc'[t] = "walk" /\ di'[t] = i
        BY <4>1, <1>1, <1>9
      <4> QED BY <4>1, <4>2 DEF Delivered, At
    <3> QED BY <3>1, <3>2
  <2>4. code'[i].side = code[i].side /\ code'[i].skipped = code[i].skipped
    BY <1>1
  <2> QED BY <2>2, <2>3, <2>4, <1>6, <1>9 DEF UniqueInv
<1> HIDE DEF h, p
<1> QED BY <1>1, <1>7, <1>8, <1>9, SameDisk DEF UniqueInv

(* Every step of a full scan keeps UniqueInv.                              *)
LEMMA UniqueInvStep ==
    ASSUME ~Requested
    PROVE  BaseInv /\ MarksOK /\ SourceInv /\ UniqueInv /\ [Next]_vars => UniqueInv'
<1> SUFFICES ASSUME BaseInv, MarksOK, SourceInv, UniqueInv, [Next]_vars PROVE UniqueInv'
  OBVIOUS
<1>1. CASE UNCHANGED vars
  BY <1>1, SameDisk, SMTT(30) DEF UniqueInv, Delivered, Untouched, InHands, At, vars
<1>2. ASSUME NEW t \in Threads, Pick(t) PROVE UniqueInv'
  BY <1>2, UniquePick
<1>3. ASSUME NEW t \in Threads, Update(t) \/ CompareFolder(t) \/ CompareFile(t) PROVE UniqueInv'
  BY <1>3, UniqueHand
<1>4. ASSUME NEW t \in Threads, Classify(t) PROVE UniqueInv'
  BY <1>4, UniqueClassify
<1>5. ASSUME NEW t \in Threads, Propagate(t) PROVE UniqueInv'
  BY <1>5, UniquePropagate
<1> QED BY <1>1, <1>2, <1>3, <1>4, <1>5 DEF Next, Thread

(* After a full scan the CONTAINSLEFTONLY and CONTAINSRIGHTONLY bits of a  *)
(* folder are set exactly when an unskipped item below it is only on that  *)
(* side, whichever thread found it.                                        *)
THEOREM ContainsBitsAreExact ==
    ASSUME ~Requested
    PROVE  Spec => []ContainsUniqueIsExact
<1>1. Init => BaseInv /\ MarksOK /\ SourceInv /\ UniqueInv
  BY BaseInvInit, MarksOKInit, SourceInvInit, UniqueInvInit
<1>2. BaseInv /\ MarksOK /\ SourceInv /\ UniqueInv /\ [Next]_vars
         => BaseInv' /\ MarksOK' /\ SourceInv' /\ UniqueInv'
  BY BaseInvStep, MarksOKStep, SourceInvStep, UniqueInvStep
<1>3. BaseInv /\ MarksOK /\ UniqueInv => ContainsUniqueIsExact
  <2> SUFFICES ASSUME BaseInv, MarksOK, UniqueInv, Finished, NEW i \in Items, NEW s \in Both
               PROVE  s \in code[i].contains <=> UniqueBelow(i, s)
    BY DEF ContainsUniqueIsExact
  <2>1. ASSUME NEW k \in Items
        PROVE  /\ code[k].side = disk[k].side /\ (code[k].skipped => disk[k].skipped)
               /\ ~Untouched(k) /\ ~InHands(k) /\ ~Delivered(k, s)
    <3>1. k <= cursor /\ cursor \in Nat /\ k \in Nat
      BY NumItemsAssumption DEF Finished, Items
    <3> QED BY <3>1 DEF MarksOK, Final, Untouched, InHands, Delivered, At, Finished
  <2>2. s \in code[i].contains => UniqueBelow(i, s)
    BY <2>1 DEF UniqueInv, UniqueIn, UniqueBelow, Descendants
  <2>3. ASSUME UniqueBelow(i, s), s \notin code[i].contains PROVE FALSE
    <3> DEFINE G == { j \in Descendants(i) : \/ code[j].side = {s} /\ ~code[j].skipped
                                             \/ s \in code[j].contains }
    <3>1. G # {} /\ G \in SUBSET Nat
      BY <2>3, BaseFacts DEF UniqueBelow, Descendants
    <3>2. PICK j \in G : \A g \in G : j <= g
      BY <3>1, LeastOf, Zenon
    <3> DEFINE q == Parent(j)
    <3>3. j \in Items /\ j \in Nat /\ i \in disk[j].above
      BY <3>2, BaseFacts DEF Descendants
    <3>4. q # 0 /\ q \in Items /\ q < j /\ (i = q \/ i \in disk[q].above) /\ q \in Nat
      BY <3>3, ParentFacts, BaseFacts DEF BaseInv
    <3>5. s \in code[q].contains
      BY <3>2, <3>3, <3>4, <2>1 DEF UniqueInv
    <3>6. q \in Descendants(i)
      BY <3>4, <3>5, <2>3 DEF Descendants
    <3>7. ~(j <= q)
      BY <3>3, <3>4
    <3> QED BY <3>2, <3>5, <3>6, <3>7
  <2> QED BY <2>2, <2>3
<1> QED BY <1>1, <1>2, <1>3, PTL DEF Spec
=============================================================================
