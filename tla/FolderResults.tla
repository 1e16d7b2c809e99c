--------------------------- MODULE FolderResults ---------------------------
(***************************************************************************)
(* How the results of a folder scan reach the folders: the compare threads *)
(* of DirScan_CompareItems and DirScan_CompareRequestedItems pick items in *)
(* tree order, set an item's diffcode (CompareDiffItem) and then walk up   *)
(* its parents, merging the result into each parent's diffcode under       *)
(* m_csCompareThread.                                                      *)
(*                                                                         *)
(* The tree is complete from the start: FolderScan shows that a thread     *)
(* never meets an item the collector has not finished.                     *)
(***************************************************************************)
EXTENDS Integers, Sequences, FiniteSets, FiniteSetsExt

CONSTANTS
    Threads,        \* the compare threads
    NumItems,       \* bound: items in the tree
    Outcomes,       \* what comparing two files may give, a set of CompareFlags
    Filtering,      \* BOOLEAN: may the file filter skip items?
    Requested       \* BOOLEAN: m_bOnlyRequested, a rescan of marked items

\* DIFFCODE::COMPAREFLAGS, in their numeric order.  NOCMP as the outcome of a
\* file compare is the 0 that prepAndCompareTwoFiles returns when a file
\* cannot be opened.
NOCMP == 0
SAME == 1
DIFF == 2
CMPERR == 3
CMPABORT == 4
CompareFlags == NOCMP .. CMPABORT

ASSUME ThreadsAssumption   == Threads # {}
ASSUME NumItemsAssumption  == NumItems \in Nat
ASSUME OutcomesAssumption  == Outcomes \subseteq CompareFlags
ASSUME SwitchesAssumption  == Filtering \in BOOLEAN /\ Requested \in BOOLEAN

VARIABLES
    disk,           \* the two folders: for each item its ancestors,
                    \* whether it is a directory, the sides it was listed on
                    \* and those it is on by the time of a requested rescan,
                    \* and whether the filter skips it; never changes
    code,           \* DIFFITEM::diffcode of each item
    cursor,         \* m_diCompareThread
    pc,             \* where each thread is
    di,             \* the item (then the ancestor) each thread works on
    flag            \* mask and flag of each thread's walk

vars == <<disk, code, cursor, pc, di, flag>>

-----------------------------------------------------------------------------
Items == 1 .. NumItems
Both  == {"left", "right"}

\* A tree gives each item the set of its ancestors.  In pre-order they are
\* an outer part of the chain that leads to the item before it.
Trees ==
    { above \in [Items -> SUBSET Items] :
        \A i \in Items : \E m \in 0 .. i - 1 :
            above[i] = IF i = 1 THEN {} ELSE { k \in above[i - 1] \union {i - 1} : k <= m } }

Parent(i) == IF disk[i].above = {} THEN 0 ELSE Max(disk[i].above)
Descendants(i) == { k \in Items : i \in disk[k].above }

\* Only directories have children; DirScan_GetItems does not walk into a
\* directory the filter skips, and what is below a unique directory is unique.
Nested(side, above) == \A i \in Items : \A a \in above[i] : side[i] \subseteq side[a]

DiskInit ==
    \E above \in Trees :
        LET folders == UNION { above[i] : i \in Items }
            sides   == { side \in [Items -> SUBSET Both] : Nested(side, above) }
        IN  \E dirs \in { d \in SUBSET Items : folders \subseteq d },
               listed \in { side \in sides : {} \notin { side[i] : i \in Items } },
               now \in IF Requested THEN sides ELSE {[i \in Items |-> Both]},
               skipped \in IF Filtering THEN SUBSET (Items \ folders) ELSE {{}} :
               disk = [i \in Items |-> [above |-> above[i], dir |-> i \in dirs, side |-> listed[i],
                                       now |-> now[i], skipped |-> i \in skipped]]

-----------------------------------------------------------------------------
(* diffcode: side, compare result, CONTAINS bits, filter and scan request. *)

Uncompared(i) ==
    [side |-> disk[i].side, cmp |-> NOCMP, contains |-> {}, skipped |-> FALSE, needScan |-> FALSE]

\* mask and flag always name the same bits: the CONTAINS bits to set, and
\* whether the compare result is replaced (cmpBits) and by what.
NoFlag == [contains |-> {}, cmpBits |-> FALSE, cmp |-> NOCMP]
Flag(contains, cmp) == [contains |-> contains, cmpBits |-> TRUE, cmp |-> cmp]

\* Mutant: a unique item marks its parents but does not make them different.
FlagOfUniqueSame(c) ==
    CASE c.side = Both /\ c.cmp = SAME -> Flag({"identical"}, SAME)
      [] c.side \in {{"left"}, {"right"}} /\ c.cmp = NOCMP -> [NoFlag EXCEPT !.contains = c.side]
      [] c.side = Both /\ c.cmp \in {DIFF, CMPERR, CMPABORT} -> Flag({}, c.cmp)
      [] OTHER -> NoFlag

\* The switch over SIDEFLAGS | COMPAREFLAGS.
FlagOf(c) ==
    CASE c.side = Both /\ c.cmp = SAME       -> Flag({"identical"}, SAME)
      [] c.side = {"left"} /\ c.cmp = NOCMP  -> Flag({"left"}, DIFF)
      [] c.side = {"right"} /\ c.cmp = NOCMP -> Flag({"right"}, DIFF)
      [] c.side = Both /\ c.cmp \in {DIFF, CMPERR, CMPABORT} -> Flag({}, c.cmp)
      [] OTHER -> NoFlag

\* Mutant: the CONTAINS bits are dropped with the compare result.
WeakenAll(f, parent) ==
    IF parent.side # Both \/ parent.cmp > f.cmp THEN NoFlag ELSE f

\* Mutant: the more severe result of the parent is not respected.
WeakenUniqueOnly(f, parent) ==
    IF parent.side # Both THEN [f EXCEPT !.cmpBits = FALSE, !.cmp = NOCMP] ELSE f

\* A unique parent, or one with a more severe result, keeps its result, and
\* so do the parents above it.
Weaken(f, parent) ==
    IF parent.side # Both \/ parent.cmp > f.cmp
    THEN [f EXCEPT !.cmpBits = FALSE, !.cmp = NOCMP] ELSE f

\* code & ~mask | flag
Apply(f, c) ==
    [c EXCEPT !.contains = @ \union f.contains, !.cmp = IF f.cmpBits THEN f.cmp ELSE @]

-----------------------------------------------------------------------------
(* What the result of a folder should be, whatever order the threads took. *)

Contribution(c) ==
    IF c.skipped THEN NOCMP
    ELSE IF c.side \in {{"left"}, {"right"}} THEN DIFF
    ELSE IF c.side = Both THEN c.cmp ELSE NOCMP

FolderResult(i) == Max({SAME} \union { Contribution(code[k]) : k \in Descendants(i) })

UniqueBelow(i, side) ==
    \E k \in Descendants(i) : code[k].side = {side} /\ ~code[k].skipped

-----------------------------------------------------------------------------
(* The items before the scan starts.                                       *)

\* MarkSelectedForRescan takes the selected items with all their descendants.
Marked(selected) ==
    { i \in Items : i \in selected \/ \E r \in selected : i \in Descendants(r) }

\* They keep only their type and filter bits.
Mark(c, marked) ==
    [i \in Items |->
        IF i \in marked
        THEN [c[i] EXCEPT !.side = {}, !.cmp = NOCMP, !.contains = {}, !.needScan = TRUE]
        ELSE c[i]]

\* What an earlier full scan left behind, given the results of its files.
Scanned(result) ==
    LET cmp(i) == IF disk[i].side # Both THEN NOCMP
                  ELSE IF ~disk[i].dir THEN IF disk[i].skipped THEN NOCMP ELSE result[i]
                  ELSE Max({SAME} \union
                           { result[k] : k \in { f \in Descendants(i) :
                               ~disk[f].dir /\ ~disk[f].skipped /\ disk[f].side = Both } } \union
                           { DIFF : k \in { u \in Descendants(i) :
                               ~disk[u].skipped /\ disk[u].side # Both } })
        below(i, side) == \E k \in Descendants(i) : ~disk[k].skipped /\ disk[k].side = side
    IN  [i \in Items |->
            [side |-> disk[i].side, cmp |-> cmp(i), skipped |-> disk[i].skipped, needScan |-> FALSE,
             contains |-> { s \in Both : below(i, {s}) }]]

-----------------------------------------------------------------------------
Init ==
    /\ DiskInit
    /\ IF Requested
       THEN \E selected \in (SUBSET Items) \ {{}} :
                /\ \A i \in Items \ Marked(selected) : disk[i].now = disk[i].side
                /\ \E result \in [{ i \in Items : ~disk[i].dir /\ disk[i].side = Both } -> Outcomes] :
                      code = Mark(Scanned(result), Marked(selected))
       ELSE code = [i \in Items |-> Uncompared(i)]
    /\ cursor = 0
    /\ pc = [t \in Threads |-> "pick"]
    /\ di = [t \in Threads |-> 0]
    /\ flag = [t \in Threads |-> NoFlag]

\* Mutant: the end of the walk is not noticed.
PickUnbounded(t) ==
    /\ pc[t] = "pick"
    /\ cursor' = cursor + 1
    /\ di' = [di EXCEPT ![t] = cursor']
    /\ pc' = [pc EXCEPT ![t] = IF Requested THEN "update" ELSE "compare"]
    /\ UNCHANGED <<disk, code, flag>>

\* GetNextDiff inside m_csCompareThread.  A requested rescan passes over the
\* items that are not marked.
Pick(t) ==
    /\ pc[t] = "pick"
    /\ cursor < NumItems
    /\ cursor' = cursor + 1
    /\ IF Requested /\ ~code[cursor'].needScan
       THEN UNCHANGED <<pc, di>>
       ELSE /\ di' = [di EXCEPT ![t] = cursor']
            /\ pc' = [pc EXCEPT ![t] = IF Requested THEN "update" ELSE "compare"]
    /\ UNCHANGED <<disk, code, flag>>

\* UpdateDiffItem inside m_csCompareThread: an item marked for rescan may
\* have vanished from, or appeared on, either side since it was listed.
Update(t) ==
    /\ pc[t] = "update"
    /\ LET side == disk[di[t]].now
       IN  /\ code' = [code EXCEPT ![di[t]].needScan = FALSE, ![di[t]].side = side]
           /\ pc' = [pc EXCEPT ![t] = IF side = {} THEN "classify" ELSE "compare"]
    /\ UNCHANGED <<disk, cursor, di, flag>>

\* Mutant: SAME overwrites what another thread has already merged.
CompareFolderAlwaysSame(t) ==
    /\ pc[t] = "compare" /\ disk[di[t]].dir
    /\ code' = [code EXCEPT
          ![di[t]].skipped = disk[di[t]].skipped,
          ![di[t]].cmp = IF code[di[t]].side = Both THEN SAME ELSE @]
    /\ pc' = [pc EXCEPT ![t] = "classify"]
    /\ UNCHANGED <<disk, cursor, di, flag>>

\* CompareDiffItem for a directory, inside m_csCompareThread.
CompareFolder(t) ==
    /\ pc[t] = "compare" /\ disk[di[t]].dir
    /\ code' = [code EXCEPT
          ![di[t]].skipped = disk[di[t]].skipped,
          ![di[t]].cmp = IF @ = NOCMP /\ code[di[t]].side = Both THEN SAME ELSE @]
    /\ pc' = [pc EXCEPT ![t] = "classify"]
    /\ UNCHANGED <<disk, cursor, di, flag>>

\* CompareDiffItem for a file.
CompareFile(t) ==
    /\ pc[t] = "compare" /\ ~disk[di[t]].dir
    /\ \/ /\ disk[di[t]].skipped
          /\ code' = [code EXCEPT ![di[t]].skipped = TRUE]
       \/ /\ ~disk[di[t]].skipped /\ code[di[t]].side = Both
          /\ \E result \in Outcomes : code' = [code EXCEPT ![di[t]].cmp = result]
       \/ /\ ~disk[di[t]].skipped /\ code[di[t]].side # Both
          /\ UNCHANGED code
    /\ pc' = [pc EXCEPT ![t] = "classify"]
    /\ UNCHANGED <<disk, cursor, di, flag>>

\* The item's diffcode is read without the lock.
Classify(t) ==
    /\ pc[t] = "classify"
    /\ IF code[di[t]].skipped \/ Parent(di[t]) = 0
       THEN pc' = [pc EXCEPT ![t] = "pick"] /\ UNCHANGED flag
       ELSE /\ pc' = [pc EXCEPT ![t] = "walk"]
            /\ flag' = [flag EXCEPT ![t] = FlagOf(code[di[t]])]
    /\ UNCHANGED <<disk, code, cursor, di>>

\* One parent, inside m_csCompareThread; the walk stops at the root and where
\* nothing changed.
Propagate(t) ==
    /\ pc[t] = "walk"
    /\ LET parent == Parent(di[t])
           f      == Weaken(flag[t], code[parent])
           new    == Apply(f, code[parent])
       IN  /\ code' = [code EXCEPT ![parent] = new]
           /\ flag' = [flag EXCEPT ![t] = f]
           /\ di' = [di EXCEPT ![t] = parent]
           /\ pc' = [pc EXCEPT ![t] =
                       IF new = code[parent] \/ Parent(parent) = 0 THEN "pick" ELSE "walk"]
    /\ UNCHANGED <<disk, cursor>>

Thread(t) ==
    \/ Pick(t) \/ Update(t) \/ CompareFolder(t) \/ CompareFile(t)
    \/ Classify(t) \/ Propagate(t)

Next == \E t \in Threads : Thread(t)

Spec == Init /\ [][Next]_vars

-----------------------------------------------------------------------------
(* Properties.                                                             *)

Finished == cursor = NumItems /\ \A t \in Threads : pc[t] = "pick"

TypeOK ==
    /\ code \in [Items -> [side : SUBSET Both, cmp : CompareFlags,
                           contains : SUBSET {"identical", "left", "right"},
                           skipped : BOOLEAN, needScan : BOOLEAN]]
    /\ cursor \in 0 .. NumItems
    /\ pc \in [Threads -> {"pick", "update", "compare", "classify", "walk"}]
    /\ di \in [Threads -> 0 .. NumItems]
    /\ flag \in [Threads -> [contains : SUBSET {"identical", "left", "right"},
                             cmpBits : BOOLEAN, cmp : CompareFlags]]

\* After a full scan a folder on both sides shows the most severe result
\* below it, whichever thread compared what first.
FolderShowsWorstChild ==
    Finished => \A i \in Items :
        disk[i].dir /\ code[i].side = Both => code[i].cmp = FolderResult(i)

\* After a full scan CONTAINSLEFTONLY and CONTAINSRIGHTONLY of a folder say whether a unique item is below.
ContainsUniqueIsExact ==
    Finished => \A i \in Items : \A side \in Both :
        side \in code[i].contains <=> UniqueBelow(i, side)

\* No step makes a folder's result less severe.
SeverityGrows == [][\A i \in Items : disk[i].dir => code'[i].cmp >= code[i].cmp]_vars

\* No folder is left identical with a different item below it.
NoFalseSame ==
    Finished => \A i \in Items :
        disk[i].dir /\ code[i].side = Both /\ code[i].cmp = SAME =>
            \A k \in Descendants(i) : Contribution(code[k]) <= SAME
=============================================================================
