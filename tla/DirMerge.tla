------------------------------ MODULE DirMerge ------------------------------
(***************************************************************************)
(* How DirScan_GetItems pairs the contents of two folders.  Both listings  *)
(* are sorted by the collating functions of the filter and merged with the  *)
(* same functions, folders before files, and each folder is descended into *)
(* right after its item was added.                                         *)
(*                                                                         *)
(* A name is a number and its key is what the collating function compares; *)
(* prefilters can give several names of one folder the same key, and then  *)
(* size and time, here the number, decide their order.  A side of the disk *)
(* is a set of entries, each with the path of names that leads to it.      *)
(***************************************************************************)
EXTENDS Naturals, Sequences, SequencesExt, FiniteSets, FiniteSetsExt

CONSTANTS
    Names,
    MaxDepth        \* bound: levels of folders below the root

NoName == 0

Subfolders == UNION {[1 .. n -> Names] : n \in 0 .. MaxDepth}

(* An entry of a side: a file or folder at a path below the root *)
Entry(path, dir) == [path |-> path, dir |-> dir]

(* What a scan is given: the two sides, the key of each name, how many     *)
(* levels it descends, -1 for all, whether it descends into unique folders *)
(* and the names of the folders that the filter does not include.          *)
Scan(left, right, Key, depth, m_bWalkUniques, hidden) ==
    [left |-> left, right |-> right, key |-> Key, depth |-> depth,
     m_bWalkUniques |-> m_bWalkUniques, hidden |-> hidden]

CollatesBefore(scan, a, b) == scan.key[a] < scan.key[b]

Contents(side, sub, dir) ==
    {Last(e.path) : e \in {e \in side : e.dir = dir /\ Front(e.path) = sub}}

\* Mutant: sorted by name where the merge goes by the keys of the prefilters.
LoadAndSortByName(scan, side, sub, dir) ==
    SetToSortSeq(Contents(side, sub, dir), LAMBDA a, b : a < b)

LoadAndSortFiles(scan, side, sub, dir) ==
    LET Before(a, b) == \/ CollatesBefore(scan, a, b)
                        \/ scan.key[a] = scan.key[b] /\ a < b
    IN  SetToSortSeq(Contents(side, sub, dir), Before)

Pair(left, right) == [left |-> left, right |-> right]

(* Each name with its equal on the other side, if the cursors meet there.  *)
Merge(scan, left, right) ==
    LET merge[i \in 1 .. Len(left) + 1, j \in 1 .. Len(right) + 1] ==
            LET atLeft == i <= Len(left)
                atRight == j <= Len(right)
            IN  IF atLeft /\ (atRight => CollatesBefore(scan, left[i], right[j]))
                THEN <<Pair(left[i], NoName)>> \o merge[i + 1, j]
                ELSE IF atRight /\ (atLeft => CollatesBefore(scan, right[j], left[i]))
                THEN <<Pair(NoName, right[j])>> \o merge[i, j + 1]
                ELSE IF atLeft THEN <<Pair(left[i], right[j])>> \o merge[i + 1, j + 1]
                ELSE <<>>
    IN  merge[1, 1]

\* Mutant: files on the right side do not matter.
TreatDirAsEqualIfNoLeftFiles(scan, leftDirs, rightDirs, leftFiles, rightFiles) ==
    /\ Len(leftDirs) = 1 /\ Len(rightDirs) = 1
    /\ leftFiles = <<>>
    /\ rightDirs[1] \notin scan.hidden

(* One folder on each side and no files.  The filter is asked with the     *)
(* left folder in place of the path, so that only the right one is tested. *)
TreatDirAsEqual(scan, leftDirs, rightDirs, leftFiles, rightFiles) ==
    /\ Len(leftDirs) = 1 /\ Len(rightDirs) = 1
    /\ leftFiles = <<>> /\ rightFiles = <<>>
    /\ rightDirs[1] \notin scan.hidden

SidesOf(p) == (IF p.left = NoName THEN {} ELSE {"left"})
                \union (IF p.right = NoName THEN {} ELSE {"right"})

(* A missing side takes the name of the other. *)
AddToList(leftsub, rightsub, p, dir, skipped) ==
    [left |-> Append(leftsub, IF p.left = NoName THEN p.right ELSE p.left),
     right |-> Append(rightsub, IF p.right = NoName THEN p.left ELSE p.right),
     sides |-> SidesOf(p), dir |-> dir, skipped |-> skipped]

\* Mutant: unique folders are never walked.
DescendsIntoBoth(scan, level, p) == scan.depth # level /\ Cardinality(SidesOf(p)) = 2

Descends(scan, level, p) ==
    scan.depth # level /\ (scan.m_bWalkUniques \/ Cardinality(SidesOf(p)) = 2)

includeDir(scan, p) == {p.left, p.right} \intersect scan.hidden = {}

DirScan_GetItems(scan) ==
    LET get[leftsub \in Subfolders, rightsub \in Subfolders,
            sides \in SUBSET {"left", "right"}] ==
            LET Load(side, sub, dir) ==
                    IF side = "left" /\ side \in sides
                    THEN LoadAndSortFiles(scan, scan.left, sub, dir)
                    ELSE IF side \in sides
                    THEN LoadAndSortFiles(scan, scan.right, sub, dir)
                    ELSE <<>>
                leftDirs == Load("left", leftsub, TRUE)
                rightDirs == Load("right", rightsub, TRUE)
                leftFiles == Load("left", leftsub, FALSE)
                rightFiles == Load("right", rightsub, FALSE)
                dirs == IF TreatDirAsEqual(scan, leftDirs, rightDirs, leftFiles, rightFiles)
                        THEN <<Pair(leftDirs[1], rightDirs[1])>>
                        ELSE Merge(scan, leftDirs, rightDirs)
                files == Merge(scan, leftFiles, rightFiles)
                DirItems(p) ==
                    LET descends == Descends(scan, Len(leftsub), p)
                        di == AddToList(leftsub, rightsub, p, TRUE,
                                        descends /\ ~ includeDir(scan, p))
                    IN  <<di>> \o IF descends /\ ~ di.skipped
                                  THEN get[di.left, di.right, di.sides] ELSE <<>>
            IN  FlattenSeq([k \in DOMAIN dirs |-> DirItems(dirs[k])])
                    \o [k \in DOMAIN files |->
                            AddToList(leftsub, rightsub, files[k], FALSE, FALSE)]
    IN  get[<<>>, <<>>, {"left", "right"}]

-----------------------------------------------------------------------------
(* References *)

(* The names of two folders joined by key; names of one key pair up in     *)
(* order.                                                                  *)
Join(scan, left, right) ==
    LET Rank(S, a) == Cardinality({b \in S : scan.key[b] = scan.key[a] /\ b <= a})
        Match(a, b) == scan.key[a] = scan.key[b] /\ Rank(left, a) = Rank(right, b)
    IN  {Pair(a, b) : <<a, b>> \in {m \in left \X right : Match(m[1], m[2])}}
            \union {Pair(a, NoName) : a \in {a \in left : \A b \in right : ~ Match(a, b)}}
            \union {Pair(NoName, b) : b \in {b \in right : \A a \in left : ~ Match(a, b)}}

(* The files at the root pair up by name, whatever order they came in, and *)
(* are listed in the order of their keys.                                  *)
FilesAreJoined(scan, items) ==
    LET files == SelectSeq(items, LAMBDA di : ~ di.dir /\ Len(di.left) = 1)
        NameOf(di) == IF "left" \in di.sides THEN di.left[1] ELSE di.right[1]
        PairOf(di) == Pair(IF "left" \in di.sides THEN di.left[1] ELSE NoName,
                           IF "right" \in di.sides THEN di.right[1] ELSE NoName)
    IN  /\ {PairOf(files[k]) : k \in DOMAIN files}
            = Join(scan, Contents(scan.left, <<>>, FALSE), Contents(scan.right, <<>>, FALSE))
        /\ \A k \in 2 .. Len(files) :
                scan.key[NameOf(files[k - 1])] <= scan.key[NameOf(files[k])]

ItemsOf(items, side, e) ==
    {k \in DOMAIN items : /\ side \in items[k].sides
                          /\ items[k].dir = e.dir
                          /\ e.path = IF side = "left" THEN items[k].left ELSE items[k].right}

(* A folder the scan stays out of: beyond its depth, unique, or hidden by  *)
(* its own name or by that of the folder it was paired with.               *)
StaysOut(scan, di) ==
    \/ Len(di.left) - 1 = scan.depth
    \/ ~ scan.m_bWalkUniques /\ Cardinality(di.sides) = 1
    \/ di.skipped

(* No entry is listed twice; an entry is listed unless it is below a       *)
(* folder the scan stays out of.                                           *)
EntriesListedOnce(scan, items) ==
    \A side \in {"left", "right"} :
        \A e \in IF side = "left" THEN scan.left ELSE scan.right :
            LET parents == ItemsOf(items, side, Entry(Front(e.path), TRUE))
                reached == Len(e.path) = 1
                            \/ \E k \in parents : ~ StaysOut(scan, items[k])
            IN  Cardinality(ItemsOf(items, side, e)) = IF reached THEN 1 ELSE 0

Swapped(side) == IF side = "left" THEN "right" ELSE "left"

SwapItem(di) ==
    [di EXCEPT !.left = di.right, !.right = di.left,
               !.sides = {Swapped(side) : side \in di.sides}]

(* The same scan with the sides exchanged *)
SwapScan(scan) == [scan EXCEPT !.left = scan.right, !.right = scan.left]
=============================================================================
