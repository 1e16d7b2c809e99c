------------------------------- MODULE Files -------------------------------
(***************************************************************************)
(* What a folder window and the file windows opened from it share: the     *)
(* files and folders on disk, which other programs change as well, and the *)
(* items of the folder window, which tell what the last look at them saw.  *)
(***************************************************************************)
EXTENDS Naturals, FiniteSets

CONSTANTS
    Items,      \* the files and folders the compared folders may contain
    Folders,    \* those that are folders
    Above,      \* the folders an item lies in
    Elsewhere,  \* paths outside of the compared folders
    Texts,      \* what a file may hold
    Absent,     \* there is nothing at the path
    Dir         \* there is a folder at the path

Sides == {1, 2}
Other(s) == 3 - s

(* Line breaks are those of the file or converted to one style.  A file    *)
(* that is not whole was written without the lines that limited context    *)
(* leaves out.                                                             *)
Contents == [text : Texts, converted : BOOLEAN, whole : BOOLEAN]

ASSUME FilesAssumption ==
    /\ Folders \subseteq Items
    /\ Above \in [Items -> SUBSET Folders]
    /\ \A i \in Items : i \notin Above[i] /\ \A f \in Above[i] : Above[f] \subseteq Above[i]
    /\ Elsewhere \intersect (Items \X Sides) = {}
    /\ Absent # Dir /\ {Absent, Dir} \intersect Contents = {}

VARIABLES
    disk,       \* what is at each path
    items,      \* the items of the folder window, each with its sides and result
    strayed     \* history: the items whose files changed without their knowledge

files == <<disk, items, strayed>>

Paths == (Items \X Sides) \union Elsewhere

Below(i) == {j \in Items : i \in Above[j]}

Exists(p) == disk[p] # Absent

SidesOf(d, i) == {s \in Sides : d[<<i, s>>] # Absent}

(* The folders that a path lies in are there. *)
Reachable(p) == p \in Items \X Sides => \A f \in Above[p[1]] : Exists(<<f, p[2]>>)

Item(sides, result) == [sides |-> sides, result |-> result]

ItemOf(p) == IF p \in Items \X Sides THEN {p[1]} ELSE {}

(* The items as a finished compare leaves them; the results of folders are *)
(* those of FolderResults and are not followed here.                       *)
Compared(d, i) ==
    Item(SidesOf(d, i),
         IF i \in Folders \/ SidesOf(d, i) # Sides THEN "nocmp"
         ELSE IF d[<<i, 1>>] = d[<<i, 2>>] THEN "same" ELSE "diff")

FilesInit ==
    /\ disk \in [Paths -> {Absent, Dir} \union [text : Texts, converted : {FALSE}, whole : {TRUE}]]
    /\ \A p \in Paths :
        /\ disk[p] = Dir => p \in Folders \X Sides
        /\ Exists(p) => Reachable(p) /\ (p \in Folders \X Sides => disk[p] = Dir)
        /\ p \in Elsewhere => ~ Exists(p)
    /\ items = [i \in {i \in Items : SidesOf(disk, i) # {}} |-> Compared(disk, i)]
    /\ strayed = {}

(* Another program changes, makes or removes a file. *)
ChangeFile(p) ==
    /\ p \in (Items \ Folders) \X Sides /\ Reachable(p)
    /\ \E new \in {Absent} \union [text : Texts, converted : {FALSE}, whole : {TRUE}] :
        /\ new # disk[p]
        /\ disk' = [disk EXCEPT ![p] = new]
    /\ strayed' = strayed \union ItemOf(p)
    /\ UNCHANGED items

FilesTypeOK ==
    /\ disk \in [Paths -> {Absent, Dir} \union Contents]
    /\ DOMAIN items \subseteq Items
    /\ \A i \in DOMAIN items :
        /\ items[i].sides \in (SUBSET Sides) \ {{}}
        /\ items[i].result \in {"nocmp", "same", "diff"}
    /\ strayed \subseteq Items

(* An item not known to have strayed tells what is on disk. *)
Tells(i) ==
    /\ items[i].sides = SidesOf(disk, i)
    /\ items[i].result = "same" => disk[<<i, 1>>] = disk[<<i, 2>>]
    /\ items[i].result = "diff" => disk[<<i, 1>>] # disk[<<i, 2>>]
=============================================================================
