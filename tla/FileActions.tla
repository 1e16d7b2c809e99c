---------------------------- MODULE FileActions ----------------------------
(***************************************************************************)
(* The commands of a folder window that copy, delete and move the files of *)
(* the selected rows: a script of actions, one per item, that may fail     *)
(* halfway, and the items' new states when it has not.                     *)
(***************************************************************************)
EXTENDS Files

VARIABLE rows   \* the items that the rows of the list view point to

FileActionsInit == rows = DOMAIN items

(* The items that are copied, deleted or made on disk in this step *)
Affected == {i \in Items : \E s \in Sides : disk'[<<i, s>>] # disk[<<i, s>>]}

(* An action that fails, or that the user stops, leaves all items as they  *)
(* were.                                                                   *)
Failed == strayed' = strayed \union Affected /\ UNCHANGED <<items, rows>>

-----------------------------------------------------------------------------
(* Copying *)

Inside(i, S) == i \in S \/ S \intersect Above[i] # {}

(* A folder is copied with what it contains, over what is there already. *)
Copied(d, S, to) ==
    LET from(i) == <<i, Other(to)>>
    IN  [p \in Paths |->
            IF p \notin Items \X {to} THEN d[p]
            ELSE IF Inside(p[1], S) /\ d[from(p[1])] # Absent THEN d[from(p[1])]
            ELSE IF S \intersect Below(p[1]) # {} THEN Dir
            ELSE d[p]]

(* Destination folders are made while the script is being set up. *)
Made(d, F, to) ==
    [p \in Paths |->
        IF \E i \in F : p \in ({i} \union Above[i]) \X {to} THEN Dir ELSE d[p]]

SynchronizedItem(i) == Item(Sides, IF i \in Folders THEN "nocmp" ELSE "same")

(* The user may choose to skip write protected destinations. *)
DoCopy(selected, to) ==
    LET acts == {i \in selected : Other(to) \in items[i].sides}
        folders == acts \intersect Folders
    IN  /\ acts # {}
        /\ \A i \in acts : Exists(<<i, Other(to)>>)
        /\ \E skipped \in SUBSET {i \in acts \ Folders : Exists(<<i, to>>)} :
            \/ /\ disk' = Copied(Made(disk, folders, to), acts \ skipped, to)
               /\ items' = [i \in DOMAIN items |->
                              IF i \in acts THEN SynchronizedItem(i) ELSE items[i]]
               /\ strayed' = (strayed \ acts) \union (Affected \ acts) \union skipped
               /\ UNCHANGED rows
            \/ /\ \E made \in SUBSET folders, done \in SUBSET (acts \ skipped) :
                    /\ done # {} => made = folders
                    /\ disk' = Copied(Made(disk, made, to), done, to)
               /\ Failed

-----------------------------------------------------------------------------
(* Deleting and moving elsewhere *)

(* A folder goes with what it contains. *)
Removed(d, gone) ==
    [p \in Paths |->
        IF p \in gone \/ (p \in Items \X Sides /\ \E f \in Above[p[1]] : <<f, p[2]>> \in gone)
        THEN Absent ELSE d[p]]

(* An item no side is left of is freed with those below it.  The rows that *)
(* point to them are found one by one.                                     *)
RemoveDiff(gone) == gone \union UNION {Below(i) : i \in gone}

\* Mutant: the rows below stay.
DetachRowOnly(gone) == gone

DetachItem(gone) == {i \in rows : i \in gone \/ gone \intersect Above[i] # {}}

(* The script deletes items on these sides. *)
Delete(sides) ==
    LET acts == DOMAIN sides
        paths == UNION {{i} \X sides[i] : i \in acts}
        gone == {i \in acts : items[i].sides \subseteq sides[i]}
    IN  /\ acts # {}
        /\ \A p \in paths : Exists(p)
        /\ \/ /\ disk' = Removed(disk, paths)
              /\ items' = [i \in DOMAIN items \ RemoveDiff(gone) |->
                             IF i \in acts THEN Item(items[i].sides \ sides[i], "nocmp") ELSE items[i]]
              /\ rows' = rows \ DetachItem(gone)
              /\ strayed' = strayed \union (Affected \ acts)
           \/ /\ \E done \in SUBSET {p \in Paths : Removed(disk, paths)[p] # disk[p]} :
                    disk' = Removed(disk, done)
              /\ Failed

(* Also: move to a folder elsewhere *)
DoDel(selected, s) == Delete([i \in {i \in selected : s \in items[i].sides} |-> {s}])

DoDelBoth(selected) == Delete([i \in {i \in selected : items[i].sides = Sides} |-> Sides])

DoDelAll(selected) == Delete([i \in selected |-> items[i].sides])

-----------------------------------------------------------------------------

FileActionsNext ==
    \E selected \in SUBSET rows :
        \/ \E s \in Sides : DoCopy(selected, s) \/ DoDel(selected, s)
        \/ DoDelBoth(selected)
        \/ DoDelAll(selected)
=============================================================================
