------------------------------ MODULE Desktop ------------------------------
(***************************************************************************)
(* A folder window and a file window opened from one of its items, their   *)
(* files, and other programs that change the files at any time.  Both      *)
(* windows run in one thread: while a command of one asks a question, the  *)
(* other does nothing.                                                     *)
(***************************************************************************)
EXTENDS FileWindow, FileActions

vars == <<files, windowVars, rows>>

Init == FilesInit /\ WindowInit /\ FileActionsInit

(* The file window sees later that a script changed its files. *)
RunScript ==
    /\ calls = <<>>
    /\ Spend("scripts")
    /\ FileActionsNext
    /\ pane' = Noticed(pane, {p \in Paths : disk'[p] # disk[p]}, 0)
    /\ UNCHANGED <<shown, undoTgt, curUndo, m_bLimited, compared, refused, asking>>

(* A pane that is about to be written has already been checked. *)
OtherProgram ==
    \E p \in (Items \ Folders) \X Sides :
        /\ Spend("changes")
        /\ ChangeFile(p)
        /\ pane' = Noticed(pane, {p}, 0)
        /\ agreed' = agreed \union
               {<<"late", p>> : s \in {t \in Sides : Calling("SaveToFile", t) /\ pane[t].m_strPath = p}}
        /\ UNCHANGED <<shown, undoTgt, curUndo, m_bLimited, compared, refused, calls, save, rows>>

Next ==
    \/ WindowNext /\ UNCHANGED rows
    \/ RunScript
    \/ OtherProgram

Spec == Init /\ [][Next]_vars

-----------------------------------------------------------------------------
(* Properties *)

(* The files, the items, the panes and the calls are of their types. *)
TypeOK ==
    /\ FilesTypeOK
    /\ shown \in Items \union {NoItem}
    /\ shown # NoItem => \A s \in Sides :
        /\ pane[s].m_strPath \in Paths
        /\ pane[s].log \in Seq(Texts) /\ pane[s].marker \in DOMAIN pane[s].log
        /\ ContentOf(pane[s]) \in Contents /\ pane[s].loaded \in Contents
        /\ pane[s].m_nSyncPosition \in {npos} \union (0 .. Len(pane[s].log) - 1)
    /\ undoTgt \in Seq(Sides) /\ curUndo \in 0 .. Len(undoTgt)
    /\ calls \in Seq({"Rescan", "Rescan2", "DoSave", "SaveToFile", "AfterSave",
                       "UpdateChangedItem", "ReloadDoc", "Close"} \X (0 .. 2))
    /\ save \in [success : BOOLEAN, result : BOOLEAN]

(* The window is open and its command has been carried out. *)
Settled == shown # NoItem /\ calls = <<>>

(* A save overwrites only what its pane loaded or saved last, except where *)
(* the user agreed to more, or where the file changed after the question.  *)
NoSilentOverwrite ==
    [][\A s \in Sides : Calling("SaveToFile", s) /\ calls' # calls =>
        \A p \in Paths : disk'[p] # disk[p] =>
            \/ disk[p] \in {Absent, pane[s].loaded}
            \/ {<<"disk", p>>, <<"late", p>>} \intersect agreed' # {}]_vars

(* What is neither undone nor saved stays in the pane, where it can be     *)
(* undone to, until the user gives it up.  A pane that is made read-only   *)
(* counts as unmodified and is not asked about.  Not overwriting a file    *)
(* that has changed gives up the text of a window that is to close.  Only  *)
(* a pane that limited context could not load may be edited there, and is  *)
(* not asked about when limited context ends.                              *)
TextIsKept ==
    [][\A s \in Sides :
        shown # NoItem /\ TextOf(pane[s]) # pane[s].loaded.text =>
            \/ TextOf(pane[s]) \in Range(pane'[s].log)
            \/ {<<"edits", s>>, <<"declined", s>>} \intersect (agreed \union agreed') # {}
            \/ pane[s].m_bReadOnly
            \/ m_bLimited]_vars

(* How many entries of a pane are at these places of the shared order *)
EntriesOf(s, first, last) == Cardinality({j \in first .. last : undoTgt[j] = s})

(* The entries of the shared order that are of a pane are in its undo      *)
(* buffer, on the same side of what is undone, so that an undo or redo     *)
(* always finds one.                                                       *)
UndoOrderFitsPanes ==
    shown # NoItem => \A s \in Sides :
        /\ EntriesOf(s, 1, curUndo) <= pane[s].marker - 1
        /\ EntriesOf(s, curUndo + 1, Len(undoTgt)) <= Len(pane[s].log) - pane[s].marker

(* Without edits since the last rescan, the differences are those of the   *)
(* texts in the panes.                                                     *)
ComparedIsCurrent ==
    /\ Settled /\ ~ refused
    /\ \A s \in Sides : ~ pane[s].m_bEditAfterRescan /\ ~ pane[s].limited
    =>
        compared = [s \in Sides |-> PaneLines(pane[s])]

(* A pane not marked as modified shows its file, as long as no one else    *)
(* changes it, but for one made read-only, for line breaks that were       *)
(* converted before all edits were undone, and for a pane that keeps the   *)
(* lines of limited context when the other cannot be loaded.               *)
UnmodifiedShowsFile ==
    shown # NoItem => \A s \in Sides :
        LET p == pane[s]
        IN  Exists(p.m_strPath) /\ p.m_pSaveFileInfo /\ ~ p.m_bModified =>
            \/ Lines(disk[p.m_strPath]) = PaneLines(p)
            \/ p.m_bReadOnly
            \/ /\ p.converted \/ ~ p.whole
               /\ p.m_nSyncPosition = p.marker - 1 /\ p.loaded.text = TextOf(p)

(* A text that misses the lines outside of limited context cannot be       *)
(* edited.                                                                 *)
LimitedIsReadOnly ==
    shown # NoItem => \A s \in Sides :
        pane[s].limited => m_bLimited /\ pane[s].m_bReadOnly

(* Items tell the sides and the equality of their files. *)
ItemsTellFiles == \A i \in DOMAIN items \ strayed : Tells(i)

(* Rows point to items that are still there. *)
RowsHaveItems == rows \subseteq DOMAIN items
=============================================================================
