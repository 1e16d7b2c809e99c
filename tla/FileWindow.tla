----------------------------- MODULE FileWindow -----------------------------
(***************************************************************************)
(* A file compare window: two panes with an undo buffer each, one order of *)
(* undoing for both, their files, which other programs change, and the     *)
(* item of the folder window that the window was opened from.              *)
(*                                                                         *)
(* A command of the user makes calls that ask questions, while which files *)
(* may change: calls holds those still to be made, and the user commands   *)
(* nothing else meanwhile.  What is undone at once counts as one entry of  *)
(* an undo buffer, whose texts are a log with a marker (EditHistory).      *)
(***************************************************************************)
EXTENDS Files, Integers, Sequences, Functions

CONSTANTS
    Empty,          \* the text without lines
    NoItem,         \* stands for the item of a closed window
    Budgets         \* bounds: how many edits, changes by other programs,
                    \* switches of settings and paths, and scripts there are
                    \* in a behaviour

ASSUME WindowAssumption ==
    /\ Empty \in Texts
    /\ NoItem \notin Items
    /\ Budgets \subseteq [{"edits", "changes", "switches", "scripts"} -> Nat]

VARIABLES
    shown,          \* the item the window was opened for
    pane,           \* what belongs to each side
    undoTgt,        \* the panes of the entries, in the order of editing
    curUndo,        \* how many of them are not undone
    m_bLimited,     \* m_idContextLines # ID_VIEW_CONTEXT_UNLIMITED
    compared,       \* what the last rescan compared
    refused,        \* history: a rescan was given up or left out since
    calls,          \* the calls to be made before the next command
    save,           \* bSaveSuccess of the calls, and SaveModified's result
    agreed,         \* history: what the user gave up in this command, and
                    \* files changed between the check and the save
    budget          \* what is left of the budget

window == <<shown, pane, undoTgt, curUndo, m_bLimited, compared, refused>>
asking == <<calls, save, agreed>>
windowVars == <<window, asking, budget>>

npos == -1

TextOf(p) == p.log[p.marker]

ContentOf(p) == [text |-> TextOf(p), converted |-> p.converted, whole |-> p.whole /\ ~ p.limited]

(* What differences are found in *)
Lines(content) == <<content.text, content.converted, content.whole>>

PaneLines(p) == <<TextOf(p), p.converted, p.whole>>

Unsaved(p) == PaneLines(p) # Lines(p.loaded)

-----------------------------------------------------------------------------
(* Calls *)

Idle == shown # NoItem /\ calls = <<>>

Calling(op, s) == calls # <<>> /\ Head(calls) = <<op, s>>

NotSaved == [success |-> FALSE, result |-> TRUE]

Calls(cs, saved, given) ==
    /\ calls' = cs
    /\ save' = IF cs = <<>> THEN NotSaved ELSE saved
    /\ agreed' = IF cs = <<>> THEN {} ELSE given

(* The user's command makes these calls. *)
Command(cs) == Idle /\ Calls(cs, NotSaved, {})

(* The next call is done and makes further ones. *)
Return(cs, saved, given) == Calls(cs \o Tail(calls), saved, given)

Spend(kind) == budget[kind] > 0 /\ budget' = [budget EXCEPT ![kind] = @ - 1]

(* Limited context is never rescanned. *)
FlushAndRescan ==
    IF m_bLimited THEN <<>> ELSE <<<<"Rescan", 1>>, <<"Rescan", 2>>, <<"Rescan2", 0>>>>

-----------------------------------------------------------------------------
(* Loading *)

(* What is loaded where there is no file *)
NoFile == [text |-> Empty, converted |-> FALSE, whole |-> TRUE]

\* Mutant: the position of the last save outlives the undo records.
LoadFileKeepingSync(p) ==
    LET content == IF Exists(p.m_strPath) THEN disk[p.m_strPath] ELSE NoFile
    IN  [p EXCEPT !.log = <<content.text>>, !.marker = 1,
                  !.converted = content.converted, !.whole = content.whole,
                  !.limited = FALSE, !.m_bModified = FALSE,
                  !.m_pSaveFileInfo = TRUE, !.m_pRescanFileInfo = TRUE, !.loaded = content]

(* A file that is not there leaves the pane empty and editable. *)
LoadFile(p) ==
    LET found == Exists(p.m_strPath)
        content == IF found THEN disk[p.m_strPath] ELSE NoFile
    IN  [p EXCEPT !.log = <<content.text>>, !.marker = 1,
                  !.converted = content.converted, !.whole = content.whole,
                  !.limited = FALSE,
                  !.m_bModified = FALSE, !.m_nSyncPosition = 0,
                  !.m_bReadOnly = @ /\ found,
                  !.m_pSaveFileInfo = found, !.m_pRescanFileInfo = found,
                  !.loaded = content]

\* Mutant: the shared order is rewound and not emptied.
RewindUndoOrder == undoTgt' = undoTgt /\ curUndo' = 0

ClearUndoOrder == undoTgt' = <<>> /\ curUndo' = 0

\* Mutant: a rescan takes note of the files for the next save, too.
Rescan2KnowingFiles(panes, limited) ==
    /\ compared' = [s \in Sides |-> PaneLines(panes[s])]
    /\ refused' = FALSE
    /\ pane' = [s \in Sides |-> [panes[s] EXCEPT !.limited = limited,
                                                !.m_bEditAfterRescan = FALSE,
                                                !.m_pSaveFileInfo = TRUE,
                                                !.m_pRescanFileInfo = TRUE]]

(* The texts of both panes are compared, not the files; limited context    *)
(* then leaves out lines.                                                  *)
Rescan2(panes, limited) ==
    /\ compared' = [s \in Sides |-> PaneLines(panes[s])]
    /\ refused' = FALSE
    /\ pane' = [s \in Sides |-> [panes[s] EXCEPT !.limited = limited,
                                                !.m_bEditAfterRescan = FALSE,
                                                !.m_pRescanFileInfo = TRUE]]

NewPane(path) ==
    [m_strPath |-> path, log |-> <<>>, marker |-> 0, converted |-> FALSE, whole |-> TRUE, limited |-> FALSE,
     m_bModified |-> FALSE, m_nSyncPosition |-> 0,
     m_bReadOnly |-> FALSE, m_bInitialReadOnly |-> FALSE, m_bEditAfterRescan |-> FALSE,
     m_pSaveFileInfo |-> TRUE, m_pRescanFileInfo |-> TRUE, loaded |-> NoFile]

OpenDocs ==
    /\ shown = NoItem
    /\ \E i \in DOMAIN items \ Folders :
        /\ items[i].sides = Sides /\ SidesOf(disk, i) = Sides
        /\ shown' = i
        /\ Rescan2([s \in Sides |-> LoadFile(NewPane(<<i, s>>))], FALSE)
    /\ ClearUndoOrder
    /\ m_bLimited' = FALSE
    /\ UNCHANGED <<files, asking, budget>>

(* A pane that should have been loaded anew keeps the lines it has. *)
Left(p) == [p EXCEPT !.whole = @ /\ ~ p.limited, !.limited = FALSE]

(* Another number of context lines reloads both files, the second only if  *)
(* the first can be loaded.  Refreshing leaves limited context, too.       *)
SetContextLines(limited) ==
    LET ready == [s \in Sides |->
                    [pane[s] EXCEPT !.m_bReadOnly = limited \/ pane[s].m_bInitialReadOnly]]
        found(s) == Exists(pane[s].m_strPath)
    IN  /\ Command(<<>>)
        /\ \/ \A s \in Sides : ~ pane[s].m_bModified
           \/ m_bLimited /\ ~ limited
        /\ m_bLimited' = limited
        /\ ClearUndoOrder
        /\ IF \A s \in Sides : found(s)
           THEN Rescan2([s \in Sides |-> LoadFile(ready[s])], limited)
           ELSE /\ pane' = [ready EXCEPT ![1] = LoadFile(@),
                                        ![2] = IF found(1) THEN LoadFile(@) ELSE Left(@)]
                /\ refused' = TRUE
                /\ UNCHANGED compared
        /\ IF limited THEN Spend("switches") ELSE UNCHANGED budget
        /\ UNCHANGED <<files, shown>>

-----------------------------------------------------------------------------
(* Editing *)

(* An edit leaves nothing to redo in its pane and in the undo order. *)
Edited(p, text) ==
    [p EXCEPT !.log = Append(SubSeq(@, 1, p.marker), text),
              !.marker = @ + 1,
              !.m_nSyncPosition = IF @ >= p.marker THEN npos ELSE @,
              !.m_bModified = TRUE,
              !.m_bEditAfterRescan = TRUE]

Edit(s) ==
    /\ Command(<<>>)
    /\ Spend("edits")
    /\ ~ pane[s].m_bReadOnly
    /\ \E text \in Texts \ {TextOf(pane[s])} :
        pane' = [pane EXCEPT ![s] = Edited(@, text)]
    /\ undoTgt' = Append(SubSeq(undoTgt, 1, curUndo), s)
    /\ curUndo' = curUndo + 1
    /\ UNCHANGED <<files, shown, m_bLimited, compared, refused>>

\* Mutant: all undone counts as saved.
MovedFromStart(p, marker) == [p EXCEPT !.marker = marker, !.m_bModified = marker # 1]

(* Undo and redo move the marker. *)
Moved(p, marker) ==
    [p EXCEPT !.marker = marker, !.m_bModified = p.m_nSyncPosition # marker - 1]

CanUndo(s) == pane[s].marker > 1
CanRedo(s) == pane[s].marker < Len(pane[s].log)

\* Mutant: no rescan.
OnEditUndoWithoutRescan ==
    /\ Command(<<>>)
    /\ curUndo > 0
    /\ LET s == undoTgt[curUndo]
       IN  /\ ~ pane[s].m_bReadOnly /\ CanUndo(s)
           /\ pane' = [pane EXCEPT ![s] = Moved(@, @.marker - 1)]
    /\ curUndo' = curUndo - 1
    /\ UNCHANGED <<files, shown, undoTgt, m_bLimited, compared, refused, budget>>

OnEditUndo ==
    /\ Command(FlushAndRescan)
    /\ curUndo > 0
    /\ LET s == undoTgt[curUndo]
       IN  /\ ~ pane[s].m_bReadOnly /\ CanUndo(s)
           /\ pane' = [pane EXCEPT ![s] = Moved(@, @.marker - 1)]
    /\ curUndo' = curUndo - 1
    /\ UNCHANGED <<files, shown, undoTgt, m_bLimited, compared, refused, budget>>

OnEditRedo ==
    /\ Command(FlushAndRescan)
    /\ curUndo < Len(undoTgt)
    /\ LET s == undoTgt[curUndo + 1]
       IN  /\ ~ pane[s].m_bReadOnly /\ CanRedo(s)
           /\ pane' = [pane EXCEPT ![s] = Moved(@, @.marker + 1)]
    /\ curUndo' = curUndo + 1
    /\ UNCHANGED <<files, shown, undoTgt, m_bLimited, compared, refused, budget>>

(* Converted line breaks have no entry in the undo buffer. *)
OnConvertEol(s) ==
    /\ Command(FlushAndRescan)
    /\ ~ pane[s].m_bReadOnly /\ ~ pane[s].converted
    /\ pane' = [pane EXCEPT ![s].converted = TRUE, ![s].m_bModified = TRUE]
    /\ Spend("switches")
    /\ UNCHANGED <<files, shown, undoTgt, curUndo, m_bLimited, compared, refused>>

(* The encoding to save in, chosen in the status bar; what becomes of the  *)
(* text is not followed.                                                   *)
SwitchEncoding(s) ==
    /\ Command(<<>>)
    /\ pane' = [pane EXCEPT ![s].m_bModified = TRUE]
    /\ Spend("switches")
    /\ UNCHANGED <<files, shown, undoTgt, curUndo, m_bLimited, compared, refused>>

\* Mutant: limited context does not matter.
OnReadOnlyAnytime(s) ==
    /\ Command(<<>>)
    /\ LET ro == ~ pane[s].m_bReadOnly
           unsaved == pane[s].m_nSyncPosition # pane[s].marker - 1
       IN  pane' = [pane EXCEPT ![s].m_bReadOnly = ro, ![s].m_bInitialReadOnly = ro,
                                ![s].m_bModified = ~ ro /\ unsaved]
    /\ Spend("switches")
    /\ UNCHANGED <<files, shown, undoTgt, curUndo, m_bLimited, compared, refused>>

OnReadOnly(s) ==
    /\ Command(<<>>)
    /\ ~ m_bLimited
    /\ LET ro == ~ pane[s].m_bReadOnly
           unsaved == pane[s].m_nSyncPosition # pane[s].marker - 1
       IN  pane' = [pane EXCEPT ![s].m_bReadOnly = ro, ![s].m_bInitialReadOnly = ro,
                                ![s].m_bModified = ~ ro /\ unsaved]
    /\ Spend("switches")
    /\ UNCHANGED <<files, shown, undoTgt, curUndo, m_bLimited, compared, refused>>

-----------------------------------------------------------------------------
(* Rescan *)

(* Files other than by a save of pane s have changed at these paths. *)
Noticed(panes, changed, s) ==
    [t \in Sides |->
        IF t # s /\ panes[t].m_strPath \in changed
        THEN [panes[t] EXCEPT !.m_pSaveFileInfo = FALSE, !.m_pRescanFileInfo = FALSE]
        ELSE panes[t]]

SavedTo(p, path) ==
    [p EXCEPT !.m_strPath = path, !.whole = ContentOf(p).whole, !.m_bModified = FALSE,
              !.m_nSyncPosition = p.marker - 1,
              !.m_pSaveFileInfo = TRUE, !.m_pRescanFileInfo = TRUE, !.loaded = ContentOf(p)]

(* A pane is written to its file or, where the user is asked, elsewhere. *)
WriteFile(s, path) ==
    /\ Reachable(path)
    /\ disk' = [disk EXCEPT ![path] = ContentOf(pane[s])]
    /\ pane' = Noticed([pane EXCEPT ![s] = SavedTo(@, path)], {path}, s)
    /\ strayed' = strayed \union ItemOf(path)
    /\ IF path = pane[s].m_strPath THEN UNCHANGED budget ELSE Spend("switches")
    /\ UNCHANGED <<items, shown, undoTgt, curUndo, m_bLimited, compared>>

OnRefresh ==
    /\ Command(FlushAndRescan) /\ ~ m_bLimited
    /\ UNCHANGED <<files, window, budget>>

(* The calls after those of a rescan, which is given up for side s *)
AfterRescan(s) == SubSeq(calls, 5 - s, Len(calls))

(* Has the file of this side changed since the last rescan? *)
RescanNothingNew(s) ==
    /\ Calling("Rescan", s)
    /\ \/ Exists(pane[s].m_strPath) /\ pane[s].m_pRescanFileInfo
       \/ ~ Exists(pane[s].m_strPath) /\ pane[s].m_bReadOnly
    /\ Return(<<>>, save, agreed)
    /\ UNCHANGED <<files, window, budget>>

RescanFileGone(s) ==
    /\ Calling("Rescan", s)
    /\ ~ Exists(pane[s].m_strPath) /\ ~ pane[s].m_bReadOnly
    /\ \/ \E path \in {pane[s].m_strPath} \union Elsewhere :
            /\ WriteFile(s, path)
            /\ Return(<<>>, save, agreed \union {<<"disk", path>>})
          /\ UNCHANGED refused
       \/ /\ Calls(AfterRescan(s), save, agreed)
          /\ refused' = TRUE
          /\ UNCHANGED <<files, shown, pane, undoTgt, curUndo, m_bLimited, compared, budget>>

RescanFileChanged(s) ==
    /\ Calling("Rescan", s)
    /\ Exists(pane[s].m_strPath) /\ ~ pane[s].m_pRescanFileInfo
    /\ \/ /\ pane' = [pane EXCEPT ![s] = LoadFile(@)]
          /\ ClearUndoOrder
          /\ Return(<<>>, save, agreed \union {<<"edits", s>>})
       \/ /\ Return(<<>>, save, agreed)
          /\ UNCHANGED <<pane, undoTgt, curUndo>>
    /\ UNCHANGED <<files, shown, m_bLimited, compared, refused, budget>>

RescanCompare ==
    /\ Calling("Rescan2", 0)
    /\ Rescan2(pane, FALSE)
    /\ Return(<<>>, save, agreed)
    /\ UNCHANGED <<files, shown, undoTgt, curUndo, m_bLimited, budget>>

-----------------------------------------------------------------------------
(* Saving *)

IsSaveable(s) == pane[s].m_bModified /\ ~ pane[s].m_bReadOnly

Saves(S) ==
    (IF 1 \in S THEN <<<<"DoSave", 1>>>> ELSE <<>>) \o (IF 2 \in S THEN <<<<"DoSave", 2>>>> ELSE <<>>)

OnFileSave(S) ==
    /\ Command(Saves(S) \o <<<<"AfterSave", 0>>>>)
    /\ S # {} /\ \A s \in S : IsSaveable(s)
    /\ UNCHANGED <<files, window, budget>>

OnFileSaveAs(s) ==
    /\ Command(<<>>)
    /\ \E path \in {pane[s].m_strPath} \union Elsewhere : WriteFile(s, path)
    /\ UNCHANGED refused

(* Has the file changed since it was loaded or saved? *)
DoSave(s) ==
    LET path == pane[s].m_strPath
        changed == Exists(path) /\ ~ pane[s].m_pSaveFileInfo
    IN  /\ Calling("DoSave", s)
        /\ \/ Return(<<<<"SaveToFile", s>>>>, save,
                      agreed \union IF changed THEN {<<"disk", path>>} ELSE {})
           \/ changed /\ Return(<<>>, save, agreed \union {<<"declined", s>>})
        /\ UNCHANGED <<files, window, budget>>

(* The file may be write protected, the backup or the save itself may      *)
(* fail: the user then gives up or chooses another path.                   *)
SaveToFile(s) ==
    /\ Calling("SaveToFile", s)
    /\ \/ \E path \in {pane[s].m_strPath} \union Elsewhere :
            /\ WriteFile(s, path)
            /\ Return(<<>>, [save EXCEPT !.success = TRUE],
                      agreed \union ({<<"disk", path>>} \ {<<"disk", pane[s].m_strPath>>}))
            /\ UNCHANGED refused
       \/ /\ Return(<<>>, [save EXCEPT !.result = FALSE], agreed)
          /\ UNCHANGED <<files, window, budget>>

\* Mutant: the last rescan is taken for current.
AfterSaveWithoutRescan ==
    /\ Calling("AfterSave", 0)
    /\ Return(IF save.success THEN <<<<"UpdateChangedItem", 0>>>> ELSE <<>>, save, agreed)
    /\ UNCHANGED <<files, window, budget>>

AfterSave ==
    /\ Calling("AfterSave", 0)
    /\ LET rescan == IF \E s \in Sides : pane[s].m_bEditAfterRescan THEN FlushAndRescan ELSE <<>>
       IN  Return(IF save.success THEN rescan \o <<<<"UpdateChangedItem", 0>>>> ELSE <<>>, save, agreed)
    /\ UNCHANGED <<files, window, budget>>

(* The pane shows what is in its file. *)
Shows(s) == disk[pane[s].m_strPath] = ContentOf(pane[s])

(* The item, if the window still is about its files, takes the result of   *)
(* the last rescan, which may be older than the text if it was refused or  *)
(* in limited context.                                                     *)
UpdateChangedItem ==
    /\ Calling("UpdateChangedItem", 0)
    /\ LET found == {i \in DOMAIN items : \A s \in Sides : pane[s].m_strPath = <<i, s>>}
           result == IF compared[1] = compared[2] THEN "same" ELSE "diff"
           exact == ~ refused /\ ~ m_bLimited /\ \A s \in Sides : Shows(s)
       IN  /\ items' = [i \in DOMAIN items |->
                          IF i \in found THEN [items[i] EXCEPT !.result = result] ELSE items[i]]
           /\ strayed' = IF exact THEN strayed \ {i \in found : items[i].sides = Sides} ELSE strayed
    /\ Return(<<>>, save, agreed)
    /\ UNCHANGED <<disk, window, budget>>

-----------------------------------------------------------------------------
(* Closing and reloading *)

(* The user chooses which of the modified panes to save before what is to  *)
(* be done then.                                                           *)
SaveModified(then) ==
    LET modified == {s \in Sides : pane[s].m_bModified}
    IN  /\ Idle
        /\ \E S \in SUBSET modified :
            Calls((IF modified = {} THEN <<>> ELSE Saves(S) \o <<<<"AfterSave", 0>>>>) \o then,
                  NotSaved, {<<"edits", s>> : s \in modified \ S})

(* The encoding to load the file in, chosen in the status bar *)
SwitchEncodingReload(s) ==
    /\ SaveModified(<<<<"ReloadDoc", s>>>>)
    /\ Spend("switches")
    /\ UNCHANGED <<files, window>>

\* Mutant: a save given up does not keep the text from being replaced.
ReloadDocAnyway(s) ==
    /\ Calling("ReloadDoc", s)
    /\ pane' = [pane EXCEPT ![s] = LoadFile(@)]
    /\ ClearUndoOrder
    /\ refused' = (refused \/ m_bLimited)
    /\ Return(FlushAndRescan, save, agreed)
    /\ UNCHANGED <<files, shown, m_bLimited, compared, budget>>

ReloadDoc(s) ==
    /\ Calling("ReloadDoc", s)
    /\ IF save.result
       THEN /\ pane' = [pane EXCEPT ![s] = LoadFile(@)]
            /\ ClearUndoOrder
            /\ refused' = (refused \/ m_bLimited)
            /\ Return(FlushAndRescan, save, agreed)
       ELSE /\ UNCHANGED <<pane, undoTgt, curUndo, refused>>
            /\ Return(<<>>, save, agreed)
    /\ UNCHANGED <<files, shown, m_bLimited, compared, budget>>

OnClose ==
    /\ SaveModified(<<<<"Close", 0>>>>)
    /\ UNCHANGED <<files, window, budget>>

Closed == [s \in Sides |-> NewPane(Absent)]

Close ==
    /\ Calling("Close", 0)
    /\ IF save.result
       THEN /\ shown' = NoItem /\ pane' = Closed /\ ClearUndoOrder
            /\ m_bLimited' = FALSE /\ compared' = [s \in Sides |-> <<>>] /\ refused' = FALSE
       ELSE UNCHANGED window
    /\ Return(<<>>, NotSaved, {})
    /\ UNCHANGED <<files, budget>>

-----------------------------------------------------------------------------

WindowInit ==
    /\ shown = NoItem /\ pane = Closed
    /\ undoTgt = <<>> /\ curUndo = 0 /\ m_bLimited = FALSE
    /\ compared = [s \in Sides |-> <<>>] /\ refused = FALSE
    /\ calls = <<>> /\ save = NotSaved /\ agreed = {}
    /\ budget \in Budgets

WindowNext ==
    \/ OpenDocs \/ OnEditUndo \/ OnEditRedo \/ OnRefresh
    \/ RescanCompare \/ AfterSave \/ UpdateChangedItem \/ OnClose \/ Close
    \/ \E limited \in BOOLEAN : SetContextLines(limited)
    \/ \E S \in SUBSET Sides : OnFileSave(S)
    \/ \E s \in Sides :
        \/ Edit(s) \/ OnConvertEol(s) \/ SwitchEncoding(s) \/ OnReadOnly(s)
        \/ RescanNothingNew(s) \/ RescanFileGone(s) \/ RescanFileChanged(s)
        \/ OnFileSaveAs(s) \/ DoSave(s) \/ SaveToFile(s)
        \/ SwitchEncodingReload(s) \/ ReloadDoc(s)
=============================================================================
