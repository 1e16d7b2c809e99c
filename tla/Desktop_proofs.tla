--------------------------- MODULE Desktop_proofs ---------------------------
(***************************************************************************)
(* Proofs about Desktop, for any folders, files and texts, and however     *)
(* often the user and other programs act.  The first part is about what is  *)
(* never lost or overwritten.  The second part: the order in which the      *)
(* edits of both panes are undone fits their undo buffers, the differences  *)
(* of a file window are those of its texts, and the items of the folder     *)
(* window tell what is on disk.                                            *)
(***************************************************************************)
EXTENDS Desktop, SequenceTheorems, FiniteSetTheorems, TLAPS

(* The paths a pane may be about *)
FilePaths == ((Items \ Folders) \X Sides) \union Elsewhere

(* Folders are where folders may be. *)
FilesInv ==
    /\ FilesTypeOK
    /\ \A i \in DOMAIN items : items[i] = Item(items[i].sides, items[i].result)
    /\ \A p \in Paths : disk[p] = Dir => p \in Folders \X Sides

PaneFields ==
    {"m_strPath", "log", "marker", "converted", "whole", "limited", "m_bModified",
     "m_nSyncPosition", "m_bReadOnly", "m_bInitialReadOnly", "m_bEditAfterRescan",
     "m_pSaveFileInfo", "m_pRescanFileInfo", "loaded"}

IsPane(p) ==
    /\ DOMAIN p = PaneFields
    /\ p.m_strPath \in FilePaths /\ p.log \in Seq(Texts) /\ p.marker \in Nat
    /\ p.converted \in BOOLEAN /\ p.whole \in BOOLEAN /\ p.limited \in BOOLEAN
    /\ p.m_bModified \in BOOLEAN /\ p.m_nSyncPosition \in Int
    /\ p.m_bReadOnly \in BOOLEAN /\ p.m_bInitialReadOnly \in BOOLEAN
    /\ p.m_bEditAfterRescan \in BOOLEAN
    /\ p.m_pSaveFileInfo \in BOOLEAN /\ p.m_pRescanFileInfo \in BOOLEAN
    /\ p.loaded \in Contents

(* The text last loaded or saved is where the sync position says; a pane   *)
(* that is neither marked as modified nor made read-only by the user is    *)
(* there.  A file that nobody else changed is what the pane remembers.     *)
PaneInv(p, d, limited) ==
    /\ IsPane(p)
    /\ p.marker \in 1 .. Len(p.log)
    /\ p.m_nSyncPosition \in {npos} \union (0 .. Len(p.log) - 1)
    /\ p.m_nSyncPosition # npos => p.log[p.m_nSyncPosition + 1] = p.loaded.text
    /\ ~ p.m_bModified /\ ~ (p.m_bReadOnly /\ p.m_bInitialReadOnly) =>
          p.m_nSyncPosition = p.marker - 1
    /\ p.m_bReadOnly /\ ~ limited => p.m_bInitialReadOnly
    /\ p.m_pSaveFileInfo /\ d[p.m_strPath] # Absent => d[p.m_strPath] = p.loaded
    /\ p.limited => limited /\ p.m_bReadOnly
    /\ (p.loaded.converted => p.converted) /\ (p.whole => p.loaded.whole)

PanesInv ==
    /\ pane = [s \in Sides |-> pane[s]]
    /\ \A s \in Sides : PaneInv(pane[s], disk, m_bLimited)

Call == {"Rescan", "Rescan2", "DoSave", "SaveToFile", "AfterSave",
         "UpdateChangedItem", "ReloadDoc", "Close"} \X (0 .. 2)

(* Saving comes first, what closes or reloads last, and what may need the  *)
(* user's answers later never is the last call.                            *)
CallsInv(cs) ==
    /\ cs \in Seq(Call)
    /\ \A i \in 1 .. Len(cs) :
        /\ cs[i][1] \in {"DoSave", "SaveToFile", "Rescan"} => i < Len(cs)
        /\ cs[i][1] = "SaveToFile" => i = 1
        /\ cs[i][1] \in {"ReloadDoc", "Close"} => i = Len(cs)
        /\ cs[i][1] = "DoSave" =>
              \A j \in 1 .. i - 1 : cs[j][1] \in {"DoSave", "SaveToFile"}

(* A pane about to be written was found unchanged or the user agreed. *)
SaveInv ==
    \A s \in Sides : Calling("SaveToFile", s) =>
        LET path == pane[s].m_strPath
        IN  \/ disk[path] \in {Absent, pane[s].loaded}
            \/ {<<"disk", path>>, <<"late", path>>} \intersect agreed # {}

(* What is modified when a file is reloaded or the window closed is still  *)
(* to be saved, or the user gave it up.                                    *)
PendingInv ==
    shown # NoItem /\ calls # <<>> /\ calls[Len(calls)][1] \in {"ReloadDoc", "Close"} /\ save.result =>
        \A s \in Sides : pane[s].m_bModified =>
            \/ \E i \in 1 .. Len(calls) : calls[i] \in {<<"DoSave", s>>, <<"SaveToFile", s>>}
            \/ {<<"edits", s>>, <<"declined", s>>} \intersect agreed # {}

WindowInv ==
    /\ shown \in Items \union {NoItem}
    /\ shown # NoItem => PanesInv
    /\ m_bLimited \in BOOLEAN
    /\ undoTgt \in Seq(Sides) /\ curUndo \in 0 .. Len(undoTgt)
    /\ CallsInv(calls) /\ (calls # <<>> => shown # NoItem)
    /\ save \in [success : BOOLEAN, result : BOOLEAN]

IInv == FilesInv /\ RowsHaveItems /\ WindowInv /\ SaveInv /\ PendingInv

-----------------------------------------------------------------------------
(* Panes *)

(* What is at the path of a pane is not a folder.                          *)
LEMMA FileIsContent ==
    ASSUME FilesInv, NEW path \in FilePaths, Exists(path)
    PROVE  disk[path] \in Contents
<1>1. path \in Paths /\ path \notin Folders \X Sides
  BY FilesAssumption DEF FilePaths, Paths
<1> QED BY <1>1 DEF FilesInv, FilesTypeOK, Exists

(* What LoadFile makes of a pane *)
LEMMA LoadFileFields ==
    ASSUME FilesInv, NEW p, IsPane(p)
    PROVE  LET q == LoadFile(p)
           IN  /\ IsPane(q)
               /\ q.m_strPath = p.m_strPath
               /\ Len(q.log) = 1 /\ q.log[1] = q.loaded.text /\ q.marker = 1
               /\ ~ q.limited /\ ~ q.m_bModified /\ q.m_nSyncPosition = 0
               /\ q.m_bReadOnly <=> p.m_bReadOnly /\ Exists(p.m_strPath)
               /\ q.m_bInitialReadOnly = p.m_bInitialReadOnly
               /\ q.m_pSaveFileInfo <=> Exists(p.m_strPath)
               /\ q.converted = q.loaded.converted /\ q.whole = q.loaded.whole
               /\ Exists(p.m_strPath) => q.loaded = disk[p.m_strPath]
<1> DEFINE content == IF Exists(p.m_strPath) THEN disk[p.m_strPath] ELSE NoFile
           a == [p EXCEPT !.log = <<content.text>>, !.marker = 1,
                          !.converted = content.converted, !.whole = content.whole,
                          !.limited = FALSE]
<1>0. p.m_bReadOnly \in BOOLEAN /\ p.m_strPath \in FilePaths
  BY DEF IsPane
<1>1. content \in Contents
  BY <1>0, FileIsContent, WindowAssumption DEF Contents, NoFile
<1>2. Exists(p.m_strPath) => content = disk[p.m_strPath]
  OBVIOUS
<1>3. a.m_bReadOnly = p.m_bReadOnly
  BY DEF IsPane, PaneFields
<1> HIDE DEF content
<1>4. /\ content.text \in Texts /\ content.converted \in BOOLEAN /\ content.whole \in BOOLEAN
      /\ <<content.text>> \in Seq(Texts)
  <2>1. content.text \in Texts /\ content.converted \in BOOLEAN /\ content.whole \in BOOLEAN
    BY <1>1 DEF Contents
  <2>2. <<content.text>> \in Seq(Texts)
    BY <2>1
  <2> QED BY <2>1, <2>2
<1>5. IsPane(a)
  BY <1>4 DEF IsPane, PaneFields
<1>6. /\ a.m_strPath = p.m_strPath /\ Len(a.log) = 1 /\ a.log[1] = content.text
      /\ a.marker = 1 /\ ~ a.limited /\ a.m_bInitialReadOnly = p.m_bInitialReadOnly
      /\ a.converted = content.converted /\ a.whole = content.whole
  BY DEF IsPane, PaneFields
<1> HIDE DEF a
<1>7. CASE Exists(p.m_strPath)
  <2> DEFINE q == [a EXCEPT !.m_bModified = FALSE, !.m_nSyncPosition = 0,
                            !.m_bReadOnly = p.m_bReadOnly,
                            !.m_pSaveFileInfo = TRUE, !.m_pRescanFileInfo = TRUE,
                            !.loaded = content]
  <2>1. LoadFile(p) = q
    BY <1>0, <1>3, <1>7 DEF LoadFile, a, content
  <2>2. IsPane(q)
    BY <1>0, <1>1, <1>5 DEF IsPane, PaneFields
  <2>3. /\ q.m_strPath = a.m_strPath /\ q.log = a.log /\ q.marker = a.marker
        /\ q.limited = a.limited /\ ~ q.m_bModified /\ q.m_nSyncPosition = 0
        /\ q.converted = a.converted /\ q.whole = a.whole
        /\ q.m_bReadOnly <=> p.m_bReadOnly
        /\ q.m_bInitialReadOnly = a.m_bInitialReadOnly
        /\ q.m_pSaveFileInfo
        /\ q.loaded = content
    BY <1>5 DEF IsPane, PaneFields
  <2> HIDE DEF q
  <2> QED BY <1>2, <1>6, <1>7, <2>1, <2>2, <2>3
<1>8. CASE ~ Exists(p.m_strPath)
  <2> DEFINE q == [a EXCEPT !.m_bModified = FALSE, !.m_nSyncPosition = 0,
                            !.m_bReadOnly = FALSE,
                            !.m_pSaveFileInfo = FALSE, !.m_pRescanFileInfo = FALSE,
                            !.loaded = content]
  <2>1. LoadFile(p) = q
    BY <1>0, <1>3, <1>8 DEF LoadFile, a, content, Exists
  <2>2. IsPane(q)
    BY <1>0, <1>1, <1>5 DEF IsPane, PaneFields
  <2>3. /\ q.m_strPath = a.m_strPath /\ q.log = a.log /\ q.marker = a.marker
        /\ q.limited = a.limited /\ ~ q.m_bModified /\ q.m_nSyncPosition = 0
        /\ q.converted = a.converted /\ q.whole = a.whole
        /\ ~ q.m_bReadOnly
        /\ q.m_bInitialReadOnly = a.m_bInitialReadOnly
        /\ ~ q.m_pSaveFileInfo
        /\ q.loaded = content
    BY <1>5 DEF IsPane, PaneFields
  <2> HIDE DEF q
  <2> QED BY <1>2, <1>6, <1>8, <2>1, <2>2, <2>3
<1> QED BY <1>7, <1>8

(* A pane loaded anew is as the invariant says.                            *)
LEMMA LoadFileKeeps ==
    ASSUME FilesInv, NEW p, IsPane(p), NEW limited \in BOOLEAN,
           p.m_bReadOnly /\ ~ limited => p.m_bInitialReadOnly
    PROVE  PaneInv(LoadFile(p), disk, limited)
BY LoadFileFields DEF PaneInv, npos, Exists

(* An edit *)
LEMMA EditedKeeps ==
    ASSUME NEW d, NEW limited \in BOOLEAN, NEW p, PaneInv(p, d, limited), NEW text \in Texts
    PROVE  /\ PaneInv(Edited(p, text), d, limited)
           /\ Edited(p, text).m_strPath = p.m_strPath
           /\ Edited(p, text).loaded = p.loaded
           /\ TextOf(p) \in Range(Edited(p, text).log)
<1> DEFINE n == p.marker
           log == Append(SubSeq(p.log, 1, n), text)
           q == Edited(p, text)
<1>0. IsPane(p) /\ p.log \in Seq(Texts) /\ n \in 1 .. Len(p.log) /\ p.m_nSyncPosition \in Int
  BY DEF PaneInv, IsPane
<1>1. /\ log \in Seq(Texts) /\ Len(log) = n + 1
      /\ \A i \in 1 .. n : log[i] = p.log[i]
  BY <1>0
<1> HIDE DEF log
<1>2. q = [p EXCEPT !.log = log, !.marker = n + 1,
                    !.m_nSyncPosition = IF p.m_nSyncPosition >= n THEN npos ELSE p.m_nSyncPosition,
                    !.m_bModified = TRUE, !.m_bEditAfterRescan = TRUE]
  BY <1>0 DEF Edited, log, IsPane, PaneFields
<1>3. IsPane(q)
  BY <1>0, <1>1, <1>2 DEF IsPane, PaneFields, npos
<1>4. /\ q.m_strPath = p.m_strPath /\ q.log = log /\ q.marker = n + 1
      /\ q.m_nSyncPosition = IF p.m_nSyncPosition >= n THEN npos ELSE p.m_nSyncPosition
      /\ q.m_bModified /\ q.limited = p.limited /\ q.m_bReadOnly = p.m_bReadOnly
      /\ q.m_bInitialReadOnly = p.m_bInitialReadOnly
      /\ q.m_pSaveFileInfo = p.m_pSaveFileInfo /\ q.loaded = p.loaded
      /\ q.converted = p.converted /\ q.whole = p.whole
  BY <1>0, <1>2 DEF IsPane, PaneFields
<1> HIDE DEF q
<1>5. PaneInv(q, d, limited)
  <2>1. /\ p.m_nSyncPosition \in {npos} \union (0 .. Len(p.log) - 1)
        /\ p.m_nSyncPosition # npos => p.log[p.m_nSyncPosition + 1] = p.loaded.text
    BY DEF PaneInv
  <2>2. CASE p.m_nSyncPosition >= n \/ p.m_nSyncPosition = npos
    <3>1. q.m_nSyncPosition = npos
      BY <1>4, <2>2
    <3> QED BY <1>0, <1>1, <1>3, <1>4, <3>1 DEF PaneInv, npos
  <2>3. CASE ~ (p.m_nSyncPosition >= n \/ p.m_nSyncPosition = npos)
    <3>1. q.m_nSyncPosition = p.m_nSyncPosition /\ p.m_nSyncPosition \in 0 .. n - 1
      BY <1>0, <1>4, <2>1, <2>3 DEF npos
    <3>a. p.m_nSyncPosition + 1 \in 1 .. n
      BY <1>0, <3>1
    <3>2. q.log[q.m_nSyncPosition + 1] = q.loaded.text
      BY <1>1, <1>4, <2>1, <2>3, <3>1, <3>a
    <3> QED BY <1>0, <1>1, <1>3, <1>4, <3>1, <3>2 DEF PaneInv, npos
  <2> QED BY <2>2, <2>3
<1>6. TextOf(p) \in Range(q.log)
  <2>1. n \in DOMAIN log /\ log[n] = p.log[n]
    BY <1>0, <1>1
  <2> QED BY <1>4, <2>1 DEF TextOf, Range
<1> QED BY <1>4, <1>5, <1>6 DEF q

(* Undo and redo *)
LEMMA MovedKeeps ==
    ASSUME NEW d, NEW limited \in BOOLEAN, NEW p, PaneInv(p, d, limited),
           NEW marker \in 1 .. Len(p.log)
    PROVE  /\ PaneInv(Moved(p, marker), d, limited)
           /\ Moved(p, marker).m_strPath = p.m_strPath
           /\ Moved(p, marker).loaded = p.loaded
           /\ Moved(p, marker).log = p.log
<1> DEFINE q == Moved(p, marker)
<1>0. IsPane(p) /\ p.log \in Seq(Texts) /\ p.m_nSyncPosition \in Int
  BY DEF PaneInv, IsPane
<1>1. q = [p EXCEPT !.marker = marker, !.m_bModified = p.m_nSyncPosition # marker - 1]
  BY DEF Moved
<1>2. IsPane(q)
  BY <1>0, <1>1 DEF IsPane, PaneFields
<1>3. /\ q.m_strPath = p.m_strPath /\ q.log = p.log /\ q.marker = marker
      /\ q.m_nSyncPosition = p.m_nSyncPosition
      /\ q.m_bModified <=> p.m_nSyncPosition # marker - 1
      /\ q.limited = p.limited /\ q.m_bReadOnly = p.m_bReadOnly
      /\ q.m_bInitialReadOnly = p.m_bInitialReadOnly
      /\ q.m_pSaveFileInfo = p.m_pSaveFileInfo /\ q.loaded = p.loaded
      /\ q.converted = p.converted /\ q.whole = p.whole
  BY <1>0, <1>1 DEF IsPane, PaneFields
<1> HIDE DEF q
<1>4. PaneInv(q, d, limited)
  BY <1>0, <1>2, <1>3 DEF PaneInv, npos
<1> QED BY <1>3, <1>4 DEF q

Outdated(p) == [p EXCEPT !.m_pSaveFileInfo = FALSE, !.m_pRescanFileInfo = FALSE]

(* A pane that may have been told of a change of its file *)
Aware(q, p, new, limited) ==
    /\ PaneInv(q, new, limited)
    /\ q.m_strPath = p.m_strPath /\ q.log = p.log
    /\ q.marker = p.marker /\ q.loaded = p.loaded
    /\ q.m_bModified <=> p.m_bModified

(* The files of the panes may have been changed. *)
LEMMA NoticedKeeps ==
    ASSUME NEW d, NEW new, NEW limited \in BOOLEAN, NEW p, PaneInv(p, d, limited), NEW q,
           \/ q = Outdated(p)
           \/ q = p /\ new[p.m_strPath] = d[p.m_strPath]
    PROVE  Aware(q, p, new, limited)
<1>0. IsPane(p)
  BY DEF PaneInv
<1>1. CASE q = Outdated(p)
  <2>1. IsPane(q)
    BY <1>0, <1>1 DEF IsPane, PaneFields, Outdated
  <2>2. /\ q.m_strPath = p.m_strPath /\ q.log = p.log /\ q.marker = p.marker
        /\ q.m_nSyncPosition = p.m_nSyncPosition /\ (q.m_bModified <=> p.m_bModified)
        /\ q.limited = p.limited /\ q.m_bReadOnly = p.m_bReadOnly
        /\ q.m_bInitialReadOnly = p.m_bInitialReadOnly
        /\ ~ q.m_pSaveFileInfo /\ q.loaded = p.loaded
        /\ q.converted = p.converted /\ q.whole = p.whole
    BY <1>0, <1>1 DEF IsPane, PaneFields, Outdated
  <2>3. PaneInv(q, new, limited)
    BY <2>1, <2>2 DEF PaneInv
  <2> QED BY <2>2, <2>3 DEF Aware
<1>2. CASE q = p /\ new[p.m_strPath] = d[p.m_strPath]
  <2>1. PaneInv(q, new, limited)
    BY <1>2 DEF PaneInv
  <2>2. q = p
    BY <1>2
  <2> QED BY <2>1, <2>2, Zenon DEF Aware
<1> QED BY <1>1, <1>2

(* What is written is what the pane then remembers. *)
LEMMA SavedToKeeps ==
    ASSUME NEW d, NEW limited \in BOOLEAN, NEW p, PaneInv(p, d, limited),
           NEW path \in FilePaths, path \in DOMAIN d
    PROVE  LET q == SavedTo(p, path)
           IN  /\ PaneInv(q, [d EXCEPT ![path] = ContentOf(p)], limited)
               /\ q.m_strPath = path /\ q.log = p.log /\ q.marker = p.marker
               /\ ~ q.m_bModified
<1> DEFINE content == ContentOf(p)
           q == SavedTo(p, path)
<1>0. /\ IsPane(p) /\ p.log \in Seq(Texts) /\ p.marker \in 1 .. Len(p.log)
      /\ p.converted \in BOOLEAN /\ p.whole \in BOOLEAN /\ p.limited \in BOOLEAN
  BY DEF PaneInv, IsPane
<1>1. /\ content \in Contents /\ content.text = p.log[p.marker] /\ content.whole \in BOOLEAN
      /\ content.converted = p.converted
  BY <1>0 DEF ContentOf, TextOf, Contents
<1> HIDE DEF content
<1>2. q = [p EXCEPT !.m_strPath = path, !.whole = content.whole, !.m_bModified = FALSE,
                    !.m_nSyncPosition = p.marker - 1,
                    !.m_pSaveFileInfo = TRUE, !.m_pRescanFileInfo = TRUE, !.loaded = content]
  BY <1>0 DEF SavedTo, content, IsPane, PaneFields
<1>3. IsPane(q)
  BY <1>0, <1>1, <1>2 DEF IsPane, PaneFields
<1>4. /\ q.m_strPath = path /\ q.log = p.log /\ q.marker = p.marker
      /\ q.m_nSyncPosition = p.marker - 1 /\ ~ q.m_bModified
      /\ q.limited = p.limited /\ q.m_bReadOnly = p.m_bReadOnly
      /\ q.m_bInitialReadOnly = p.m_bInitialReadOnly
      /\ q.loaded = content /\ q.converted = p.converted /\ q.whole = content.whole
  BY <1>0, <1>2 DEF IsPane, PaneFields
<1> HIDE DEF q
<1>5. [d EXCEPT ![path] = content][path] = content
  OBVIOUS
<1>6. PaneInv(q, [d EXCEPT ![path] = content], limited)
  BY <1>0, <1>1, <1>3, <1>4, <1>5 DEF PaneInv, npos
<1> QED BY <1>4, <1>6 DEF q, content

(* Settings of a pane *)
LEMMA SwitchedKeeps ==
    ASSUME NEW d, NEW limited \in BOOLEAN, NEW p, PaneInv(p, d, limited)
    PROVE  /\ PaneInv([p EXCEPT !.converted = TRUE, !.m_bModified = TRUE], d, limited)
           /\ PaneInv([p EXCEPT !.m_bModified = TRUE], d, limited)
<1>0. IsPane(p)
  BY DEF PaneInv
<1>1. ASSUME NEW c \in BOOLEAN, p.converted => c
      PROVE  PaneInv([p EXCEPT !.converted = c, !.m_bModified = TRUE], d, limited)
  <2> DEFINE q == [p EXCEPT !.converted = c, !.m_bModified = TRUE]
  <2>1. IsPane(q)
    BY <1>0 DEF IsPane, PaneFields
  <2>2. /\ q.m_strPath = p.m_strPath /\ q.log = p.log /\ q.marker = p.marker
        /\ q.m_nSyncPosition = p.m_nSyncPosition /\ q.m_bModified
        /\ q.limited = p.limited /\ q.m_bReadOnly = p.m_bReadOnly
        /\ q.m_bInitialReadOnly = p.m_bInitialReadOnly
        /\ q.m_pSaveFileInfo = p.m_pSaveFileInfo /\ q.loaded = p.loaded
        /\ q.converted = c /\ q.whole = p.whole
    BY <1>0 DEF IsPane, PaneFields
  <2> HIDE DEF q
  <2> QED BY <1>1, <2>1, <2>2 DEF PaneInv, q
<1>2. [p EXCEPT !.converted = p.converted, !.m_bModified = TRUE] = [p EXCEPT !.m_bModified = TRUE]
  BY <1>0 DEF IsPane, PaneFields
<1>3. p.converted \in BOOLEAN
  BY <1>0 DEF IsPane
<1> QED BY <1>1, <1>2, <1>3

(* A pane made read-only, or editable again *)
LEMMA ReadOnlyKeeps ==
    ASSUME NEW d, NEW p, PaneInv(p, d, FALSE), NEW q, NEW ro \in BOOLEAN,
           q = [p EXCEPT !.m_bReadOnly = ro, !.m_bInitialReadOnly = ro,
                         !.m_bModified = ~ ro /\ p.m_nSyncPosition # p.marker - 1]
    PROVE  PaneInv(q, d, FALSE)
<1>0. IsPane(p)
  BY DEF PaneInv
<1>1. IsPane(q)
  BY <1>0 DEF IsPane, PaneFields
<1>2. /\ q.m_strPath = p.m_strPath /\ q.log = p.log /\ q.marker = p.marker
      /\ q.m_nSyncPosition = p.m_nSyncPosition /\ q.limited = p.limited
      /\ q.m_bModified <=> ~ ro /\ p.m_nSyncPosition # p.marker - 1
      /\ q.m_bReadOnly = ro /\ q.m_bInitialReadOnly = ro
      /\ q.m_pSaveFileInfo = p.m_pSaveFileInfo /\ q.loaded = p.loaded
      /\ q.converted = p.converted /\ q.whole = p.whole
  BY <1>0 DEF IsPane, PaneFields
<1> QED BY <1>0, <1>1, <1>2 DEF PaneInv

WithContext(p, context) ==
    [p EXCEPT !.limited = context, !.m_bEditAfterRescan = FALSE, !.m_pRescanFileInfo = TRUE]

(* A pane whose differences are shown anew *)
LEMMA ComparedKeeps ==
    ASSUME NEW d, NEW limited \in BOOLEAN, NEW p, PaneInv(p, d, limited),
           NEW context \in BOOLEAN, context => limited /\ p.m_bReadOnly, NEW q,
           q = WithContext(p, context)
    PROVE  /\ PaneInv(q, d, limited)
           /\ q.m_strPath = p.m_strPath /\ q.log = p.log /\ q.marker = p.marker
           /\ q.loaded = p.loaded /\ (q.m_bModified <=> p.m_bModified)
<1>0. IsPane(p)
  BY DEF PaneInv
<1>1. IsPane(q)
  BY <1>0 DEF WithContext, IsPane, PaneFields
<1>2. /\ q.m_strPath = p.m_strPath /\ q.log = p.log /\ q.marker = p.marker
      /\ q.m_nSyncPosition = p.m_nSyncPosition /\ q.limited = context
      /\ q.m_bModified = p.m_bModified
      /\ q.m_bReadOnly = p.m_bReadOnly /\ q.m_bInitialReadOnly = p.m_bInitialReadOnly
      /\ q.m_pSaveFileInfo = p.m_pSaveFileInfo /\ q.loaded = p.loaded
      /\ q.converted = p.converted /\ q.whole = p.whole
  BY <1>0 DEF WithContext, IsPane, PaneFields
<1> QED BY <1>0, <1>1, <1>2 DEF PaneInv

Ready(p, limited) == [p EXCEPT !.m_bReadOnly = limited \/ p.m_bInitialReadOnly]

(* A pane about to be shown in another context *)
LEMMA ReadyKeeps ==
    ASSUME NEW d, NEW old \in BOOLEAN, NEW p, PaneInv(p, d, old), NEW limited \in BOOLEAN, NEW r,
           r = Ready(p, limited)
    PROVE  /\ IsPane(r) /\ r.m_strPath = p.m_strPath
           /\ limited => r.m_bReadOnly
           /\ r.m_bReadOnly /\ ~ limited => r.m_bInitialReadOnly
           /\ PaneInv(Left(r), d, limited)
<1>0. IsPane(p)
  BY DEF PaneInv
<1>1. IsPane(r)
  BY <1>0 DEF Ready, IsPane, PaneFields
<1>2. /\ r.m_strPath = p.m_strPath /\ r.log = p.log /\ r.marker = p.marker
      /\ r.m_nSyncPosition = p.m_nSyncPosition
      /\ r.m_bModified = p.m_bModified
      /\ r.m_bReadOnly <=> limited \/ p.m_bInitialReadOnly
      /\ r.m_bInitialReadOnly = p.m_bInitialReadOnly
      /\ r.m_pSaveFileInfo = p.m_pSaveFileInfo /\ r.loaded = p.loaded
      /\ r.converted = p.converted /\ r.whole = p.whole
  BY <1>0 DEF Ready, IsPane, PaneFields
<1> DEFINE q == Left(r)
<1>3. IsPane(q)
  BY <1>1 DEF Left, IsPane, PaneFields
<1>4. /\ q.m_strPath = r.m_strPath /\ q.log = r.log /\ q.marker = r.marker
      /\ q.m_nSyncPosition = r.m_nSyncPosition /\ ~ q.limited
      /\ q.m_bModified = r.m_bModified
      /\ q.m_bReadOnly = r.m_bReadOnly /\ q.m_bInitialReadOnly = r.m_bInitialReadOnly
      /\ q.m_pSaveFileInfo = r.m_pSaveFileInfo /\ q.loaded = r.loaded
      /\ q.converted = r.converted /\ (q.whole => r.whole)
  BY <1>1 DEF Left, IsPane, PaneFields
<1> HIDE DEF q
<1>5. PaneInv(q, d, limited)
  BY <1>2, <1>3, <1>4 DEF PaneInv
<1> QED BY <1>1, <1>2, <1>5 DEF q

-----------------------------------------------------------------------------
(* Calls *)

(* The call to be made is the first.                                       *)
LEMMA HeadOfCalls ==
    ASSUME CallsInv(calls), NEW op, NEW s, Calling(op, s)
    PROVE  /\ calls # <<>> /\ Len(calls) \in Nat \ {0}
           /\ calls[1] = <<op, s>> /\ calls[1][1] = op
BY DEF Calling, CallsInv

(* The calls that are left when some have been made or given up *)
LEMMA SuffixKeeps ==
    ASSUME NEW cs, CallsInv(cs), cs # <<>>, NEW k \in Nat, k >= 2
    PROVE  LET rest == SubSeq(cs, k, Len(cs))
           IN  /\ CallsInv(rest)
               /\ Len(rest) = IF k <= Len(cs) THEN Len(cs) - k + 1 ELSE 0
               /\ \A i \in 1 .. Len(rest) : rest[i] = cs[i + (k - 1)]
               /\ rest # <<>> => rest[Len(rest)] = cs[Len(cs)]
<1> DEFINE rest == SubSeq(cs, k, Len(cs))
           n == Len(rest)
<1>1. cs \in Seq(Call) /\ Len(cs) \in Nat
  BY DEF CallsInv
<1>2. /\ rest \in Seq(Call) /\ n = IF k <= Len(cs) THEN Len(cs) - k + 1 ELSE 0
      /\ \A i \in 1 .. n : rest[i] = cs[i + (k - 1)]
  BY <1>1, SubSeqProperties
<1> HIDE DEF rest
<1>3. rest # <<>> => n \in Nat /\ n >= 1 /\ n + (k - 1) = Len(cs)
  BY <1>1, <1>2
<1>4. rest # <<>> => rest[n] = cs[Len(cs)]
  BY <1>2, <1>3
<1>5. CallsInv(rest)
  <2> SUFFICES ASSUME NEW i \in 1 .. n
               PROVE  /\ rest[i][1] \in {"DoSave", "SaveToFile", "Rescan"} => i < n
                      /\ rest[i][1] = "SaveToFile" => i = 1
                      /\ rest[i][1] \in {"ReloadDoc", "Close"} => i = n
                      /\ rest[i][1] = "DoSave" =>
                            \A j \in 1 .. i - 1 : rest[j][1] \in {"DoSave", "SaveToFile"}
    BY <1>2 DEF CallsInv
  <2> DEFINE m == i + (k - 1)
  <2>1. n \in Nat /\ n >= 1 /\ n + (k - 1) = Len(cs)
    BY <1>1, <1>2
  <2>2. /\ m \in 1 .. Len(cs) /\ m # 1
        /\ m < Len(cs) => i < n
        /\ m = Len(cs) => i = n
    BY <1>1, <2>1
  <2>3. rest[i] = cs[m]
    BY <1>2
  <2>4. ASSUME NEW j \in 1 .. i - 1
        PROVE  j + (k - 1) \in 1 .. m - 1 /\ rest[j] = cs[j + (k - 1)]
    BY <1>2, <2>1
  <2>5. /\ cs[m][1] \in {"DoSave", "SaveToFile", "Rescan"} => m < Len(cs)
        /\ cs[m][1] = "SaveToFile" => m = 1
        /\ cs[m][1] \in {"ReloadDoc", "Close"} => m = Len(cs)
        /\ cs[m][1] = "DoSave" =>
              \A j \in 1 .. m - 1 : cs[j][1] \in {"DoSave", "SaveToFile"}
    BY <2>2 DEF CallsInv
  <2> HIDE DEF m
  <2>6. rest[i][1] = "DoSave" =>
            \A j \in 1 .. i - 1 : rest[j][1] \in {"DoSave", "SaveToFile"}
    BY <2>3, <2>4, <2>5
  <2> QED BY <2>2, <2>3, <2>5, <2>6, Zenon
<1> QED BY <1>2, <1>4, <1>5 DEF rest

(* The calls that are left when one has been made                          *)
LEMMA TailKeeps ==
    ASSUME NEW cs, CallsInv(cs), cs # <<>>
    PROVE  /\ CallsInv(Tail(cs))
           /\ Len(Tail(cs)) = Len(cs) - 1
           /\ \A i \in 1 .. Len(cs) - 1 : Tail(cs)[i] = cs[i + 1]
           /\ Tail(cs) # <<>> => Tail(cs)[Len(Tail(cs))] = cs[Len(cs)]
<1>1. cs \in Seq(Call)
  BY DEF CallsInv
<1>2. Len(cs) \in Nat /\ Len(cs) >= 1
  BY <1>1
<1>3. Tail(cs) = SubSeq(cs, 2, Len(cs))
  BY <1>1, TailIsSubSeq
<1>4. /\ Len(Tail(cs)) = Len(cs) - 1
      /\ \A i \in 1 .. Len(cs) - 1 : Tail(cs)[i] = cs[i + 1]
  BY <1>1
<1> DEFINE rest == SubSeq(cs, 2, Len(cs))
<1>5. CallsInv(rest) /\ (rest # <<>> => rest[Len(rest)] = cs[Len(cs)])
  BY SuffixKeeps
<1> QED BY <1>3, <1>4, <1>5

(* A call that is not about saving makes calls that are neither. *)
LEMMA ReturnKeeps ==
    ASSUME NEW cs, CallsInv(cs), cs # <<>>, cs[1][1] \notin {"DoSave", "SaveToFile"},
           NEW made \in Seq(Call),
           \A i \in 1 .. Len(made) :
              /\ made[i][1] \in {"Rescan", "Rescan2", "UpdateChangedItem"}
              /\ made[i][1] = "Rescan" => i < Len(made)
    PROVE  /\ CallsInv(made \o Tail(cs))
           /\ Tail(cs) # <<>> => (made \o Tail(cs))[Len(made \o Tail(cs))] = cs[Len(cs)]
<1> DEFINE rest == Tail(cs)
           all == made \o rest
<1>1. CallsInv(rest) /\ Len(rest) = Len(cs) - 1
      /\ \A i \in 1 .. Len(cs) - 1 : rest[i] = cs[i + 1]
      /\ rest # <<>> => rest[Len(rest)] = cs[Len(cs)]
  BY TailKeeps
<1>2. /\ rest \in Seq(Call) /\ Len(rest) \in Nat /\ Len(made) \in Nat /\ Len(cs) \in Nat
      /\ cs \in Seq(Call)
  <2>1. rest \in Seq(Call) /\ cs \in Seq(Call)
    BY <1>1 DEF CallsInv
  <2> HIDE DEF rest
  <2> QED BY <2>1, SMTT(30)
<1>3. \A i \in 1 .. Len(rest) : rest[i][1] \notin {"DoSave", "SaveToFile"}
  <2> SUFFICES ASSUME NEW i \in 1 .. Len(rest)
               PROVE  rest[i][1] \notin {"DoSave", "SaveToFile"}
    OBVIOUS
  <2>1. rest[i] = cs[i + 1] /\ i + 1 \in 1 .. Len(cs) /\ i + 1 # 1 /\ 1 \in 1 .. (i + 1) - 1
    BY <1>1, <1>2
  <2> QED BY <2>1 DEF CallsInv
<1>4. /\ all \in Seq(Call) /\ Len(all) = Len(made) + Len(rest)
      /\ \A i \in 1 .. Len(made) : all[i] = made[i]
      /\ \A i \in 1 .. Len(rest) : all[Len(made) + i] = rest[i]
  BY <1>2
<1> HIDE DEF rest, all
<1>5. rest # <<>> => all[Len(all)] = rest[Len(rest)]
  BY <1>2, <1>4
<1>6. CallsInv(all)
  <2> SUFFICES ASSUME NEW i \in 1 .. Len(all)
               PROVE  /\ all[i][1] \in {"DoSave", "SaveToFile", "Rescan"} => i < Len(all)
                      /\ all[i][1] = "SaveToFile" => i = 1
                      /\ all[i][1] \in {"ReloadDoc", "Close"} => i = Len(all)
                      /\ all[i][1] = "DoSave" =>
                            \A j \in 1 .. i - 1 : all[j][1] \in {"DoSave", "SaveToFile"}
    BY <1>4 DEF CallsInv
  <2>1. CASE i \in 1 .. Len(made)
    <3>1. all[i][1] \in {"Rescan", "Rescan2", "UpdateChangedItem"}
      BY <1>4, <2>1
    <3>2. all[i][1] = "Rescan" => i < Len(made)
      BY <1>4, <2>1
    <3> QED BY <1>2, <1>4, <3>1, <3>2
  <2>2. CASE i \notin 1 .. Len(made)
    <3> DEFINE k == i - Len(made)
    <3>1. k \in 1 .. Len(rest) /\ all[i] = rest[k]
      BY <1>2, <1>4, <2>2
    <3>2. /\ all[i][1] \notin {"DoSave", "SaveToFile"}
          /\ all[i][1] = "Rescan" => k < Len(rest)
          /\ all[i][1] \in {"ReloadDoc", "Close"} => k = Len(rest)
      BY <1>1, <1>3, <3>1 DEF CallsInv
    <3> QED BY <1>2, <1>4, <3>1, <3>2
  <2> QED BY <2>1, <2>2
<1> QED BY <1>1, <1>5, <1>6 DEF rest, all

(* A save has been agreed to. *)
LEMMA SaveToFileNext ==
    ASSUME NEW cs, CallsInv(cs), cs # <<>>, cs[1][1] = "DoSave", NEW s \in Sides
    PROVE  /\ CallsInv(<<<<"SaveToFile", s>>>> \o Tail(cs))
           /\ LET all == <<<<"SaveToFile", s>>>> \o Tail(cs)
              IN  /\ all # <<>> /\ all[Len(all)] = cs[Len(cs)] /\ all[1] = <<"SaveToFile", s>>
                  /\ \A i \in 2 .. Len(cs) : i \in 1 .. Len(all) /\ all[i] = cs[i]
<1> DEFINE rest == Tail(cs)
           all == <<<<"SaveToFile", s>>>> \o rest
<1>1. cs \in Seq(Call) /\ Len(cs) \in Nat /\ 1 < Len(cs)
  BY DEF CallsInv
<1>2. /\ rest \in Seq(Call) /\ Len(rest) = Len(cs) - 1
      /\ \A i \in 1 .. Len(cs) - 1 : rest[i] = cs[i + 1]
  BY <1>1
<1> HIDE DEF rest
<1>3. <<<<"SaveToFile", s>>>> \in Seq(Call)
  BY DEF Call, Sides
<1>4. /\ all \in Seq(Call) /\ Len(all) = Len(cs) /\ all[1] = <<"SaveToFile", s>>
      /\ \A i \in 2 .. Len(cs) : all[i] = rest[i - 1]
  BY <1>1, <1>2, <1>3
<1>5. ASSUME NEW i \in 2 .. Len(cs)
      PROVE  all[i] = cs[i]
  <2>1. i - 1 \in 1 .. Len(cs) - 1 /\ (i - 1) + 1 = i
    BY <1>1
  <2> QED BY <1>2, <1>4, <2>1
<1> HIDE DEF all
<1>6. CallsInv(all)
  <2> SUFFICES ASSUME NEW i \in 1 .. Len(cs)
               PROVE  /\ all[i][1] \in {"DoSave", "SaveToFile", "Rescan"} => i < Len(cs)
                      /\ all[i][1] = "SaveToFile" => i = 1
                      /\ all[i][1] \in {"ReloadDoc", "Close"} => i = Len(cs)
                      /\ all[i][1] = "DoSave" =>
                            \A j \in 1 .. i - 1 : all[j][1] \in {"DoSave", "SaveToFile"}
    BY <1>4 DEF CallsInv
  <2>1. CASE i = 1
    BY <1>1, <1>4, <2>1
  <2>2. CASE i # 1
    <3>1. i \in 2 .. Len(cs) /\ all[i] = cs[i]
      BY <1>1, <1>5, <2>2
    <3>2. /\ cs[i][1] \in {"DoSave", "SaveToFile", "Rescan"} => i < Len(cs)
          /\ cs[i][1] = "SaveToFile" => i = 1
          /\ cs[i][1] \in {"ReloadDoc", "Close"} => i = Len(cs)
          /\ cs[i][1] = "DoSave" =>
                \A j \in 1 .. i - 1 : cs[j][1] \in {"DoSave", "SaveToFile"}
      BY DEF CallsInv
    <3>3. ASSUME NEW j \in 1 .. i - 1
          PROVE  j = 1 \/ all[j] = cs[j]
      <4>1. j = 1 \/ j \in 2 .. Len(cs)
        BY <1>1
      <4> QED BY <1>5, <4>1
    <3>4. all[1][1] \in {"DoSave", "SaveToFile"}
      BY <1>4
    <3>5. all[i][1] = "DoSave" =>
              \A j \in 1 .. i - 1 : all[j][1] \in {"DoSave", "SaveToFile"}
      BY <3>1, <3>2, <3>3, <3>4
    <3> QED BY <3>1, <3>2, <3>5
  <2> QED BY <2>1, <2>2
<1>7. all # <<>> /\ all[Len(all)] = cs[Len(cs)]
  BY <1>1, <1>4, <1>5
<1>8. \A i \in 2 .. Len(cs) : i \in 1 .. Len(all)
  BY <1>1, <1>4
<1> QED BY <1>4, <1>5, <1>6, <1>7, <1>8 DEF all, rest

(* One more call *)
LEMMA OneMore ==
    ASSUME NEW cs \in Seq(Call), NEW c \in Call
    PROVE  LET all == cs \o <<c>>
           IN  /\ all \in Seq(Call) /\ Len(all) = Len(cs) + 1 /\ all[Len(cs) + 1] = c
               /\ \A i \in 1 .. Len(cs) : all[i] = cs[i]
<1>1. <<c>> \in Seq(Call) /\ Len(<<c>>) = 1 /\ <<c>>[1] = c
  OBVIOUS
<1> QED BY <1>1

(* The calls of a rescan *)
LEMMA RescanCalls ==
    LET made == FlushAndRescan
        update == made \o <<<<"UpdateChangedItem", 0>>>>
        Fine(cs) ==
            /\ cs \in Seq(Call)
            /\ \A i \in 1 .. Len(cs) :
                /\ cs[i][1] \in {"Rescan", "Rescan2", "UpdateChangedItem"}
                /\ cs[i][1] = "Rescan" => i < Len(cs)
    IN  Fine(made) /\ Fine(update)
<1>1. CASE m_bLimited
  <2>1. FlushAndRescan = <<>>
    BY <1>1 DEF FlushAndRescan
  <2>2. FlushAndRescan \o <<<<"UpdateChangedItem", 0>>>> = <<<<"UpdateChangedItem", 0>>>>
    BY <2>1
  <2> QED BY <2>1, <2>2 DEF Call
<1>2. CASE ~ m_bLimited
  <2> DEFINE made == <<<<"Rescan", 1>>, <<"Rescan", 2>>, <<"Rescan2", 0>>>>
             c == <<"UpdateChangedItem", 0>>
             update == made \o <<c>>
  <2>1. FlushAndRescan = made
    BY <1>2 DEF FlushAndRescan
  <2>2. made \in Seq(Call) /\ c \in Call /\ c[1] = "UpdateChangedItem"
    BY DEF Call
  <2>3. /\ Len(made) = 3
        /\ made[1][1] = "Rescan" /\ made[2][1] = "Rescan" /\ made[3][1] = "Rescan2"
    OBVIOUS
  <2>4. FlushAndRescan \o <<<<"UpdateChangedItem", 0>>>> = update
    BY <2>1
  <2> HIDE DEF made, c
  <2>a. /\ update \in Seq(Call) /\ Len(update) = Len(made) + 1 /\ update[Len(made) + 1] = c
        /\ \A i \in 1 .. Len(made) : update[i] = made[i]
    BY <2>2, OneMore, Zenon
  <2>5. /\ update \in Seq(Call) /\ Len(update) = 4 /\ update[4] = c
        /\ \A i \in 1 .. 3 : update[i] = made[i]
    <3> HIDE DEF update
    <3> QED BY <2>3, <2>a
  <2> HIDE DEF update
  <2>6. ASSUME NEW i \in 1 .. Len(made)
        PROVE  /\ made[i][1] \in {"Rescan", "Rescan2", "UpdateChangedItem"}
               /\ made[i][1] = "Rescan" => i < Len(made)
    <3>1. i = 1 \/ i = 2 \/ i = 3
      BY <2>3
    <3> QED BY <2>3, <3>1
  <2>7. ASSUME NEW i \in 1 .. Len(update)
        PROVE  /\ update[i][1] \in {"Rescan", "Rescan2", "UpdateChangedItem"}
               /\ update[i][1] = "Rescan" => i < Len(update)
    <3>1. i = 4 \/ i \in 1 .. 3
      BY <2>5
    <3>2. i \in 1 .. 3 => i \in 1 .. Len(made)
      BY <2>3
    <3> QED BY <2>2, <2>3, <2>5, <2>6, <3>1, <3>2
  <2> QED BY <2>1, <2>2, <2>4, <2>5, <2>6, <2>7
<1> QED BY <1>1, <1>2

(* A rescan alone is in order.                                             *)
LEMMA RescanCallsInv == CallsInv(FlushAndRescan)
BY RescanCalls DEF CallsInv

(* Nothing but saves, what follows them, and what they were made for *)
OnlySaves(cs) ==
    \A i \in 1 .. Len(cs) :
        /\ cs[i][1] \in {"DoSave", "AfterSave", "ReloadDoc", "Close"}
        /\ cs[i][1] = "AfterSave" =>
              \A j \in i + 1 .. Len(cs) : cs[j][1] \in {"ReloadDoc", "Close"}

(* Saves, what follows saves, and then what they were made for *)
LEMMA SaveCalls ==
    ASSUME NEW S, NEW then \in Seq(Call), Len(then) <= 1,
           \A i \in 1 .. Len(then) : then[i][1] \in {"ReloadDoc", "Close"}
    PROVE  LET cs == (Saves(S) \o <<<<"AfterSave", 0>>>>) \o then
           IN  /\ CallsInv(cs) /\ cs # <<>>
               /\ Head(cs)[1] # "SaveToFile"
               /\ then = <<>> => cs[Len(cs)][1] = "AfterSave"
               /\ \A s \in Sides \intersect S : \E i \in 1 .. Len(cs) : cs[i] = <<"DoSave", s>>
               /\ OnlySaves(cs)
<1> DEFINE saves == Saves(S)
           n == Len(saves)
           cs == (saves \o <<<<"AfterSave", 0>>>>) \o then
<1>1. /\ saves \in Seq(Call)
      /\ \A i \in 1 .. n : saves[i][1] = "DoSave"
      /\ \A s \in Sides \intersect S : \E i \in 1 .. n : saves[i] = <<"DoSave", s>>
  <2>1. CASE 1 \in S /\ 2 \in S
    <3> DEFINE a == <<"DoSave", 1>>
               b == <<"DoSave", 2>>
    <3>1. saves = <<a>> \o <<b>>
      BY <2>1 DEF Saves
    <3>a. a \in Call /\ b \in Call
      BY DEF Call
    <3>b. a = <<"DoSave", 1>> /\ b = <<"DoSave", 2>>
      OBVIOUS
    <3> HIDE DEF a, b
    <3>c. <<a>> \in Seq(Call) /\ Len(<<a>>) = 1 /\ <<a>>[1] = a
      BY <3>a
    <3>2. saves \in Seq(Call) /\ n = 2 /\ saves[1] = <<"DoSave", 1>> /\ saves[2] = <<"DoSave", 2>>
      BY <3>1, <3>a, <3>b, <3>c, OneMore
    <3>3. 1 \in 1 .. n /\ 2 \in 1 .. n /\ \A i \in 1 .. n : i \in {1, 2}
      BY <3>2
    <3>4. ASSUME NEW s \in Sides
          PROVE  s = 1 \/ s = 2
      BY DEF Sides
    <3> HIDE DEF saves, n
    <3> QED BY <3>2, <3>3, <3>4
  <2>2. CASE 1 \in S /\ 2 \notin S
    <3>1. saves = <<<<"DoSave", 1>>>>
      BY <2>2 DEF Saves
    <3> QED BY <2>2, <3>1 DEF Call, Sides
  <2>3. CASE 1 \notin S /\ 2 \in S
    <3>1. saves = <<<<"DoSave", 2>>>>
      BY <2>3 DEF Saves
    <3> QED BY <2>3, <3>1 DEF Call, Sides
  <2>4. CASE 1 \notin S /\ 2 \notin S
    <3>1. saves = <<>>
      BY <2>4 DEF Saves
    <3> QED BY <2>4, <3>1 DEF Call, Sides
  <2> QED BY <2>1, <2>2, <2>3, <2>4
<1> HIDE DEF saves
<1>2. <<"AfterSave", 0>> \in Call
  BY DEF Call
<1> DEFINE ss == saves \o <<<<"AfterSave", 0>>>>
<1>a. n \in Nat /\ Len(then) \in Nat /\ Len(then) \in {0, 1}
  <2>1. n \in Nat
    BY <1>1
  <2> DEFINE m == Len(then)
  <2>2. m \in Nat /\ m <= 1
    OBVIOUS
  <2> HIDE DEF m
  <2>3. m \in {0, 1}
    BY <2>2
  <2> QED BY <2>1, <2>2, <2>3 DEF m
<1>b. /\ ss \in Seq(Call) /\ Len(ss) = n + 1 /\ ss[n + 1] = <<"AfterSave", 0>>
      /\ \A i \in 1 .. n : ss[i] = saves[i]
  BY <1>1, <1>2, OneMore, Zenon
<1> HIDE DEF ss
<1>c. /\ ss \o then \in Seq(Call) /\ Len(ss \o then) = n + 1 + Len(then)
      /\ \A i \in 1 .. n + 1 : (ss \o then)[i] = ss[i]
      /\ Len(then) = 1 => (ss \o then)[n + 2] = then[1]
  BY <1>a, <1>b
<1>3. /\ n \in Nat /\ Len(then) \in {0, 1}
      /\ cs \in Seq(Call) /\ Len(cs) = n + 1 + Len(then)
      /\ \A i \in 1 .. n : cs[i] = saves[i]
      /\ cs[n + 1] = <<"AfterSave", 0>>
      /\ Len(then) = 1 => cs[n + 2] = then[1]
  BY <1>a, <1>b, <1>c DEF ss
<1> HIDE DEF cs
<1>4. CallsInv(cs)
  <2> SUFFICES ASSUME NEW i \in 1 .. Len(cs)
               PROVE  /\ cs[i][1] \in {"DoSave", "SaveToFile", "Rescan"} => i < Len(cs)
                      /\ cs[i][1] = "SaveToFile" => i = 1
                      /\ cs[i][1] \in {"ReloadDoc", "Close"} => i = Len(cs)
                      /\ cs[i][1] = "DoSave" =>
                            \A j \in 1 .. i - 1 : cs[j][1] \in {"DoSave", "SaveToFile"}
    BY <1>3 DEF CallsInv
  <2>1. CASE i \in 1 .. n
    <3>1. \A j \in 1 .. n : cs[j][1] = "DoSave"
      BY <1>1, <1>3, Zenon
    <3>2. cs[i][1] = "DoSave"
      BY <3>1, <2>1, Zenon
    <3>3. i < Len(cs)
      <4>1. n \in Nat /\ Len(then) \in Nat /\ Len(cs) = n + 1 + Len(then)
        BY <1>a, <1>3
      <4> QED BY <4>1, <2>1
    <3>4. \A j \in 1 .. i - 1 : j \in 1 .. n
      BY <1>a, <2>1
    <3>5. \A j \in 1 .. i - 1 : cs[j][1] \in {"DoSave", "SaveToFile"}
      BY <3>1, <3>4
    <3>6. cs[i][1] \notin {"SaveToFile", "ReloadDoc", "Close"}
      BY <3>2
    <3> QED BY <3>3, <3>5, <3>6, Zenon
  <2>2. CASE i = n + 1
    BY <1>3, <2>2
  <2>3. CASE i = n + 2 /\ Len(then) = 1
    BY <1>3, <2>3
  <2> QED BY <1>3, <2>1, <2>2, <2>3
<1>5. cs # <<>> /\ \A i \in 1 .. n : i \in 1 .. Len(cs)
  BY <1>3
<1>6. ASSUME NEW s \in Sides \intersect S
      PROVE  \E i \in 1 .. Len(cs) : cs[i] = <<"DoSave", s>>
  BY <1>1, <1>3, <1>5, ZenonT(40)
<1>7. Head(cs)[1] # "SaveToFile"
  <2>1. Head(cs) = cs[1]
    BY <1>3, <1>5
  <2>2. CASE n = 0
    BY <1>3, <2>1, <2>2
  <2>3. CASE n # 0
    <3>1. 1 \in 1 .. n
      BY <1>3, <2>3
    <3> QED BY <1>1, <1>3, <2>1, <3>1
  <2> QED BY <2>2, <2>3
<1>8. then = <<>> => cs[Len(cs)][1] = "AfterSave"
  BY <1>3
<1>9. ASSUME NEW i \in 1 .. Len(cs)
      PROVE  /\ i <= n => cs[i][1] = "DoSave"
             /\ i = n + 1 => cs[i][1] = "AfterSave"
             /\ i > n + 1 => cs[i][1] \in {"ReloadDoc", "Close"}
  <2>1. i <= n => i \in 1 .. n
    BY <1>3
  <2>2. i > n + 1 => i = n + 2 /\ Len(then) = 1 /\ 1 \in 1 .. Len(then)
    BY <1>3
  <2> QED BY <1>1, <1>3, <2>1, <2>2, SMTT(30)
<1>10. ASSUME NEW i \in 1 .. Len(cs)
       PROVE  /\ cs[i][1] \in {"DoSave", "AfterSave", "ReloadDoc", "Close"}
              /\ cs[i][1] = "AfterSave" =>
                    \A j \in i + 1 .. Len(cs) : cs[j][1] \in {"ReloadDoc", "Close"}
  <2>1. i <= n \/ i = n + 1 \/ i > n + 1
    BY <1>3
  <2>2. cs[i][1] = "AfterSave" => i = n + 1
    BY <1>9, <2>1
  <2>3. ASSUME NEW j \in i + 1 .. Len(cs), i = n + 1
        PROVE  j \in 1 .. Len(cs) /\ j > n + 1
    BY <1>3, <2>3
  <2> QED BY <1>9, <2>1, <2>2, <2>3
<1>11. OnlySaves(cs)
  BY <1>10 DEF OnlySaves
<1> QED BY <1>4, <1>5, <1>6, <1>7, <1>8, <1>11 DEF cs, saves

-----------------------------------------------------------------------------
(* What every step has to keep *)

Overwrites ==
    \A s \in Sides : Calling("SaveToFile", s) /\ calls' # calls =>
        \A p \in Paths : disk'[p] # disk[p] =>
            \/ disk[p] \in {Absent, pane[s].loaded}
            \/ {<<"disk", p>>, <<"late", p>>} \intersect agreed' # {}

KeepsText ==
    \A s \in Sides :
        shown # NoItem /\ TextOf(pane[s]) # pane[s].loaded.text =>
            \/ TextOf(pane[s]) \in Range(pane'[s].log)
            \/ {<<"edits", s>>, <<"declined", s>>} \intersect (agreed \union agreed') # {}
            \/ pane[s].m_bReadOnly
            \/ m_bLimited

(* What a command's or a call's effect on the calls has to be *)
CallsKeep ==
    /\ CallsInv(calls')
    /\ save' \in [success : BOOLEAN, result : BOOLEAN]
    /\ SaveInv' /\ PendingInv' /\ Overwrites

(* Steps that leave the files alone                                        *)
LEMMA SameFiles ==
    ASSUME IInv, UNCHANGED files
    PROVE  FilesInv'
BY DEF IInv, FilesInv, FilesTypeOK, SidesOf, files

(* Steps that leave the panes and the files alone                          *)
LEMMA SamePanes ==
    ASSUME IInv, shown # NoItem, UNCHANGED <<pane, disk, m_bLimited>>
    PROVE  PanesInv' /\ KeepsText
<1>1. PanesInv
  BY DEF IInv, WindowInv
<1>2. PanesInv'
  BY <1>1 DEF PanesInv, PaneInv, IsPane
<1>3. ASSUME NEW s \in Sides
      PROVE  TextOf(pane[s]) \in Range(pane'[s].log)
  <2>1. pane[s].log \in Seq(Texts) /\ pane[s].marker \in 1 .. Len(pane[s].log)
    BY <1>1 DEF PanesInv, PaneInv, IsPane
  <2>2. pane[s].marker \in DOMAIN pane[s].log
    BY <2>1
  <2> QED BY <2>2 DEF TextOf, Range
<1> QED BY <1>2, <1>3 DEF KeepsText

(* One pane is changed. *)
LEMMA OnePane ==
    ASSUME PanesInv, NEW s \in Sides, NEW new, PaneInv(new, disk, m_bLimited'),
           pane' = [pane EXCEPT ![s] = new], UNCHANGED <<disk, m_bLimited>>
    PROVE  /\ PanesInv' /\ pane'[s] = new
           /\ \A t \in Sides : t # s =>
                 pane'[t] = pane[t] /\ TextOf(pane[t]) \in Range(pane'[t].log)
<1>1. pane = [t \in Sides |-> pane[t]]
  BY DEF PanesInv
<1>2. /\ pane' = [t \in Sides |-> IF t = s THEN new ELSE pane[t]]
      /\ pane'[s] = new
      /\ \A t \in Sides : t # s => pane'[t] = pane[t]
  BY <1>1
<1>3. PanesInv'
  <2>1. \A t \in Sides : PaneInv(pane'[t], disk, m_bLimited)
    BY <1>2 DEF PanesInv
  <2>2. pane' = [t \in Sides |-> pane'[t]]
    BY <1>2
  <2> QED BY <2>1, <2>2 DEF PanesInv
<1>4. ASSUME NEW t \in Sides
      PROVE  TextOf(pane[t]) \in Range(pane[t].log)
  <2>1. pane[t].log \in Seq(Texts) /\ pane[t].marker \in 1 .. Len(pane[t].log)
    BY DEF PanesInv, PaneInv, IsPane
  <2>2. pane[t].marker \in DOMAIN pane[t].log
    BY <2>1
  <2> QED BY <2>2 DEF TextOf, Range
<1> QED BY <1>2, <1>3, <1>4

(* A command makes no calls but those of a rescan. *)
LEMMA Commanded ==
    ASSUME IInv, NEW cs, Command(cs), cs = <<>> \/ cs = FlushAndRescan
    PROVE  CallsKeep /\ shown # NoItem
<1>1. /\ calls = <<>> /\ shown # NoItem /\ calls' = cs
      /\ save' = NotSaved
  BY DEF Command, Idle, Calls
<1>2. /\ CallsInv(cs)
      /\ \A i \in 1 .. Len(cs) : cs[i][1] \in {"Rescan", "Rescan2", "UpdateChangedItem"}
  <2>1. CASE cs = <<>>
    BY <2>1 DEF CallsInv
  <2>2. CASE cs = FlushAndRescan
    BY <2>2, RescanCalls, RescanCallsInv
  <2> QED BY <2>1, <2>2
<1>3. ASSUME cs # <<>>
      PROVE  /\ cs[1][1] \in {"Rescan", "Rescan2", "UpdateChangedItem"}
             /\ cs[Len(cs)][1] \in {"Rescan", "Rescan2", "UpdateChangedItem"}
             /\ Head(cs) = cs[1]
  <2>1. cs \in Seq(Call)
    BY <1>2 DEF CallsInv
  <2>2. 1 \in 1 .. Len(cs) /\ Len(cs) \in 1 .. Len(cs) /\ Head(cs) = cs[1]
    BY <1>3, <2>1
  <2> QED BY <1>2, <2>2
<1>4. SaveInv'
  BY <1>1, <1>3 DEF SaveInv, Calling
<1>5. PendingInv'
  BY <1>1, <1>3 DEF PendingInv
<1>6. Overwrites
  BY <1>1 DEF Overwrites, Calling
<1>7. save' \in [success : BOOLEAN, result : BOOLEAN]
  BY <1>1 DEF NotSaved
<1> QED BY <1>1, <1>2, <1>4, <1>5, <1>6, <1>7 DEF CallsKeep

(* A call that saves nothing makes no calls but those of a rescan and the  *)
(* update of the item.                                                     *)
LEMMA Returned ==
    ASSUME IInv, NEW op, NEW s, Calling(op, s), op \notin {"DoSave", "SaveToFile"},
           NEW made \in Seq(Call),
           \A i \in 1 .. Len(made) :
              /\ made[i][1] \in {"Rescan", "Rescan2", "UpdateChangedItem"}
              /\ made[i][1] = "Rescan" => i < Len(made),
           NEW given, agreed \subseteq given, Return(made, save, given),
           shown' = shown, \A t \in Sides : pane'[t].m_bModified => pane[t].m_bModified
    PROVE  CallsKeep
<1> DEFINE new == made \o Tail(calls)
<1>1. CallsInv(calls) /\ save \in [success : BOOLEAN, result : BOOLEAN]
  BY DEF IInv, WindowInv
<1>2. /\ calls # <<>> /\ Len(calls) \in Nat \ {0} /\ calls[1][1] = op
      /\ calls[1][1] \notin {"DoSave", "SaveToFile"}
  BY <1>1, HeadOfCalls
<1>3. /\ calls' = new /\ (new # <<>> => save' = save /\ agreed' = given)
      /\ (new = <<>> => save' = NotSaved)
  BY DEF Return, Calls
<1>4. CallsInv(new) /\ (Tail(calls) # <<>> => new[Len(new)] = calls[Len(calls)])
  BY <1>1, <1>2, ReturnKeeps
<1>5. ASSUME new # <<>>
      PROVE  new[1][1] # "SaveToFile" /\ Head(new) = new[1]
  <2>1. CallsInv(Tail(calls)) /\ Len(Tail(calls)) = Len(calls) - 1
        /\ \A i \in 1 .. Len(calls) - 1 : Tail(calls)[i] = calls[i + 1]
    BY <1>1, <1>2, TailKeeps
  <2>2. Tail(calls) \in Seq(Call) /\ new \in Seq(Call)
    BY <1>4, <2>1 DEF CallsInv
  <2>3. Head(new) = new[1]
    <3> HIDE DEF new
    <3> QED BY <1>5, <2>2
  <2>4. CASE made = <<>>
    <3>1. new = Tail(calls)
      BY <2>2, <2>4
    <3>2. 1 \in 1 .. Len(calls) - 1 /\ Len(calls) \in Nat
      <4> DEFINE rest == Tail(calls)
      <4>1. rest # <<>> /\ rest \in Seq(Call) /\ Len(rest) = Len(calls) - 1
        BY <1>5, <2>1, <2>2, <3>1
      <4>2. Len(calls) \in Nat
        BY <1>2
      <4> HIDE DEF rest
      <4> QED BY <4>1, <4>2
    <3>3. new[1] = calls[2] /\ 2 \in 1 .. Len(calls)
      BY <2>1, <3>1, <3>2
    <3>4. calls[2][1] # "SaveToFile"
      BY <1>1, <3>3 DEF CallsInv
    <3> QED BY <2>3, <3>3, <3>4
  <2>5. CASE made # <<>>
    <3>1. 1 \in 1 .. Len(made)
      BY <2>5
    <3>2. new[1] = made[1]
      BY <2>2, <3>1
    <3> QED BY <2>3, <3>1, <3>2
  <2> QED BY <2>4, <2>5
<1>6. ASSUME new # <<>>, new[Len(new)][1] \in {"ReloadDoc", "Close"}
      PROVE  calls[Len(calls)][1] \in {"ReloadDoc", "Close"}
  <2>1. Tail(calls) # <<>>
    <3>1. ASSUME Tail(calls) = <<>>
          PROVE  FALSE
      <4>1. new = made
        BY <3>1, ConcatEmptySeq
      <4>2. Len(made) \in 1 .. Len(made)
        BY <1>6, <4>1
      <4> QED BY <1>6, <4>1, <4>2
    <3> QED BY <3>1
  <2> QED BY <1>4, <1>6, <2>1
<1> HIDE DEF new
<1>7. ASSUME NEW t \in Sides, NEW i \in 1 .. Len(calls)
      PROVE  calls[i] \notin {<<"DoSave", t>>, <<"SaveToFile", t>>}
  <2>1. calls[i][1] = "SaveToFile" => i = 1
    BY <1>1 DEF CallsInv
  <2>2. calls[i][1] = "DoSave" /\ i # 1 => calls[1][1] \in {"DoSave", "SaveToFile"}
    <3>1. i # 1 => 1 \in 1 .. i - 1
      BY <1>2
    <3> QED BY <1>1, <3>1 DEF CallsInv
  <2> QED BY <1>2, <2>1, <2>2
<1>8. SaveInv'
  BY <1>3, <1>5 DEF SaveInv, Calling
<1>9. PendingInv'
  <2> SUFFICES ASSUME shown' # NoItem, calls' # <<>>,
                      calls'[Len(calls')][1] \in {"ReloadDoc", "Close"}, save'.result,
                      NEW t \in Sides, pane'[t].m_bModified
               PROVE  {<<"edits", t>>, <<"declined", t>>} \intersect agreed' # {}
    BY DEF PendingInv
  <2>1. /\ shown # NoItem /\ calls # <<>> /\ calls[Len(calls)][1] \in {"ReloadDoc", "Close"}
        /\ save.result /\ pane[t].m_bModified /\ agreed \subseteq agreed'
    BY <1>2, <1>3, <1>6
  <2>2. {<<"edits", t>>, <<"declined", t>>} \intersect agreed # {}
    BY <1>7, <2>1 DEF IInv, PendingInv
  <2> QED BY <2>1, <2>2
<1>10. Overwrites
  <2> SUFFICES ASSUME NEW t \in Sides, Calling("SaveToFile", t)
               PROVE  FALSE
    BY DEF Overwrites
  <2>1. calls[1][1] = "SaveToFile"
    BY <1>1, HeadOfCalls
  <2> QED BY <1>2, <2>1
<1>11. save' \in [success : BOOLEAN, result : BOOLEAN]
  <2>1. NotSaved \in [success : BOOLEAN, result : BOOLEAN]
    BY DEF NotSaved
  <2>2. save' = save \/ save' = NotSaved
    BY <1>3
  <2> QED BY <1>1, <2>1, <2>2, Zenon
<1> QED BY <1>3, <1>4, <1>8, <1>9, <1>10, <1>11 DEF CallsKeep

(* A call that makes no further calls                                      *)
LEMMA ReturnedOnly ==
    ASSUME IInv, NEW op, NEW s, Calling(op, s), op \notin {"DoSave", "SaveToFile"},
           NEW given, agreed \subseteq given, Return(<<>>, save, given),
           shown' = shown, \A t \in Sides : pane'[t].m_bModified => pane[t].m_bModified
    PROVE  CallsKeep
<1> DEFINE made == <<>>
<1>1. made \in Seq(Call) /\ 1 .. Len(made) = {} /\ Return(made, save, given)
  OBVIOUS
<1> HIDE DEF made
<1> QED BY <1>1, Returned

-----------------------------------------------------------------------------
(* Steps that only change the calls *)

StepKeeps == IInv' /\ Overwrites /\ KeepsText

(* Calls are those of an open window.                                      *)
LEMMA WindowIsOpen ==
    ASSUME IInv, NEW op, NEW s, Calling(op, s)
    PROVE  shown # NoItem
BY DEF IInv, WindowInv, Calling

(* A step of the file window keeps what its parts keep.                    *)
LEMMA StepOfWindow ==
    ASSUME IInv, FilesInv', UNCHANGED rows, DOMAIN items' = DOMAIN items,
           shown' \in Items, PanesInv', m_bLimited' \in BOOLEAN,
           undoTgt' \in Seq(Sides), curUndo' \in 0 .. Len(undoTgt'),
           CallsKeep, KeepsText
    PROVE  StepKeeps
<1>1. RowsHaveItems'
  BY DEF IInv, RowsHaveItems
<1>2. WindowInv'
  BY WindowAssumption DEF WindowInv, CallsKeep
<1> QED BY <1>1, <1>2 DEF StepKeeps, IInv, CallsKeep

(* A step that only changes the calls                                      *)
LEMMA SameWindow ==
    ASSUME IInv, UNCHANGED <<files, rows, shown, pane, undoTgt, curUndo, m_bLimited>>,
           shown # NoItem, CallsKeep
    PROVE  StepKeeps
<1>1. FilesInv'
  BY SameFiles DEF files
<1>2. PanesInv' /\ KeepsText
  BY SamePanes DEF files
<1>3. /\ items' = items /\ shown' \in Items /\ m_bLimited' \in BOOLEAN
      /\ undoTgt' \in Seq(Sides) /\ curUndo' \in 0 .. Len(undoTgt')
  BY DEF IInv, WindowInv, files
<1> QED BY <1>1, <1>2, <1>3, StepOfWindow

(* Refreshing asks for a rescan.                                           *)
LEMMA OnRefreshKeeps ==
    ASSUME IInv, OnRefresh, UNCHANGED rows
    PROVE  StepKeeps
<1>1. CallsKeep /\ shown # NoItem
  BY Commanded DEF OnRefresh
<1> QED BY <1>1, SameWindow DEF OnRefresh, window

(* A rescan finds a file unchanged.                                        *)
LEMMA RescanNothingNewKeeps ==
    ASSUME IInv, NEW s \in Sides, RescanNothingNew(s), UNCHANGED rows
    PROVE  StepKeeps
<1>1. /\ Calling("Rescan", s) /\ Return(<<>>, save, agreed)
      /\ UNCHANGED <<files, shown, pane, undoTgt, curUndo, m_bLimited>>
  BY DEF RescanNothingNew, window
<1>2. agreed \subseteq agreed /\ \A t \in Sides : pane'[t].m_bModified => pane[t].m_bModified
  BY <1>1
<1>3. CallsKeep
  BY <1>1, <1>2, ReturnedOnly
<1> QED BY <1>1, <1>3, SameWindow, WindowIsOpen

(* A save is followed by a rescan and the update of the item.              *)
LEMMA AfterSaveKeeps ==
    ASSUME IInv, AfterSave, UNCHANGED rows
    PROVE  StepKeeps
<1> DEFINE rescan == IF \E s \in Sides : pane[s].m_bEditAfterRescan THEN FlushAndRescan ELSE <<>>
           made == IF save.success THEN rescan \o <<<<"UpdateChangedItem", 0>>>> ELSE <<>>
<1>1. /\ Calling("AfterSave", 0) /\ Return(made, save, agreed)
      /\ UNCHANGED <<files, shown, pane, undoTgt, curUndo, m_bLimited>>
  BY DEF AfterSave, window
<1>2. /\ made \in Seq(Call)
      /\ \A i \in 1 .. Len(made) :
            /\ made[i][1] \in {"Rescan", "Rescan2", "UpdateChangedItem"}
            /\ made[i][1] = "Rescan" => i < Len(made)
  <2>1. CASE made = <<>>
    BY <2>1
  <2>2. CASE made = FlushAndRescan \o <<<<"UpdateChangedItem", 0>>>>
    BY <2>2, RescanCalls
  <2>3. CASE made = <<>> \o <<<<"UpdateChangedItem", 0>>>>
    <3>1. made = <<<<"UpdateChangedItem", 0>>>>
      BY <2>3
    <3> DEFINE update == <<<<"UpdateChangedItem", 0>>>>
    <3>2. update \in Seq(Call) /\ Len(update) = 1 /\ update[1][1] = "UpdateChangedItem"
      BY DEF Call
    <3>3. made = update
      BY <3>1
    <3> HIDE DEF made, update
    <3>4. made \in Seq(Call) /\ Len(made) = 1 /\ made[1][1] = "UpdateChangedItem"
      BY <3>2, <3>3
    <3>5. \A i \in 1 .. Len(made) : made[i][1] = "UpdateChangedItem"
      BY <3>4
    <3> QED BY <3>4, <3>5
  <2> QED BY <2>1, <2>2, <2>3
<1> HIDE DEF made
<1>3. agreed \subseteq agreed /\ \A t \in Sides : pane'[t].m_bModified => pane[t].m_bModified
  BY <1>1
<1>4. CallsKeep
  BY <1>1, <1>2, <1>3, Returned
<1> QED BY <1>1, <1>4, SameWindow, WindowIsOpen

(* The panes in S are saved first, and the user gives up the others. *)
LEMMA SavesAsked ==
    ASSUME IInv, Idle, NEW S, NEW then \in Seq(Call), Len(then) <= 1,
           \A i \in 1 .. Len(then) : then[i][1] \in {"ReloadDoc", "Close"},
           NEW given, Calls((Saves(S) \o <<<<"AfterSave", 0>>>>) \o then, NotSaved, given),
           \A s \in Sides : pane'[s].m_bModified =>
              then = <<>> \/ s \in S \/ <<"edits", s>> \in given
    PROVE  CallsKeep
<1> DEFINE cs == (Saves(S) \o <<<<"AfterSave", 0>>>>) \o then
<1>1. /\ CallsInv(cs) /\ cs # <<>> /\ Head(cs)[1] # "SaveToFile"
      /\ then = <<>> => cs[Len(cs)][1] = "AfterSave"
      /\ \A s \in Sides \intersect S : \E i \in 1 .. Len(cs) : cs[i] = <<"DoSave", s>>
  BY SaveCalls
<1> HIDE DEF cs
<1>2. calls' = cs /\ save' = NotSaved /\ agreed' = given
  BY <1>1 DEF Calls, cs
<1>3. SaveInv'
  BY <1>1, <1>2 DEF SaveInv, Calling
<1>4. PendingInv'
  <2> SUFFICES ASSUME cs[Len(cs)][1] \in {"ReloadDoc", "Close"},
                      NEW s \in Sides, pane'[s].m_bModified
               PROVE  \/ \E i \in 1 .. Len(cs) : cs[i] \in {<<"DoSave", s>>, <<"SaveToFile", s>>}
                      \/ {<<"edits", s>>, <<"declined", s>>} \intersect given # {}
    BY <1>2 DEF PendingInv
  <2>1. then # <<>>
    BY <1>1
  <2>2. s \in S \/ <<"edits", s>> \in given
    BY <2>1
  <2> QED BY <1>1, <2>2
<1>5. Overwrites
  BY DEF Overwrites, Calling, Idle
<1>6. save' \in [success : BOOLEAN, result : BOOLEAN]
  BY <1>2 DEF NotSaved
<1> QED BY <1>1, <1>2, <1>3, <1>4, <1>5, <1>6 DEF CallsKeep

(* Saving asks for the saves of the modified panes.                        *)
LEMMA OnFileSaveKeeps ==
    ASSUME IInv, NEW S \in SUBSET Sides, OnFileSave(S), UNCHANGED rows
    PROVE  StepKeeps
<1> DEFINE then == <<>>
           saves == Saves(S) \o <<<<"AfterSave", 0>>>>
<1>1. /\ Idle /\ Calls(saves, NotSaved, {})
      /\ UNCHANGED <<files, shown, pane, undoTgt, curUndo, m_bLimited>>
  BY DEF OnFileSave, Command, window
<1>2. then \in Seq(Call) /\ Len(then) = 0 /\ 1 .. Len(then) = {} /\ then = <<>>
  OBVIOUS
<1> HIDE DEF then
<1>3. saves \o then = saves
  BY <1>2, ConcatEmptySeq
<1>4. Len(then) <= 1
  BY <1>2
<1>5. CallsKeep
  BY <1>1, <1>2, <1>3, <1>4, SavesAsked
<1>6. shown # NoItem
  BY <1>1 DEF Idle
<1> QED BY <1>1, <1>5, <1>6, SameWindow

(* What closes or reloads may follow at once, or after the saves. *)
LEMMA ModifiedSaved ==
    ASSUME IInv, NEW op \in {"ReloadDoc", "Close"}, NEW n \in 0 .. 2,
           SaveModified(<<<<op, n>>>>), pane' = pane
    PROVE  CallsKeep /\ shown # NoItem
<1> DEFINE then == <<<<op, n>>>>
           modified == {s \in Sides : pane[s].m_bModified}
<1>1. Idle /\ shown # NoItem
  BY DEF SaveModified, Idle
<1>2. /\ then \in Seq(Call) /\ Len(then) = 1 /\ then[1] = <<op, n>> /\ then # <<>>
      /\ Head(then)[1] # "SaveToFile"
  BY DEF Call
<1>3. PICK S \in SUBSET modified :
          Calls((IF modified = {} THEN <<>> ELSE Saves(S) \o <<<<"AfterSave", 0>>>>) \o then,
                NotSaved, {<<"edits", s>> : s \in modified \ S})
  BY DEF SaveModified
<1>4. Len(then) <= 1 /\ \A i \in 1 .. Len(then) : then[i][1] \in {"ReloadDoc", "Close"}
  <2> HIDE DEF then
  <2> QED BY <1>2
<1> HIDE DEF then
<1>5. CASE modified # {}
  <2> DEFINE given == {<<"edits", s>> : s \in modified \ S}
  <2>1. Calls((Saves(S) \o <<<<"AfterSave", 0>>>>) \o then, NotSaved, given)
    BY <1>3, <1>5
  <2>2. \A s \in Sides : pane'[s].m_bModified => s \in S \/ <<"edits", s>> \in given
    OBVIOUS
  <2> HIDE DEF given
  <2>3. CallsKeep
    BY <1>1, <1>2, <1>4, <2>1, <2>2, SavesAsked
  <2> QED BY <1>1, <2>3
<1>6. CASE modified = {}
  <2>1. Calls(<<>> \o then, NotSaved, {<<"edits", s>> : s \in modified \ S})
    BY <1>3, <1>6
  <2>2. <<>> \o then = then
    BY <1>2, ConcatEmptySeq
  <2>3. calls' = then /\ save' = NotSaved
    BY <1>2, <2>1, <2>2 DEF Calls
  <2>4. CallsInv(then)
    <3>1. \A i \in 1 .. Len(then) : i = 1 /\ then[i][1] \in {"ReloadDoc", "Close"}
      BY <1>2
    <3> QED BY <1>2, <3>1 DEF CallsInv
  <2>5. SaveInv'
    BY <1>2, <2>3 DEF SaveInv, Calling
  <2>6. PendingInv'
    BY <1>6 DEF PendingInv
  <2>7. Overwrites
    BY <1>1 DEF Overwrites, Calling, Idle
  <2>8. save' \in [success : BOOLEAN, result : BOOLEAN]
    BY <2>3 DEF NotSaved
  <2> QED BY <1>1, <2>3, <2>4, <2>5, <2>6, <2>7, <2>8 DEF CallsKeep
<1> QED BY <1>5, <1>6

(* A reload in another encoding asks about the modified panes first.       *)
LEMMA SwitchEncodingReloadKeeps ==
    ASSUME IInv, NEW s \in Sides, SwitchEncodingReload(s), UNCHANGED rows
    PROVE  StepKeeps
<1>1. /\ SaveModified(<<<<"ReloadDoc", s>>>>)
      /\ UNCHANGED <<files, shown, pane, undoTgt, curUndo, m_bLimited>>
  BY DEF SwitchEncodingReload, window
<1>2. s \in 0 .. 2
  BY DEF Sides
<1>3. CallsKeep /\ shown # NoItem
  BY <1>1, <1>2, ModifiedSaved
<1> QED BY <1>1, <1>3, SameWindow

(* Closing asks about the modified panes first.                            *)
LEMMA OnCloseKeeps ==
    ASSUME IInv, OnClose, UNCHANGED rows
    PROVE  StepKeeps
<1>1. /\ SaveModified(<<<<"Close", 0>>>>)
      /\ UNCHANGED <<files, shown, pane, undoTgt, curUndo, m_bLimited>>
  BY DEF OnClose, window
<1>2. CallsKeep /\ shown # NoItem
  BY <1>1, ModifiedSaved
<1> QED BY <1>1, <1>2, SameWindow

(* After a save has been made or given up, others follow. *)
LEMMA SaveIsFollowed ==
    ASSUME CallsInv(calls), NEW op \in {"DoSave", "SaveToFile"}, NEW s, Calling(op, s)
    PROVE  LET rest == Tail(calls)
           IN  /\ CallsInv(rest) /\ rest # <<>> /\ <<>> \o rest = rest
               /\ Head(rest)[1] # "SaveToFile"
               /\ rest[Len(rest)] = calls[Len(calls)]
               /\ \A i \in 2 .. Len(calls) : i - 1 \in 1 .. Len(rest) /\ rest[i - 1] = calls[i]
<1> DEFINE rest == Tail(calls)
<1>1. calls # <<>> /\ Len(calls) \in Nat \ {0} /\ calls[1][1] = op
  BY HeadOfCalls
<1>2. /\ CallsInv(rest) /\ Len(rest) = Len(calls) - 1
      /\ \A i \in 1 .. Len(calls) - 1 : rest[i] = calls[i + 1]
      /\ rest # <<>> => rest[Len(rest)] = calls[Len(calls)]
  BY <1>1, TailKeeps, SMTT(30)
<1>3. rest \in Seq(Call)
  BY <1>2 DEF CallsInv
<1>4. 1 < Len(calls)
  BY <1>1 DEF CallsInv
<1>5. <<>> \o rest = rest
  <2> HIDE DEF rest
  <2> QED BY <1>3, ConcatEmptySeq
<1>6. rest # <<>>
  <2> HIDE DEF rest
  <2> QED BY <1>1, <1>2, <1>3, <1>4
<1>7. Head(rest)[1] # "SaveToFile"
  <2>1. Head(rest) = rest[1] /\ 1 \in 1 .. Len(calls) - 1 /\ 2 \in 1 .. Len(calls)
    BY <1>1, <1>3, <1>4, <1>6
  <2>2. Head(rest) = calls[2]
    BY <1>2, <2>1
  <2> QED BY <2>1, <2>2 DEF CallsInv
<1>8. ASSUME NEW i \in 2 .. Len(calls)
      PROVE  i - 1 \in 1 .. Len(rest) /\ rest[i - 1] = calls[i]
  <2>1. i - 1 \in 1 .. Len(calls) - 1 /\ (i - 1) + 1 = i
    BY <1>1
  <2> QED BY <1>2, <2>1
<1> QED BY <1>2, <1>5, <1>6, <1>7, <1>8

(* A file is checked before it is saved over.                              *)
LEMMA DoSaveKeeps ==
    ASSUME IInv, NEW s \in Sides, DoSave(s), UNCHANGED rows
    PROVE  StepKeeps
<1> DEFINE path == pane[s].m_strPath
           changed == Exists(path) /\ ~ pane[s].m_pSaveFileInfo
<1>1. /\ Calling("DoSave", s)
      /\ UNCHANGED <<files, shown, pane, undoTgt, curUndo, m_bLimited>>
  BY DEF DoSave, window
<1>2. /\ CallsInv(calls) /\ shown # NoItem /\ save \in [success : BOOLEAN, result : BOOLEAN]
  BY <1>1, WindowIsOpen DEF IInv, WindowInv
<1>3. calls # <<>> /\ Len(calls) \in Nat \ {0} /\ calls[1] = <<"DoSave", s>> /\ calls[1][1] = "DoSave"
  BY <1>1, <1>2, HeadOfCalls
<1>4. Overwrites
  <2> SUFFICES ASSUME NEW t \in Sides, Calling("SaveToFile", t)
               PROVE  FALSE
    BY DEF Overwrites
  <2>1. calls[1][1] = "SaveToFile"
    BY <1>2, HeadOfCalls
  <2> QED BY <1>3, <2>1
<1>5. CASE Return(<<<<"SaveToFile", s>>>>, save,
                  agreed \union IF changed THEN {<<"disk", path>>} ELSE {})
  <2> DEFINE all == <<<<"SaveToFile", s>>>> \o Tail(calls)
             given == agreed \union IF changed THEN {<<"disk", path>>} ELSE {}
  <2>1. /\ CallsInv(all) /\ all # <<>> /\ all[Len(all)] = calls[Len(calls)]
        /\ all[1] = <<"SaveToFile", s>>
        /\ \A i \in 2 .. Len(calls) : i \in 1 .. Len(all) /\ all[i] = calls[i]
    BY <1>2, <1>3, SaveToFileNext
  <2>2. all \in Seq(Call)
    BY <2>1 DEF CallsInv
  <2> HIDE DEF all, given
  <2>3. calls' = all /\ save' = save /\ agreed' = given
    BY <1>5, <2>1 DEF Return, Calls, all, given
  <2>4. SaveInv'
    <3> SUFFICES ASSUME NEW t \in Sides, Head(all) = <<"SaveToFile", t>>
                 PROVE  \/ disk[pane[t].m_strPath] \in {Absent, pane[t].loaded}
                        \/ <<"disk", pane[t].m_strPath>> \in given
      BY <1>1, <2>3 DEF SaveInv, Calling, files
    <3>1. t = s
      BY <2>1, <2>2
    <3>2. CASE changed
      BY <3>1, <3>2 DEF given
    <3>3. CASE ~ changed
      <4>1. PaneInv(pane[s], disk, m_bLimited)
        BY <1>2 DEF IInv, WindowInv, PanesInv
      <4> QED BY <3>1, <3>3, <4>1 DEF PaneInv, Exists
    <3> QED BY <3>2, <3>3
  <2>5. PendingInv'
    <3> SUFFICES ASSUME calls[Len(calls)][1] \in {"ReloadDoc", "Close"}, save.result,
                        NEW t \in Sides, pane[t].m_bModified
                 PROVE  \/ \E i \in 1 .. Len(all) : all[i] \in {<<"DoSave", t>>, <<"SaveToFile", t>>}
                        \/ {<<"edits", t>>, <<"declined", t>>} \intersect given # {}
      BY <1>1, <2>1, <2>3 DEF PendingInv
    <3>1. CASE {<<"edits", t>>, <<"declined", t>>} \intersect agreed # {}
      BY <3>1 DEF given
    <3>2. CASE \E i \in 1 .. Len(calls) : calls[i] \in {<<"DoSave", t>>, <<"SaveToFile", t>>}
      <4>1. PICK i \in 1 .. Len(calls) : calls[i] \in {<<"DoSave", t>>, <<"SaveToFile", t>>}
        BY <3>2
      <4>2. CASE i = 1
        <5>1. t = s
          BY <1>3, <4>1, <4>2
        <5>2. 1 \in 1 .. Len(all)
          BY <2>1, <2>2
        <5> QED BY <2>1, <5>1, <5>2
      <4>3. CASE i # 1
        <5>1. i \in 2 .. Len(calls)
          BY <1>3, <4>3
        <5> QED BY <2>1, <4>1, <5>1
      <4> QED BY <4>2, <4>3
    <3> QED BY <1>2, <1>3, <3>1, <3>2 DEF IInv, PendingInv
  <2>6. CallsKeep
    BY <1>2, <1>4, <2>1, <2>3, <2>4, <2>5 DEF CallsKeep
  <2> QED BY <1>1, <1>2, <2>6, SameWindow
<1>6. CASE Return(<<>>, save, agreed \union {<<"declined", s>>})
  <2> DEFINE rest == Tail(calls)
  <2>1. /\ CallsInv(rest) /\ rest # <<>> /\ <<>> \o rest = rest
        /\ Head(rest)[1] # "SaveToFile"
        /\ rest[Len(rest)] = calls[Len(calls)]
        /\ \A i \in 2 .. Len(calls) : i - 1 \in 1 .. Len(rest) /\ rest[i - 1] = calls[i]
    BY <1>1, <1>2, SaveIsFollowed
  <2>2. calls' = rest /\ save' = save /\ agreed' = agreed \union {<<"declined", s>>}
    BY <1>6, <2>1 DEF Return, Calls
  <2> HIDE DEF rest
  <2>3. SaveInv'
    BY <2>1, <2>2 DEF SaveInv, Calling
  <2>4. PendingInv'
    <3> SUFFICES ASSUME calls[Len(calls)][1] \in {"ReloadDoc", "Close"}, save.result,
                        NEW t \in Sides, pane[t].m_bModified
                 PROVE  \/ \E i \in 1 .. Len(rest) : rest[i] \in {<<"DoSave", t>>, <<"SaveToFile", t>>}
                        \/ {<<"edits", t>>, <<"declined", t>>}
                              \intersect (agreed \union {<<"declined", s>>}) # {}
      BY <1>1, <2>1, <2>2 DEF PendingInv
    <3>1. CASE {<<"edits", t>>, <<"declined", t>>} \intersect agreed # {}
      BY <3>1
    <3>2. CASE \E i \in 1 .. Len(calls) : calls[i] \in {<<"DoSave", t>>, <<"SaveToFile", t>>}
      <4>1. PICK i \in 1 .. Len(calls) : calls[i] \in {<<"DoSave", t>>, <<"SaveToFile", t>>}
        BY <3>2
      <4>2. CASE i = 1
        <5>1. t = s
          BY <1>3, <4>1, <4>2
        <5> QED BY <5>1
      <4>3. CASE i # 1
        <5>1. i \in 2 .. Len(calls)
          BY <1>3, <4>3
        <5> QED BY <2>1, <4>1, <5>1
      <4> QED BY <4>2, <4>3
    <3> QED BY <1>2, <1>3, <3>1, <3>2 DEF IInv, PendingInv
  <2>5. CallsKeep
    BY <1>2, <1>4, <2>1, <2>2, <2>3, <2>4 DEF CallsKeep
  <2> QED BY <1>1, <1>2, <2>5, SameWindow
<1> QED BY <1>5, <1>6 DEF DoSave

-----------------------------------------------------------------------------
(* Steps that write a pane's text *)

(* What a pane remembers when files have changed *)
LEMMA NoticedPane ==
    ASSUME m_bLimited \in BOOLEAN, NEW panes, NEW changed, NEW s, NEW t \in Sides, t # s,
           PaneInv(panes[t], disk, m_bLimited),
           \A path \in Paths : path \notin changed => disk'[path] = disk[path],
           pane' = Noticed(panes, changed, s)
    PROVE  /\ PaneInv(pane'[t], disk', m_bLimited)
           /\ pane'[t].m_strPath = panes[t].m_strPath /\ pane'[t].log = panes[t].log
           /\ pane'[t].loaded = panes[t].loaded
           /\ pane'[t].m_bModified <=> panes[t].m_bModified
<1> DEFINE p == panes[t]
           q == pane'[t]
<1>1. p.m_strPath \in Paths
  BY DEF PaneInv, IsPane, FilePaths, Paths
<1>2. pane'[t] = IF t # s /\ panes[t].m_strPath \in changed THEN Outdated(panes[t]) ELSE panes[t]
  BY DEF Noticed, Outdated
<1>3. \/ q = Outdated(p)
      \/ q = p /\ disk'[p.m_strPath] = disk[p.m_strPath]
  BY <1>1, <1>2
<1>4. PaneInv(p, disk, m_bLimited)
  OBVIOUS
<1> HIDE DEF p, q
<1>5. /\ PaneInv(q, disk', m_bLimited)
      /\ q.m_strPath = p.m_strPath /\ q.log = p.log /\ q.loaded = p.loaded
      /\ q.m_bModified <=> p.m_bModified
  <2> DEFINE new == disk'
  <2>1. q = Outdated(p) \/ (q = p /\ new[p.m_strPath] = disk[p.m_strPath])
    BY <1>3
  <2> HIDE DEF new
  <2>2. m_bLimited \in BOOLEAN /\ PaneInv(p, disk, m_bLimited)
    BY <1>4
  <2>3. Aware(q, p, new, m_bLimited)
    BY <2>1, <2>2, NoticedKeeps, Zenon
  <2>4. /\ PaneInv(q, new, m_bLimited)
        /\ q.m_strPath = p.m_strPath /\ q.log = p.log /\ q.loaded = p.loaded
        /\ q.m_bModified <=> p.m_bModified
    BY <2>3, Zenon DEF Aware
  <2> QED BY <2>4, Zenon DEF new
<1> QED BY <1>5 DEF p, q

(* Writing a pane to its file or to another                                *)
LEMMA WriteFileKeeps ==
    ASSUME IInv, shown # NoItem, NEW s \in Sides,
           NEW path \in {pane[s].m_strPath} \union Elsewhere, WriteFile(s, path)
    PROVE  /\ FilesInv' /\ PanesInv' /\ KeepsText
           /\ \A p \in Paths : disk'[p] # disk[p] => p = path
           /\ ~ pane'[s].m_bModified
           /\ \A t \in Sides : pane'[t].m_bModified => pane[t].m_bModified
           /\ UNCHANGED <<items, shown, undoTgt, curUndo, m_bLimited>>
<1> DEFINE content == ContentOf(pane[s])
           saved == SavedTo(pane[s], path)
           panes == [pane EXCEPT ![s] = saved]
           new == [disk EXCEPT ![path] = content]
<1>1. /\ PanesInv /\ FilesInv /\ m_bLimited \in BOOLEAN
  BY DEF IInv, WindowInv
<1>2. /\ \A t \in Sides : PaneInv(pane[t], disk, m_bLimited)
      /\ pane = [t \in Sides |-> pane[t]]
  BY <1>1 DEF PanesInv
<1>3. /\ path \in FilePaths /\ path \in Paths /\ path \notin Folders \X Sides
  <2>1. path \in FilePaths
    BY <1>2 DEF PaneInv, IsPane, FilePaths
  <2> QED BY <2>1, FilesAssumption DEF FilePaths, Paths
<1>4. /\ disk \in [Paths -> {Absent, Dir} \union Contents]
      /\ DOMAIN items \subseteq Items /\ strayed \subseteq Items
      /\ \A i \in DOMAIN items :
            /\ items[i].sides \in (SUBSET Sides) \ {{}}
            /\ items[i].result \in {"nocmp", "same", "diff"}
            /\ items[i] = Item(items[i].sides, items[i].result)
      /\ \A p \in Paths : disk[p] = Dir => p \in Folders \X Sides
  BY <1>1 DEF FilesInv, FilesTypeOK
<1>5. /\ disk' = new /\ pane' = Noticed(panes, {path}, s)
      /\ strayed' = strayed \union ItemOf(path)
      /\ UNCHANGED <<items, shown, undoTgt, curUndo, m_bLimited>>
  BY DEF WriteFile
<1>6. content \in Contents
  <2>1. /\ pane[s].log \in Seq(Texts) /\ pane[s].marker \in 1 .. Len(pane[s].log)
        /\ pane[s].converted \in BOOLEAN /\ pane[s].whole \in BOOLEAN
        /\ pane[s].limited \in BOOLEAN
    BY <1>2 DEF PaneInv, IsPane
  <2>2. TextOf(pane[s]) \in Texts
    BY <2>1 DEF TextOf
  <2> QED BY <2>1, <2>2 DEF ContentOf, Contents
<1>7. FilesInv'
  <2> HIDE DEF content
  <2>1. disk' \in [Paths -> {Absent, Dir} \union Contents]
    BY <1>4, <1>5, <1>6
  <2>2. ASSUME NEW p \in Paths, disk'[p] = Dir
        PROVE  p \in Folders \X Sides
    BY <1>4, <1>5, <1>6, <2>2, FilesAssumption
  <2>3. strayed' \subseteq Items
    BY <1>3, <1>4, <1>5 DEF ItemOf
  <2> QED BY <1>4, <1>5, <2>1, <2>2, <2>3 DEF FilesInv, FilesTypeOK
<1>8. \A p \in Paths : p # path => disk'[p] = disk[p]
  BY <1>4, <1>5
<1>9. /\ PaneInv(saved, new, m_bLimited)
      /\ saved.m_strPath = path /\ saved.log = pane[s].log /\ ~ saved.m_bModified
  <2>1. /\ PaneInv(pane[s], disk, m_bLimited) /\ path \in DOMAIN disk /\ path \in FilePaths
        /\ m_bLimited \in BOOLEAN
    BY <1>1, <1>2, <1>3, <1>4
  <2> QED BY <2>1, SavedToKeeps DEF saved, new, content
<1> HIDE DEF saved, new
<1>10. panes[s] = saved /\ \A t \in Sides : t # s => panes[t] = pane[t]
  BY <1>2
<1> HIDE DEF panes
<1>11. pane'[s] = saved
  BY <1>5, <1>10 DEF Noticed
<1>12. ASSUME NEW t \in Sides, t # s
       PROVE  /\ PaneInv(pane'[t], disk', m_bLimited)
              /\ pane'[t].log = pane[t].log
              /\ pane'[t].m_bModified <=> pane[t].m_bModified
  <2>1. panes[t] = pane[t] /\ PaneInv(panes[t], disk, m_bLimited) /\ m_bLimited \in BOOLEAN
    BY <1>1, <1>2, <1>10, <1>12
  <2>2. \A p \in Paths : p \notin {path} => disk'[p] = disk[p]
    BY <1>8
  <2>3. /\ PaneInv(pane'[t], disk', m_bLimited) /\ pane'[t].log = panes[t].log
        /\ pane'[t].m_bModified <=> panes[t].m_bModified
    BY <1>5, <1>12, <2>1, <2>2, NoticedPane
  <2> QED BY <2>1, <2>3
<1>13. PanesInv'
  <2>1. pane' = [t \in Sides |-> pane'[t]]
    BY <1>5 DEF Noticed
  <2>2. \A t \in Sides : PaneInv(pane'[t], disk', m_bLimited')
    BY <1>5, <1>9, <1>11, <1>12
  <2> QED BY <2>1, <2>2 DEF PanesInv
<1>14. KeepsText
  <2>1. ASSUME NEW t \in Sides
        PROVE  TextOf(pane[t]) \in Range(pane'[t].log)
    <3>1. pane'[t].log = pane[t].log
      BY <1>9, <1>11, <1>12
    <3>2. pane[t].log \in Seq(Texts) /\ pane[t].marker \in 1 .. Len(pane[t].log)
      BY <1>2 DEF PaneInv, IsPane
    <3>3. pane[t].marker \in DOMAIN pane[t].log
      BY <3>2
    <3> QED BY <3>1, <3>3 DEF TextOf, Range
  <2> QED BY <2>1 DEF KeepsText
<1>15. \A t \in Sides : pane'[t].m_bModified => pane[t].m_bModified
  BY <1>9, <1>11, <1>12
<1> QED BY <1>5, <1>7, <1>8, <1>9, <1>11, <1>13, <1>14, <1>15

(* Saving elsewhere                                                        *)
LEMMA OnFileSaveAsKeeps ==
    ASSUME IInv, NEW s \in Sides, OnFileSaveAs(s), UNCHANGED rows
    PROVE  StepKeeps
<1>1. Command(<<>>)
  BY DEF OnFileSaveAs
<1>2. CallsKeep /\ shown # NoItem
  BY <1>1, Commanded
<1>3. PICK path \in {pane[s].m_strPath} \union Elsewhere : WriteFile(s, path)
  BY DEF OnFileSaveAs
<1>4. /\ FilesInv' /\ PanesInv' /\ KeepsText
      /\ UNCHANGED <<items, shown, undoTgt, curUndo, m_bLimited>>
  BY <1>2, <1>3, WriteFileKeeps
<1>5. /\ shown' \in Items /\ m_bLimited' \in BOOLEAN
      /\ undoTgt' \in Seq(Sides) /\ curUndo' \in 0 .. Len(undoTgt')
  BY <1>2, <1>4 DEF IInv, WindowInv
<1> QED BY <1>2, <1>4, <1>5, StepOfWindow

(* A rescan finds a file missing.                                          *)
LEMMA RescanFileGoneKeeps ==
    ASSUME IInv, NEW s \in Sides, RescanFileGone(s), UNCHANGED rows
    PROVE  StepKeeps
<1>1. Calling("Rescan", s) /\ shown # NoItem
  BY WindowIsOpen DEF RescanFileGone
<1>2. CASE \E path \in {pane[s].m_strPath} \union Elsewhere :
              /\ WriteFile(s, path)
              /\ Return(<<>>, save, agreed \union {<<"disk", path>>})
  <2>1. PICK path \in {pane[s].m_strPath} \union Elsewhere :
              /\ WriteFile(s, path)
              /\ Return(<<>>, save, agreed \union {<<"disk", path>>})
    BY <1>2
  <2>2. /\ FilesInv' /\ PanesInv' /\ KeepsText
        /\ \A t \in Sides : pane'[t].m_bModified => pane[t].m_bModified
        /\ UNCHANGED <<items, shown, undoTgt, curUndo, m_bLimited>>
    BY <1>1, <2>1, WriteFileKeeps
  <2>3. agreed \subseteq agreed \union {<<"disk", path>>}
    OBVIOUS
  <2>4. CallsKeep
    BY <1>1, <2>1, <2>2, <2>3, ReturnedOnly
  <2>5. /\ shown' \in Items /\ m_bLimited' \in BOOLEAN
        /\ undoTgt' \in Seq(Sides) /\ curUndo' \in 0 .. Len(undoTgt')
    BY <1>1, <2>2 DEF IInv, WindowInv
  <2> QED BY <2>2, <2>4, <2>5, StepOfWindow
<1>3. CASE /\ Calls(AfterRescan(s), save, agreed)
           /\ UNCHANGED <<files, shown, pane, undoTgt, curUndo, m_bLimited, compared, budget>>
  <2> DEFINE rest == AfterRescan(s)
             k == 5 - s
  <2>1. CallsInv(calls) /\ save \in [success : BOOLEAN, result : BOOLEAN]
    BY DEF IInv, WindowInv
  <2>2. /\ calls # <<>> /\ Len(calls) \in Nat \ {0} /\ calls[1] = <<"Rescan", s>>
        /\ calls[1][1] = "Rescan"
    BY <1>1, <2>1, HeadOfCalls
  <2>3. k \in Nat /\ k >= 2
    BY DEF Sides
  <2>4. /\ CallsInv(rest)
        /\ Len(rest) = IF k <= Len(calls) THEN Len(calls) - k + 1 ELSE 0
        /\ \A i \in 1 .. Len(rest) : rest[i] = calls[i + (k - 1)]
        /\ rest # <<>> => rest[Len(rest)] = calls[Len(calls)]
    BY <2>1, <2>2, <2>3, SuffixKeeps DEF AfterRescan
  <2>5. /\ calls' = rest /\ save' = (IF rest = <<>> THEN NotSaved ELSE save)
        /\ rest # <<>> => agreed' = agreed
    BY <1>3 DEF Calls
  <2> HIDE DEF rest, k
  <2>6. rest # <<>> => Head(rest)[1] # "SaveToFile"
    <3> SUFFICES ASSUME rest # <<>>
                 PROVE  Head(rest)[1] # "SaveToFile"
      OBVIOUS
    <3>1. rest \in Seq(Call)
      BY <2>4 DEF CallsInv
    <3>2. Head(rest) = rest[1] /\ 1 \in 1 .. Len(rest) /\ Len(rest) \in Nat /\ Len(rest) # 0
      BY <3>1
    <3>3. 1 + (k - 1) = k /\ k \in 1 .. Len(calls) /\ k # 1
      BY <2>2, <2>3, <2>4, <3>2
    <3>4. Head(rest) = calls[k]
      BY <2>4, <3>2, <3>3
    <3> QED BY <2>1, <3>3, <3>4 DEF CallsInv
  <2>7. SaveInv'
    BY <2>5, <2>6 DEF SaveInv, Calling
  <2>8. ASSUME NEW t \in Sides, NEW i \in 1 .. Len(calls)
        PROVE  calls[i] \notin {<<"DoSave", t>>, <<"SaveToFile", t>>}
    <3>1. calls[i][1] = "SaveToFile" => i = 1
      BY <2>1 DEF CallsInv
    <3>2. calls[i][1] = "DoSave" /\ i # 1 => calls[1][1] \in {"DoSave", "SaveToFile"}
      <4>1. i # 1 => 1 \in 1 .. i - 1
        BY <2>2
      <4> QED BY <2>1, <4>1 DEF CallsInv
    <3> QED BY <2>2, <3>1, <3>2
  <2>9. PendingInv'
    <3> SUFFICES ASSUME rest # <<>>, rest[Len(rest)][1] \in {"ReloadDoc", "Close"}, save.result,
                        NEW t \in Sides, pane[t].m_bModified
                 PROVE  {<<"edits", t>>, <<"declined", t>>} \intersect agreed # {}
      BY <1>3, <2>5 DEF PendingInv
    <3>1. calls[Len(calls)][1] \in {"ReloadDoc", "Close"}
      BY <2>4
    <3> QED BY <1>1, <2>2, <2>8, <3>1 DEF IInv, PendingInv
  <2>10. Overwrites
    <3> SUFFICES ASSUME NEW t \in Sides, Calling("SaveToFile", t)
                 PROVE  FALSE
      BY DEF Overwrites
    <3>1. calls[1][1] = "SaveToFile"
      BY <2>1, HeadOfCalls
    <3> QED BY <2>2, <3>1
  <2>11. save' \in [success : BOOLEAN, result : BOOLEAN]
    <3>1. NotSaved \in [success : BOOLEAN, result : BOOLEAN]
      BY DEF NotSaved
    <3> QED BY <2>1, <2>5, <3>1, Zenon
  <2>12. CallsKeep
    BY <2>4, <2>5, <2>7, <2>9, <2>10, <2>11 DEF CallsKeep
  <2> QED BY <1>1, <1>3, <2>12, SameWindow
<1> QED BY <1>2, <1>3 DEF RescanFileGone

(* Saving, or giving up a save                                             *)
LEMMA SaveToFileKeeps ==
    ASSUME IInv, NEW s \in Sides, SaveToFile(s), UNCHANGED rows
    PROVE  StepKeeps
<1> DEFINE rest == Tail(calls)
<1>1. Calling("SaveToFile", s) /\ shown # NoItem
  BY WindowIsOpen DEF SaveToFile
<1>2. /\ CallsInv(calls) /\ save \in [success : BOOLEAN, result : BOOLEAN]
      /\ SaveInv /\ PendingInv
  BY DEF IInv, WindowInv
<1>3. /\ calls # <<>> /\ Len(calls) \in Nat \ {0} /\ calls[1] = <<"SaveToFile", s>>
      /\ calls[1][1] = "SaveToFile"
  BY <1>1, <1>2, HeadOfCalls
<1>4. /\ CallsInv(rest) /\ rest # <<>> /\ <<>> \o rest = rest
      /\ Head(rest)[1] # "SaveToFile"
      /\ rest[Len(rest)] = calls[Len(calls)]
      /\ \A i \in 2 .. Len(calls) : i - 1 \in 1 .. Len(rest) /\ rest[i - 1] = calls[i]
  BY <1>1, <1>2, SaveIsFollowed
<1>5. ASSUME NEW saved, NEW given, Return(<<>>, saved, given)
      PROVE  calls' = rest /\ save' = saved /\ agreed' = given
  BY <1>4, <1>5 DEF Return, Calls
<1> HIDE DEF rest
<1>6. calls' = rest => SaveInv'
  BY <1>4 DEF SaveInv, Calling
<1>7. ASSUME NEW path \in {pane[s].m_strPath} \union Elsewhere, WriteFile(s, path),
             Return(<<>>, [save EXCEPT !.success = TRUE],
                    agreed \union ({<<"disk", path>>} \ {<<"disk", pane[s].m_strPath>>}))
      PROVE  StepKeeps
  <2>1. /\ FilesInv' /\ PanesInv' /\ KeepsText
        /\ \A p \in Paths : disk'[p] # disk[p] => p = path
        /\ ~ pane'[s].m_bModified
        /\ \A t \in Sides : pane'[t].m_bModified => pane[t].m_bModified
        /\ UNCHANGED <<items, shown, undoTgt, curUndo, m_bLimited>>
    BY <1>1, <1>7, WriteFileKeeps
  <2>2. /\ calls' = rest /\ save' = [save EXCEPT !.success = TRUE]
        /\ agreed' = agreed \union ({<<"disk", path>>} \ {<<"disk", pane[s].m_strPath>>})
    BY <1>5, <1>7
  <2>3. save' \in [success : BOOLEAN, result : BOOLEAN] /\ (save'.result => save.result)
    BY <1>2, <2>2
  <2>4. PendingInv'
    <3> SUFFICES ASSUME calls[Len(calls)][1] \in {"ReloadDoc", "Close"}, save.result,
                        NEW t \in Sides, t # s, pane[t].m_bModified
                 PROVE  \/ \E i \in 1 .. Len(rest) : rest[i] \in {<<"DoSave", t>>, <<"SaveToFile", t>>}
                        \/ {<<"edits", t>>, <<"declined", t>>} \intersect agreed # {}
      BY <1>4, <2>1, <2>2, <2>3, ZenonT(40) DEF PendingInv
    <3>1. CASE \E i \in 1 .. Len(calls) : calls[i] \in {<<"DoSave", t>>, <<"SaveToFile", t>>}
      <4>1. PICK i \in 1 .. Len(calls) : calls[i] \in {<<"DoSave", t>>, <<"SaveToFile", t>>}
        BY <3>1
      <4>2. i # 1
        BY <1>3, <4>1
      <4>3. i \in 2 .. Len(calls)
        BY <1>3, <4>2
      <4> QED BY <1>4, <4>1, <4>3
    <3> QED BY <1>1, <1>2, <1>3, <3>1 DEF PendingInv
  <2>5. Overwrites
    <3> SUFFICES ASSUME NEW t \in Sides, Calling("SaveToFile", t),
                        NEW p \in Paths, disk'[p] # disk[p]
                 PROVE  \/ disk[p] \in {Absent, pane[t].loaded}
                        \/ {<<"disk", p>>, <<"late", p>>} \intersect agreed' # {}
      BY DEF Overwrites
    <3>1. t = s /\ p = path
      <4>1. calls[1] = <<"SaveToFile", t>>
        BY <1>2, HeadOfCalls
      <4> QED BY <1>3, <2>1, <4>1
    <3>2. CASE path = pane[s].m_strPath
      <4>1. \/ disk[path] \in {Absent, pane[s].loaded}
            \/ {<<"disk", path>>, <<"late", path>>} \intersect agreed # {}
        BY <1>1, <1>2, <3>2 DEF SaveInv
      <4> QED BY <2>2, <3>1, <4>1
    <3>3. CASE path # pane[s].m_strPath
      <4>1. <<"disk", path>> # <<"disk", pane[s].m_strPath>>
        BY <3>3
      <4>2. <<"disk", path>> \in agreed'
        BY <2>2, <4>1, Zenon
      <4> QED BY <3>1, <4>2
    <3> QED BY <3>2, <3>3
  <2>6. CallsKeep
    BY <1>4, <1>6, <2>2, <2>3, <2>4, <2>5 DEF CallsKeep
  <2>7. /\ shown' \in Items /\ m_bLimited' \in BOOLEAN
        /\ undoTgt' \in Seq(Sides) /\ curUndo' \in 0 .. Len(undoTgt')
    BY <1>1, <2>1 DEF IInv, WindowInv
  <2> QED BY <2>1, <2>6, <2>7, StepOfWindow
<1>8. ASSUME Return(<<>>, [save EXCEPT !.result = FALSE], agreed), UNCHANGED <<files, window, budget>>
      PROVE  StepKeeps
  <2>1. calls' = rest /\ save' = [save EXCEPT !.result = FALSE]
    BY <1>5, <1>8
  <2>2. save' \in [success : BOOLEAN, result : BOOLEAN] /\ ~ save'.result
    BY <1>2, <2>1
  <2>3. PendingInv'
    BY <2>2 DEF PendingInv
  <2>4. Overwrites
    BY <1>8 DEF Overwrites, files
  <2>5. CallsKeep
    BY <1>4, <1>6, <2>1, <2>2, <2>3, <2>4 DEF CallsKeep
  <2> QED BY <1>1, <1>8, <2>5, SameWindow DEF window
<1> QED BY <1>7, <1>8 DEF SaveToFile

-----------------------------------------------------------------------------
(* Commands that change one pane *)

(* A command changes one pane.                                             *)
LEMMA PaneCommand ==
    ASSUME IInv, NEW cs, Command(cs), cs = <<>> \/ cs = FlushAndRescan,
           NEW s \in Sides, NEW new, PaneInv(new, disk, m_bLimited),
           TextOf(pane[s]) \in Range(new.log),
           pane' = [pane EXCEPT ![s] = new],
           UNCHANGED <<files, rows, shown, m_bLimited>>,
           undoTgt' \in Seq(Sides), curUndo' \in 0 .. Len(undoTgt')
    PROVE  StepKeeps
<1>1. CallsKeep /\ shown # NoItem
  BY Commanded
<1>2. PanesInv /\ m_bLimited \in BOOLEAN /\ shown \in Items
  BY <1>1 DEF IInv, WindowInv
<1>3. PaneInv(new, disk, m_bLimited') /\ UNCHANGED <<disk, m_bLimited>>
  BY DEF files
<1>4. /\ PanesInv' /\ pane'[s] = new
      /\ \A t \in Sides : t # s =>
            pane'[t] = pane[t] /\ TextOf(pane[t]) \in Range(pane'[t].log)
  BY <1>2, <1>3, OnePane
<1>5. KeepsText
  BY <1>4 DEF KeepsText
<1>6. FilesInv' /\ items' = items
  BY SameFiles DEF files
<1> QED BY <1>1, <1>2, <1>4, <1>5, <1>6, StepOfWindow

(* The order of undoing after an edit *)
LEMMA UndoOrderGrows ==
    ASSUME undoTgt \in Seq(Sides), curUndo \in 0 .. Len(undoTgt), NEW s \in Sides
    PROVE  LET order == Append(SubSeq(undoTgt, 1, curUndo), s)
           IN  order \in Seq(Sides) /\ curUndo + 1 \in 0 .. Len(order)
OBVIOUS

(* Editing                                                                 *)
LEMMA EditKeeps ==
    ASSUME IInv, NEW s \in Sides, Edit(s), UNCHANGED rows
    PROVE  StepKeeps
<1>1. /\ Command(<<>>) /\ UNCHANGED <<files, shown, m_bLimited>>
      /\ undoTgt' = Append(SubSeq(undoTgt, 1, curUndo), s) /\ curUndo' = curUndo + 1
  BY DEF Edit
<1>2. PICK text \in Texts : pane' = [pane EXCEPT ![s] = Edited(pane[s], text)]
  BY DEF Edit
<1>3. shown # NoItem
  BY <1>1, Commanded
<1>4. /\ m_bLimited \in BOOLEAN /\ PaneInv(pane[s], disk, m_bLimited)
      /\ undoTgt \in Seq(Sides) /\ curUndo \in 0 .. Len(undoTgt)
  BY <1>3 DEF IInv, WindowInv, PanesInv
<1> DEFINE new == Edited(pane[s], text)
<1>5. PaneInv(new, disk, m_bLimited) /\ TextOf(pane[s]) \in Range(new.log)
  BY <1>4, EditedKeeps
<1>6. undoTgt' \in Seq(Sides) /\ curUndo' \in 0 .. Len(undoTgt')
  BY <1>1, <1>4, UndoOrderGrows
<1> QED BY <1>1, <1>2, <1>5, <1>6, PaneCommand

(* Undo and redo move the marker of one pane.                              *)
LEMMA MovedPane ==
    ASSUME IInv, Command(FlushAndRescan), NEW s \in Sides, NEW marker \in 1 .. Len(pane[s].log),
           pane' = [pane EXCEPT ![s] = Moved(pane[s], marker)],
           UNCHANGED <<files, rows, shown, undoTgt, m_bLimited>>,
           curUndo' \in 0 .. Len(undoTgt)
    PROVE  StepKeeps
<1>1. shown # NoItem
  BY Commanded
<1>2. /\ m_bLimited \in BOOLEAN /\ PaneInv(pane[s], disk, m_bLimited) /\ undoTgt \in Seq(Sides)
  BY <1>1 DEF IInv, WindowInv, PanesInv
<1> DEFINE new == Moved(pane[s], marker)
<1>3. PaneInv(new, disk, m_bLimited) /\ new.log = pane[s].log
  <2> DEFINE p == pane[s]
  <2>1. PaneInv(p, disk, m_bLimited) /\ marker \in 1 .. Len(p.log)
    BY <1>2
  <2> HIDE DEF p
  <2>2. PaneInv(Moved(p, marker), disk, m_bLimited) /\ Moved(p, marker).log = p.log
    BY <1>2, <2>1, MovedKeeps
  <2> QED BY <2>2 DEF p
<1>4. TextOf(pane[s]) \in Range(new.log)
  <2>1. pane[s].log \in Seq(Texts) /\ pane[s].marker \in 1 .. Len(pane[s].log)
    BY <1>2 DEF PaneInv, IsPane
  <2>2. pane[s].marker \in DOMAIN pane[s].log
    BY <2>1
  <2> QED BY <1>3, <2>2 DEF TextOf, Range
<1> HIDE DEF new
<1> QED BY <1>2, <1>3, <1>4, PaneCommand DEF new

(* Undo                                                                    *)
LEMMA OnEditUndoKeeps ==
    ASSUME IInv, OnEditUndo, UNCHANGED rows
    PROVE  StepKeeps
<1> DEFINE s == undoTgt[curUndo]
           marker == pane[s].marker - 1
<1>1. /\ Command(FlushAndRescan) /\ curUndo > 0 /\ CanUndo(s)
      /\ pane' = [pane EXCEPT ![s] = Moved(pane[s], marker)] /\ curUndo' = curUndo - 1
      /\ UNCHANGED <<files, shown, undoTgt, m_bLimited>>
  BY DEF OnEditUndo
<1>2. shown # NoItem
  BY <1>1, Commanded
<1>3. PanesInv /\ undoTgt \in Seq(Sides) /\ curUndo \in 0 .. Len(undoTgt)
  BY <1>2 DEF IInv, WindowInv
<1>4. s \in Sides /\ curUndo' \in 0 .. Len(undoTgt)
  BY <1>1, <1>3
<1>5. pane[s].marker \in 1 .. Len(pane[s].log) /\ Len(pane[s].log) \in Nat
  BY <1>3, <1>4 DEF PanesInv, PaneInv, IsPane
<1>6. marker \in 1 .. Len(pane[s].log)
  BY <1>1, <1>5 DEF CanUndo
<1> HIDE DEF s, marker
<1> QED BY <1>1, <1>4, <1>6, MovedPane

(* Redo                                                                    *)
LEMMA OnEditRedoKeeps ==
    ASSUME IInv, OnEditRedo, UNCHANGED rows
    PROVE  StepKeeps
<1> DEFINE s == undoTgt[curUndo + 1]
           marker == pane[s].marker + 1
<1>1. /\ Command(FlushAndRescan) /\ curUndo < Len(undoTgt) /\ CanRedo(s)
      /\ pane' = [pane EXCEPT ![s] = Moved(pane[s], marker)] /\ curUndo' = curUndo + 1
      /\ UNCHANGED <<files, shown, undoTgt, m_bLimited>>
  BY DEF OnEditRedo
<1>2. shown # NoItem
  BY <1>1, Commanded
<1>3. PanesInv /\ undoTgt \in Seq(Sides) /\ curUndo \in 0 .. Len(undoTgt)
  BY <1>2 DEF IInv, WindowInv
<1>4. s \in Sides /\ curUndo' \in 0 .. Len(undoTgt)
  BY <1>1, <1>3
<1>5. pane[s].marker \in 1 .. Len(pane[s].log) /\ Len(pane[s].log) \in Nat
  BY <1>3, <1>4 DEF PanesInv, PaneInv, IsPane
<1>6. marker \in 1 .. Len(pane[s].log)
  BY <1>1, <1>5 DEF CanRedo
<1> HIDE DEF s, marker
<1> QED BY <1>1, <1>4, <1>6, MovedPane

(* The settings change neither the text nor the order of undoing. *)
LEMMA SettingCommand ==
    ASSUME IInv, NEW cs, Command(cs), cs = <<>> \/ cs = FlushAndRescan,
           NEW s \in Sides, NEW new, PaneInv(new, disk, m_bLimited), new.log = pane[s].log,
           pane' = [pane EXCEPT ![s] = new],
           UNCHANGED <<files, rows, shown, undoTgt, curUndo, m_bLimited>>
    PROVE  StepKeeps
<1>1. shown # NoItem
  BY Commanded
<1>2. /\ PaneInv(pane[s], disk, m_bLimited)
      /\ undoTgt' \in Seq(Sides) /\ curUndo' \in 0 .. Len(undoTgt')
  BY <1>1 DEF IInv, WindowInv, PanesInv
<1>3. TextOf(pane[s]) \in Range(new.log)
  <2>1. pane[s].log \in Seq(Texts) /\ pane[s].marker \in 1 .. Len(pane[s].log)
    BY <1>2 DEF PaneInv, IsPane
  <2>2. pane[s].marker \in DOMAIN pane[s].log
    BY <2>1
  <2> QED BY <2>2 DEF TextOf, Range
<1> QED BY <1>2, <1>3, PaneCommand

(* Converting line breaks                                                  *)
LEMMA OnConvertEolKeeps ==
    ASSUME IInv, NEW s \in Sides, OnConvertEol(s), UNCHANGED rows
    PROVE  StepKeeps
<1> DEFINE new == [pane[s] EXCEPT !.converted = TRUE, !.m_bModified = TRUE]
<1>1. /\ Command(FlushAndRescan) /\ UNCHANGED <<files, shown, undoTgt, curUndo, m_bLimited>>
      /\ pane' = [pane EXCEPT ![s].converted = TRUE, ![s].m_bModified = TRUE]
  BY DEF OnConvertEol
<1>2. shown # NoItem
  BY <1>1, Commanded
<1>3. m_bLimited \in BOOLEAN /\ PanesInv /\ PaneInv(pane[s], disk, m_bLimited)
  BY <1>2 DEF IInv, WindowInv, PanesInv
<1>4. PaneInv(new, disk, m_bLimited)
  BY <1>3, SwitchedKeeps
<1>5. new.log = pane[s].log
  BY <1>3 DEF PaneInv, IsPane, PaneFields
<1>6. pane' = [pane EXCEPT ![s] = new]
  BY <1>1, <1>3 DEF PanesInv, PaneInv, IsPane
<1> HIDE DEF new
<1> QED BY <1>1, <1>4, <1>5, <1>6, SettingCommand

(* Choosing the encoding to save in                                        *)
LEMMA SwitchEncodingKeeps ==
    ASSUME IInv, NEW s \in Sides, SwitchEncoding(s), UNCHANGED rows
    PROVE  StepKeeps
<1> DEFINE new == [pane[s] EXCEPT !.m_bModified = TRUE]
<1>1. /\ Command(<<>>) /\ UNCHANGED <<files, shown, undoTgt, curUndo, m_bLimited>>
      /\ pane' = [pane EXCEPT ![s].m_bModified = TRUE]
  BY DEF SwitchEncoding
<1>2. shown # NoItem
  BY <1>1, Commanded
<1>3. m_bLimited \in BOOLEAN /\ PanesInv /\ PaneInv(pane[s], disk, m_bLimited)
  BY <1>2 DEF IInv, WindowInv, PanesInv
<1>4. PaneInv(new, disk, m_bLimited)
  BY <1>3, SwitchedKeeps
<1>5. new.log = pane[s].log
  BY <1>3 DEF PaneInv, IsPane, PaneFields
<1>6. pane' = [pane EXCEPT ![s] = new]
  BY <1>1, <1>3 DEF PanesInv, PaneInv, IsPane
<1> HIDE DEF new
<1> QED BY <1>1, <1>4, <1>5, <1>6, SettingCommand

(* Making a pane read-only or editable                                     *)
LEMMA OnReadOnlyKeeps ==
    ASSUME IInv, NEW s \in Sides, OnReadOnly(s), UNCHANGED rows
    PROVE  StepKeeps
<1> DEFINE ro == ~ pane[s].m_bReadOnly
           new == [pane[s] EXCEPT !.m_bReadOnly = ro, !.m_bInitialReadOnly = ro,
                       !.m_bModified = ~ ro /\ pane[s].m_nSyncPosition # pane[s].marker - 1]
<1>1. /\ Command(<<>>) /\ UNCHANGED <<files, shown, undoTgt, curUndo, m_bLimited>>
      /\ ~ m_bLimited
      /\ pane' = [pane EXCEPT ![s].m_bReadOnly = ro, ![s].m_bInitialReadOnly = ro,
                     ![s].m_bModified = ~ ro /\ pane[s].m_nSyncPosition # pane[s].marker - 1]
  BY DEF OnReadOnly
<1>2. shown # NoItem
  BY <1>1, Commanded
<1>3. m_bLimited = FALSE /\ PanesInv /\ PaneInv(pane[s], disk, FALSE)
  BY <1>1, <1>2 DEF IInv, WindowInv, PanesInv
<1>4. PaneInv(new, disk, m_bLimited)
  BY <1>3, ReadOnlyKeeps
<1>5. new.log = pane[s].log
  BY <1>3 DEF PaneInv, IsPane, PaneFields
<1>6. pane' = [pane EXCEPT ![s] = new]
  BY <1>1, <1>3 DEF PanesInv, PaneInv, IsPane
<1> HIDE DEF new
<1> QED BY <1>1, <1>4, <1>5, <1>6, SettingCommand

-----------------------------------------------------------------------------
(* Steps that compare or load anew *)

(* A pane not marked as modified shows what it loaded or saved last,       *)
(* unless it is read-only.                                                 *)
LEMMA UnmodifiedOrReadOnly ==
    ASSUME NEW d, NEW limited \in BOOLEAN, NEW p, PaneInv(p, d, limited),
           ~ p.m_bModified, TextOf(p) # p.loaded.text
    PROVE  p.m_bReadOnly
<1>1. /\ p.marker \in 1 .. Len(p.log) /\ p.m_nSyncPosition \in Int
      /\ p.m_nSyncPosition # npos => p.log[p.m_nSyncPosition + 1] = p.loaded.text
      /\ ~ (p.m_bReadOnly /\ p.m_bInitialReadOnly) => p.m_nSyncPosition = p.marker - 1
  BY DEF PaneInv, IsPane
<1>2. p.m_nSyncPosition = p.marker - 1 => p.m_nSyncPosition + 1 = p.marker /\ p.m_nSyncPosition # npos
  BY <1>1 DEF npos
<1> QED BY <1>1, <1>2 DEF TextOf

(* A rescan compares the panes.                                            *)
LEMMA RescanCompareKeeps ==
    ASSUME IInv, RescanCompare, UNCHANGED rows
    PROVE  StepKeeps
<1>1. /\ Calling("Rescan2", 0) /\ Return(<<>>, save, agreed)
      /\ pane' = [s \in Sides |-> [pane[s] EXCEPT !.limited = FALSE, !.m_bEditAfterRescan = FALSE,
                                                  !.m_pRescanFileInfo = TRUE]]
      /\ UNCHANGED <<files, shown, undoTgt, curUndo, m_bLimited>>
  BY DEF RescanCompare, Rescan2
<1>2. shown # NoItem
  BY <1>1, WindowIsOpen
<1>3. PanesInv /\ m_bLimited \in BOOLEAN
  BY <1>2 DEF IInv, WindowInv
<1>4. ASSUME NEW s \in Sides
      PROVE  /\ PaneInv(pane'[s], disk, m_bLimited) /\ pane'[s].log = pane[s].log
             /\ pane'[s].m_bModified <=> pane[s].m_bModified
             /\ TextOf(pane[s]) \in Range(pane'[s].log)
  <2> DEFINE p == pane[s]
             q == pane'[s]
             context == FALSE
  <2>1. PaneInv(p, disk, m_bLimited)
    BY <1>3 DEF PanesInv
  <2>2. q = WithContext(p, context) /\ context \in BOOLEAN /\ ~ context
    BY <1>1 DEF WithContext
  <2> HIDE DEF p, q, context
  <2>3. PaneInv(q, disk, m_bLimited) /\ q.log = p.log /\ (q.m_bModified <=> p.m_bModified)
    BY <1>3, <2>1, <2>2, ComparedKeeps
  <2>4. p.log \in Seq(Texts) /\ p.marker \in 1 .. Len(p.log)
    BY <2>1 DEF PaneInv, IsPane
  <2>5. p.marker \in DOMAIN p.log
    BY <2>4
  <2>6. TextOf(p) \in Range(q.log)
    BY <2>3, <2>5 DEF TextOf, Range
  <2> QED BY <2>3, <2>6 DEF p, q
<1>5. PanesInv'
  <2>1. pane' = [s \in Sides |-> pane'[s]]
    BY <1>1
  <2>2. \A s \in Sides : PaneInv(pane'[s], disk', m_bLimited')
    BY <1>1, <1>4 DEF files
  <2> QED BY <2>1, <2>2 DEF PanesInv
<1>6. KeepsText
  BY <1>4 DEF KeepsText
<1>7. agreed \subseteq agreed /\ \A t \in Sides : pane'[t].m_bModified => pane[t].m_bModified
  BY <1>4
<1>8. CallsKeep
  BY <1>1, <1>7, ReturnedOnly
<1>9. FilesInv' /\ items' = items
  BY <1>1, SameFiles DEF files
<1>10. /\ shown' \in Items /\ m_bLimited' \in BOOLEAN
       /\ undoTgt' \in Seq(Sides) /\ curUndo' \in 0 .. Len(undoTgt')
  BY <1>1, <1>2 DEF IInv, WindowInv
<1> QED BY <1>5, <1>6, <1>8, <1>9, <1>10, StepOfWindow

(* A rescan finds a file changed.                                          *)
LEMMA RescanFileChangedKeeps ==
    ASSUME IInv, NEW s \in Sides, RescanFileChanged(s), UNCHANGED rows
    PROVE  StepKeeps
<1>1. /\ Calling("Rescan", s) /\ UNCHANGED <<files, shown, m_bLimited>>
  BY DEF RescanFileChanged
<1>2. shown # NoItem
  BY <1>1, WindowIsOpen
<1>3. /\ PanesInv /\ m_bLimited \in BOOLEAN /\ FilesInv /\ PaneInv(pane[s], disk, m_bLimited)
      /\ CallsInv(calls)
  BY <1>2 DEF IInv, WindowInv, PanesInv
<1>4. CASE /\ pane' = [pane EXCEPT ![s] = LoadFile(pane[s])]
           /\ ClearUndoOrder
           /\ Return(<<>>, save, agreed \union {<<"edits", s>>})
  <2> DEFINE p == pane[s]
             new == LoadFile(p)
             given == agreed \union {<<"edits", s>>}
  <2>1. IsPane(p) /\ (p.m_bReadOnly /\ ~ m_bLimited => p.m_bInitialReadOnly)
    BY <1>3 DEF PaneInv
  <2>2. pane' = [pane EXCEPT ![s] = new]
    BY <1>4
  <2> HIDE DEF p
  <2>3. ~ new.m_bModified
    BY <1>3, <2>1, LoadFileFields
  <2>4. PaneInv(new, disk, m_bLimited)
    BY <1>3, <2>1, LoadFileKeeps
  <2> HIDE DEF new
  <2>5. /\ PanesInv' /\ pane'[s] = new
        /\ \A t \in Sides : t # s =>
              pane'[t] = pane[t] /\ TextOf(pane[t]) \in Range(pane'[t].log)
    <3>1. PaneInv(new, disk, m_bLimited') /\ UNCHANGED <<disk, m_bLimited>>
      BY <1>1, <2>4 DEF files
    <3> QED BY <1>3, <2>2, <3>1, OnePane
  <2>6. agreed' = given
    <3>1. calls # <<>> /\ Len(calls) \in Nat \ {0} /\ calls[1][1] = "Rescan"
      BY <1>1, <1>3, HeadOfCalls
    <3>2. 1 < Len(calls)
      BY <1>3, <3>1 DEF CallsInv
    <3> DEFINE rest == Tail(calls)
    <3>3. CallsInv(rest) /\ Len(rest) = Len(calls) - 1
      BY <1>3, <3>1, TailKeeps, SMTT(30)
    <3>4. rest \in Seq(Call)
      BY <3>3 DEF CallsInv
    <3>5. Return(<<>>, save, given)
      BY <1>4
    <3> HIDE DEF rest
    <3>6. rest # <<>> /\ <<>> \o rest = rest
      BY <3>1, <3>2, <3>3, <3>4, ConcatEmptySeq
    <3> QED BY <3>5, <3>6 DEF Return, Calls, rest
  <2>7. KeepsText
    <3> SUFFICES ASSUME NEW t \in Sides
                 PROVE  \/ TextOf(pane[t]) \in Range(pane'[t].log)
                        \/ {<<"edits", t>>, <<"declined", t>>} \intersect (agreed \union agreed') # {}
      BY DEF KeepsText
    <3>1. CASE t = s
      BY <2>6, <3>1
    <3>2. CASE t # s
      BY <2>5, <3>2
    <3> QED BY <3>1, <3>2
  <2>8. \A t \in Sides : pane'[t].m_bModified => pane[t].m_bModified
    BY <2>3, <2>5
  <2>9. CallsKeep
    <3>1. agreed \subseteq given /\ Return(<<>>, save, given) /\ shown' = shown
      BY <1>1, <1>4
    <3> QED BY <1>1, <2>8, <3>1, ReturnedOnly
  <2>10. undoTgt' \in Seq(Sides) /\ curUndo' \in 0 .. Len(undoTgt')
    BY <1>4 DEF ClearUndoOrder
  <2>11. FilesInv' /\ items' = items
    BY <1>1, SameFiles DEF files
  <2>12. shown' \in Items /\ m_bLimited' \in BOOLEAN
    BY <1>1, <1>2 DEF IInv, WindowInv
  <2> QED BY <2>5, <2>7, <2>9, <2>10, <2>11, <2>12, StepOfWindow
<1>5. CASE Return(<<>>, save, agreed) /\ UNCHANGED <<pane, undoTgt, curUndo>>
  <2>1. agreed \subseteq agreed /\ \A t \in Sides : pane'[t].m_bModified => pane[t].m_bModified
    BY <1>5
  <2>2. CallsKeep
    BY <1>1, <1>5, <2>1, ReturnedOnly
  <2> QED BY <1>1, <1>2, <1>5, <2>2, SameWindow
<1> QED BY <1>4, <1>5 DEF RescanFileChanged

(* The item takes the result of the window.                                *)
LEMMA UpdateChangedItemKeeps ==
    ASSUME IInv, UpdateChangedItem, UNCHANGED rows
    PROVE  StepKeeps
<1> DEFINE found == {i \in DOMAIN items : \A s \in Sides : pane[s].m_strPath = <<i, s>>}
           result == IF compared[1] = compared[2] THEN "same" ELSE "diff"
<1>1. /\ Calling("UpdateChangedItem", 0) /\ Return(<<>>, save, agreed)
      /\ items' = [i \in DOMAIN items |->
                     IF i \in found THEN [items[i] EXCEPT !.result = result] ELSE items[i]]
      /\ strayed' \subseteq strayed
      /\ UNCHANGED <<disk, shown, pane, undoTgt, curUndo, m_bLimited>>
  BY DEF UpdateChangedItem, window
<1>2. shown # NoItem
  BY <1>1, WindowIsOpen
<1>3. FilesInv'
  <2>1. /\ disk \in [Paths -> {Absent, Dir} \union Contents]
        /\ DOMAIN items \subseteq Items /\ strayed \subseteq Items
        /\ \A i \in DOMAIN items :
              /\ items[i].sides \in (SUBSET Sides) \ {{}}
              /\ items[i].result \in {"nocmp", "same", "diff"}
              /\ items[i] = Item(items[i].sides, items[i].result)
        /\ \A p \in Paths : disk[p] = Dir => p \in Folders \X Sides
    BY DEF IInv, FilesInv, FilesTypeOK
  <2>2. result \in {"same", "diff"}
    OBVIOUS
  <2> HIDE DEF found, result
  <2>3. ASSUME NEW i \in DOMAIN items
        PROVE  /\ items'[i].sides \in (SUBSET Sides) \ {{}}
               /\ items'[i].result \in {"nocmp", "same", "diff"}
               /\ items'[i] = Item(items'[i].sides, items'[i].result)
    <3>1. CASE i \in found
      <4> DEFINE a == items[i].sides
                 b == items[i].result
      <4>1. items[i] = [sides |-> a, result |-> b]
        BY <2>1 DEF Item
      <4>2. items'[i] = [items[i] EXCEPT !.result = result]
        BY <1>1, <3>1
      <4> HIDE DEF a, b
      <4>3. items'[i] = [sides |-> a, result |-> result]
        BY <4>1, <4>2
      <4> QED BY <2>1, <2>2, <4>3 DEF Item, a
    <3>2. CASE i \notin found
      BY <1>1, <2>1, <3>2
    <3> QED BY <3>1, <3>2
  <2>4. DOMAIN items' = DOMAIN items
    BY <1>1
  <2> QED BY <1>1, <2>1, <2>3, <2>4 DEF FilesInv, FilesTypeOK
<1>4. PanesInv' /\ KeepsText
  BY <1>1, <1>2, SamePanes
<1>5. agreed \subseteq agreed /\ \A t \in Sides : pane'[t].m_bModified => pane[t].m_bModified
  BY <1>1
<1>6. CallsKeep
  BY <1>1, <1>5, ReturnedOnly
<1>7. /\ shown' \in Items /\ m_bLimited' \in BOOLEAN /\ DOMAIN items' = DOMAIN items
      /\ undoTgt' \in Seq(Sides) /\ curUndo' \in 0 .. Len(undoTgt')
  BY <1>1, <1>2 DEF IInv, WindowInv
<1> QED BY <1>3, <1>4, <1>6, <1>7, StepOfWindow

(* When a reload or the closing of the window is called, nothing is left   *)
(* to be saved.                                                            *)
LEMMA LastCall ==
    ASSUME IInv, NEW op \in {"ReloadDoc", "Close"}, NEW n, Calling(op, n)
    PROVE  /\ Tail(calls) = <<>>
           /\ save.result => \A s \in Sides : pane[s].m_bModified =>
                 {<<"edits", s>>, <<"declined", s>>} \intersect agreed # {}
<1>1. CallsInv(calls) /\ calls \in Seq(Call)
  BY DEF IInv, WindowInv, CallsInv
<1>2. /\ calls # <<>> /\ Len(calls) \in Nat \ {0} /\ calls[1] = <<op, n>> /\ calls[1][1] = op
  BY <1>1, HeadOfCalls
<1>3. 1 \in 1 .. Len(calls) /\ Len(calls) = 1
  <2>1. 1 \in 1 .. Len(calls)
    BY <1>2
  <2>2. calls[1][1] \in {"ReloadDoc", "Close"} => 1 = Len(calls)
    BY <1>1, <2>1 DEF CallsInv
  <2> QED BY <1>2, <2>1, <2>2
<1>4. Tail(calls) = <<>>
  <2> DEFINE rest == Tail(calls)
  <2>1. rest \in Seq(Call) /\ Len(rest) = 0
    BY <1>1, <1>3
  <2> HIDE DEF rest
  <2>2. rest = <<>>
    BY <2>1
  <2> QED BY <2>2 DEF rest
<1>5. ASSUME NEW s \in Sides, save.result, pane[s].m_bModified
      PROVE  {<<"edits", s>>, <<"declined", s>>} \intersect agreed # {}
  <2>1. ASSUME NEW i \in 1 .. Len(calls)
        PROVE  calls[i] \notin {<<"DoSave", s>>, <<"SaveToFile", s>>}
    <3>1. i = 1
      BY <1>3
    <3> QED BY <1>2, <3>1
  <2>2. shown # NoItem
    BY WindowIsOpen
  <2> QED BY <1>2, <1>3, <1>5, <2>1, <2>2 DEF IInv, PendingInv
<1> QED BY <1>4, <1>5

(* A pane is loaded anew, once what was modified is saved or given up.     *)
LEMMA ReloadDocKeeps ==
    ASSUME IInv, NEW s \in Sides, ReloadDoc(s), UNCHANGED rows
    PROVE  StepKeeps
<1>1. Calling("ReloadDoc", s) /\ UNCHANGED <<files, shown, m_bLimited>>
  BY DEF ReloadDoc
<1>2. shown # NoItem
  BY <1>1, WindowIsOpen
<1>3. PanesInv /\ m_bLimited \in BOOLEAN /\ FilesInv /\ PaneInv(pane[s], disk, m_bLimited)
  BY <1>2 DEF IInv, WindowInv, PanesInv
<1>4. CASE /\ save.result
           /\ pane' = [pane EXCEPT ![s] = LoadFile(pane[s])]
           /\ ClearUndoOrder
           /\ Return(FlushAndRescan, save, agreed)
  <2> DEFINE p == pane[s]
             new == LoadFile(p)
  <2>1. IsPane(p) /\ (p.m_bReadOnly /\ ~ m_bLimited => p.m_bInitialReadOnly)
    BY <1>3 DEF PaneInv
  <2>2. pane' = [pane EXCEPT ![s] = new]
    BY <1>4
  <2> HIDE DEF p
  <2>3. ~ new.m_bModified
    BY <1>3, <2>1, LoadFileFields
  <2>4. PaneInv(new, disk, m_bLimited)
    BY <1>3, <2>1, LoadFileKeeps
  <2> HIDE DEF new
  <2>5. /\ PanesInv' /\ pane'[s] = new
        /\ \A t \in Sides : t # s =>
              pane'[t] = pane[t] /\ TextOf(pane[t]) \in Range(pane'[t].log)
    <3>1. PaneInv(new, disk, m_bLimited') /\ UNCHANGED <<disk, m_bLimited>>
      BY <1>1, <2>4 DEF files
    <3> QED BY <1>3, <2>2, <3>1, OnePane
  <2>6. KeepsText
    <3> SUFFICES ASSUME NEW t \in Sides, TextOf(pane[t]) # pane[t].loaded.text
                 PROVE  \/ TextOf(pane[t]) \in Range(pane'[t].log)
                        \/ {<<"edits", t>>, <<"declined", t>>} \intersect (agreed \union agreed') # {}
                        \/ pane[t].m_bReadOnly
      BY DEF KeepsText
    <3>1. CASE t # s
      BY <2>5, <3>1
    <3>2. CASE ~ pane[t].m_bModified
      <4>1. PaneInv(pane[t], disk, m_bLimited)
        BY <1>3 DEF PanesInv
      <4> QED BY <1>3, <3>2, <4>1, UnmodifiedOrReadOnly
    <3>3. CASE pane[t].m_bModified
      <4>1. {<<"edits", t>>, <<"declined", t>>} \intersect agreed # {}
        BY <1>1, <1>4, <3>3, LastCall
      <4> QED BY <4>1
    <3> QED BY <3>1, <3>2, <3>3
  <2>7. \A t \in Sides : pane'[t].m_bModified => pane[t].m_bModified
    BY <2>3, <2>5
  <2>8. CallsKeep
    <3> DEFINE made == FlushAndRescan
    <3>1. /\ made \in Seq(Call)
          /\ \A i \in 1 .. Len(made) :
                /\ made[i][1] \in {"Rescan", "Rescan2", "UpdateChangedItem"}
                /\ made[i][1] = "Rescan" => i < Len(made)
      BY RescanCalls
    <3>2. Return(made, save, agreed) /\ agreed \subseteq agreed /\ shown' = shown
      BY <1>1, <1>4
    <3> HIDE DEF made
    <3> QED BY <1>1, <2>7, <3>1, <3>2, Returned
  <2>9. undoTgt' \in Seq(Sides) /\ curUndo' \in 0 .. Len(undoTgt')
    BY <1>4 DEF ClearUndoOrder
  <2>10. FilesInv' /\ items' = items
    BY <1>1, SameFiles DEF files
  <2>11. shown' \in Items /\ m_bLimited' \in BOOLEAN
    BY <1>1, <1>2 DEF IInv, WindowInv
  <2> QED BY <2>5, <2>6, <2>8, <2>9, <2>10, <2>11, StepOfWindow
<1>5. CASE Return(<<>>, save, agreed) /\ UNCHANGED <<pane, undoTgt, curUndo>>
  <2>1. agreed \subseteq agreed /\ \A t \in Sides : pane'[t].m_bModified => pane[t].m_bModified
    BY <1>5
  <2>2. CallsKeep
    BY <1>1, <1>5, <2>1, ReturnedOnly
  <2> QED BY <1>1, <1>2, <1>5, <2>2, SameWindow
<1> QED BY <1>4, <1>5 DEF ReloadDoc

(* The window closes, once what was modified is saved or given up.         *)
LEMMA CloseKeeps ==
    ASSUME IInv, Close, UNCHANGED rows
    PROVE  StepKeeps
<1>1. Calling("Close", 0) /\ UNCHANGED files /\ Return(<<>>, NotSaved, {})
  BY DEF Close
<1>2. shown # NoItem /\ Tail(calls) = <<>>
  BY <1>1, WindowIsOpen, LastCall
<1>3. calls' = <<>> /\ save' = NotSaved
  <2>1. <<>> \o Tail(calls) = <<>>
    BY <1>2
  <2> QED BY <1>1, <2>1 DEF Return, Calls
<1>4. CallsKeep
  <2>1. CallsInv(calls')
    BY <1>3 DEF CallsInv
  <2>2. SaveInv' /\ PendingInv'
    BY <1>3 DEF SaveInv, PendingInv, Calling
  <2>3. save' \in [success : BOOLEAN, result : BOOLEAN]
    BY <1>3 DEF NotSaved
  <2>4. Overwrites
    BY <1>1 DEF Overwrites, files
  <2> QED BY <2>1, <2>2, <2>3, <2>4 DEF CallsKeep
<1>5. CASE /\ save.result /\ shown' = NoItem /\ ClearUndoOrder /\ m_bLimited' = FALSE
  <2>1. FilesInv' /\ RowsHaveItems'
    BY <1>1, SameFiles DEF IInv, RowsHaveItems, files
  <2>2. WindowInv'
    <3>1. undoTgt' \in Seq(Sides) /\ curUndo' \in 0 .. Len(undoTgt')
      BY <1>5 DEF ClearUndoOrder
    <3>2. m_bLimited' \in BOOLEAN /\ shown' = NoItem
      BY <1>5
    <3> QED BY <1>3, <1>4, <3>1, <3>2 DEF WindowInv, CallsKeep
  <2>3. KeepsText
    <3> SUFFICES ASSUME NEW t \in Sides, TextOf(pane[t]) # pane[t].loaded.text
                 PROVE  \/ {<<"edits", t>>, <<"declined", t>>} \intersect agreed # {}
                        \/ pane[t].m_bReadOnly
      BY DEF KeepsText
    <3>1. CASE pane[t].m_bModified
      BY <1>1, <1>5, <3>1, LastCall
    <3>2. CASE ~ pane[t].m_bModified
      <4>1. PaneInv(pane[t], disk, m_bLimited) /\ m_bLimited \in BOOLEAN
        BY <1>2 DEF IInv, WindowInv, PanesInv
      <4> QED BY <3>2, <4>1, UnmodifiedOrReadOnly
    <3> QED BY <3>1, <3>2
  <2> QED BY <1>4, <2>1, <2>2, <2>3 DEF StepKeeps, IInv, CallsKeep
<1>6. CASE UNCHANGED window
  BY <1>1, <1>2, <1>4, <1>6, SameWindow DEF window
<1> QED BY <1>5, <1>6 DEF Close

(* Both files have been loaded and are compared. *)
LEMMA LoadedPanes ==
    ASSUME FilesInv, NEW limited \in BOOLEAN, NEW panes,
           \A s \in Sides : /\ IsPane(panes[s])
                            /\ limited => panes[s].m_bReadOnly /\ Exists(panes[s].m_strPath)
                            /\ panes[s].m_bReadOnly /\ ~ limited => panes[s].m_bInitialReadOnly,
           Rescan2([s \in Sides |-> LoadFile(panes[s])], limited)
    PROVE  /\ pane' = [s \in Sides |-> pane'[s]]
           /\ \A s \in Sides : PaneInv(pane'[s], disk, limited)
<1>1. pane' = [s \in Sides |-> WithContext(LoadFile(panes[s]), limited)]
  BY DEF Rescan2, WithContext
<1>2. ASSUME NEW s \in Sides
      PROVE  PaneInv(pane'[s], disk, limited)
  <2> DEFINE p == panes[s]
             new == LoadFile(p)
             q == pane'[s]
  <2>1. /\ IsPane(p) /\ (limited => p.m_bReadOnly /\ Exists(p.m_strPath))
        /\ p.m_bReadOnly /\ ~ limited => p.m_bInitialReadOnly
    OBVIOUS
  <2>2. q = WithContext(new, limited)
    BY <1>1
  <2> HIDE DEF p, q
  <2>3. new.m_bReadOnly <=> p.m_bReadOnly /\ Exists(p.m_strPath)
    BY <2>1, LoadFileFields
  <2>4. PaneInv(new, disk, limited)
    BY <2>1, LoadFileKeeps
  <2> HIDE DEF new
  <2>5. limited => limited /\ new.m_bReadOnly
    BY <2>1, <2>3
  <2>6. PaneInv(q, disk, limited)
    BY <2>2, <2>4, <2>5, ComparedKeeps
  <2> QED BY <2>6 DEF q
<1> QED BY <1>1, <1>2

(* Another number of context lines loads the files anew.                   *)
LEMMA SetContextLinesKeeps ==
    ASSUME IInv, NEW limited \in BOOLEAN, SetContextLines(limited), UNCHANGED rows
    PROVE  StepKeeps
<1> DEFINE ready == [s \in Sides |-> Ready(pane[s], limited)]
           found(s) == Exists(pane[s].m_strPath)
<1>1. /\ Command(<<>>) /\ ClearUndoOrder /\ m_bLimited' = limited
      /\ UNCHANGED <<files, shown>>
      /\ (\A s \in Sides : ~ pane[s].m_bModified) \/ m_bLimited
      /\ IF \A s \in Sides : found(s)
         THEN Rescan2([s \in Sides |-> LoadFile(ready[s])], limited)
         ELSE pane' = [ready EXCEPT ![1] = LoadFile(ready[1]),
                                    ![2] = IF found(1) THEN LoadFile(ready[2]) ELSE Left(ready[2])]
  BY DEF SetContextLines, Ready
<1>2. CallsKeep /\ shown # NoItem
  BY <1>1, Commanded
<1>3. PanesInv /\ m_bLimited \in BOOLEAN /\ FilesInv
  BY <1>2 DEF IInv, WindowInv
<1>4. ASSUME NEW s \in Sides
      PROVE  /\ ready[s] = Ready(pane[s], limited)
             /\ IsPane(ready[s]) /\ ready[s].m_strPath = pane[s].m_strPath
             /\ limited => ready[s].m_bReadOnly
             /\ ready[s].m_bReadOnly /\ ~ limited => ready[s].m_bInitialReadOnly
             /\ PaneInv(Left(ready[s]), disk, limited)
  <2> DEFINE p == pane[s]
             r == ready[s]
  <2>1. r = Ready(p, limited)
    OBVIOUS
  <2>2. PaneInv(p, disk, m_bLimited)
    BY <1>3 DEF PanesInv
  <2> HIDE DEF p, r
  <2>3. /\ IsPane(r) /\ r.m_strPath = p.m_strPath
        /\ limited => r.m_bReadOnly
        /\ r.m_bReadOnly /\ ~ limited => r.m_bInitialReadOnly
        /\ PaneInv(Left(r), disk, limited)
    BY <1>3, <2>1, <2>2, ReadyKeeps
  <2> QED BY <2>1, <2>3 DEF p, r
<1>5. DOMAIN ready = Sides /\ 1 \in Sides /\ 2 \in Sides /\ \A s \in Sides : s = 1 \/ s = 2
  BY DEF Sides
<1> HIDE DEF ready
<1>6. pane' = [s \in Sides |-> pane'[s]] /\ \A s \in Sides : PaneInv(pane'[s], disk, limited)
  <2>1. CASE \A s \in Sides : found(s)
    <3>1. \A s \in Sides : /\ IsPane(ready[s])
                           /\ limited => ready[s].m_bReadOnly /\ Exists(ready[s].m_strPath)
                           /\ ready[s].m_bReadOnly /\ ~ limited => ready[s].m_bInitialReadOnly
      BY <1>4, <2>1
    <3>2. Rescan2([s \in Sides |-> LoadFile(ready[s])], limited)
      BY <1>1, <2>1
    <3> QED BY <1>3, <3>1, <3>2, LoadedPanes
  <2>2. CASE ~ \A s \in Sides : found(s)
    <3>1. \A s \in Sides : PaneInv(LoadFile(ready[s]), disk, limited)
      BY <1>3, <1>4, LoadFileKeeps
    <3>2. /\ pane' = [s \in Sides |-> pane'[s]]
          /\ pane'[1] = LoadFile(ready[1])
          /\ pane'[2] = IF found(1) THEN LoadFile(ready[2]) ELSE Left(ready[2])
      <4>1. ready = [s \in Sides |-> ready[s]]
        BY DEF ready
      <4> QED BY <1>1, <1>5, <2>2, <4>1
    <3> HIDE DEF found
    <3> QED BY <1>4, <1>5, <3>1, <3>2
  <2> QED BY <2>1, <2>2
<1>7. PanesInv'
  BY <1>1, <1>6 DEF PanesInv, files
<1>8. KeepsText
  <2> SUFFICES ASSUME NEW s \in Sides, TextOf(pane[s]) # pane[s].loaded.text, ~ m_bLimited
               PROVE  pane[s].m_bReadOnly
    BY DEF KeepsText
  <2>1. ~ pane[s].m_bModified /\ PaneInv(pane[s], disk, m_bLimited)
    BY <1>1, <1>3 DEF PanesInv
  <2> QED BY <1>3, <2>1, UnmodifiedOrReadOnly
<1>9. undoTgt' \in Seq(Sides) /\ curUndo' \in 0 .. Len(undoTgt')
  BY <1>1 DEF ClearUndoOrder
<1>10. FilesInv' /\ items' = items
  BY <1>1, SameFiles DEF files
<1>11. shown' \in Items /\ m_bLimited' \in BOOLEAN
  BY <1>1, <1>2 DEF IInv, WindowInv
<1> QED BY <1>2, <1>7, <1>8, <1>9, <1>10, <1>11, StepOfWindow

(* A pane before anything has been loaded *)
LEMMA NewPaneIsPane ==
    ASSUME NEW path \in FilePaths
    PROVE  IsPane(NewPane(path)) /\ ~ NewPane(path).m_bReadOnly
<1>1. NoFile \in Contents
  BY WindowAssumption DEF NoFile, Contents
<1>2. <<>> \in Seq(Texts)
  OBVIOUS
<1> QED BY <1>1, <1>2 DEF NewPane, IsPane, PaneFields

(* A window is opened.                                                     *)
LEMMA OpenDocsKeeps ==
    ASSUME IInv, OpenDocs, UNCHANGED rows
    PROVE  StepKeeps
<1>1. PICK i \in DOMAIN items \ Folders :
          shown' = i /\ Rescan2([s \in Sides |-> LoadFile(NewPane(<<i, s>>))], FALSE)
  BY DEF OpenDocs
<1>2. /\ shown = NoItem /\ ClearUndoOrder /\ m_bLimited' = FALSE
      /\ UNCHANGED <<files, asking>>
  BY DEF OpenDocs
<1>3. FilesInv /\ CallsInv(calls) /\ calls = <<>> /\ save \in [success : BOOLEAN, result : BOOLEAN]
  BY <1>2 DEF IInv, WindowInv
<1>4. i \in Items \ Folders
  BY <1>3 DEF FilesInv, FilesTypeOK
<1> DEFINE panes == [s \in Sides |-> NewPane(<<i, s>>)]
           limited == FALSE
<1>5. ASSUME NEW s \in Sides
      PROVE  IsPane(panes[s]) /\ ~ panes[s].m_bReadOnly
  <2>1. <<i, s>> \in FilePaths
    BY <1>4 DEF FilePaths
  <2> QED BY <2>1, NewPaneIsPane
<1>6. Rescan2([s \in Sides |-> LoadFile(panes[s])], limited) /\ limited \in BOOLEAN /\ ~ limited
  <2>1. [s \in Sides |-> LoadFile(panes[s])] = [s \in Sides |-> LoadFile(NewPane(<<i, s>>))]
    OBVIOUS
  <2> QED BY <1>1, <2>1
<1> HIDE DEF panes
<1>7. disk' = disk /\ m_bLimited' = limited
  BY <1>2 DEF files
<1> HIDE DEF limited
<1>8. pane' = [s \in Sides |-> pane'[s]] /\ \A s \in Sides : PaneInv(pane'[s], disk, limited)
  BY <1>3, <1>5, <1>6, LoadedPanes
<1>9. PanesInv'
  BY <1>7, <1>8 DEF PanesInv
<1>10. CallsKeep
  <2>1. CallsInv(calls') /\ save' \in [success : BOOLEAN, result : BOOLEAN]
    BY <1>2, <1>3 DEF asking
  <2>2. SaveInv' /\ PendingInv'
    BY <1>2, <1>3 DEF SaveInv, PendingInv, Calling, asking
  <2>3. Overwrites
    BY <1>3 DEF Overwrites, Calling
  <2> QED BY <2>1, <2>2, <2>3 DEF CallsKeep
<1>11. KeepsText
  BY <1>2 DEF KeepsText
<1>12. undoTgt' \in Seq(Sides) /\ curUndo' \in 0 .. Len(undoTgt')
  BY <1>2 DEF ClearUndoOrder
<1>13. FilesInv' /\ items' = items
  BY <1>2, SameFiles DEF files
<1>14. shown' \in Items /\ m_bLimited' \in BOOLEAN
  BY <1>1, <1>4, <1>6, <1>7
<1> QED BY <1>9, <1>10, <1>11, <1>12, <1>13, <1>14, StepOfWindow

-----------------------------------------------------------------------------
(* Steps that change files from outside of the window *)

(* Both panes learn that files have changed.                               *)
LEMMA NoticedPanes ==
    ASSUME PanesInv, m_bLimited \in BOOLEAN, UNCHANGED m_bLimited, NEW changed,
           \A path \in Paths : path \notin changed => disk'[path] = disk[path],
           pane' = Noticed(pane, changed, 0)
    PROVE  /\ PanesInv' /\ KeepsText
           /\ \A s \in Sides :
                /\ pane'[s].m_strPath = pane[s].m_strPath /\ pane'[s].loaded = pane[s].loaded
                /\ pane'[s].m_bModified <=> pane[s].m_bModified
<1>1. ASSUME NEW s \in Sides
      PROVE  /\ PaneInv(pane'[s], disk', m_bLimited)
             /\ pane'[s].m_strPath = pane[s].m_strPath /\ pane'[s].log = pane[s].log
             /\ pane'[s].loaded = pane[s].loaded
             /\ pane'[s].m_bModified <=> pane[s].m_bModified
  <2>1. s # 0 /\ PaneInv(pane[s], disk, m_bLimited)
    BY DEF PanesInv, Sides
  <2> QED BY <2>1, NoticedPane
<1>2. pane' = [s \in Sides |-> pane'[s]]
  BY DEF Noticed
<1>3. PanesInv'
  BY <1>1, <1>2 DEF PanesInv
<1>4. ASSUME NEW s \in Sides
      PROVE  TextOf(pane[s]) \in Range(pane'[s].log)
  <2>1. pane[s].log \in Seq(Texts) /\ pane[s].marker \in 1 .. Len(pane[s].log)
    BY DEF PanesInv, PaneInv, IsPane
  <2>2. pane[s].marker \in DOMAIN pane[s].log
    BY <2>1
  <2> QED BY <1>1, <2>2 DEF TextOf, Range
<1> QED BY <1>1, <1>3, <1>4 DEF KeepsText

(* The window stays as it is but for what the panes know of their files. *)
LEMMA StepFromOutside ==
    ASSUME IInv, FilesInv', RowsHaveItems', NEW changed,
           \A path \in Paths : path \notin changed => disk'[path] = disk[path],
           pane' = Noticed(pane, changed, 0), agreed \subseteq agreed', SaveInv',
           UNCHANGED <<shown, undoTgt, curUndo, m_bLimited, calls, save>>
    PROVE  StepKeeps
<1>1. shown # NoItem =>
        /\ PanesInv' /\ KeepsText
        /\ \A s \in Sides : pane'[s].m_bModified <=> pane[s].m_bModified
  BY NoticedPanes DEF IInv, WindowInv
<1>2. WindowInv'
  BY <1>1 DEF IInv, WindowInv
<1>3. PendingInv'
  <2> SUFFICES ASSUME shown # NoItem, calls # <<>>, save.result,
                      calls[Len(calls)][1] \in {"ReloadDoc", "Close"},
                      NEW s \in Sides, pane'[s].m_bModified
               PROVE  \/ \E i \in 1 .. Len(calls) :
                            calls[i] \in {<<"DoSave", s>>, <<"SaveToFile", s>>}
                      \/ {<<"edits", s>>, <<"declined", s>>} \intersect agreed' # {}
    BY DEF PendingInv
  <2>1. pane[s].m_bModified
    BY <1>1
  <2>2. \/ \E i \in 1 .. Len(calls) : calls[i] \in {<<"DoSave", s>>, <<"SaveToFile", s>>}
        \/ {<<"edits", s>>, <<"declined", s>>} \intersect agreed # {}
    BY <2>1 DEF IInv, PendingInv
  <2> QED BY <2>2
<1>4. KeepsText
  BY <1>1 DEF KeepsText
<1>5. Overwrites
  BY DEF Overwrites
<1> QED BY <1>2, <1>3, <1>4, <1>5 DEF StepKeeps, IInv

(* Another program changes a file.                                         *)
LEMMA OtherProgramKeeps ==
    ASSUME IInv, OtherProgram
    PROVE  StepKeeps
<1>1. PICK p \in (Items \ Folders) \X Sides :
        /\ ChangeFile(p)
        /\ pane' = Noticed(pane, {p}, 0)
        /\ agreed' = agreed \union
               {<<"late", p>> : s \in {t \in Sides : Calling("SaveToFile", t) /\ pane[t].m_strPath = p}}
        /\ UNCHANGED <<shown, undoTgt, curUndo, m_bLimited, calls, save, rows>>
  BY DEF OtherProgram
<1>2. PICK new \in {Absent} \union [text : Texts, converted : {FALSE}, whole : {TRUE}] :
        /\ disk' = [disk EXCEPT ![p] = new]
        /\ strayed' = strayed \union ItemOf(p)
        /\ UNCHANGED items
  BY <1>1 DEF ChangeFile
<1>3. /\ disk \in [Paths -> {Absent, Dir} \union Contents]
      /\ p \in Paths /\ p \notin Folders \X Sides /\ p[1] \in Items
      /\ new \in {Absent} \union Contents /\ new # Dir
  <2>1. disk \in [Paths -> {Absent, Dir} \union Contents]
    BY DEF IInv, FilesInv, FilesTypeOK
  <2>2. p \in Paths /\ p \notin Folders \X Sides /\ p[1] \in Items
    BY DEF Paths
  <2>3. new \in {Absent} \union Contents
    BY DEF Contents
  <2> QED BY <2>1, <2>2, <2>3, FilesAssumption
<1>4. FilesInv'
  <2>1. disk' \in [Paths -> {Absent, Dir} \union Contents]
    BY <1>2, <1>3
  <2>2. \A path \in Paths : disk'[path] = Dir => path \in Folders \X Sides
    BY <1>2, <1>3 DEF IInv, FilesInv
  <2>3. strayed' \subseteq Items
    BY <1>2, <1>3 DEF IInv, FilesInv, FilesTypeOK, ItemOf
  <2> QED BY <1>2, <2>1, <2>2, <2>3 DEF IInv, FilesInv, FilesTypeOK
<1>5. \A path \in Paths : path \notin {p} => disk'[path] = disk[path]
  BY <1>2, <1>3
<1>6. RowsHaveItems'
  BY <1>1, <1>2 DEF IInv, RowsHaveItems
<1>7. SaveInv'
  <2> SUFFICES ASSUME NEW s \in Sides, Calling("SaveToFile", s)
               PROVE  LET path == pane'[s].m_strPath
                      IN  \/ disk'[path] \in {Absent, pane'[s].loaded}
                          \/ {<<"disk", path>>, <<"late", path>>} \intersect agreed' # {}
    BY <1>1 DEF SaveInv, Calling
  <2>1. PanesInv /\ m_bLimited \in BOOLEAN
    BY WindowIsOpen DEF IInv, WindowInv
  <2>2. pane'[s].m_strPath = pane[s].m_strPath /\ pane'[s].loaded = pane[s].loaded
    BY <1>1, <1>5, <2>1, NoticedPanes
  <2>3. pane[s].m_strPath \in Paths
    BY <2>1 DEF PanesInv, PaneInv, IsPane, FilePaths, Paths
  <2>4. CASE pane[s].m_strPath = p
    <3>1. <<"late", p>> \in agreed'
      BY <1>1, <2>4
    <3> QED BY <2>2, <2>4, <3>1
  <2>5. CASE pane[s].m_strPath # p
    <3>1. disk'[pane[s].m_strPath] = disk[pane[s].m_strPath]
      BY <1>5, <2>3, <2>5
    <3>2. \/ disk[pane[s].m_strPath] \in {Absent, pane[s].loaded}
          \/ {<<"disk", pane[s].m_strPath>>, <<"late", pane[s].m_strPath>>} \intersect agreed # {}
      BY DEF IInv, SaveInv
    <3> QED BY <1>1, <2>2, <3>1, <3>2
  <2> QED BY <2>4, <2>5
<1>8. agreed \subseteq agreed'
  BY <1>1
<1> QED BY <1>1, <1>4, <1>5, <1>6, <1>7, <1>8, StepFromOutside

-----------------------------------------------------------------------------
(* Scripts of the folder window *)

DiskInv(d) ==
    /\ d \in [Paths -> {Absent, Dir} \union Contents]
    /\ \A p \in Paths : d[p] = Dir => p \in Folders \X Sides

ItemsInv(its) ==
    /\ DOMAIN its \subseteq Items
    /\ \A i \in DOMAIN its :
        /\ its[i].sides \in (SUBSET Sides) \ {{}}
        /\ its[i].result \in {"nocmp", "same", "diff"}
        /\ its[i] = Item(its[i].sides, its[i].result)

(* The invariant of the files in parts                                     *)
LEMMA FilesParts ==
    /\ FilesInv <=> DiskInv(disk) /\ ItemsInv(items) /\ strayed \subseteq Items
    /\ FilesInv' <=> DiskInv(disk') /\ ItemsInv(items') /\ strayed' \subseteq Items
BY DEF FilesInv, FilesTypeOK, DiskInv, ItemsInv, Item

(* Folders are made where folders may be.                                 *)
LEMMA MadeKeeps ==
    ASSUME NEW d, DiskInv(d), NEW F \in SUBSET Folders, NEW to \in Sides
    PROVE  DiskInv(Made(d, F, to))
<1>1. ASSUME NEW p \in Paths, NEW i \in F, p \in ({i} \union Above[i]) \X {to}
      PROVE  p \in Folders \X Sides
  <2>1. i \in Folders /\ Above[i] \subseteq Folders
    BY FilesAssumption
  <2> QED BY <1>1, <2>1
<1> QED BY <1>1 DEF DiskInv, Made

(* Files and folders are copied to where they may be.                      *)
LEMMA CopiedKeeps ==
    ASSUME NEW d, DiskInv(d), NEW S \in SUBSET Items, NEW to \in Sides
    PROVE  DiskInv(Copied(d, S, to))
<1> DEFINE new == Copied(d, S, to)
<1>1. ASSUME NEW p \in Paths
      PROVE  /\ new[p] \in {Absent, Dir} \union Contents
             /\ new[p] = Dir => p \in Folders \X Sides
  <2>1. CASE p \notin Items \X {to}
    BY <2>1 DEF DiskInv, Copied
  <2>2. CASE p \in Items \X {to}
    <3>1. PICK i \in Items : p = <<i, to>>
      BY <2>2
    <3>2. <<i, Other(to)>> \in Paths /\ Other(to) \in Sides /\ p[1] = i
      BY <3>1 DEF Paths, Other, Sides
    <3>3. new[p] = IF Inside(i, S) /\ d[<<i, Other(to)>>] # Absent THEN d[<<i, Other(to)>>]
                   ELSE IF S \intersect Below(i) # {} THEN Dir
                   ELSE d[p]
      BY <2>2, <3>1 DEF Copied
    <3>4. ASSUME S \intersect Below(i) # {}
          PROVE  i \in Folders
      <4>1. PICK j \in Items : i \in Above[j]
        BY <3>4 DEF Below
      <4> QED BY <4>1, FilesAssumption
    <3>5. d[<<i, Other(to)>>] = Dir => i \in Folders
      BY <3>2 DEF DiskInv
    <3> QED BY <3>1, <3>2, <3>3, <3>4, <3>5 DEF DiskInv
  <2> QED BY <2>1, <2>2
<1>2. new = [p \in Paths |-> new[p]]
  BY DEF Copied
<1> HIDE DEF new
<1>3. DiskInv(new)
  BY <1>1, <1>2 DEF DiskInv
<1> QED BY <1>3 DEF new

(* Nothing is made where files are removed.                                *)
LEMMA RemovedKeeps ==
    ASSUME NEW d, DiskInv(d), NEW gone
    PROVE  DiskInv(Removed(d, gone))
BY FilesAssumption DEF DiskInv, Removed

(* A copy, also one that fails, leaves items and rows in order.            *)
LEMMA DoCopyKeeps ==
    ASSUME IInv, NEW selected \in SUBSET rows, NEW to \in Sides, DoCopy(selected, to)
    PROVE  FilesInv' /\ RowsHaveItems'
<1> DEFINE acts == {i \in selected : Other(to) \in items[i].sides}
           folders == acts \intersect Folders
<1>1. /\ DiskInv(disk) /\ ItemsInv(items) /\ strayed \subseteq Items
      /\ rows \subseteq DOMAIN items /\ acts \subseteq DOMAIN items /\ acts \subseteq Items
      /\ DOMAIN items \subseteq Items
  BY FilesParts DEF IInv, RowsHaveItems, ItemsInv
<1>2. Affected \subseteq Items
  BY DEF Affected
<1>3. PICK skipped \in SUBSET {i \in acts \ Folders : Exists(<<i, to>>)} :
        \/ /\ disk' = Copied(Made(disk, folders, to), acts \ skipped, to)
           /\ items' = [i \in DOMAIN items |->
                          IF i \in acts THEN SynchronizedItem(i) ELSE items[i]]
           /\ strayed' = (strayed \ acts) \union (Affected \ acts) \union skipped
           /\ UNCHANGED rows
        \/ /\ \E made \in SUBSET folders, done \in SUBSET (acts \ skipped) :
                disk' = Copied(Made(disk, made, to), done, to)
           /\ Failed
  BY DEF DoCopy
<1> HIDE DEF acts
<1>4. CASE /\ disk' = Copied(Made(disk, folders, to), acts \ skipped, to)
           /\ items' = [i \in DOMAIN items |->
                          IF i \in acts THEN SynchronizedItem(i) ELSE items[i]]
           /\ strayed' = (strayed \ acts) \union (Affected \ acts) \union skipped
           /\ UNCHANGED rows
  <2>1. DiskInv(disk')
    <3>1. folders \in SUBSET Folders /\ acts \ skipped \in SUBSET Items
      BY <1>1
    <3> DEFINE made == Made(disk, folders, to)
    <3> HIDE DEF folders
    <3>2. DiskInv(made)
      BY <1>1, <3>1, MadeKeeps
    <3>3. disk' = Copied(made, acts \ skipped, to)
      BY <1>4
    <3> HIDE DEF made
    <3> QED BY <3>1, <3>2, <3>3, CopiedKeeps
  <2>2. ItemsInv(items')
    <3>1. ASSUME NEW i
          PROVE  /\ SynchronizedItem(i).sides \in (SUBSET Sides) \ {{}}
                 /\ SynchronizedItem(i).result \in {"nocmp", "same", "diff"}
                 /\ SynchronizedItem(i) = Item(SynchronizedItem(i).sides, SynchronizedItem(i).result)
      BY DEF SynchronizedItem, Item, Sides
    <3> QED BY <1>1, <1>4, <3>1 DEF ItemsInv
  <2>3. strayed' \subseteq Items
    BY <1>1, <1>2, <1>4
  <2> QED BY <1>1, <1>4, <2>1, <2>2, <2>3, FilesParts DEF RowsHaveItems
<1>5. CASE /\ \E made \in SUBSET folders, done \in SUBSET (acts \ skipped) :
                disk' = Copied(Made(disk, made, to), done, to)
           /\ Failed
  <2>1. PICK F \in SUBSET folders, done \in SUBSET (acts \ skipped) :
            disk' = Copied(Made(disk, F, to), done, to)
    BY <1>5
  <2>2. DiskInv(disk')
    <3>1. F \in SUBSET Folders /\ done \in SUBSET Items
      BY <1>1
    <3> DEFINE made == Made(disk, F, to)
    <3>2. DiskInv(made)
      BY <1>1, <3>1, MadeKeeps
    <3>3. disk' = Copied(made, done, to)
      BY <2>1
    <3> HIDE DEF made
    <3> QED BY <3>1, <3>2, <3>3, CopiedKeeps
  <2>3. items' = items /\ rows' = rows /\ strayed' \subseteq Items
    BY <1>1, <1>2, <1>5 DEF Failed
  <2> QED BY <1>1, <2>2, <2>3, FilesParts DEF RowsHaveItems
<1> QED BY <1>3, <1>4, <1>5

(* A deletion frees the items that are gone, and their rows.               *)
LEMMA DeleteKeeps ==
    ASSUME IInv, NEW sides, DOMAIN sides \subseteq rows, Delete(sides)
    PROVE  FilesInv' /\ RowsHaveItems'
<1> DEFINE acts == DOMAIN sides
           paths == UNION {{i} \X sides[i] : i \in acts}
           gone == {i \in acts : items[i].sides \subseteq sides[i]}
<1>1. /\ DiskInv(disk) /\ ItemsInv(items) /\ strayed \subseteq Items
      /\ rows \subseteq DOMAIN items /\ DOMAIN items \subseteq Items
  BY FilesParts DEF IInv, RowsHaveItems, ItemsInv
<1>2. Affected \subseteq Items
  BY DEF Affected
<1>3. CASE /\ disk' = Removed(disk, paths)
           /\ items' = [i \in DOMAIN items \ RemoveDiff(gone) |->
                          IF i \in acts THEN Item(items[i].sides \ sides[i], "nocmp") ELSE items[i]]
           /\ rows' = rows \ DetachItem(gone)
           /\ strayed' = strayed \union (Affected \ acts)
  <2> HIDE DEF paths
  <2>1. DiskInv(disk')
    BY <1>1, <1>3, RemovedKeeps
  <2>2. ItemsInv(items')
    <3> SUFFICES ASSUME NEW i \in DOMAIN items \ RemoveDiff(gone)
                 PROVE  /\ items'[i].sides \in (SUBSET Sides) \ {{}}
                        /\ items'[i].result \in {"nocmp", "same", "diff"}
                        /\ items'[i] = Item(items'[i].sides, items'[i].result)
      BY <1>1, <1>3 DEF ItemsInv
    <3>1. CASE i \in acts
      <4>1. items'[i] = Item(items[i].sides \ sides[i], "nocmp")
        BY <1>3, <3>1
      <4>2. items[i].sides \in SUBSET Sides
        BY <1>1 DEF ItemsInv
      <4>3. items[i].sides \ sides[i] # {}
        BY <3>1 DEF RemoveDiff
      <4> QED BY <4>1, <4>2, <4>3 DEF Item
    <3>2. CASE i \notin acts
      <4>1. items'[i] = items[i]
        BY <1>3, <3>2
      <4> QED BY <1>1, <4>1 DEF ItemsInv
    <3> QED BY <3>1, <3>2
  <2>3. strayed' \subseteq Items
    BY <1>1, <1>2, <1>3
  <2>4. RowsHaveItems'
    <3> SUFFICES ASSUME NEW i \in rows, i \notin DetachItem(gone)
                 PROVE  i \in DOMAIN items /\ i \notin RemoveDiff(gone)
      BY <1>3 DEF RowsHaveItems
    <3>1. i \in DOMAIN items /\ i \notin gone /\ gone \intersect Above[i] = {}
      BY <1>1 DEF DetachItem
    <3>2. ASSUME NEW g \in gone
          PROVE  i \notin Below(g)
      BY <3>1 DEF Below
    <3> HIDE DEF gone
    <3> QED BY <3>1, <3>2 DEF RemoveDiff
  <2> QED BY <2>1, <2>2, <2>3, <2>4, FilesParts
<1>4. CASE /\ \E done \in SUBSET {p \in Paths : Removed(disk, paths)[p] # disk[p]} :
                disk' = Removed(disk, done)
           /\ Failed
  <2>1. DiskInv(disk')
    BY <1>1, <1>4, RemovedKeeps
  <2>2. items' = items /\ rows' = rows /\ strayed' \subseteq Items
    BY <1>1, <1>2, <1>4 DEF Failed
  <2> QED BY <1>1, <2>1, <2>2, FilesParts DEF RowsHaveItems
<1> QED BY <1>3, <1>4 DEF Delete

(* A script of the folder window runs.                                     *)
LEMMA RunScriptKeeps ==
    ASSUME IInv, RunScript
    PROVE  StepKeeps
<1>1. /\ calls = <<>> /\ FileActionsNext
      /\ pane' = Noticed(pane, {p \in Paths : disk'[p] # disk[p]}, 0)
      /\ UNCHANGED <<shown, undoTgt, curUndo, m_bLimited, calls, save, agreed>>
  BY DEF RunScript, asking
<1>2. FilesInv' /\ RowsHaveItems'
  <2>1. PICK selected \in SUBSET rows :
          \/ \E s \in Sides : DoCopy(selected, s) \/ DoDel(selected, s)
          \/ DoDelBoth(selected)
          \/ DoDelAll(selected)
    BY <1>1 DEF FileActionsNext
  <2>2. ASSUME NEW s \in Sides, DoCopy(selected, s)
        PROVE  FilesInv' /\ RowsHaveItems'
    BY <2>2, DoCopyKeeps
  <2>3. ASSUME NEW s \in Sides, DoDel(selected, s)
        PROVE  FilesInv' /\ RowsHaveItems'
    <3> DEFINE sides == [i \in {i \in selected : s \in items[i].sides} |-> {s}]
    <3>1. DOMAIN sides \subseteq rows /\ Delete(sides)
      BY <2>3 DEF DoDel
    <3> HIDE DEF sides
    <3> QED BY <3>1, DeleteKeeps
  <2>4. ASSUME DoDelBoth(selected)
        PROVE  FilesInv' /\ RowsHaveItems'
    <3> DEFINE sides == [i \in {i \in selected : items[i].sides = Sides} |-> Sides]
    <3>1. DOMAIN sides \subseteq rows /\ Delete(sides)
      BY <2>4 DEF DoDelBoth
    <3> HIDE DEF sides
    <3> QED BY <3>1, DeleteKeeps
  <2>5. ASSUME DoDelAll(selected)
        PROVE  FilesInv' /\ RowsHaveItems'
    <3> DEFINE sides == [i \in selected |-> items[i].sides]
    <3>1. DOMAIN sides \subseteq rows /\ Delete(sides)
      BY <2>5 DEF DoDelAll
    <3> HIDE DEF sides
    <3> QED BY <3>1, DeleteKeeps
  <2> QED BY <2>1, <2>2, <2>3, <2>4, <2>5
<1>3. SaveInv'
  BY <1>1 DEF SaveInv, Calling
<1>4. ASSUME NEW path \in Paths, path \notin {p \in Paths : disk'[p] # disk[p]}
      PROVE  disk'[path] = disk[path]
  BY <1>4
<1>5. agreed \subseteq agreed'
  BY <1>1
<1> QED BY <1>1, <1>2, <1>3, <1>4, <1>5, StepFromOutside

-----------------------------------------------------------------------------
(* The inductive invariant *)

(* The invariant holds at the start.                                       *)
LEMMA InitKeeps == Init => IInv
<1> SUFFICES ASSUME Init
             PROVE  IInv
  OBVIOUS
<1>1. FilesInit /\ WindowInit /\ rows = DOMAIN items
  BY DEF Init, FileActionsInit
<1>2. DiskInv(disk)
  <2>1. [text : Texts, converted : {FALSE}, whole : {TRUE}] \subseteq Contents
    BY DEF Contents
  <2> QED BY <1>1, <2>1 DEF FilesInit, DiskInv
<1>3. ItemsInv(items)
  <2>1. items = [i \in {i \in Items : SidesOf(disk, i) # {}} |-> Compared(disk, i)]
    BY <1>1 DEF FilesInit
  <2>2. ASSUME NEW i \in DOMAIN items
        PROVE  /\ items[i].sides \in (SUBSET Sides) \ {{}}
               /\ items[i].result \in {"nocmp", "same", "diff"}
               /\ items[i] = Item(items[i].sides, items[i].result)
    <3>1. items[i] = Compared(disk, i) /\ SidesOf(disk, i) # {}
      BY <2>1
    <3>2. SidesOf(disk, i) \subseteq Sides
      BY DEF SidesOf
    <3> QED BY <3>1, <3>2 DEF Compared, Item
  <2> QED BY <2>1, <2>2 DEF ItemsInv
<1>4. FilesInv
  BY <1>1, <1>2, <1>3, FilesParts DEF FilesInit
<1>5. RowsHaveItems
  BY <1>1 DEF RowsHaveItems
<1>6. WindowInv
  <2>1. /\ shown = NoItem /\ calls = <<>> /\ undoTgt = <<>> /\ curUndo = 0
        /\ m_bLimited = FALSE /\ save = NotSaved
    BY <1>1 DEF WindowInit
  <2>2. CallsInv(calls)
    BY <2>1 DEF CallsInv
  <2>3. undoTgt \in Seq(Sides) /\ curUndo \in 0 .. Len(undoTgt)
    BY <2>1
  <2>4. save \in [success : BOOLEAN, result : BOOLEAN] /\ m_bLimited \in BOOLEAN
    BY <2>1 DEF NotSaved
  <2> QED BY <2>1, <2>2, <2>3, <2>4 DEF WindowInv
<1>7. SaveInv /\ PendingInv
  BY <1>1 DEF WindowInit, SaveInv, PendingInv, Calling
<1> QED BY <1>4, <1>5, <1>6, <1>7 DEF IInv

(* The file window makes a step.                                           *)
LEMMA WindowNextKeeps ==
    ASSUME IInv, WindowNext, UNCHANGED rows
    PROVE  StepKeeps
<1>1. ASSUME OpenDocs PROVE StepKeeps
  BY <1>1, OpenDocsKeeps
<1>2. ASSUME OnEditUndo PROVE StepKeeps
  BY <1>2, OnEditUndoKeeps
<1>3. ASSUME OnEditRedo PROVE StepKeeps
  BY <1>3, OnEditRedoKeeps
<1>4. ASSUME OnRefresh PROVE StepKeeps
  BY <1>4, OnRefreshKeeps
<1>5. ASSUME RescanCompare PROVE StepKeeps
  BY <1>5, RescanCompareKeeps
<1>6. ASSUME AfterSave PROVE StepKeeps
  BY <1>6, AfterSaveKeeps
<1>7. ASSUME UpdateChangedItem PROVE StepKeeps
  BY <1>7, UpdateChangedItemKeeps
<1>8. ASSUME OnClose PROVE StepKeeps
  BY <1>8, OnCloseKeeps
<1>9. ASSUME Close PROVE StepKeeps
  BY <1>9, CloseKeeps
<1>10. ASSUME NEW limited \in BOOLEAN, SetContextLines(limited) PROVE StepKeeps
  BY <1>10, SetContextLinesKeeps
<1>11. ASSUME NEW S \in SUBSET Sides, OnFileSave(S) PROVE StepKeeps
  BY <1>11, OnFileSaveKeeps
<1>12. ASSUME NEW s \in Sides,
              \/ Edit(s) \/ OnConvertEol(s) \/ SwitchEncoding(s) \/ OnReadOnly(s)
              \/ RescanNothingNew(s) \/ RescanFileGone(s) \/ RescanFileChanged(s)
              \/ OnFileSaveAs(s) \/ DoSave(s) \/ SaveToFile(s)
              \/ SwitchEncodingReload(s) \/ ReloadDoc(s)
       PROVE  StepKeeps
  <2>1. ASSUME Edit(s) PROVE StepKeeps
    BY <2>1, EditKeeps
  <2>2. ASSUME OnConvertEol(s) PROVE StepKeeps
    BY <2>2, OnConvertEolKeeps
  <2>3. ASSUME SwitchEncoding(s) PROVE StepKeeps
    BY <2>3, SwitchEncodingKeeps
  <2>4. ASSUME OnReadOnly(s) PROVE StepKeeps
    BY <2>4, OnReadOnlyKeeps
  <2>5. ASSUME RescanNothingNew(s) PROVE StepKeeps
    BY <2>5, RescanNothingNewKeeps
  <2>6. ASSUME RescanFileGone(s) PROVE StepKeeps
    BY <2>6, RescanFileGoneKeeps
  <2>7. ASSUME RescanFileChanged(s) PROVE StepKeeps
    BY <2>7, RescanFileChangedKeeps
  <2>8. ASSUME OnFileSaveAs(s) PROVE StepKeeps
    BY <2>8, OnFileSaveAsKeeps
  <2>9. ASSUME DoSave(s) PROVE StepKeeps
    BY <2>9, DoSaveKeeps
  <2>10. ASSUME SaveToFile(s) PROVE StepKeeps
    BY <2>10, SaveToFileKeeps
  <2>11. ASSUME SwitchEncodingReload(s) PROVE StepKeeps
    BY <2>11, SwitchEncodingReloadKeeps
  <2>12. ASSUME ReloadDoc(s) PROVE StepKeeps
    BY <2>12, ReloadDocKeeps
  <2> QED BY <1>12, <2>1, <2>2, <2>3, <2>4, <2>5, <2>6, <2>7, <2>8, <2>9, <2>10, <2>11, <2>12
<1> QED
  BY <1>1, <1>2, <1>3, <1>4, <1>5, <1>6, <1>7, <1>8, <1>9, <1>10, <1>11, <1>12 DEF WindowNext

(* Nothing happens.                                                        *)
LEMMA NothingDoneKeeps ==
    ASSUME IInv, UNCHANGED vars
    PROVE  StepKeeps
<1>1. UNCHANGED <<files, rows, shown, pane, undoTgt, curUndo, m_bLimited, calls, save, agreed>>
  BY DEF vars, windowVars, window, asking
<1>2. FilesInv' /\ RowsHaveItems'
  BY <1>1, SameFiles DEF IInv, RowsHaveItems, files
<1>3. shown # NoItem => PanesInv' /\ KeepsText
  BY <1>1, SamePanes DEF files
<1>4. WindowInv'
  BY <1>1, <1>3 DEF IInv, WindowInv
<1>5. SaveInv' /\ PendingInv'
  BY <1>1 DEF IInv, SaveInv, PendingInv, Calling, files
<1>6. Overwrites
  BY <1>1 DEF Overwrites
<1>7. KeepsText
  BY <1>3 DEF KeepsText
<1> QED BY <1>2, <1>4, <1>5, <1>6, <1>7 DEF StepKeeps, IInv

(* Every step keeps the invariant, overwrites nothing silently and keeps   *)
(* the text of the panes.                                                  *)
LEMMA NextKeeps == IInv /\ [Next]_vars => StepKeeps
<1> SUFFICES ASSUME IInv, [Next]_vars
             PROVE  StepKeeps
  OBVIOUS
<1>1. ASSUME WindowNext, UNCHANGED rows PROVE StepKeeps
  BY <1>1, WindowNextKeeps
<1>2. ASSUME RunScript PROVE StepKeeps
  BY <1>2, RunScriptKeeps
<1>3. ASSUME OtherProgram PROVE StepKeeps
  BY <1>3, OtherProgramKeeps
<1>4. ASSUME UNCHANGED vars PROVE StepKeeps
  BY <1>4, NothingDoneKeeps
<1> QED BY <1>1, <1>2, <1>3, <1>4 DEF Next

(* The inductive invariant holds in every state: files, panes and calls    *)
(* are as the steps of both windows and of other programs leave them.      *)
THEOREM Inductive == Spec => []IInv
<1>1. IInv /\ [Next]_vars => IInv'
  BY NextKeeps DEF StepKeeps
<1> QED BY <1>1, InitKeeps, PTL DEF Spec

-----------------------------------------------------------------------------
(* What it shows *)

(* The files, the items of the folder window, the panes of the file window *)
(* and the calls it is about to make are always of their types; the marker *)
(* of an undo buffer never leaves it.                                      *)
THEOREM TypeCorrect == Spec => []TypeOK
<1>1. IInv => TypeOK
  <2> SUFFICES ASSUME IInv
               PROVE  TypeOK
    OBVIOUS
  <2>1. FilesTypeOK /\ WindowInv
    BY DEF IInv, FilesInv
  <2>2. ASSUME shown # NoItem, NEW s \in Sides
        PROVE  /\ pane[s].m_strPath \in Paths
               /\ pane[s].log \in Seq(Texts) /\ pane[s].marker \in DOMAIN pane[s].log
               /\ ContentOf(pane[s]) \in Contents /\ pane[s].loaded \in Contents
               /\ pane[s].m_nSyncPosition \in {npos} \union (0 .. Len(pane[s].log) - 1)
    <3> DEFINE p == pane[s]
    <3>1. PaneInv(p, disk, m_bLimited)
      BY <2>1, <2>2 DEF WindowInv, PanesInv
    <3> HIDE DEF p
    <3>2. /\ p.m_strPath \in FilePaths /\ p.log \in Seq(Texts) /\ p.loaded \in Contents
          /\ p.converted \in BOOLEAN /\ p.whole \in BOOLEAN /\ p.limited \in BOOLEAN
          /\ p.marker \in 1 .. Len(p.log)
          /\ p.m_nSyncPosition \in {npos} \union (0 .. Len(p.log) - 1)
      BY <3>1 DEF PaneInv, IsPane
    <3>3. p.m_strPath \in Paths
      BY <3>2 DEF FilePaths, Paths
    <3>4. p.marker \in DOMAIN p.log /\ TextOf(p) \in Texts
      BY <3>2 DEF TextOf
    <3>5. ContentOf(p) \in Contents
      BY <3>2, <3>4 DEF ContentOf, Contents
    <3> QED BY <3>2, <3>3, <3>4, <3>5 DEF p
  <2>3. shown \in Items \union {NoItem} /\ undoTgt \in Seq(Sides) /\ curUndo \in 0 .. Len(undoTgt)
        /\ save \in [success : BOOLEAN, result : BOOLEAN]
    BY <2>1 DEF WindowInv
  <2>4. calls \in Seq(Call)
    BY <2>1 DEF WindowInv, CallsInv
  <2> QED BY <2>1, <2>2, <2>3, <2>4 DEF TypeOK, Call
<1> QED BY <1>1, Inductive, PTL

(* However copies and deletions of a script end, every row of the list     *)
(* view points to an item that is still there.                             *)
THEOREM RowsAreKept == Spec => []RowsHaveItems
<1>1. IInv => RowsHaveItems
  BY DEF IInv
<1> QED BY <1>1, Inductive, PTL

(* Whatever is reloaded, refreshed or gone: a pane that lacks the lines    *)
(* limited context leaves out cannot be edited.                            *)
THEOREM LimitedStaysReadOnly == Spec => []LimitedIsReadOnly
<1>1. IInv => LimitedIsReadOnly
  BY DEF IInv, WindowInv, PanesInv, PaneInv, LimitedIsReadOnly
<1> QED BY <1>1, Inductive, PTL

(* No save overwrites what the user has neither seen nor agreed to give    *)
(* up, but for a file that changes after it was asked about.               *)
THEOREM NothingOverwritten == Spec => NoSilentOverwrite
<1>1. IInv /\ [Next]_vars => [Overwrites]_vars
  BY NextKeeps DEF StepKeeps
<1> QED BY <1>1, Inductive, PTL DEF Spec, NoSilentOverwrite, Overwrites

(* No step of either window or of another program takes an unsaved text    *)
(* from a pane where it could be undone to, unless the user gave it up or  *)
(* the pane was read-only or in limited context.                           *)
THEOREM UnsavedTextStays == Spec => TextIsKept
<1>1. IInv /\ [Next]_vars => [KeepsText]_vars
  BY NextKeeps DEF StepKeeps
<1> QED BY <1>1, Inductive, PTL DEF Spec, TextIsKept, KeepsText

(* Whatever is undone, redone, converted, saved or loaded anew: a pane     *)
(* that does not count as modified shows what its file holds, unless       *)
(* another program has changed the file or the pane is read-only, its line *)
(* breaks were converted or it lacks lines.                                *)
THEOREM UnmodifiedIsShown == Spec => []UnmodifiedShowsFile
<1>1. IInv => UnmodifiedShowsFile
  <2> SUFFICES ASSUME IInv, shown # NoItem, NEW s \in Sides,
                      Exists(pane[s].m_strPath), pane[s].m_pSaveFileInfo,
                      ~ pane[s].m_bModified, ~ pane[s].m_bReadOnly
               PROVE  \/ Lines(disk[pane[s].m_strPath]) = PaneLines(pane[s])
                      \/ /\ pane[s].converted \/ ~ pane[s].whole
                         /\ pane[s].m_nSyncPosition = pane[s].marker - 1
                         /\ pane[s].loaded.text = TextOf(pane[s])
    BY DEF UnmodifiedShowsFile
  <2> DEFINE p == pane[s]
  <2>1. PaneInv(p, disk, m_bLimited)
    BY DEF IInv, WindowInv, PanesInv
  <2>2. Exists(p.m_strPath) /\ p.m_pSaveFileInfo /\ ~ p.m_bModified /\ ~ p.m_bReadOnly
    OBVIOUS
  <2> HIDE DEF p
  <2>3. p.marker \in 1 .. Len(p.log) /\ p.m_nSyncPosition = p.marker - 1
    BY <2>1, <2>2 DEF PaneInv
  <2>4. p.m_nSyncPosition # npos /\ p.m_nSyncPosition + 1 = p.marker
    BY <2>1, <2>3 DEF npos, PaneInv, IsPane
  <2>5. p.loaded.text = TextOf(p)
    BY <2>1, <2>3, <2>4 DEF PaneInv, TextOf
  <2>6. disk[p.m_strPath] = p.loaded
    BY <2>1, <2>2 DEF PaneInv, Exists
  <2>7. /\ p.converted \in BOOLEAN /\ p.whole \in BOOLEAN
        /\ p.loaded.converted \in BOOLEAN /\ p.loaded.whole \in BOOLEAN
        /\ p.loaded.converted => p.converted
        /\ p.whole => p.loaded.whole
    BY <2>1 DEF PaneInv, IsPane, Contents
  <2>8. CASE ~ p.converted /\ p.whole
    <3>1. p.loaded.converted = p.converted /\ p.loaded.whole = p.whole
      BY <2>7, <2>8
    <3> QED BY <2>5, <2>6, <3>1 DEF Lines, PaneLines, p
  <2>9. CASE p.converted \/ ~ p.whole
    BY <2>3, <2>5, <2>9 DEF p
  <2> QED BY <2>8, <2>9
<1> QED BY <1>1, Inductive, PTL

-----------------------------------------------------------------------------
(* Entries of a pane in an order *)

Places(order, s, first, last) == {j \in first .. last : order[j] = s}

(* An order fits a pane with this marker and this many texts. *)
Fits(order, cur, s, marker, len) ==
    /\ Cardinality(Places(order, s, 1, cur)) <= marker - 1
    /\ Cardinality(Places(order, s, cur + 1, Len(order))) <= len - marker

(* Places are counted by natural numbers.                                  *)
LEMMA PlacesAreFinite ==
    ASSUME NEW order, NEW s, NEW first \in Int, NEW last \in Int
    PROVE  /\ IsFiniteSet(Places(order, s, first, last))
           /\ Cardinality(Places(order, s, first, last)) \in Nat
<1>1. IsFiniteSet(first .. last)
  BY FS_Interval
<1>2. Places(order, s, first, last) \in SUBSET (first .. last)
  BY DEF Places
<1>3. IsFiniteSet(Places(order, s, first, last))
  BY <1>1, <1>2, FS_Subset
<1> QED BY <1>3, FS_CardinalityType

(* One more place at the end *)
LEMMA OnePlaceMore ==
    ASSUME NEW order, NEW s, NEW last \in Nat
    PROVE  Cardinality(Places(order, s, 1, last + 1))
              = Cardinality(Places(order, s, 1, last)) + IF order[last + 1] = s THEN 1 ELSE 0
<1> DEFINE old == Places(order, s, 1, last)
<1>1. IsFiniteSet(old) /\ Cardinality(old) \in Nat
  BY PlacesAreFinite
<1>2. last + 1 \notin old
  BY DEF Places
<1>3. Places(order, s, 1, last + 1) = IF order[last + 1] = s THEN old \cup {last + 1} ELSE old
  BY DEF Places
<1> HIDE DEF old
<1>4. Cardinality(old \cup {last + 1}) = Cardinality(old) + 1
  BY <1>1, <1>2, FS_AddElement
<1> QED BY <1>1, <1>3, <1>4 DEF old

(* One more place in front *)
LEMMA OnePlaceBefore ==
    ASSUME NEW order, NEW s, NEW first \in Nat, NEW last \in Nat, first <= last
    PROVE  Cardinality(Places(order, s, first, last))
              = Cardinality(Places(order, s, first + 1, last)) + IF order[first] = s THEN 1 ELSE 0
<1> DEFINE old == Places(order, s, first + 1, last)
<1>1. IsFiniteSet(old) /\ Cardinality(old) \in Nat
  BY PlacesAreFinite
<1>2. first \notin old
  BY DEF Places
<1>3. Places(order, s, first, last) = IF order[first] = s THEN old \cup {first} ELSE old
  BY DEF Places
<1> HIDE DEF old
<1>4. Cardinality(old \cup {first}) = Cardinality(old) + 1
  BY <1>1, <1>2, FS_AddElement
<1> QED BY <1>1, <1>3, <1>4 DEF old

(* An emptied order fits any pane.                                         *)
LEMMA EmptyFits ==
    ASSUME NEW s, NEW len \in Nat, NEW marker \in 1 .. len
    PROVE  Fits(<<>>, 0, s, marker, len)
<1>1. Places(<<>>, s, 1, 0) = {} /\ Places(<<>>, s, 0 + 1, Len(<<>>)) = {}
  BY DEF Places
<1> QED BY <1>1, FS_EmptySet DEF Fits

(* An edit of pane s adds a text there and drops what could be redone.     *)
LEMMA EditFits ==
    ASSUME NEW order \in Seq(Sides), NEW cur \in 0 .. Len(order), NEW s \in Sides, NEW t \in Sides,
           NEW len \in Nat, NEW marker \in 1 .. len, Fits(order, cur, t, marker, len)
    PROVE  LET new == Append(SubSeq(order, 1, cur), s)
           IN  /\ new \in Seq(Sides) /\ Len(new) = cur + 1
               /\ t = s => Fits(new, cur + 1, t, marker + 1, marker + 1)
               /\ t # s => Fits(new, cur + 1, t, marker, len)
<1> DEFINE new == Append(SubSeq(order, 1, cur), s)
<1>0. cur \in Nat
  OBVIOUS
<1>1. /\ new \in Seq(Sides) /\ Len(new) = cur + 1 /\ new[cur + 1] = s
      /\ \A j \in 1 .. cur : new[j] = order[j]
  OBVIOUS
<1> HIDE DEF new
<1>a. Cardinality(Places(new, t, 1, cur + 1))
         = Cardinality(Places(order, t, 1, cur)) + IF new[cur + 1] = t THEN 1 ELSE 0
  <2>1. Cardinality(Places(new, t, 1, cur + 1))
           = Cardinality(Places(new, t, 1, cur)) + IF new[cur + 1] = t THEN 1 ELSE 0
    BY <1>0, OnePlaceMore
  <2>2. Places(new, t, 1, cur) = Places(order, t, 1, cur)
    BY <1>1 DEF Places
  <2> QED BY <2>1, <2>2
<1>2. Cardinality(Places(new, t, 1, cur + 1))
         = Cardinality(Places(order, t, 1, cur)) + IF s = t THEN 1 ELSE 0
  BY <1>1, <1>a
<1>3. Places(new, t, (cur + 1) + 1, Len(new)) = {}
  BY <1>0, <1>1 DEF Places
<1>4. Cardinality(Places(new, t, (cur + 1) + 1, Len(new))) = 0
  BY <1>3, FS_EmptySet
<1>5. Cardinality(Places(order, t, 1, cur)) \in Nat
  BY <1>0, PlacesAreFinite
<1>6. Cardinality(Places(order, t, 1, cur)) <= marker - 1
  BY DEF Fits
<1>7. CASE t = s
  BY <1>1, <1>2, <1>4, <1>5, <1>6, <1>7 DEF Fits, new
<1>8. CASE t # s
  BY <1>1, <1>2, <1>4, <1>5, <1>6, <1>8 DEF Fits, new
<1> QED BY <1>7, <1>8

(* The last entry that is not undone goes to the other side, in the order  *)
(* and in its pane.                                                        *)
LEMMA UndoFits ==
    ASSUME NEW order \in Seq(Sides), NEW cur \in 0 .. Len(order), cur > 0, NEW t \in Sides,
           NEW len \in Nat, NEW marker \in 1 .. len, Fits(order, cur, t, marker, len)
    PROVE  /\ t = order[cur] => Fits(order, cur - 1, t, marker - 1, len)
           /\ t # order[cur] => Fits(order, cur - 1, t, marker, len)
<1> DEFINE n == cur - 1
           undone == Cardinality(Places(order, t, cur + 1, Len(order)))
           done == Cardinality(Places(order, t, 1, n))
<1>0. n \in Nat /\ n + 1 = cur /\ cur \in Nat /\ Len(order) \in Nat /\ cur <= Len(order)
  OBVIOUS
<1>1. Cardinality(Places(order, t, 1, n + 1)) = done + IF order[n + 1] = t THEN 1 ELSE 0
  BY <1>0, OnePlaceMore
<1>2. Cardinality(Places(order, t, cur, Len(order))) = undone + IF order[cur] = t THEN 1 ELSE 0
  BY <1>0, OnePlaceBefore
<1>3. done \in Nat /\ undone \in Nat
  BY <1>0, PlacesAreFinite
<1>4. Cardinality(Places(order, t, 1, cur)) <= marker - 1 /\ undone <= len - marker
  BY DEF Fits
<1>5. /\ done + (IF order[cur] = t THEN 1 ELSE 0) <= marker - 1
      /\ Cardinality(Places(order, t, n + 1, Len(order))) = undone + IF order[cur] = t THEN 1 ELSE 0
      /\ Fits(order, n, t, marker - 1, len) <=>
            /\ done <= (marker - 1) - 1
            /\ Cardinality(Places(order, t, n + 1, Len(order))) <= len - (marker - 1)
      /\ Fits(order, n, t, marker, len) <=>
            /\ done <= marker - 1
            /\ Cardinality(Places(order, t, n + 1, Len(order))) <= len - marker
  BY <1>0, <1>1, <1>2, <1>4 DEF Fits
<1> HIDE DEF done, undone
<1> QED BY <1>3, <1>4, <1>5

(* The first entry that is undone comes back. *)
LEMMA RedoFits ==
    ASSUME NEW order \in Seq(Sides), NEW cur \in 0 .. Len(order), cur < Len(order), NEW t \in Sides,
           NEW len \in Nat, NEW marker \in 1 .. len, Fits(order, cur, t, marker, len)
    PROVE  /\ t = order[cur + 1] => Fits(order, cur + 1, t, marker + 1, len)
           /\ t # order[cur + 1] => Fits(order, cur + 1, t, marker, len)
<1> DEFINE n == cur + 1
           undone == Cardinality(Places(order, t, n + 1, Len(order)))
           done == Cardinality(Places(order, t, 1, cur))
<1>0. cur \in Nat /\ n \in Nat /\ Len(order) \in Nat /\ n <= Len(order)
  OBVIOUS
<1> HIDE DEF n
<1>1. Cardinality(Places(order, t, 1, n)) = done + IF order[n] = t THEN 1 ELSE 0
  BY <1>0, OnePlaceMore DEF n
<1>2. Cardinality(Places(order, t, n, Len(order))) = undone + IF order[n] = t THEN 1 ELSE 0
  BY <1>0, OnePlaceBefore
<1>3. done \in Nat /\ undone \in Nat
  BY <1>0, PlacesAreFinite
<1>4. done <= marker - 1 /\ Cardinality(Places(order, t, n, Len(order))) <= len - marker
  BY DEF Fits, n
<1>5. /\ Fits(order, n, t, marker + 1, len) <=>
            /\ Cardinality(Places(order, t, 1, n)) <= (marker + 1) - 1
            /\ undone <= len - (marker + 1)
      /\ Fits(order, n, t, marker, len) <=>
            /\ Cardinality(Places(order, t, 1, n)) <= marker - 1
            /\ undone <= len - marker
  BY DEF Fits
<1> HIDE DEF done, undone
<1> QED BY <1>0, <1>1, <1>2, <1>3, <1>4, <1>5 DEF n

-----------------------------------------------------------------------------
(* Steps that leave the texts alone *)

(* What differences are found in is as before.                             *)
SameText(q, p) ==
    /\ q.log = p.log /\ q.marker = p.marker /\ q.converted = p.converted
    /\ q.limited = p.limited /\ (~ p.limited => q.whole = p.whole)
    /\ q.m_bEditAfterRescan = p.m_bEditAfterRescan

Quiet ==
    /\ UNCHANGED <<shown, undoTgt, curUndo, m_bLimited, compared>>
    /\ \A t \in Sides : SameText(pane'[t], pane[t])

(* Notes about the file and settings of a pane                             *)
LEMMA SameTexts ==
    ASSUME NEW p, IsPane(p)
    PROVE  /\ SameText(p, p)
           /\ SameText(Outdated(p), p)
           /\ \A path : SameText(SavedTo(p, path), p)
           /\ SameText([p EXCEPT !.m_bModified = TRUE], p)
           /\ \A ro, m : SameText([p EXCEPT !.m_bReadOnly = ro, !.m_bInitialReadOnly = ro,
                                            !.m_bModified = m], p)
<1>0. DOMAIN p = PaneFields /\ p.whole \in BOOLEAN /\ p.limited \in BOOLEAN
  BY DEF IsPane
<1>1. SameText(p, p)
  BY DEF SameText
<1>2. SameText(Outdated(p), p)
  BY <1>0 DEF SameText, Outdated, PaneFields
<1>3. ASSUME NEW path
      PROVE  SameText(SavedTo(p, path), p)
  <2> DEFINE content == ContentOf(p)
             q == [p EXCEPT !.m_strPath = path, !.whole = content.whole, !.m_bModified = FALSE,
                            !.m_nSyncPosition = p.marker - 1,
                            !.m_pSaveFileInfo = TRUE, !.m_pRescanFileInfo = TRUE,
                            !.loaded = content]
  <2>1. SavedTo(p, path) = q
    BY DEF SavedTo
  <2>2. ~ p.limited => content.whole = p.whole
    BY <1>0 DEF ContentOf
  <2> HIDE DEF content
  <2>3. /\ q.log = p.log /\ q.marker = p.marker /\ q.converted = p.converted
        /\ q.limited = p.limited /\ q.whole = content.whole
        /\ q.m_bEditAfterRescan = p.m_bEditAfterRescan
    BY <1>0 DEF PaneFields
  <2> HIDE DEF q
  <2> QED BY <2>1, <2>2, <2>3 DEF SameText
<1>4. SameText([p EXCEPT !.m_bModified = TRUE], p)
  BY <1>0 DEF SameText, PaneFields
<1>5. ASSUME NEW ro, NEW m
      PROVE  SameText([p EXCEPT !.m_bReadOnly = ro, !.m_bInitialReadOnly = ro, !.m_bModified = m], p)
  BY <1>0 DEF SameText, PaneFields
<1> QED BY <1>1, <1>2, <1>3, <1>4, <1>5

(* The panes of an open window                                             *)
LEMMA OpenPanes ==
    ASSUME IInv, shown # NoItem
    PROVE  /\ pane = [t \in Sides |-> pane[t]]
           /\ \A t \in Sides : PaneInv(pane[t], disk, m_bLimited) /\ IsPane(pane[t])
           /\ \A t \in Sides : pane[t].log \in Seq(Texts) /\ pane[t].marker \in 1 .. Len(pane[t].log)
BY DEF IInv, WindowInv, PanesInv, PaneInv, IsPane

(* Steps that leave the panes alone                                        *)
LEMMA UntouchedIsQuiet ==
    ASSUME IInv, shown # NoItem, UNCHANGED <<shown, pane, undoTgt, curUndo, m_bLimited, compared>>
    PROVE  Quiet
BY OpenPanes, SameTexts DEF Quiet

(* Another program or a script changes files.                              *)
LEMMA NoticedIsQuiet ==
    ASSUME IInv, shown # NoItem, NEW changed, pane' = Noticed(pane, changed, 0),
           UNCHANGED <<shown, undoTgt, curUndo, m_bLimited, compared>>
    PROVE  Quiet
<1>1. ASSUME NEW t \in Sides
      PROVE  SameText(pane'[t], pane[t])
  <2>1. pane'[t] = Outdated(pane[t]) \/ pane'[t] = pane[t]
    BY DEF Noticed, Outdated
  <2> QED BY <2>1, OpenPanes, SameTexts
<1> QED BY <1>1 DEF Quiet

(* A pane is saved.                                                        *)
LEMMA WriteFileIsQuiet ==
    ASSUME IInv, shown # NoItem, NEW s \in Sides, NEW path, WriteFile(s, path)
    PROVE  Quiet
<1> DEFINE panes == [pane EXCEPT ![s] = SavedTo(pane[s], path)]
<1>1. /\ pane' = Noticed(panes, {path}, s)
      /\ UNCHANGED <<shown, undoTgt, curUndo, m_bLimited, compared>>
  BY DEF WriteFile
<1>2. panes[s] = SavedTo(pane[s], path) /\ \A t \in Sides : t # s => panes[t] = pane[t]
  BY OpenPanes
<1> HIDE DEF panes
<1>3. ASSUME NEW t \in Sides
      PROVE  SameText(pane'[t], pane[t])
  <2>1. \/ pane'[t] = SavedTo(pane[t], path)
        \/ pane'[t] = Outdated(pane[t]) \/ pane'[t] = pane[t]
    BY <1>1, <1>2 DEF Noticed, Outdated
  <2> QED BY <2>1, OpenPanes, SameTexts
<1> QED BY <1>1, <1>3 DEF Quiet

(* One pane gets another setting.                                          *)
LEMMA SettingIsQuiet ==
    ASSUME IInv, shown # NoItem, NEW s \in Sides, SwitchEncoding(s) \/ OnReadOnly(s)
    PROVE  Quiet
<1>1. UNCHANGED <<shown, undoTgt, curUndo, m_bLimited, compared>>
  BY DEF SwitchEncoding, OnReadOnly
<1>2. \E q : pane' = [pane EXCEPT ![s] = q] /\ SameText(q, pane[s])
  <2>1. CASE SwitchEncoding(s)
    <3> DEFINE q == [pane[s] EXCEPT !.m_bModified = TRUE]
    <3>1. pane' = [pane EXCEPT ![s] = q] /\ SameText(q, pane[s])
      BY <2>1, OpenPanes, SameTexts DEF SwitchEncoding
    <3> QED BY <3>1
  <2>2. CASE OnReadOnly(s)
    <3> DEFINE ro == ~ pane[s].m_bReadOnly
               m == ~ ro /\ pane[s].m_nSyncPosition # pane[s].marker - 1
               q == [pane[s] EXCEPT !.m_bReadOnly = ro, !.m_bInitialReadOnly = ro, !.m_bModified = m]
    <3>1. pane' = [pane EXCEPT ![s] = q]
      BY <2>2 DEF OnReadOnly
    <3>2. SameText(q, pane[s])
      <4> HIDE DEF ro, m
      <4> QED BY OpenPanes, SameTexts
    <3> QED BY <3>1, <3>2
  <2> QED BY <2>1, <2>2
<1>3. PICK q : pane' = [pane EXCEPT ![s] = q] /\ SameText(q, pane[s])
  BY <1>2
<1>4. ASSUME NEW t \in Sides
      PROVE  SameText(pane'[t], pane[t])
  <2>1. t = s => pane'[t] = q
    BY <1>3, OpenPanes
  <2>2. t # s => pane'[t] = pane[t]
    BY <1>3, OpenPanes
  <2> QED BY <1>3, <2>1, <2>2, OpenPanes, SameTexts
<1> QED BY <1>1, <1>4 DEF Quiet

-----------------------------------------------------------------------------
(* Steps that edit, undo and redo *)

(* The property, pane by pane                                              *)
LEMMA FitsPanes ==
    /\ UndoOrderFitsPanes <=>
          (shown # NoItem => \A s \in Sides :
              Fits(undoTgt, curUndo, s, pane[s].marker, Len(pane[s].log)))
    /\ UndoOrderFitsPanes' <=>
          (shown' # NoItem => \A s \in Sides :
              Fits(undoTgt', curUndo', s, pane'[s].marker, Len(pane'[s].log)))
BY DEF UndoOrderFitsPanes, EntriesOf, Fits, Places

(* What an open window has to undo                                         *)
LEMMA OpenOrder ==
    ASSUME IInv, shown # NoItem
    PROVE  /\ undoTgt \in Seq(Sides) /\ curUndo \in 0 .. Len(undoTgt)
           /\ \A t \in Sides : Len(pane[t].log) \in Nat /\ pane[t].marker \in 1 .. Len(pane[t].log)
<1>1. undoTgt \in Seq(Sides) /\ curUndo \in 0 .. Len(undoTgt)
  BY DEF IInv, WindowInv
<1>2. ASSUME NEW t \in Sides
      PROVE  Len(pane[t].log) \in Nat /\ pane[t].marker \in 1 .. Len(pane[t].log)
  BY OpenPanes
<1> QED BY <1>1, <1>2

(* Nothing is undone or edited.                                            *)
LEMMA QuietOrder ==
    ASSUME UndoOrderFitsPanes, shown' = shown, UNCHANGED <<undoTgt, curUndo>>,
           \A t \in Sides : pane'[t].log = pane[t].log /\ pane'[t].marker = pane[t].marker
    PROVE  UndoOrderFitsPanes'
BY FitsPanes

(* All undo records of both panes go.                                      *)
LEMMA ClearedOrder ==
    ASSUME IInv', ClearUndoOrder
    PROVE  UndoOrderFitsPanes'
<1> SUFFICES ASSUME shown' # NoItem, NEW s \in Sides
             PROVE  Fits(<<>>, 0, s, pane'[s].marker, Len(pane'[s].log))
  BY FitsPanes DEF ClearUndoOrder
<1>1. PaneInv(pane[s], disk, m_bLimited)'
  BY DEF IInv, WindowInv, PanesInv
<1>2. pane'[s].log \in Seq(Texts) /\ pane'[s].marker \in 1 .. Len(pane'[s].log)
  BY <1>1 DEF PaneInv, IsPane
<1>3. Len(pane'[s].log) \in Nat
  BY <1>2
<1> QED BY <1>2, <1>3, EmptyFits

(* An edit                                                                 *)
LEMMA EditOrder ==
    ASSUME IInv, UndoOrderFitsPanes, NEW s \in Sides, Edit(s)
    PROVE  UndoOrderFitsPanes'
<1>1. shown # NoItem
  BY DEF Edit, Command, Idle
<1> DEFINE new == Append(SubSeq(undoTgt, 1, curUndo), s)
<1>2. undoTgt' = new /\ curUndo' = curUndo + 1
  BY DEF Edit
<1>3. PICK text \in Texts : pane' = [pane EXCEPT ![s] = Edited(pane[s], text)]
  BY DEF Edit
<1>4. pane'[s] = Edited(pane[s], text) /\ \A t \in Sides : t # s => pane'[t] = pane[t]
  BY <1>1, <1>3, OpenPanes
<1>5. pane'[s].marker = pane[s].marker + 1 /\ Len(pane'[s].log) = pane[s].marker + 1
  <2> DEFINE p == pane[s]
             log == Append(SubSeq(p.log, 1, p.marker), text)
  <2>1. IsPane(p) /\ p.log \in Seq(Texts) /\ p.marker \in 1 .. Len(p.log)
    BY <1>1, OpenPanes
  <2> HIDE DEF p
  <2>2. Len(log) = p.marker + 1
    BY <2>1
  <2> HIDE DEF log
  <2>3. Edited(p, text).log = log /\ Edited(p, text).marker = p.marker + 1
    BY <2>1 DEF Edited, IsPane, PaneFields, log
  <2> QED BY <1>4, <2>2, <2>3 DEF p
<1>6. ASSUME NEW t \in Sides
      PROVE  Fits(new, curUndo + 1, t, pane'[t].marker, Len(pane'[t].log))
  <2> DEFINE len == Len(pane[t].log)
             marker == pane[t].marker
  <2>1. /\ undoTgt \in Seq(Sides) /\ curUndo \in 0 .. Len(undoTgt)
        /\ len \in Nat /\ marker \in 1 .. len
    BY <1>1, OpenOrder
  <2>2. Fits(undoTgt, curUndo, t, marker, len)
    BY <1>1, FitsPanes
  <2>3. /\ t = s => Fits(new, curUndo + 1, t, marker + 1, marker + 1)
        /\ t # s => Fits(new, curUndo + 1, t, marker, len)
    <3> HIDE DEF len, marker
    <3> QED BY <2>1, <2>2, EditFits
  <2>4. CASE t = s
    BY <1>5, <2>3, <2>4
  <2>5. CASE t # s
    BY <1>4, <2>3, <2>5
  <2> QED BY <2>4, <2>5
<1> QED BY <1>2, <1>6, FitsPanes

(* An undo or redo moves the marker of the pane whose turn it is, and the  *)
(* order's own position.                                                   *)
LEMMA MoveOrder ==
    ASSUME IInv, UndoOrderFitsPanes, OnEditUndo \/ OnEditRedo
    PROVE  UndoOrderFitsPanes'
<1> DEFINE s == IF OnEditUndo THEN undoTgt[curUndo] ELSE undoTgt[curUndo + 1]
<1>1. /\ shown # NoItem /\ shown' = shown /\ undoTgt' = undoTgt
      /\ IF OnEditUndo THEN curUndo > 0 ELSE curUndo < Len(undoTgt)
      /\ curUndo' = IF OnEditUndo THEN curUndo - 1 ELSE curUndo + 1
      /\ pane' = [pane EXCEPT ![s] = Moved(pane[s], IF OnEditUndo THEN pane[s].marker - 1
                                                    ELSE pane[s].marker + 1)]
  BY DEF OnEditUndo, OnEditRedo, Command, Idle
<1>2. /\ undoTgt \in Seq(Sides) /\ curUndo \in 0 .. Len(undoTgt)
      /\ \A t \in Sides : Len(pane[t].log) \in Nat /\ pane[t].marker \in 1 .. Len(pane[t].log)
  BY <1>1, OpenOrder
<1>3. s \in Sides
  <2>1. curUndo \in 1 .. Len(undoTgt) \/ curUndo + 1 \in 1 .. Len(undoTgt)
    BY <1>1, <1>2
  <2>2. OnEditUndo => curUndo \in 1 .. Len(undoTgt)
    BY <1>1, <1>2
  <2>3. ~ OnEditUndo => curUndo + 1 \in 1 .. Len(undoTgt)
    BY <1>1, <1>2
  <2> QED BY <1>2, <2>2, <2>3
<1>4. ASSUME NEW m
      PROVE  Moved(pane[s], m).log = pane[s].log /\ Moved(pane[s], m).marker = m
  BY <1>1, <1>3, OpenPanes DEF Moved, IsPane, PaneFields
<1>5. \A t \in Sides : Fits(undoTgt, curUndo, t, pane[t].marker, Len(pane[t].log))
  BY <1>1, FitsPanes
<1>6. CASE OnEditUndo
  <2>1. s = undoTgt[curUndo]
    BY <1>6
  <2> HIDE DEF s
  <2>2. /\ pane'[s] = Moved(pane[s], pane[s].marker - 1)
        /\ \A t \in Sides : t # s => pane'[t] = pane[t]
    BY <1>1, <1>3, <1>6, OpenPanes
  <2>3. /\ pane'[s].marker = pane[s].marker - 1 /\ pane'[s].log = pane[s].log
    BY <1>4, <2>2
  <2>4. ASSUME NEW t \in Sides
        PROVE  Fits(undoTgt, curUndo - 1, t, pane'[t].marker, Len(pane'[t].log))
    <3> DEFINE len == Len(pane[t].log)
               marker == pane[t].marker
    <3>1. len \in Nat /\ marker \in 1 .. len /\ Fits(undoTgt, curUndo, t, marker, len) /\ curUndo > 0
      BY <1>1, <1>2, <1>5, <1>6
    <3>2. /\ t = s => Fits(undoTgt, curUndo - 1, t, marker - 1, len)
          /\ t # s => Fits(undoTgt, curUndo - 1, t, marker, len)
      <4> HIDE DEF len, marker
      <4> QED BY <1>2, <2>1, <3>1, UndoFits
    <3>3. CASE t = s
      BY <2>3, <3>2, <3>3
    <3>4. CASE t # s
      BY <2>2, <3>2, <3>4
    <3> QED BY <3>3, <3>4
  <2> QED BY <1>1, <1>6, <2>4, FitsPanes
<1>7. CASE ~ OnEditUndo
  <2>1. s = undoTgt[curUndo + 1]
    BY <1>7
  <2> HIDE DEF s
  <2>2. /\ pane'[s] = Moved(pane[s], pane[s].marker + 1)
        /\ \A t \in Sides : t # s => pane'[t] = pane[t]
    BY <1>1, <1>3, <1>7, OpenPanes
  <2>3. /\ pane'[s].marker = pane[s].marker + 1 /\ pane'[s].log = pane[s].log
    BY <1>4, <2>2
  <2>4. ASSUME NEW t \in Sides
        PROVE  Fits(undoTgt, curUndo + 1, t, pane'[t].marker, Len(pane'[t].log))
    <3> DEFINE len == Len(pane[t].log)
               marker == pane[t].marker
    <3>1. /\ len \in Nat /\ marker \in 1 .. len /\ Fits(undoTgt, curUndo, t, marker, len)
          /\ curUndo < Len(undoTgt)
      BY <1>1, <1>2, <1>5, <1>7
    <3>2. /\ t = s => Fits(undoTgt, curUndo + 1, t, marker + 1, len)
          /\ t # s => Fits(undoTgt, curUndo + 1, t, marker, len)
      <4> HIDE DEF len, marker
      <4> QED BY <1>2, <2>1, <3>1, RedoFits
    <3>3. CASE t = s
      BY <2>3, <3>2, <3>3
    <3>4. CASE t # s
      BY <2>2, <3>2, <3>4
    <3> QED BY <3>3, <3>4
  <2> QED BY <1>1, <1>7, <2>4, FitsPanes
<1> QED BY <1>6, <1>7

-----------------------------------------------------------------------------
(* All steps *)

(* Commands and calls of the window that change no text                    *)
QuietAction(s) ==
    \/ OnRefresh \/ AfterSave \/ UpdateChangedItem \/ OnClose
    \/ \E S \in SUBSET Sides : OnFileSave(S)
    \/ SwitchEncoding(s) \/ OnReadOnly(s) \/ RescanNothingNew(s) \/ RescanFileGone(s)
    \/ OnFileSaveAs(s) \/ DoSave(s) \/ SaveToFile(s) \/ SwitchEncodingReload(s)

(* They are quiet. *)
LEMMA QuietActions ==
    ASSUME IInv, shown # NoItem, NEW s \in Sides, QuietAction(s)
    PROVE  Quiet
<1>1. CASE \/ OnRefresh \/ AfterSave \/ UpdateChangedItem \/ OnClose
           \/ \E S \in SUBSET Sides : OnFileSave(S)
           \/ RescanNothingNew(s) \/ DoSave(s) \/ SwitchEncodingReload(s)
  <2>1. UNCHANGED <<shown, pane, undoTgt, curUndo, m_bLimited, compared>>
    BY <1>1 DEF OnRefresh, AfterSave, UpdateChangedItem, OnClose, OnFileSave,
                RescanNothingNew, DoSave, SwitchEncodingReload, window
  <2> QED BY <2>1, UntouchedIsQuiet
<1>2. CASE SwitchEncoding(s) \/ OnReadOnly(s)
  BY <1>2, SettingIsQuiet
<1>3. CASE \E path : WriteFile(s, path)
  BY <1>3, WriteFileIsQuiet
<1>4. CASE RescanFileGone(s)
  <2>1. CASE \E path : WriteFile(s, path)
    BY <1>3, <2>1
  <2>2. CASE UNCHANGED <<shown, pane, undoTgt, curUndo, m_bLimited, compared>>
    BY <2>2, UntouchedIsQuiet
  <2> QED BY <1>4, <2>1, <2>2 DEF RescanFileGone
<1>5. CASE SaveToFile(s)
  <2>1. CASE \E path : WriteFile(s, path)
    BY <1>3, <2>1
  <2>2. CASE UNCHANGED window
    BY <2>2, UntouchedIsQuiet DEF window
  <2> QED BY <1>5, <2>1, <2>2 DEF SaveToFile
<1>6. CASE OnFileSaveAs(s)
  <2>1. \E path : WriteFile(s, path)
    BY <1>6 DEF OnFileSaveAs
  <2> QED BY <1>3, <2>1
<1> QED BY <1>1, <1>2, <1>4, <1>5, <1>6 DEF QuietAction

(* Scripts of the folder window and other programs change no text.         *)
LEMMA OutsideIsQuiet ==
    ASSUME IInv, shown # NoItem, RunScript \/ OtherProgram
    PROVE  Quiet
<1>1. UNCHANGED <<shown, undoTgt, curUndo, m_bLimited, compared>>
  BY DEF RunScript, OtherProgram
<1>2. \E changed : pane' = Noticed(pane, changed, 0)
  BY DEF RunScript, OtherProgram
<1> QED BY <1>1, <1>2, NoticedIsQuiet

(* A step of the file window is quiet, or one of these.                    *)
LEMMA KindOfStep ==
    ASSUME WindowNext
    PROVE  \/ OpenDocs \/ OnEditUndo \/ OnEditRedo \/ RescanCompare \/ Close
           \/ \E limited \in BOOLEAN : SetContextLines(limited)
           \/ \E s \in Sides :
                 \/ Edit(s) \/ OnConvertEol(s) \/ RescanFileChanged(s) \/ ReloadDoc(s)
                 \/ QuietAction(s)
<1>1. 1 \in Sides
  BY DEF Sides
<1> QED BY <1>1 DEF WindowNext, QuietAction

(* Line breaks are converted, or what is compared is noted.                *)
LEMMA SameHistories ==
    ASSUME IInv, shown # NoItem,
           RescanCompare \/ \E s \in Sides : OnConvertEol(s)
    PROVE  \A t \in Sides : pane'[t].log = pane[t].log /\ pane'[t].marker = pane[t].marker
<1>1. CASE RescanCompare
  <2>1. \A t \in Sides : pane'[t] = [pane[t] EXCEPT !.limited = FALSE, !.m_bEditAfterRescan = FALSE,
                                                  !.m_pRescanFileInfo = TRUE]
    BY <1>1 DEF RescanCompare, Rescan2
  <2> QED BY <2>1, OpenPanes DEF IsPane, PaneFields
<1>2. ASSUME NEW s \in Sides, OnConvertEol(s)
      PROVE  \A t \in Sides : pane'[t].log = pane[t].log /\ pane'[t].marker = pane[t].marker
  <2>1. pane' = [pane EXCEPT ![s] = [pane[s] EXCEPT !.converted = TRUE, !.m_bModified = TRUE]]
    BY <1>2, OpenPanes DEF OnConvertEol
  <2> QED BY <2>1, OpenPanes DEF IsPane, PaneFields
<1> QED BY <1>1, <1>2

(* Every step keeps the order fit for the panes.                          *)
LEMMA OrderKeeps == IInv /\ UndoOrderFitsPanes /\ [Next]_vars => UndoOrderFitsPanes'
<1> SUFFICES ASSUME IInv, UndoOrderFitsPanes, [Next]_vars
             PROVE  UndoOrderFitsPanes'
  OBVIOUS
<1>1. IInv'
  BY NextKeeps DEF StepKeeps
<1>2. CASE Quiet
  BY <1>2, QuietOrder DEF Quiet, SameText
<1>3. CASE ClearUndoOrder
  BY <1>1, <1>3, ClearedOrder
<1>4. CASE shown = NoItem /\ shown' = shown
  BY <1>4 DEF UndoOrderFitsPanes
<1>5. CASE WindowNext
  <2>1. CASE OpenDocs
    BY <1>3, <2>1 DEF OpenDocs
  <2>2. CASE OnEditUndo \/ OnEditRedo
    BY <2>2, MoveOrder
  <2>3. CASE Close
    <3>1. CASE ClearUndoOrder
      BY <1>3, <3>1
    <3>2. CASE UNCHANGED window
      BY <3>2, QuietOrder DEF window
    <3> QED BY <2>3, <3>1, <3>2 DEF Close
  <2>4. CASE \E limited \in BOOLEAN : SetContextLines(limited)
    BY <1>3, <2>4 DEF SetContextLines
  <2>5. ASSUME NEW s \in Sides, Edit(s)
        PROVE  UndoOrderFitsPanes'
    BY <2>5, EditOrder
  <2>6. CASE RescanCompare \/ \E s \in Sides : OnConvertEol(s)
    <3>1. shown # NoItem
      BY <2>6, WindowIsOpen DEF RescanCompare, OnConvertEol, Command, Idle
    <3>2. UNCHANGED <<shown, undoTgt, curUndo>>
      BY <2>6 DEF RescanCompare, OnConvertEol
    <3> QED BY <2>6, <3>1, <3>2, SameHistories, QuietOrder
  <2>7. ASSUME NEW s \in Sides, RescanFileChanged(s) \/ ReloadDoc(s)
        PROVE  UndoOrderFitsPanes'
    <3>1. CASE ClearUndoOrder
      BY <1>3, <3>1
    <3>2. CASE UNCHANGED <<shown, pane, undoTgt, curUndo>>
      BY <3>2, QuietOrder
    <3>3. ClearUndoOrder \/ UNCHANGED <<shown, pane, undoTgt, curUndo>>
      BY <2>7 DEF RescanFileChanged, ReloadDoc
    <3> QED BY <3>1, <3>2, <3>3
  <2>8. ASSUME NEW s \in Sides, QuietAction(s)
        PROVE  UndoOrderFitsPanes'
    <3>1. CASE shown # NoItem
      BY <1>2, <2>8, <3>1, QuietActions
    <3>2. shown # NoItem
      BY <2>8, WindowIsOpen
         DEF QuietAction, OnRefresh, AfterSave, UpdateChangedItem, OnClose, OnFileSave,
             SwitchEncoding, OnReadOnly, RescanNothingNew, RescanFileGone, OnFileSaveAs, DoSave,
             SaveToFile, SwitchEncodingReload, SaveModified, Command, Idle
    <3> QED BY <3>1, <3>2
  <2> QED BY <1>5, <2>1, <2>2, <2>3, <2>4, <2>5, <2>6, <2>7, <2>8, KindOfStep
<1>6. CASE RunScript \/ OtherProgram
  <2>1. CASE shown # NoItem
    BY <1>2, <1>6, <2>1, OutsideIsQuiet
  <2>2. shown' = shown
    BY <1>6 DEF RunScript, OtherProgram
  <2> QED BY <1>4, <2>1, <2>2
<1>7. CASE UNCHANGED vars
  BY <1>7, QuietOrder DEF vars, windowVars, window
<1> QED BY <1>5, <1>6, <1>7 DEF Next

(* However the two panes are edited, undone, redone, reloaded and closed:  *)
(* what the shared order says is to be undone or redone next is in the     *)
(* undo buffer of its pane.                                                *)
THEOREM UndoOrderFits == Spec => []UndoOrderFitsPanes
<1>1. Init => UndoOrderFitsPanes
  BY DEF Init, WindowInit, UndoOrderFitsPanes
<1>2. IInv /\ UndoOrderFitsPanes /\ [Next]_vars => UndoOrderFitsPanes'
  BY OrderKeeps
<1> QED BY <1>1, <1>2, Inductive, PTL DEF Spec

-----------------------------------------------------------------------------
(* The calls of a command that compare the texts and tell the item *)

(* One of the first calls compares the texts. *)
Awaits(cs, n) == \E j \in 1 .. n : cs[j] = <<"Rescan2", 0>>

(* A look at a file is followed by the comparing that it is for; after the *)
(* saves, and after the item was told, only a reload or closing is left.   *)
ScanCalls(cs) ==
    \A i \in 1 .. Len(cs) :
        /\ cs[i][1] = "Rescan" =>
              \E j \in i + 1 .. Len(cs) :
                  /\ cs[j] = <<"Rescan2", 0>>
                  /\ \A k \in i .. j : cs[k][1] \in {"Rescan", "Rescan2"}
        /\ cs[i][1] \in {"AfterSave", "UpdateChangedItem"} =>
              \A j \in i + 1 .. Len(cs) : cs[j][1] \in {"ReloadDoc", "Close"}

(* Limited context is never rescanned.  The item is told only of what was  *)
(* saved, and of what was compared if it may be.                           *)
CallsFit(cs, limited, success, free) ==
    /\ ScanCalls(cs)
    /\ \A i \in 1 .. Len(cs) :
        /\ cs[i][1] \in {"Rescan", "Rescan2"} => ~ limited
        /\ cs[i][1] = "UpdateChangedItem" => success /\ (free \/ Awaits(cs, i))

Scanned == \A s \in Sides : ~ pane[s].m_bEditAfterRescan

Free == refused \/ m_bLimited \/ Scanned

Current == compared = [s \in Sides |-> PaneLines(pane[s])]

(* The differences are current, or are going to be. *)
CurrentInv ==
    shown # NoItem /\ ~ refused =>
        /\ m_bLimited => \A s \in Sides : pane[s].limited
        /\ Scanned /\ (\A s \in Sides : ~ pane[s].limited) => Current \/ Awaits(calls, Len(calls))

(* Calls that save, or that follow saves *)
Saving(cs) ==
    \E i \in 1 .. Len(cs) :
        cs[i][1] \in {"DoSave", "SaveToFile", "AfterSave", "UpdateChangedItem"}

(* Until the item has been told of a save, it is known not to tell of it.  *)
SavedInv ==
    shown # NoItem /\ save.success /\ Saving(calls) =>
        \E s \in Sides : ItemOf(pane[s].m_strPath) \subseteq strayed

CallOrderInv == CallsFit(calls, m_bLimited, save.success, Free)

ShownInv == CallOrderInv /\ CurrentInv /\ SavedInv /\ ItemsTellFiles

-----------------------------------------------------------------------------
(* Calls *)

(* No calls                                                                *)
LEMMA NoCallsFit ==
    ASSUME NEW cs, cs = <<>>, NEW limited, NEW success, NEW free
    PROVE  CallsFit(cs, limited, success, free) /\ ~ Awaits(cs, Len(cs))
<1>1. 1 .. Len(cs) = {}
  OBVIOUS
<1> QED BY <1>1 DEF CallsFit, ScanCalls, Awaits

(* The calls that are left when some have been made or given up, and what  *)
(* is known of the texts then                                              *)
LEMMA SuffixFits ==
    ASSUME NEW cs, CallsInv(cs), cs # <<>>, NEW k \in Nat, k >= 2,
           NEW limited, NEW success, NEW free, CallsFit(cs, limited, success, free),
           NEW now, free => now, now \/ (k = 2 /\ cs[1] # <<"Rescan2", 0>>)
    PROVE  CallsFit(SubSeq(cs, k, Len(cs)), limited, success, now)
<1> DEFINE rest == SubSeq(cs, k, Len(cs))
           n == Len(rest)
<1>1. cs \in Seq(Call) /\ Len(cs) \in Nat
  BY DEF CallsInv
<1>2. /\ n = IF k <= Len(cs) THEN Len(cs) - k + 1 ELSE 0
      /\ \A i \in 1 .. n : rest[i] = cs[i + (k - 1)]
  BY SuffixKeeps
<1> HIDE DEF rest
<1>3. ASSUME NEW i \in 1 .. n
      PROVE  /\ i + (k - 1) \in 1 .. Len(cs) /\ rest[i] = cs[i + (k - 1)]
             /\ n + (k - 1) = Len(cs)
  BY <1>1, <1>2
<1>4. ASSUME NEW m \in k .. Len(cs)
      PROVE  m - (k - 1) \in 1 .. n /\ rest[m - (k - 1)] = cs[m]
  <2>1. m - (k - 1) \in 1 .. n /\ (m - (k - 1)) + (k - 1) = m
    BY <1>1, <1>2
  <2> QED BY <1>2, <2>1
<1>5. ASSUME NEW i \in 1 .. n, rest[i][1] = "Rescan"
      PROVE  \E j \in i + 1 .. n :
                 /\ rest[j] = <<"Rescan2", 0>>
                 /\ \A l \in i .. j : rest[l][1] \in {"Rescan", "Rescan2"}
  <2> DEFINE m == i + (k - 1)
  <2>1. m \in 1 .. Len(cs) /\ cs[m][1] = "Rescan" /\ m >= k /\ m \in Nat
    BY <1>3, <1>5
  <2> HIDE DEF m
  <2>2. PICK j \in m + 1 .. Len(cs) :
            /\ cs[j] = <<"Rescan2", 0>>
            /\ \A l \in m .. j : cs[l][1] \in {"Rescan", "Rescan2"}
    BY <2>1 DEF CallsFit, ScanCalls
  <2> DEFINE h == j - (k - 1)
  <2>3. j \in k .. Len(cs) /\ j \in Nat
    BY <1>1, <2>1
  <2>4. h \in 1 .. n /\ rest[h] = <<"Rescan2", 0>>
    BY <1>4, <2>2, <2>3
  <2>5. h \in i + 1 .. n
    BY <2>3, <2>4, <2>1 DEF m
  <2>6. ASSUME NEW l \in i .. h
        PROVE  rest[l][1] \in {"Rescan", "Rescan2"}
    <3>1. l \in 1 .. n /\ l + (k - 1) \in m .. j
      BY <2>3, <2>4, <2>5 DEF m
    <3> QED BY <1>2, <2>2, <3>1
  <2> QED BY <2>4, <2>5, <2>6
<1>6. ASSUME NEW i \in 1 .. n, rest[i][1] \in {"AfterSave", "UpdateChangedItem"},
             NEW j \in i + 1 .. n
      PROVE  rest[j][1] \in {"ReloadDoc", "Close"}
  <2> DEFINE m == i + (k - 1)
             h == j + (k - 1)
  <2>1. m \in 1 .. Len(cs) /\ h \in m + 1 .. Len(cs) /\ rest[i] = cs[m] /\ rest[j] = cs[h]
    BY <1>2, <1>3
  <2> HIDE DEF m, h
  <2> QED BY <1>6, <2>1 DEF CallsFit, ScanCalls
<1>7. ASSUME NEW i \in 1 .. n
      PROVE  rest[i][1] \in {"Rescan", "Rescan2"} => ~ limited
  <2>1. i + (k - 1) \in 1 .. Len(cs) /\ rest[i] = cs[i + (k - 1)]
    BY <1>3
  <2> QED BY <2>1 DEF CallsFit
<1>8. ASSUME NEW i \in 1 .. n, rest[i][1] = "UpdateChangedItem"
      PROVE  success /\ (now \/ Awaits(rest, i))
  <2> DEFINE m == i + (k - 1)
  <2>1. m \in 1 .. Len(cs) /\ rest[i] = cs[m] /\ m \in Nat
    BY <1>3
  <2>2. success /\ (free \/ Awaits(cs, m))
    <3> HIDE DEF m
    <3> QED BY <1>8, <2>1 DEF CallsFit
  <2>3. CASE now \/ free
    BY <2>2, <2>3
  <2>4. CASE ~ now /\ ~ free
    <3>1. k = 2 /\ cs[1] # <<"Rescan2", 0>> /\ m = i + 1
      BY <2>4
    <3>2. PICK j \in 1 .. m : cs[j] = <<"Rescan2", 0>>
      BY <2>2, <2>4 DEF Awaits
    <3>3. j # 1
      BY <3>1, <3>2
    <3>4. j \in k .. Len(cs) /\ j - (k - 1) \in 1 .. i
      BY <2>1, <3>1, <3>3
    <3>5. rest[j - (k - 1)] = <<"Rescan2", 0>>
      BY <1>4, <3>2, <3>4
    <3> QED BY <2>2, <3>4, <3>5 DEF Awaits
  <2> QED BY <2>3, <2>4
<1>9. ScanCalls(rest)
  BY <1>5, <1>6 DEF ScanCalls
<1> QED BY <1>7, <1>8, <1>9 DEF CallsFit, rest

(* The calls that are left when one has been made *)
LEMMA TailFits ==
    ASSUME NEW cs, CallsInv(cs), cs # <<>>,
           NEW limited, NEW success, NEW free, CallsFit(cs, limited, success, free),
           NEW now, free => now, now \/ cs[1] # <<"Rescan2", 0>>
    PROVE  CallsFit(Tail(cs), limited, success, now)
<1>1. Tail(cs) = SubSeq(cs, 2, Len(cs))
  BY TailIsSubSeq DEF CallsInv
<1>2. 2 \in Nat /\ 2 >= 2
  OBVIOUS
<1>3. CallsFit(SubSeq(cs, 2, Len(cs)), limited, success, now)
  BY <1>2, SuffixFits
<1> QED BY <1>1, <1>3

(* A call that compares nothing does not change that one is awaited.       *)
LEMMA TailAwaits ==
    ASSUME NEW cs, CallsInv(cs), cs # <<>>, cs[1] # <<"Rescan2", 0>>, Awaits(cs, Len(cs))
    PROVE  Awaits(Tail(cs), Len(Tail(cs)))
<1>1. cs \in Seq(Call) /\ Len(cs) \in Nat
  BY DEF CallsInv
<1>2. /\ Len(Tail(cs)) = Len(cs) - 1
      /\ \A i \in 1 .. Len(cs) - 1 : Tail(cs)[i] = cs[i + 1]
  BY TailKeeps
<1>3. PICK j \in 1 .. Len(cs) : cs[j] = <<"Rescan2", 0>>
  BY DEF Awaits
<1>4. j - 1 \in 1 .. Len(cs) - 1 /\ (j - 1) + 1 = j
  BY <1>1, <1>3
<1>5. Tail(cs)[j - 1] = <<"Rescan2", 0>>
  BY <1>2, <1>3, <1>4
<1> QED BY <1>2, <1>4, <1>5 DEF Awaits

(* What follows the saves, or is done instead, comes last.                 *)
LEMMA ConcatFits ==
    ASSUME NEW made \in Seq(Call), NEW rest \in Seq(Call),
           \A i \in 1 .. Len(rest) : rest[i][1] \in {"ReloadDoc", "Close"},
           NEW limited, NEW success, NEW free, CallsFit(made, limited, success, free)
    PROVE  CallsFit(made \o rest, limited, success, free)
<1> DEFINE all == made \o rest
           n == Len(made)
<1>1. /\ n \in Nat /\ Len(rest) \in Nat /\ Len(all) = n + Len(rest)
      /\ \A i \in 1 .. n : all[i] = made[i]
      /\ \A i \in 1 .. Len(rest) : all[n + i] = rest[i]
  OBVIOUS
<1> HIDE DEF all
<1>2. ASSUME NEW i \in 1 .. Len(all), i \notin 1 .. n
      PROVE  all[i][1] \in {"ReloadDoc", "Close"}
  <2>1. i - n \in 1 .. Len(rest) /\ n + (i - n) = i
    BY <1>1, <1>2
  <2> QED BY <1>1, <2>1, ZenonT(40)
<1>3. ASSUME NEW i \in 1 .. Len(all), all[i][1] \notin {"ReloadDoc", "Close"}
      PROVE  i \in 1 .. n /\ all[i] = made[i]
  BY <1>1, <1>2, <1>3
<1>4. ScanCalls(all)
  <2>1. ASSUME NEW i \in 1 .. Len(all), all[i][1] = "Rescan"
        PROVE  \E j \in i + 1 .. Len(all) :
                   /\ all[j] = <<"Rescan2", 0>>
                   /\ \A k \in i .. j : all[k][1] \in {"Rescan", "Rescan2"}
    <3>1. i \in 1 .. n /\ made[i][1] = "Rescan"
      BY <1>3, <2>1
    <3>2. PICK j \in i + 1 .. n :
              /\ made[j] = <<"Rescan2", 0>>
              /\ \A k \in i .. j : made[k][1] \in {"Rescan", "Rescan2"}
      BY <3>1 DEF CallsFit, ScanCalls
    <3>3. j \in i + 1 .. Len(all) /\ j \in 1 .. n
      BY <1>1, <3>1
    <3>4. all[j] = <<"Rescan2", 0>>
      BY <1>1, <3>2, <3>3
    <3>5. ASSUME NEW k \in i .. j
          PROVE  all[k][1] \in {"Rescan", "Rescan2"}
      <4>1. k \in 1 .. n
        BY <3>1, <3>3
      <4> QED BY <1>1, <3>2, <4>1
    <3> QED BY <3>3, <3>4, <3>5
  <2>2. ASSUME NEW i \in 1 .. Len(all), all[i][1] \in {"AfterSave", "UpdateChangedItem"},
               NEW j \in i + 1 .. Len(all)
        PROVE  all[j][1] \in {"ReloadDoc", "Close"}
    <3>1. i \in 1 .. n /\ made[i][1] \in {"AfterSave", "UpdateChangedItem"}
      BY <1>3, <2>2
    <3>2. CASE j \in 1 .. n
      <4>1. j \in i + 1 .. n
        BY <1>1, <3>1, <3>2
      <4>2. made[j][1] \in {"ReloadDoc", "Close"}
        BY <3>1, <4>1 DEF CallsFit, ScanCalls
      <4> QED BY <1>1, <3>2, <4>2
    <3>3. CASE j \notin 1 .. n
      <4>1. j \in 1 .. Len(all)
        BY <1>1, <3>1
      <4> QED BY <1>2, <3>3, <4>1
    <3> QED BY <3>2, <3>3
  <2> QED BY <2>1, <2>2 DEF ScanCalls
<1>5. ASSUME NEW i \in 1 .. Len(all)
      PROVE  /\ all[i][1] \in {"Rescan", "Rescan2"} => ~ limited
             /\ all[i][1] = "UpdateChangedItem" => success /\ (free \/ Awaits(all, i))
  <2>1. CASE all[i][1] \in {"ReloadDoc", "Close"}
    BY <2>1
  <2>2. CASE all[i][1] \notin {"ReloadDoc", "Close"}
    <3>1. i \in 1 .. n /\ all[i] = made[i]
      BY <1>3, <2>2
    <3>2. /\ made[i][1] \in {"Rescan", "Rescan2"} => ~ limited
          /\ made[i][1] = "UpdateChangedItem" => success /\ (free \/ Awaits(made, i))
      BY <3>1 DEF CallsFit
    <3>3. Awaits(made, i) => Awaits(all, i)
      <4>1. ASSUME NEW j \in 1 .. i
            PROVE  j \in 1 .. n /\ all[j] = made[j]
        BY <1>1, <3>1
      <4> QED BY <4>1 DEF Awaits
    <3> QED BY <3>1, <3>2, <3>3
  <2> QED BY <2>1, <2>2
<1> QED BY <1>4, <1>5 DEF CallsFit, all

(* Nothing but saves and what follows them                                 *)
LEMMA OnlySavesFit ==
    ASSUME NEW cs, OnlySaves(cs), NEW limited, NEW success, NEW free
    PROVE  CallsFit(cs, limited, success, free)
<1>1. \A i \in 1 .. Len(cs) : cs[i][1] \notin {"Rescan", "Rescan2", "UpdateChangedItem"}
  BY DEF OnlySaves
<1>2. \A i \in 1 .. Len(cs) : cs[i][1] = "AfterSave" =>
          \A j \in i + 1 .. Len(cs) : cs[j][1] \in {"ReloadDoc", "Close"}
  BY DEF OnlySaves
<1>3. ScanCalls(cs)
  BY <1>1, <1>2 DEF ScanCalls
<1> QED BY <1>1, <1>3 DEF CallsFit

(* The calls of a rescan, alone and followed by telling the item           *)
LEMMA FlushFits ==
    ASSUME NEW success, NEW free
    PROVE  LET made == FlushAndRescan
               update == <<<<"UpdateChangedItem", 0>>>>
           IN  /\ CallsFit(made, m_bLimited, success, free) /\ made \in Seq(Call)
               /\ ~ m_bLimited => Awaits(made, Len(made))
               /\ made \o update \in Seq(Call) /\ update \in Seq(Call)
               /\ success /\ (m_bLimited => free) =>
                     CallsFit(made \o update, m_bLimited, success, free)
               /\ success /\ free => CallsFit(update, m_bLimited, success, free)
<1> DEFINE update == <<<<"UpdateChangedItem", 0>>>>
<1>1. update \in Seq(Call) /\ Len(update) = 1 /\ update[1] = <<"UpdateChangedItem", 0>>
  BY DEF Call
<1> HIDE DEF update
<1>2. ASSUME success, free
      PROVE  CallsFit(update, m_bLimited, success, free)
  <2>1. ScanCalls(update)
    <3>1. \A i \in 1 .. Len(update) : update[i][1] = "UpdateChangedItem" /\ i + 1 .. Len(update) = {}
      BY <1>1
    <3> QED BY <3>1 DEF ScanCalls
  <2>2. \A i \in 1 .. Len(update) : update[i][1] = "UpdateChangedItem"
    BY <1>1
  <2> QED BY <1>2, <2>1, <2>2 DEF CallsFit
<1>3. CASE m_bLimited
  <2>1. FlushAndRescan = <<>>
    BY <1>3 DEF FlushAndRescan
  <2>2. <<>> \o update = update
    BY <1>1, ConcatEmptySeq
  <2>3. CallsFit(<<>>, m_bLimited, success, free) /\ <<>> \in Seq(Call)
    BY NoCallsFit
  <2> QED BY <1>1, <1>2, <1>3, <2>1, <2>2, <2>3 DEF update
<1>4. CASE ~ m_bLimited
  <2> DEFINE made == <<<<"Rescan", 1>>, <<"Rescan", 2>>, <<"Rescan2", 0>>>>
             all == made \o update
  <2>1. FlushAndRescan = made
    BY <1>4 DEF FlushAndRescan
  <2>2. /\ made \in Seq(Call) /\ Len(made) = 3
        /\ made[1][1] = "Rescan" /\ made[2][1] = "Rescan" /\ made[3] = <<"Rescan2", 0>>
    BY DEF Call
  <2>3. Awaits(made, Len(made))
    <3> HIDE DEF made
    <3>1. 3 \in 1 .. Len(made)
      BY <2>2
    <3> QED BY <2>2, <3>1 DEF Awaits
  <2> HIDE DEF made
  <2>4. /\ all \in Seq(Call) /\ Len(all) = 4
        /\ all[1][1] = "Rescan" /\ all[2][1] = "Rescan" /\ all[3] = <<"Rescan2", 0>>
        /\ all[4] = <<"UpdateChangedItem", 0>>
    <3> DEFINE c == <<"UpdateChangedItem", 0>>
    <3>1. c \in Call
      BY DEF Call
    <3>2. c = <<"UpdateChangedItem", 0>> /\ all = made \o <<c>>
      BY DEF update
    <3> HIDE DEF c, all
    <3>3. /\ made \o <<c>> \in Seq(Call) /\ Len(made \o <<c>>) = Len(made) + 1
          /\ (made \o <<c>>)[Len(made) + 1] = c
          /\ \A i \in 1 .. Len(made) : (made \o <<c>>)[i] = made[i]
      BY <2>2, <3>1, OneMore, Zenon
    <3>4. /\ all \in Seq(Call) /\ Len(all) = 4 /\ all[4] = c
          /\ \A i \in 1 .. 3 : all[i] = made[i]
      BY <2>2, <3>2, <3>3
    <3> QED BY <2>2, <3>2, <3>4
  <2> HIDE DEF all
  <2>5. ASSUME NEW cs, cs \in Seq(Call), Len(cs) \in {3, 4},
               cs[1][1] = "Rescan", cs[2][1] = "Rescan", cs[3] = <<"Rescan2", 0>>,
               Len(cs) = 4 => success /\ cs[4] = <<"UpdateChangedItem", 0>>
        PROVE  CallsFit(cs, m_bLimited, success, free)
    <3>1. \A i \in 1 .. Len(cs) : i \in 1 .. 3 \/ (i = 4 /\ Len(cs) = 4)
      <4>1. CASE Len(cs) = 3
        BY <4>1
      <4>2. CASE Len(cs) = 4
        BY <4>2
      <4> QED BY <2>5, <4>1, <4>2
    <3>2. ASSUME NEW i \in 1 .. Len(cs), cs[i][1] = "Rescan"
          PROVE  \E j \in i + 1 .. Len(cs) :
                     /\ cs[j] = <<"Rescan2", 0>>
                     /\ \A k \in i .. j : cs[k][1] \in {"Rescan", "Rescan2"}
      <4>1. i \in {1, 2} /\ 3 \in i + 1 .. Len(cs)
        BY <2>5, <3>1, <3>2
      <4>2. ASSUME NEW k \in i .. 3
            PROVE  cs[k][1] \in {"Rescan", "Rescan2"}
        <5>1. k = 1 \/ k = 2 \/ k = 3
          BY <4>1
        <5> QED BY <2>5, <5>1
      <4> QED BY <2>5, <4>1, <4>2
    <3>3. ASSUME NEW i \in 1 .. Len(cs), cs[i][1] \in {"AfterSave", "UpdateChangedItem"}
          PROVE  i = 4 /\ i + 1 .. Len(cs) = {}
      <4>1. i \notin 1 .. 3
        <5>1. i \in 1 .. 3 => i = 1 \/ i = 2 \/ i = 3
          OBVIOUS
        <5> QED BY <2>5, <3>3, <5>1
      <4> QED BY <3>1, <4>1
    <3>4. ScanCalls(cs)
      BY <3>2, <3>3 DEF ScanCalls
    <3>5. ASSUME NEW i \in 1 .. Len(cs), cs[i][1] = "UpdateChangedItem"
          PROVE  success /\ Awaits(cs, i)
      <4>1. i = 4 /\ i \in 1 .. Len(cs)
        BY <3>3, <3>5
      <4>2. Len(cs) = 4 /\ 3 \in 1 .. i
        BY <3>1, <4>1
      <4> QED BY <2>5, <4>2 DEF Awaits
    <3> QED BY <1>4, <3>4, <3>5 DEF CallsFit
  <2>6. CallsFit(made, m_bLimited, success, free)
    BY <2>2, <2>5
  <2>7. success => CallsFit(all, m_bLimited, success, free)
    BY <2>4, <2>5
  <2> QED BY <1>1, <1>2, <2>1, <2>2, <2>3, <2>4, <2>6, <2>7 DEF all, update
<1> QED BY <1>3, <1>4

(* A save has been agreed to.                                              *)
LEMMA SaveNextFits ==
    ASSUME NEW cs, CallsInv(cs), cs # <<>>, cs[1][1] = "DoSave", NEW s \in Sides,
           NEW limited, NEW success, NEW free, CallsFit(cs, limited, success, free)
    PROVE  LET all == <<<<"SaveToFile", s>>>> \o Tail(cs)
           IN  /\ CallsFit(all, limited, success, free)
               /\ Awaits(cs, Len(cs)) => Awaits(all, Len(all))
               /\ Len(all) = Len(cs) /\ all[1] = <<"SaveToFile", s>>
               /\ \A i \in 2 .. Len(cs) : all[i] = cs[i]
<1> DEFINE all == <<<<"SaveToFile", s>>>> \o Tail(cs)
<1>1. /\ all[1] = <<"SaveToFile", s>>
      /\ \A i \in 2 .. Len(cs) : i \in 1 .. Len(all) /\ all[i] = cs[i]
  BY SaveToFileNext
<1>2. cs \in Seq(Call) /\ Len(cs) \in Nat /\ Len(cs) >= 1
  BY DEF CallsInv
<1>3. Len(all) = Len(cs)
  <2>1. Tail(cs) \in Seq(Call) /\ Len(Tail(cs)) = Len(cs) - 1
    BY <1>2
  <2>2. <<<<"SaveToFile", s>>>> \in Seq(Call) /\ Len(<<<<"SaveToFile", s>>>>) = 1
    BY DEF Call, Sides
  <2> QED BY <1>2, <2>1, <2>2
<1> HIDE DEF all
<1>4. ASSUME NEW i \in 1 .. Len(cs)
      PROVE  i = 1 \/ i \in 2 .. Len(cs)
  BY <1>2
<1>5. ASSUME NEW i \in 1 .. Len(cs), cs[i] = <<"Rescan2", 0>>
      PROVE  all[i] = <<"Rescan2", 0>>
  BY <1>1, <1>4, <1>5
<1>6. ASSUME NEW i \in 1 .. Len(cs), all[i][1] # "SaveToFile"
      PROVE  i \in 2 .. Len(cs) /\ all[i] = cs[i]
  BY <1>1, <1>4, <1>6
<1>7. ScanCalls(all)
  <2>1. ASSUME NEW i \in 1 .. Len(cs), all[i][1] = "Rescan"
        PROVE  \E j \in i + 1 .. Len(cs) :
                   /\ all[j] = <<"Rescan2", 0>>
                   /\ \A k \in i .. j : all[k][1] \in {"Rescan", "Rescan2"}
    <3>1. i \in 2 .. Len(cs) /\ cs[i][1] = "Rescan"
      BY <1>6, <2>1
    <3>2. PICK j \in i + 1 .. Len(cs) :
              /\ cs[j] = <<"Rescan2", 0>>
              /\ \A k \in i .. j : cs[k][1] \in {"Rescan", "Rescan2"}
      BY <3>1 DEF CallsFit, ScanCalls
    <3>3. j \in 1 .. Len(cs)
      BY <1>2, <3>1
    <3>4. ASSUME NEW k \in i .. j
          PROVE  all[k][1] \in {"Rescan", "Rescan2"}
      <4>1. k \in 2 .. Len(cs)
        BY <1>2, <3>1, <3>3
      <4> QED BY <1>1, <3>2, <4>1
    <3> QED BY <1>5, <3>2, <3>3, <3>4
  <2>2. ASSUME NEW i \in 1 .. Len(cs), all[i][1] \in {"AfterSave", "UpdateChangedItem"},
               NEW j \in i + 1 .. Len(cs)
        PROVE  all[j][1] \in {"ReloadDoc", "Close"}
    <3>1. i \in 2 .. Len(cs) /\ cs[i][1] \in {"AfterSave", "UpdateChangedItem"}
      BY <1>6, <2>2
    <3>2. j \in 2 .. Len(cs)
      BY <1>2, <3>1
    <3> QED BY <1>1, <3>1, <3>2 DEF CallsFit, ScanCalls
  <2> QED BY <1>3, <2>1, <2>2 DEF ScanCalls
<1>8. ASSUME NEW i \in 1 .. Len(cs)
      PROVE  /\ all[i][1] \in {"Rescan", "Rescan2"} => ~ limited
             /\ all[i][1] = "UpdateChangedItem" => success /\ (free \/ Awaits(all, i))
  <2>1. CASE all[i][1] = "SaveToFile"
    BY <2>1
  <2>2. CASE all[i][1] # "SaveToFile"
    <3>1. all[i] = cs[i]
      BY <1>6, <2>2
    <3>2. Awaits(cs, i) => Awaits(all, i)
      <4>1. \A j \in 1 .. i : j \in 1 .. Len(cs)
        BY <1>2
      <4> QED BY <1>5, <4>1 DEF Awaits
    <3> QED BY <3>1, <3>2 DEF CallsFit
  <2> QED BY <2>1, <2>2
<1>9. Awaits(cs, Len(cs)) => Awaits(all, Len(all))
  BY <1>3, <1>5 DEF Awaits
<1>10. \A i \in 2 .. Len(cs) : all[i] = cs[i]
  BY <1>1
<1>11. CallsFit(all, limited, success, free)
  BY <1>3, <1>7, <1>8 DEF CallsFit
<1> QED BY <1>1, <1>3, <1>9, <1>10, <1>11 DEF all

-----------------------------------------------------------------------------
(* The calls to be made *)

(* The calls of an open window                                             *)
LEMMA OpenCalls ==
    ASSUME IInv
    PROVE  /\ CallsInv(calls) /\ (calls # <<>> => shown # NoItem)
           /\ calls \in Seq(Call) /\ (calls # <<>> => Tail(calls) \in Seq(Call))
           /\ \A op, s : Calling(op, s) => calls # <<>> /\ calls[1] = <<op, s>> /\ 1 \in 1 .. Len(calls)
<1>1. CallsInv(calls) /\ (calls # <<>> => shown # NoItem) /\ calls \in Seq(Call)
  BY DEF IInv, WindowInv, CallsInv
<1>2. ASSUME NEW op, NEW s, Calling(op, s)
      PROVE  calls # <<>> /\ calls[1] = <<op, s>> /\ 1 \in 1 .. Len(calls)
  <2>1. calls # <<>> /\ Len(calls) \in Nat \ {0} /\ calls[1] = <<op, s>>
    BY <1>1, <1>2, HeadOfCalls
  <2> QED BY <2>1
<1>3. calls # <<>> => Tail(calls) \in Seq(Call)
  BY <1>1
<1> QED BY <1>1, <1>2, <1>3

(* The next call is done and makes no other.                               *)
LEMMA NothingMore ==
    ASSUME IInv, calls # <<>>, NEW saved, NEW given, Return(<<>>, saved, given)
    PROVE  /\ calls' = Tail(calls)
           /\ save' = (IF calls' = <<>> THEN NotSaved ELSE saved)
<1>1. Tail(calls) \in Seq(Call)
  BY OpenCalls
<1>2. <<>> \o Tail(calls) = Tail(calls)
  BY <1>1, ConcatEmptySeq
<1> QED BY <1>2 DEF Return, Calls

(* More is known of the saves, or of the texts.                            *)
LEMMA MoreIsKnown ==
    ASSUME NEW cs, NEW limited, NEW success, NEW free, CallsFit(cs, limited, success, free),
           NEW saved, success => saved, NEW now, free => now
    PROVE  CallsFit(cs, limited, saved, now)
BY DEF CallsFit

(* A command makes the calls of a rescan, or none.                         *)
LEMMA CommandFits ==
    ASSUME Command(<<>>) \/ (Command(FlushAndRescan) /\ m_bLimited' = m_bLimited)
    PROVE  CallOrderInv'
<1>1. calls' = <<>> \/ (calls' = FlushAndRescan /\ m_bLimited' = m_bLimited)
  BY DEF Command, Calls
<1>2. CallsFit(calls', m_bLimited', save'.success, Free')
  BY <1>1, NoCallsFit, FlushFits
<1> QED BY <1>2 DEF CallOrderInv

(* A call makes no further ones.                                           *)
LEMMA ReturnFits ==
    ASSUME IInv, CallOrderInv, calls # <<>>, NEW saved, NEW given, Return(<<>>, saved, given),
           save.success => saved.success, m_bLimited' = m_bLimited,
           Free => Free', Free' \/ calls[1] # <<"Rescan2", 0>>
    PROVE  CallOrderInv'
<1>1. /\ calls' = Tail(calls) /\ save' = (IF calls' = <<>> THEN NotSaved ELSE saved)
      /\ CallsInv(calls)
  BY NothingMore, OpenCalls
<1>2. CASE calls' = <<>>
  BY <1>2, NoCallsFit DEF CallOrderInv
<1>3. CASE calls' # <<>>
  <2>1. CallsFit(calls, m_bLimited, save.success, Free)
    BY DEF CallOrderInv
  <2>2. CallsFit(Tail(calls), m_bLimited, save.success, Free')
    BY <1>1, <2>1, TailFits
  <2>3. save.success => save'.success
    BY <1>1, <1>3
  <2>4. CallsFit(Tail(calls), m_bLimited, save'.success, Free')
    BY <2>2, <2>3, MoreIsKnown, SMTT(30)
  <2> QED BY <1>1, <2>4 DEF CallOrderInv
<1> QED BY <1>2, <1>3

(* Nothing is known of fewer panes.                                        *)
LEMMA QuietIsFree ==
    ASSUME Quiet, refused => refused'
    PROVE  (Free => Free') /\ (Scanned <=> Scanned')
BY DEF Quiet, SameText, Free, Scanned

(* What a load leaves alone                                                *)
LEMMA LoadFileLeaves ==
    ASSUME NEW p, IsPane(p)
    PROVE  /\ LoadFile(p).m_bEditAfterRescan = p.m_bEditAfterRescan
           /\ LoadFile(p).m_strPath = p.m_strPath
           /\ LoadFile(p).limited = FALSE
<1> DEFINE found == Exists(p.m_strPath)
           content == IF found THEN disk[p.m_strPath] ELSE NoFile
           text == <<content.text>>
           ro == p.m_bReadOnly /\ found
           q == [p EXCEPT !.log = text, !.marker = 1,
                          !.converted = content.converted, !.whole = content.whole,
                          !.limited = FALSE,
                          !.m_bModified = FALSE, !.m_nSyncPosition = 0,
                          !.m_bReadOnly = ro,
                          !.m_pSaveFileInfo = found, !.m_pRescanFileInfo = found,
                          !.loaded = content]
<1>1. LoadFile(p) = q
  BY DEF LoadFile
<1> HIDE DEF text, content, ro, found
<1>2. /\ q.m_bEditAfterRescan = p.m_bEditAfterRescan /\ q.m_strPath = p.m_strPath
      /\ q.limited = FALSE
  BY DEF IsPane, PaneFields
<1> QED BY <1>1, <1>2

(* A pane is loaded anew.                                                  *)
LEMMA OneLoaded ==
    ASSUME IInv, shown # NoItem, NEW s \in Sides,
           pane' = [pane EXCEPT ![s] = LoadFile(pane[s])]
    PROVE  /\ pane'[s].limited = FALSE
           /\ \A t \in Sides : t # s => pane'[t] = pane[t]
           /\ \A t \in Sides : /\ pane'[t].m_bEditAfterRescan = pane[t].m_bEditAfterRescan
                               /\ pane'[t].m_strPath = pane[t].m_strPath
           /\ Scanned <=> Scanned'
<1>1. pane'[s] = LoadFile(pane[s]) /\ \A t \in Sides : t # s => pane'[t] = pane[t]
  BY OpenPanes
<1>2. \A t \in Sides : /\ pane'[t].m_bEditAfterRescan = pane[t].m_bEditAfterRescan
                       /\ pane'[t].m_strPath = pane[t].m_strPath
  BY <1>1, OpenPanes, LoadFileLeaves
<1>3. pane'[s].limited = FALSE
  BY <1>1, OpenPanes, LoadFileLeaves
<1> QED BY <1>1, <1>2, <1>3 DEF Scanned

(* All texts are compared.                                                 *)
LEMMA AllCompared ==
    ASSUME NEW panes, NEW limited, \A t \in Sides : IsPane(panes[t]), Rescan2(panes, limited)
    PROVE  /\ \A t \in Sides :
                /\ pane'[t].log = panes[t].log /\ pane'[t].marker = panes[t].marker
                /\ pane'[t].converted = panes[t].converted /\ pane'[t].whole = panes[t].whole
                /\ pane'[t].m_strPath = panes[t].m_strPath
                /\ pane'[t].limited = limited /\ ~ pane'[t].m_bEditAfterRescan
           /\ Scanned' /\ Current' /\ refused' = FALSE
<1>1. /\ pane' = [s \in Sides |-> [panes[s] EXCEPT !.limited = limited,
                                                !.m_bEditAfterRescan = FALSE,
                                                !.m_pRescanFileInfo = TRUE]]
      /\ compared' = [s \in Sides |-> PaneLines(panes[s])] /\ refused' = FALSE
  BY DEF Rescan2
<1>2. ASSUME NEW t \in Sides
      PROVE  /\ pane'[t].log = panes[t].log /\ pane'[t].marker = panes[t].marker
             /\ pane'[t].converted = panes[t].converted /\ pane'[t].whole = panes[t].whole
             /\ pane'[t].m_strPath = panes[t].m_strPath
             /\ pane'[t].limited = limited /\ ~ pane'[t].m_bEditAfterRescan
  <2>1. IsPane(panes[t])
    OBVIOUS
  <2> QED BY <1>1, <2>1 DEF IsPane, PaneFields
<1>3. \A t \in Sides : PaneLines(pane'[t]) = PaneLines(panes[t])
  BY <1>2 DEF PaneLines, TextOf
<1>4. Current'
  BY <1>1, <1>3 DEF Current
<1> QED BY <1>1, <1>2, <1>4 DEF Scanned

(* A file has been saved, and what is modified is saved before a reload.   *)
LEMMA SavesFit ==
    ASSUME \/ \E S \in SUBSET Sides : OnFileSave(S)
           \/ OnClose \/ \E s \in Sides : SwitchEncodingReload(s)
    PROVE  CallOrderInv'
<1>1. CASE \E S \in SUBSET Sides : OnFileSave(S)
  <2>1. PICK S \in SUBSET Sides : OnFileSave(S)
    BY <1>1
  <2> DEFINE then == <<>>
             saves == Saves(S) \o <<<<"AfterSave", 0>>>>
             cs == saves \o then
  <2>2. then \in Seq(Call) /\ Len(then) = 0 /\ 1 .. Len(then) = {} /\ then = <<>>
    OBVIOUS
  <2>3. calls' = saves
    BY <2>1 DEF OnFileSave, Command, Calls
  <2> HIDE DEF then
  <2>4. cs = saves
    BY <2>2, ConcatEmptySeq
  <2>5. OnlySaves(cs)
    <3>1. Len(then) <= 1 /\ \A i \in 1 .. Len(then) : then[i][1] \in {"ReloadDoc", "Close"}
      BY <2>2
    <3> QED BY <2>2, <3>1, SaveCalls
  <2> HIDE DEF cs, saves
  <2> QED BY <2>3, <2>4, <2>5, OnlySavesFit DEF CallOrderInv
<1>2. ASSUME NEW op \in {"ReloadDoc", "Close"}, NEW n \in 0 .. 2, SaveModified(<<<<op, n>>>>)
      PROVE  CallOrderInv'
  <2> DEFINE then == <<<<op, n>>>>
             modified == {s \in Sides : pane[s].m_bModified}
  <2>1. PICK S \in SUBSET modified :
            calls' = (IF modified = {} THEN <<>> ELSE Saves(S) \o <<<<"AfterSave", 0>>>>) \o then
    BY <1>2 DEF SaveModified, Calls
  <2>2. then \in Seq(Call) /\ Len(then) = 1 /\ then[1] = <<op, n>>
    BY DEF Call
  <2> HIDE DEF then, modified
  <2>3. \A i \in 1 .. Len(then) : then[i][1] \in {"ReloadDoc", "Close"}
    BY <2>2
  <2>4. CASE modified = {}
    <3>1. calls' = then
      BY <2>1, <2>2, <2>4, ConcatEmptySeq
    <3>2. OnlySaves(then)
      BY <2>3 DEF OnlySaves
    <3> QED BY <3>1, <3>2, OnlySavesFit DEF CallOrderInv
  <2>5. CASE modified # {}
    <3> DEFINE cs == (Saves(S) \o <<<<"AfterSave", 0>>>>) \o then
    <3>1. calls' = cs
      BY <2>1, <2>5
    <3>2. OnlySaves(cs)
      <4>1. Len(then) <= 1
        BY <2>2
      <4> QED BY <2>2, <2>3, <4>1, SaveCalls
    <3> HIDE DEF cs
    <3> QED BY <3>1, <3>2, OnlySavesFit DEF CallOrderInv
  <2> QED BY <2>4, <2>5
<1>3. CASE OnClose
  <2>1. "Close" \in {"ReloadDoc", "Close"} /\ 0 \in 0 .. 2
    OBVIOUS
  <2> QED BY <1>2, <1>3, <2>1 DEF OnClose
<1>4. ASSUME NEW s \in Sides, SwitchEncodingReload(s)
      PROVE  CallOrderInv'
  <2>1. "ReloadDoc" \in {"ReloadDoc", "Close"} /\ s \in 0 .. 2
    BY DEF Sides
  <2> QED BY <1>2, <1>4, <2>1 DEF SwitchEncodingReload
<1> QED BY <1>1, <1>3, <1>4

(* The item is told of what was saved, after a rescan if there are edits.  *)
LEMMA AfterSaveFits ==
    ASSUME IInv, CallOrderInv, AfterSave
    PROVE  CallOrderInv'
<1> DEFINE update == <<<<"UpdateChangedItem", 0>>>>
           rescan == IF \E s \in Sides : pane[s].m_bEditAfterRescan THEN FlushAndRescan ELSE <<>>
           rest == Tail(calls)
<1>1. /\ Calling("AfterSave", 0) /\ UNCHANGED window
      /\ Return(IF save.success THEN rescan \o update ELSE <<>>, save, agreed)
  BY DEF AfterSave
<1>2. calls # <<>> /\ calls[1] = <<"AfterSave", 0>> /\ 1 \in 1 .. Len(calls) /\ CallsInv(calls)
      /\ rest \in Seq(Call) /\ shown # NoItem
  BY <1>1, OpenCalls
<1>3. Free => Free'
  BY <1>1 DEF Free, Scanned, window
<1>4. CASE ~ save.success
  <2>1. Return(<<>>, save, agreed) /\ m_bLimited' = m_bLimited
    BY <1>1, <1>4 DEF window
  <2> QED BY <1>2, <1>3, <2>1, ReturnFits
<1>5. CASE save.success
  <2>1. \A i \in 1 .. Len(rest) : rest[i][1] \in {"ReloadDoc", "Close"}
    <3> SUFFICES ASSUME NEW i \in 1 .. Len(rest)
                 PROVE  rest[i][1] \in {"ReloadDoc", "Close"}
      OBVIOUS
    <3>1. Len(rest) = Len(calls) - 1 /\ \A j \in 1 .. Len(calls) - 1 : rest[j] = calls[j + 1]
      BY <1>2, TailKeeps
    <3>2. Len(calls) \in Nat
      BY <1>2 DEF CallsInv
    <3> HIDE DEF rest
    <3>3. rest[i] = calls[i + 1] /\ i + 1 \in 1 + 1 .. Len(calls)
      BY <3>1, <3>2
    <3>4. \A j \in 1 + 1 .. Len(calls) : calls[j][1] \in {"ReloadDoc", "Close"}
      BY <1>2 DEF CallOrderInv, CallsFit, ScanCalls
    <3> QED BY <3>3, <3>4
  <2>2. ASSUME NEW made \in Seq(Call), Return(made, save, agreed), made # <<>>,
               CallsFit(made, m_bLimited, save.success, Free')
        PROVE  CallOrderInv'
    <3>1. made \o rest # <<>>
      <4> HIDE DEF rest
      <4>1. Len(made) > 0
        BY <2>2
      <4> QED BY <1>2, <4>1
    <3>2. calls' = made \o rest /\ save' = save
      BY <2>2, <3>1 DEF Return, Calls
    <3> HIDE DEF rest
    <3>3. CallsFit(made \o rest, m_bLimited, save.success, Free')
      BY <1>2, <2>1, <2>2, ConcatFits
    <3> QED BY <1>1, <3>2, <3>3 DEF CallOrderInv, window
  <2>3. CASE \E s \in Sides : pane[s].m_bEditAfterRescan
    <3>1. Return(FlushAndRescan \o update, save, agreed)
      BY <1>1, <1>5, <2>3
    <3>2. m_bLimited => Free'
      BY <1>1 DEF Free, window
    <3>3. CallsFit(FlushAndRescan \o update, m_bLimited, save.success, Free')
          /\ FlushAndRescan \o update \in Seq(Call)
      BY <1>5, <3>2, FlushFits
    <3>4. FlushAndRescan \o update # <<>>
      <4>1. FlushAndRescan \in Seq(Call) /\ update \in Seq(Call) /\ Len(update) = 1
        BY FlushFits
      <4>2. ASSUME NEW a \in Seq(Call), NEW b \in Seq(Call), Len(b) = 1
            PROVE  a \o b # <<>>
        <5>1. Len(a \o b) = Len(a) + Len(b) /\ Len(a) \in Nat
          OBVIOUS
        <5>2. Len(a \o b) # 0
          BY <4>2, <5>1
        <5> QED BY <5>2
      <4> HIDE DEF update
      <4> QED BY <4>1, <4>2
    <3> QED BY <2>2, <3>1, <3>3, <3>4
  <2>4. CASE ~ \E s \in Sides : pane[s].m_bEditAfterRescan
    <3>1. update \in Seq(Call) /\ update # <<>>
      BY FlushFits
    <3>2. <<>> \o update = update
      BY <3>1, ConcatEmptySeq
    <3>3. Return(update, save, agreed)
      BY <1>1, <1>5, <2>4, <3>2
    <3>4. Free'
      BY <1>3, <2>4 DEF Free, Scanned
    <3>5. CallsFit(update, m_bLimited, save.success, Free')
      BY <1>5, <3>4, FlushFits
    <3> QED BY <2>2, <3>1, <3>3, <3>5
  <2> QED BY <2>3, <2>4
<1> QED BY <1>4, <1>5

(* Calls of a rescan                                                       *)
LEMMA RescanFits ==
    ASSUME IInv, CallOrderInv, NEW s \in Sides,
           RescanNothingNew(s) \/ RescanFileGone(s) \/ RescanFileChanged(s) \/ RescanCompare
    PROVE  CallOrderInv'
<1>1. CASE RescanNothingNew(s)
  <2>1. /\ Calling("Rescan", s) /\ Return(<<>>, save, agreed) /\ UNCHANGED window
    BY <1>1 DEF RescanNothingNew
  <2>2. calls # <<>> /\ calls[1] = <<"Rescan", s>>
    BY <2>1, OpenCalls
  <2>3. (Free => Free') /\ m_bLimited' = m_bLimited
    BY <2>1 DEF Free, Scanned, window
  <2> QED BY <2>1, <2>2, <2>3, ReturnFits
<1>2. CASE RescanFileGone(s)
  <2>1. Calling("Rescan", s)
    BY <1>2 DEF RescanFileGone
  <2>2. calls # <<>> /\ calls[1] = <<"Rescan", s>> /\ CallsInv(calls) /\ shown # NoItem
    BY <2>1, OpenCalls
  <2>3. CASE /\ \E path \in {pane[s].m_strPath} \union Elsewhere :
                    /\ WriteFile(s, path)
                    /\ Return(<<>>, save, agreed \union {<<"disk", path>>})
             /\ UNCHANGED refused
    <3>1. PICK path : WriteFile(s, path) /\ Return(<<>>, save, agreed \union {<<"disk", path>>})
      BY <2>3
    <3>2. Quiet
      BY <2>2, <3>1, WriteFileIsQuiet
    <3>3. (Free => Free') /\ m_bLimited' = m_bLimited
      BY <2>3, <3>2, QuietIsFree DEF Quiet
    <3> QED BY <2>2, <3>1, <3>3, ReturnFits
  <2>4. CASE /\ Calls(AfterRescan(s), save, agreed) /\ refused' = TRUE
             /\ UNCHANGED <<files, shown, pane, undoTgt, curUndo, m_bLimited, compared, budget>>
    <3> DEFINE rest == AfterRescan(s)
               k == 5 - s
    <3>1. calls' = rest /\ save' = (IF rest = <<>> THEN NotSaved ELSE save) /\ m_bLimited' = m_bLimited
      BY <2>4 DEF Calls
    <3>2. k \in Nat /\ k >= 2 /\ rest = SubSeq(calls, k, Len(calls))
      BY DEF Sides, AfterRescan
    <3>3. Free'
      BY <2>4 DEF Free
    <3>4. CallsFit(SubSeq(calls, k, Len(calls)), m_bLimited, save.success, Free')
      <4> HIDE DEF k
      <4>1. CallsFit(calls, m_bLimited, save.success, Free) /\ (Free => Free')
        BY <3>3 DEF CallOrderInv
      <4> QED BY <2>2, <3>2, <3>3, <4>1, SuffixFits
    <3>5. CallsFit(rest, m_bLimited, save.success, Free')
      BY <3>2, <3>4
    <3> HIDE DEF rest
    <3>6. CASE rest = <<>>
      BY <3>1, <3>6, NoCallsFit DEF CallOrderInv
    <3> QED BY <3>1, <3>5, <3>6 DEF CallOrderInv
  <2> QED BY <1>2, <2>3, <2>4 DEF RescanFileGone
<1>3. CASE RescanFileChanged(s)
  <2>1. Calling("Rescan", s) /\ UNCHANGED <<m_bLimited, refused>>
    BY <1>3 DEF RescanFileChanged
  <2>2. calls # <<>> /\ calls[1] = <<"Rescan", s>> /\ shown # NoItem
    BY <2>1, OpenCalls
  <2>3. \E given : Return(<<>>, save, given)
    BY <1>3 DEF RescanFileChanged
  <2>4. Scanned <=> Scanned'
    <3>1. pane' = [pane EXCEPT ![s] = LoadFile(pane[s])] \/ pane' = pane
      BY <1>3, <2>2, OpenPanes DEF RescanFileChanged
    <3>2. CASE pane' = pane
      BY <3>2 DEF Scanned
    <3> QED BY <2>2, <3>1, <3>2, OneLoaded
  <2>5. Free => Free'
    BY <2>1, <2>4 DEF Free
  <2> QED BY <2>1, <2>2, <2>3, <2>5, ReturnFits
<1>4. CASE RescanCompare
  <2>1. /\ Calling("Rescan2", 0) /\ Rescan2(pane, FALSE) /\ Return(<<>>, save, agreed)
        /\ m_bLimited' = m_bLimited
    BY <1>4 DEF RescanCompare
  <2>2. calls # <<>> /\ shown # NoItem
    BY <2>1, OpenCalls
  <2>3. Scanned'
    BY <2>1, <2>2, OpenPanes, AllCompared
  <2>4. Free'
    BY <2>3 DEF Free
  <2> QED BY <2>1, <2>2, <2>4, ReturnFits
<1> QED BY <1>1, <1>2, <1>3, <1>4

(* Saves, one by one *)
LEMMA DoSaveFits ==
    ASSUME IInv, CallOrderInv, NEW s \in Sides, DoSave(s)
    PROVE  CallOrderInv'
<1> DEFINE all == <<<<"SaveToFile", s>>>> \o Tail(calls)
<1>1. Calling("DoSave", s) /\ UNCHANGED window
  BY DEF DoSave
<1>2. calls # <<>> /\ calls[1] = <<"DoSave", s>> /\ CallsInv(calls)
  BY <1>1, OpenCalls
<1>3. (Free => Free') /\ m_bLimited' = m_bLimited
  BY <1>1 DEF Free, Scanned, window
<1>4. CASE \E given : Return(<<>>, save, given)
  <2>1. PICK given : Return(<<>>, save, given)
    BY <1>4
  <2> QED BY <1>2, <1>3, <2>1, ReturnFits
<1>5. CASE \E given : Return(<<<<"SaveToFile", s>>>>, save, given)
  <2>1. calls' = all /\ save' = (IF all = <<>> THEN NotSaved ELSE save)
    BY <1>5 DEF Return, Calls
  <2>2. CallsFit(all, m_bLimited, save.success, Free)
        /\ Len(all) = Len(calls)
    <3>1. calls[1][1] = "DoSave" /\ CallsFit(calls, m_bLimited, save.success, Free)
      BY <1>2 DEF CallOrderInv
    <3> QED BY <1>2, <3>1, SaveNextFits
  <2>3. Len(calls) \in Nat \ {0}
    BY <1>2, HeadOfCalls DEF CallsInv
  <2> HIDE DEF all
  <2>4. all # <<>>
    BY <2>2, <2>3
  <2>5. CallsFit(all, m_bLimited, save.success, Free')
    BY <1>3, <2>2, MoreIsKnown
  <2> QED BY <1>3, <2>1, <2>4, <2>5 DEF CallOrderInv
<1> QED BY <1>4, <1>5 DEF DoSave

(* A save has been done or given up.                                       *)
LEMMA SaveToFileFits ==
    ASSUME IInv, CallOrderInv, NEW s \in Sides, SaveToFile(s)
    PROVE  CallOrderInv'
<1>1. Calling("SaveToFile", s)
  BY DEF SaveToFile
<1>2. calls # <<>> /\ calls[1] = <<"SaveToFile", s>> /\ shown # NoItem
  BY <1>1, OpenCalls
<1>3. save \in [success : BOOLEAN, result : BOOLEAN]
  BY DEF IInv, WindowInv
<1> DEFINE done == [save EXCEPT !.success = TRUE]
           failed == [save EXCEPT !.result = FALSE]
<1>a. done.success = TRUE /\ failed.success = save.success
  BY <1>3
<1> HIDE DEF done, failed
<1>b. calls[1] # <<"Rescan2", 0>>
  BY <1>2
<1>4. CASE \E path, given : /\ WriteFile(s, path) /\ UNCHANGED refused
                            /\ Return(<<>>, done, given)
  <2>1. PICK path, given : WriteFile(s, path) /\ UNCHANGED refused /\ Return(<<>>, done, given)
    BY <1>4
  <2>2. Quiet
    BY <1>2, <2>1, WriteFileIsQuiet
  <2>3. (Free => Free') /\ m_bLimited' = m_bLimited
    BY <2>1, <2>2, QuietIsFree DEF Quiet
  <2>4. Return(<<>>, done, given) /\ (save.success => done.success)
    BY <1>a, <2>1
  <2> QED BY <1>2, <1>b, <2>3, <2>4, ReturnFits
<1>5. CASE Return(<<>>, failed, agreed) /\ UNCHANGED window
  <2>1. (Free => Free') /\ m_bLimited' = m_bLimited
    BY <1>5 DEF Free, Scanned, window
  <2>2. Return(<<>>, failed, agreed) /\ (save.success => failed.success)
    BY <1>a, <1>5
  <2> QED BY <1>2, <1>b, <2>1, <2>2, ReturnFits
<1> QED BY <1>4, <1>5 DEF SaveToFile, done, failed

(* The item is told; the window is reloaded or closed.                     *)
LEMMA LastFits ==
    ASSUME IInv, CallOrderInv, NEW s \in Sides, UpdateChangedItem \/ ReloadDoc(s) \/ Close
    PROVE  CallOrderInv'
<1>1. CASE UpdateChangedItem
  <2>1. Calling("UpdateChangedItem", 0) /\ UNCHANGED window /\ Return(<<>>, save, agreed)
    BY <1>1 DEF UpdateChangedItem
  <2>2. calls # <<>> /\ calls[1] = <<"UpdateChangedItem", 0>>
    BY <2>1, OpenCalls
  <2>3. (Free => Free') /\ m_bLimited' = m_bLimited
    BY <2>1 DEF Free, Scanned, window
  <2> QED BY <2>1, <2>2, <2>3, ReturnFits
<1>2. CASE ReloadDoc(s)
  <2>1. /\ Calling("ReloadDoc", s)
        /\ \/ Return(FlushAndRescan, save, agreed)
           \/ Return(<<>>, save, agreed)
        /\ m_bLimited' = m_bLimited
    BY <1>2 DEF ReloadDoc
  <2>2. calls # <<>> /\ Tail(calls) = <<>>
    BY <2>1, LastCall, OpenCalls
  <2>3. FlushAndRescan \in Seq(Call)
    BY FlushFits
  <2>4. FlushAndRescan \o <<>> = FlushAndRescan /\ <<>> \o <<>> = <<>>
    BY <2>3, ConcatEmptySeq
  <2>5. calls' = FlushAndRescan \/ calls' = <<>>
    BY <2>1, <2>2, <2>4 DEF Return, Calls
  <2>6. CallsFit(FlushAndRescan, m_bLimited, save'.success, Free')
    BY FlushFits
  <2>7. CallsFit(<<>>, m_bLimited, save'.success, Free')
    BY NoCallsFit
  <2> QED BY <2>1, <2>5, <2>6, <2>7 DEF CallOrderInv
<1>3. CASE Close
  <2>1. Calling("Close", 0) /\ Return(<<>>, NotSaved, {})
    BY <1>3 DEF Close
  <2>2. calls # <<>> /\ Tail(calls) = <<>>
    BY <2>1, LastCall, OpenCalls
  <2>3. calls' = <<>>
    BY <2>1, <2>2, NothingMore
  <2> QED BY <2>3, NoCallsFit DEF CallOrderInv
<1> QED BY <1>1, <1>2, <1>3

(* What follows an unchanged list of calls *)
LEMMA SameCallsFit ==
    ASSUME IInv, CallOrderInv, UNCHANGED <<calls, save, m_bLimited>>,
           calls # <<>> => (Free => Free')
    PROVE  CallOrderInv'
<1>1. CASE calls = <<>>
  BY <1>1, NoCallsFit DEF CallOrderInv
<1>2. CASE calls # <<>>
  <2>1. CallsFit(calls, m_bLimited, save.success, Free')
    BY <1>2, MoreIsKnown DEF CallOrderInv
  <2> QED BY <2>1 DEF CallOrderInv
<1> QED BY <1>1, <1>2

(* Every step keeps the calls in order.                                    *)
LEMMA CallOrderKeeps == IInv /\ CallOrderInv /\ [Next]_vars => CallOrderInv'
<1> SUFFICES ASSUME IInv, CallOrderInv, [Next]_vars
             PROVE  CallOrderInv'
  OBVIOUS
<1>1. CASE WindowNext
  <2>1. CASE OpenDocs
    <3>1. calls' = <<>>
      BY <2>1, OpenCalls DEF OpenDocs, asking
    <3> QED BY <3>1, NoCallsFit DEF CallOrderInv
  <2>2. CASE OnEditUndo \/ OnEditRedo \/ OnRefresh \/ \E s \in Sides : OnConvertEol(s)
    <3>1. Command(FlushAndRescan) /\ m_bLimited' = m_bLimited
      BY <2>2 DEF OnEditUndo, OnEditRedo, OnRefresh, OnConvertEol, window
    <3> QED BY <3>1, CommandFits
  <2>3. CASE \/ \E limited \in BOOLEAN : SetContextLines(limited)
             \/ \E s \in Sides : Edit(s) \/ SwitchEncoding(s) \/ OnReadOnly(s) \/ OnFileSaveAs(s)
    <3>1. Command(<<>>)
      BY <2>3 DEF SetContextLines, Edit, SwitchEncoding, OnReadOnly, OnFileSaveAs
    <3> QED BY <3>1, CommandFits
  <2>4. CASE \/ \E S \in SUBSET Sides : OnFileSave(S)
             \/ OnClose \/ \E s \in Sides : SwitchEncodingReload(s)
    BY <2>4, SavesFit
  <2>5. CASE AfterSave
    BY <2>5, AfterSaveFits
  <2>6. ASSUME NEW s \in Sides,
               RescanNothingNew(s) \/ RescanFileGone(s) \/ RescanFileChanged(s) \/ RescanCompare
        PROVE  CallOrderInv'
    BY <2>6, RescanFits
  <2>7. ASSUME NEW s \in Sides, UpdateChangedItem \/ ReloadDoc(s) \/ Close
        PROVE  CallOrderInv'
    BY <2>7, LastFits
  <2>8. ASSUME NEW s \in Sides, DoSave(s) \/ SaveToFile(s)
        PROVE  CallOrderInv'
    BY <2>8, DoSaveFits, SaveToFileFits
  <2>9. 1 \in Sides
    BY DEF Sides
  <2> QED BY <1>1, <2>1, <2>2, <2>3, <2>4, <2>5, <2>6, <2>7, <2>8, <2>9 DEF WindowNext
<1>2. CASE RunScript \/ OtherProgram
  <2>1. UNCHANGED <<calls, save, m_bLimited, refused>>
    BY <1>2 DEF RunScript, OtherProgram, asking
  <2>2. ASSUME calls # <<>>
        PROVE  Free => Free'
    <3>1. shown # NoItem
      BY <2>2, OpenCalls
    <3> QED BY <1>2, <2>1, <3>1, OutsideIsQuiet, QuietIsFree
  <2> QED BY <2>1, <2>2, SameCallsFit
<1>3. CASE UNCHANGED vars
  <2>1. UNCHANGED <<calls, save, m_bLimited, refused, pane>>
    BY <1>3 DEF vars, windowVars, window, asking
  <2>2. Free => Free'
    BY <2>1 DEF Free, Scanned
  <2> QED BY <2>1, <2>2, SameCallsFit
<1> QED BY <1>1, <1>2, <1>3 DEF Next

-----------------------------------------------------------------------------
(* The differences *)

(* Nothing is compared after the item is to be told, before a reload, or   *)
(* when nothing is called.                                                 *)
LEMMA NothingAwaited ==
    ASSUME IInv, CallOrderInv,
           \/ calls = <<>>
           \/ \E op \in {"AfterSave", "UpdateChangedItem", "ReloadDoc", "Close"} : \E s : Calling(op, s)
    PROVE  ~ Awaits(calls, Len(calls))
<1>1. CASE calls = <<>>
  BY <1>1, NoCallsFit
<1>2. ASSUME NEW op \in {"AfterSave", "UpdateChangedItem"}, NEW s, Calling(op, s)
      PROVE  ~ Awaits(calls, Len(calls))
  <2>1. calls[1] = <<op, s>> /\ 1 \in 1 .. Len(calls)
    BY <1>2, OpenCalls
  <2>2. \A j \in 1 + 1 .. Len(calls) : calls[j][1] \in {"ReloadDoc", "Close"}
    BY <2>1 DEF CallOrderInv, CallsFit, ScanCalls
  <2>3. ASSUME NEW j \in 1 .. Len(calls)
        PROVE  calls[j] # <<"Rescan2", 0>>
    <3>1. j = 1 \/ j \in 1 + 1 .. Len(calls)
      OBVIOUS
    <3> QED BY <2>1, <2>2, <3>1
  <2> QED BY <2>3 DEF Awaits
<1>3. ASSUME NEW op \in {"ReloadDoc", "Close"}, NEW s, Calling(op, s)
      PROVE  ~ Awaits(calls, Len(calls))
  <2>1. CallsInv(calls) /\ calls # <<>> /\ calls[1] # <<"Rescan2", 0>>
    BY <1>3, OpenCalls
  <2>2. Tail(calls) = <<>>
    BY <1>3, LastCall
  <2> QED BY <2>1, <2>2, TailAwaits, NoCallsFit
<1> QED BY <1>1, <1>2, <1>3

(* A call that is made and makes no further ones leaves the comparing.     *)
LEMMA StillAwaited ==
    ASSUME IInv, calls # <<>>, calls[1] # <<"Rescan2", 0>>, NEW saved, NEW given,
           Return(<<>>, saved, given), Awaits(calls, Len(calls))
    PROVE  Awaits(calls, Len(calls))'
<1>1. calls' = Tail(calls) /\ CallsInv(calls)
  BY NothingMore, OpenCalls
<1>2. Awaits(Tail(calls), Len(Tail(calls)))
  BY <1>1, TailAwaits
<1> QED BY <1>1, <1>2 DEF Awaits

(* Steps that change no text compare what they did not give up, later.     *)
LEMMA QuietAwaits ==
    ASSUME IInv, CallOrderInv, NEW s \in Sides, QuietAction(s), ~ refused'
    PROVE  ~ refused /\ (Awaits(calls, Len(calls)) => Awaits(calls, Len(calls))')
<1>1. CASE \/ OnRefresh \/ OnClose \/ \E S \in SUBSET Sides : OnFileSave(S)
           \/ SwitchEncoding(s) \/ OnReadOnly(s) \/ OnFileSaveAs(s) \/ SwitchEncodingReload(s)
  <2>1. calls = <<>> /\ refused' = refused
    BY <1>1 DEF OnRefresh, OnClose, OnFileSave, SwitchEncoding, OnReadOnly, OnFileSaveAs,
                SwitchEncodingReload, SaveModified, Command, Idle, window
  <2> QED BY <2>1, NothingAwaited
<1>2. CASE AfterSave \/ UpdateChangedItem
  <2>1. (Calling("AfterSave", 0) \/ Calling("UpdateChangedItem", 0)) /\ refused' = refused
    BY <1>2 DEF AfterSave, UpdateChangedItem, window
  <2> QED BY <2>1, NothingAwaited
<1>3. CASE RescanNothingNew(s)
  <2>1. Calling("Rescan", s) /\ Return(<<>>, save, agreed) /\ refused' = refused
    BY <1>3 DEF RescanNothingNew, window
  <2>2. calls # <<>> /\ calls[1] # <<"Rescan2", 0>>
    BY <2>1, OpenCalls
  <2> QED BY <2>1, <2>2, StillAwaited
<1>4. CASE RescanFileGone(s)
  <2>1. Calling("Rescan", s)
    BY <1>4 DEF RescanFileGone
  <2>2. \E given : Return(<<>>, save, given) /\ refused' = refused
    BY <1>4 DEF RescanFileGone
  <2>3. calls # <<>> /\ calls[1] # <<"Rescan2", 0>>
    BY <2>1, OpenCalls
  <2> QED BY <2>2, <2>3, StillAwaited
<1>5. CASE DoSave(s)
  <2>1. Calling("DoSave", s) /\ refused' = refused
    BY <1>5 DEF DoSave, window
  <2>2. calls # <<>> /\ calls[1] = <<"DoSave", s>> /\ calls[1] # <<"Rescan2", 0>> /\ CallsInv(calls)
    BY <2>1, OpenCalls
  <2>3. CASE \E given : Return(<<>>, save, given)
    BY <2>1, <2>2, <2>3, StillAwaited
  <2>4. CASE \E given : Return(<<<<"SaveToFile", s>>>>, save, given)
    <3> DEFINE all == <<<<"SaveToFile", s>>>> \o Tail(calls)
    <3>1. calls' = all
      BY <2>4 DEF Return, Calls
    <3>2. Awaits(calls, Len(calls)) => Awaits(all, Len(all))
      <4>1. calls[1][1] = "DoSave" /\ CallsFit(calls, m_bLimited, save.success, Free)
        BY <2>2 DEF CallOrderInv
      <4> QED BY <2>2, <4>1, SaveNextFits
    <3> HIDE DEF all
    <3> QED BY <2>1, <3>1, <3>2 DEF Awaits
  <2> QED BY <1>5, <2>3, <2>4 DEF DoSave
<1>6. CASE SaveToFile(s)
  <2>1. Calling("SaveToFile", s) /\ refused' = refused
    BY <1>6 DEF SaveToFile, window
  <2>2. \E saved, given : Return(<<>>, saved, given)
    BY <1>6 DEF SaveToFile
  <2>3. calls # <<>> /\ calls[1] # <<"Rescan2", 0>>
    BY <2>1, OpenCalls
  <2> QED BY <2>1, <2>2, <2>3, StillAwaited
<1> QED BY <1>1, <1>2, <1>3, <1>4, <1>5, <1>6 DEF QuietAction

(* What was current stays so when no text changes.                         *)
LEMMA QuietCurrent ==
    ASSUME CurrentInv, Quiet, ~ refused' => ~ refused,
           ~ refused' /\ Awaits(calls, Len(calls)) => Awaits(calls, Len(calls))'
    PROVE  CurrentInv'
<1> SUFFICES ASSUME shown' # NoItem, ~ refused'
             PROVE  /\ m_bLimited' => \A s \in Sides : pane'[s].limited
                    /\ Scanned' /\ (\A s \in Sides : ~ pane'[s].limited) =>
                          Current' \/ Awaits(calls, Len(calls))'
  BY DEF CurrentInv
<1>1. /\ shown # NoItem /\ ~ refused /\ m_bLimited' = m_bLimited /\ compared' = compared
      /\ \A t \in Sides : SameText(pane'[t], pane[t])
  BY DEF Quiet
<1>2. /\ Scanned <=> Scanned'
      /\ \A t \in Sides : pane'[t].limited = pane[t].limited
  BY <1>1 DEF SameText, Scanned
<1>3. m_bLimited' => \A s \in Sides : pane'[s].limited
  BY <1>1, <1>2 DEF CurrentInv
<1>4. ASSUME Scanned', \A s \in Sides : ~ pane'[s].limited
      PROVE  Current' \/ Awaits(calls, Len(calls))'
  <2>1. Current \/ Awaits(calls, Len(calls))
    BY <1>1, <1>2, <1>4 DEF CurrentInv
  <2>2. CASE Current
    <3>1. \A t \in Sides : PaneLines(pane'[t]) = PaneLines(pane[t])
      BY <1>1, <1>2, <1>4 DEF SameText, PaneLines, TextOf
    <3> QED BY <1>1, <2>2, <3>1 DEF Current
  <2> QED BY <2>1, <2>2
<1> QED BY <1>3, <1>4

(* All texts have just been compared.                                      *)
LEMMA ComparedCurrent ==
    ASSUME NEW panes, NEW limited, \A t \in Sides : IsPane(panes[t]), Rescan2(panes, limited),
           m_bLimited' => limited
    PROVE  CurrentInv'
<1>1. /\ \A t \in Sides : pane'[t].limited = limited
      /\ Current'
  BY AllCompared
<1> QED BY <1>1 DEF CurrentInv

(* Files are loaded for comparing, or their texts compared again.          *)
LEMMA LoadCurrent ==
    ASSUME IInv, CallOrderInv,
           OpenDocs \/ RescanCompare \/ \E limited \in BOOLEAN : SetContextLines(limited)
    PROVE  CurrentInv'
<1>1. FilesInv
  BY DEF IInv
<1>2. CASE OpenDocs
  <2>1. PICK i \in DOMAIN items \ Folders : Rescan2([s \in Sides |-> LoadFile(NewPane(<<i, s>>))], FALSE)
    BY <1>2 DEF OpenDocs
  <2>2. m_bLimited' = FALSE /\ i \in Items \ Folders
    BY <1>1, <1>2 DEF OpenDocs, FilesInv, FilesTypeOK
  <2> DEFINE panes == [s \in Sides |-> LoadFile(NewPane(<<i, s>>))]
  <2>3. ASSUME NEW s \in Sides
        PROVE  IsPane(panes[s])
    <3>1. <<i, s>> \in FilePaths
      BY <2>2 DEF FilePaths
    <3>2. IsPane(NewPane(<<i, s>>))
      BY <3>1, NewPaneIsPane
    <3> QED BY <1>1, <3>2, LoadFileFields
  <2>4. Rescan2(panes, FALSE)
    BY <2>1
  <2> HIDE DEF panes
  <2> QED BY <2>2, <2>3, <2>4, ComparedCurrent
<1>3. CASE RescanCompare
  <2>1. Calling("Rescan2", 0) /\ Rescan2(pane, FALSE) /\ m_bLimited' = m_bLimited
    BY <1>3 DEF RescanCompare
  <2>2. calls[1] = <<"Rescan2", 0>> /\ 1 \in 1 .. Len(calls) /\ shown # NoItem
    BY <2>1, OpenCalls
  <2>3. ~ m_bLimited
    BY <2>2 DEF CallOrderInv, CallsFit
  <2> QED BY <2>1, <2>2, <2>3, OpenPanes, ComparedCurrent
<1>4. ASSUME NEW limited \in BOOLEAN, SetContextLines(limited)
      PROVE  CurrentInv'
  <2> DEFINE ready == [s \in Sides |-> Ready(pane[s], limited)]
             panes == [s \in Sides |-> LoadFile(ready[s])]
  <2>1. /\ shown # NoItem /\ m_bLimited' = limited
        /\ refused' = TRUE \/ Rescan2(panes, limited)
    BY <1>4 DEF SetContextLines, Ready, Command, Idle
  <2>2. CASE refused' = TRUE
    BY <2>2 DEF CurrentInv
  <2>3. CASE Rescan2(panes, limited)
    <3>1. ASSUME NEW s \in Sides
          PROVE  IsPane(panes[s])
      <4>1. PaneInv(pane[s], disk, m_bLimited) /\ m_bLimited \in BOOLEAN
        BY <2>1, OpenPanes DEF IInv, WindowInv
      <4>2. IsPane(Ready(pane[s], limited))
        BY <4>1, ReadyKeeps
      <4> QED BY <1>1, <4>2, LoadFileFields
    <3> HIDE DEF panes
    <3> QED BY <2>1, <2>3, <3>1, ComparedCurrent
  <2> QED BY <2>1, <2>2, <2>3
<1> QED BY <1>2, <1>3, <1>4

(* A pane is edited, or gets another text that will be compared.           *)
LEMMA ChangeCurrent ==
    ASSUME IInv, CurrentInv,
           OnEditUndo \/ OnEditRedo \/ \E s \in Sides : Edit(s) \/ OnConvertEol(s)
    PROVE  CurrentInv'
<1>1. shown # NoItem /\ UNCHANGED <<shown, m_bLimited, refused>>
  BY DEF OnEditUndo, OnEditRedo, OnConvertEol, Edit, Command, Idle
<1>2. /\ undoTgt \in Seq(Sides) /\ curUndo \in 0 .. Len(undoTgt) /\ Len(undoTgt) \in Nat
      /\ curUndo \in Int
  BY <1>1, OpenOrder
<1>3. ASSUME NEW s \in Sides, NEW q, pane' = [pane EXCEPT ![s] = q], q.limited = pane[s].limited
      PROVE  \A t \in Sides : pane'[t].limited = pane[t].limited
  BY <1>1, <1>3, OpenPanes
<1>4. ASSUME NEW s \in Sides, Edit(s)
      PROVE  CurrentInv'
  <2>1. PICK text \in Texts : pane' = [pane EXCEPT ![s] = Edited(pane[s], text)]
    BY <1>4 DEF Edit
  <2> DEFINE q == Edited(pane[s], text)
  <2>2. q.limited = pane[s].limited /\ q.m_bEditAfterRescan
    BY <1>1, OpenPanes DEF Edited, IsPane, PaneFields
  <2>3. pane'[s] = q
    BY <1>1, <2>1, OpenPanes
  <2> HIDE DEF q
  <2>4. ~ Scanned'
    BY <2>2, <2>3 DEF Scanned
  <2>5. \A t \in Sides : pane'[t].limited = pane[t].limited
    BY <1>3, <2>1, <2>2 DEF q
  <2> QED BY <1>1, <2>4, <2>5 DEF CurrentInv
<1>5. CASE OnEditUndo \/ OnEditRedo \/ \E s \in Sides : OnConvertEol(s)
  <2>1. calls' = FlushAndRescan
    BY <1>5 DEF OnEditUndo, OnEditRedo, OnConvertEol, Command, Calls
  <2>2. CASE ~ m_bLimited
    <3>1. Awaits(FlushAndRescan, Len(FlushAndRescan))
      BY <2>2, FlushFits
    <3> QED BY <1>1, <2>1, <2>2, <3>1 DEF CurrentInv
  <2>3. CASE m_bLimited
    <3>1. \E s \in Sides : \E q : pane' = [pane EXCEPT ![s] = q] /\ q.limited = pane[s].limited
      <4>1. CASE OnEditUndo
        <5>1. undoTgt[curUndo] \in Sides
          <6>1. curUndo \in 1 .. Len(undoTgt)
            BY <1>2, <4>1 DEF OnEditUndo
          <6> QED BY <1>2, <6>1
        <5>2. PICK s \in Sides : pane' = [pane EXCEPT ![s] = Moved(pane[s], pane[s].marker - 1)]
          BY <4>1, <5>1 DEF OnEditUndo
        <5>3. Moved(pane[s], pane[s].marker - 1).limited = pane[s].limited
          BY <1>1, OpenPanes DEF Moved, IsPane, PaneFields
        <5> QED BY <5>2, <5>3
      <4>2. CASE OnEditRedo
        <5>1. undoTgt[curUndo + 1] \in Sides
          <6>1. curUndo + 1 \in 1 .. Len(undoTgt)
            BY <1>2, <4>2 DEF OnEditRedo
          <6> QED BY <1>2, <6>1
        <5>2. PICK s \in Sides : pane' = [pane EXCEPT ![s] = Moved(pane[s], pane[s].marker + 1)]
          BY <4>2, <5>1 DEF OnEditRedo
        <5>3. Moved(pane[s], pane[s].marker + 1).limited = pane[s].limited
          BY <1>1, OpenPanes DEF Moved, IsPane, PaneFields
        <5> QED BY <5>2, <5>3
      <4>3. ASSUME NEW s \in Sides, OnConvertEol(s)
            PROVE  \E q : pane' = [pane EXCEPT ![s] = q] /\ q.limited = pane[s].limited
        <5> DEFINE q == [pane[s] EXCEPT !.converted = TRUE, !.m_bModified = TRUE]
        <5>1. pane' = [pane EXCEPT ![s] = q]
          BY <1>1, <4>3, OpenPanes DEF OnConvertEol
        <5>2. q.limited = pane[s].limited
          BY <1>1, OpenPanes DEF IsPane, PaneFields
        <5> QED BY <5>1, <5>2
      <4> QED BY <1>5, <4>1, <4>2, <4>3
    <3>2. \A t \in Sides : pane'[t].limited = pane[t].limited
      BY <1>3, <3>1
    <3>3. 1 \in Sides
      BY DEF Sides
    <3> QED BY <1>1, <2>3, <3>2, <3>3 DEF CurrentInv
  <2> QED BY <2>2, <2>3
<1> QED BY <1>4, <1>5

(* A pane is loaded anew, or the window closed.                            *)
LEMMA ReloadCurrent ==
    ASSUME IInv, CallOrderInv, CurrentInv, NEW s \in Sides,
           RescanFileChanged(s) \/ ReloadDoc(s) \/ Close
    PROVE  CurrentInv'
<1>1. CASE RescanFileChanged(s)
  <2>1. /\ Calling("Rescan", s) /\ \E given : Return(<<>>, save, given)
        /\ m_bLimited' = m_bLimited
    BY <1>1 DEF RescanFileChanged
  <2>2. /\ calls # <<>> /\ calls[1] = <<"Rescan", s>> /\ 1 \in 1 .. Len(calls)
        /\ calls[1] # <<"Rescan2", 0>> /\ calls[1][1] = "Rescan"
    BY <2>1, OpenCalls
  <2>3. ~ m_bLimited
    BY <2>2 DEF CallOrderInv, CallsFit
  <2>4. PICK j \in 1 + 1 .. Len(calls) : calls[j] = <<"Rescan2", 0>>
    BY <2>2 DEF CallOrderInv, CallsFit, ScanCalls
  <2>5. Awaits(calls, Len(calls))
    <3>1. j \in 1 .. Len(calls)
      BY <2>2
    <3> QED BY <2>4, <3>1 DEF Awaits
  <2>6. Awaits(calls, Len(calls))'
    BY <2>1, <2>2, <2>5, StillAwaited
  <2> QED BY <2>1, <2>3, <2>6 DEF CurrentInv
<1>2. ASSUME NEW op \in {"ReloadDoc", "Close"}, NEW n, Calling(op, n),
             UNCHANGED <<shown, pane, undoTgt, curUndo, m_bLimited, compared, refused>>
      PROVE  CurrentInv'
  <2>1. ~ Awaits(calls, Len(calls)) /\ shown # NoItem
    BY <1>2, NothingAwaited, OpenCalls
  <2>2. Quiet
    BY <1>2, <2>1, UntouchedIsQuiet
  <2> QED BY <1>2, <2>1, <2>2, QuietCurrent
<1>3. CASE ReloadDoc(s)
  <2>1. Calling("ReloadDoc", s) /\ UNCHANGED <<shown, m_bLimited, compared>>
    BY <1>3 DEF ReloadDoc
  <2>2. CASE UNCHANGED <<pane, undoTgt, curUndo, refused>>
    BY <1>2, <2>1, <2>2
  <2>3. CASE refused' = (refused \/ m_bLimited) /\ Return(FlushAndRescan, save, agreed)
    <3>1. CASE m_bLimited
      BY <2>3, <3>1 DEF CurrentInv
    <3>2. CASE ~ m_bLimited
      <4>1. calls' = FlushAndRescan
        <5>1. Tail(calls) = <<>> /\ FlushAndRescan \in Seq(Call)
          BY <2>1, LastCall, FlushFits
        <5>2. FlushAndRescan \o <<>> = FlushAndRescan
          BY <5>1, ConcatEmptySeq
        <5> QED BY <2>3, <5>1, <5>2 DEF Return, Calls
      <4>2. Awaits(FlushAndRescan, Len(FlushAndRescan))
        BY <3>2, FlushFits
      <4> QED BY <2>1, <3>2, <4>1, <4>2 DEF CurrentInv
    <3> QED BY <3>1, <3>2
  <2> QED BY <1>3, <2>2, <2>3 DEF ReloadDoc
<1>4. CASE Close
  <2>1. Calling("Close", 0)
    BY <1>4 DEF Close
  <2>2. CASE shown' = NoItem
    BY <2>2 DEF CurrentInv
  <2>3. CASE UNCHANGED window
    BY <1>2, <2>1, <2>3 DEF window
  <2> QED BY <1>4, <2>2, <2>3 DEF Close
<1> QED BY <1>1, <1>3, <1>4

(* Every step leaves the differences current, or to be found.              *)
LEMMA CurrentKeeps == IInv /\ CallOrderInv /\ CurrentInv /\ [Next]_vars => CurrentInv'
<1> SUFFICES ASSUME IInv, CallOrderInv, CurrentInv, [Next]_vars
             PROVE  CurrentInv'
  OBVIOUS
<1>1. CASE WindowNext
  <2>1. ASSUME NEW s \in Sides, QuietAction(s)
        PROVE  CurrentInv'
    <3>1. shown # NoItem
      BY <2>1, WindowIsOpen
         DEF QuietAction, OnRefresh, AfterSave, UpdateChangedItem, OnClose, OnFileSave,
             SwitchEncoding, OnReadOnly, RescanNothingNew, RescanFileGone, OnFileSaveAs, DoSave,
             SaveToFile, SwitchEncodingReload, SaveModified, Command, Idle
    <3>2. Quiet
      BY <2>1, <3>1, QuietActions
    <3> QED BY <2>1, <3>2, QuietAwaits, QuietCurrent
  <2>2. ASSUME NEW s \in Sides, RescanFileChanged(s) \/ ReloadDoc(s) \/ Close
        PROVE  CurrentInv'
    BY <2>2, ReloadCurrent
  <2>3. 1 \in Sides
    BY DEF Sides
  <2> QED BY <1>1, <2>1, <2>2, <2>3, KindOfStep, LoadCurrent, ChangeCurrent
<1>2. CASE RunScript \/ OtherProgram
  <2>1. UNCHANGED <<shown, calls, refused>>
    BY <1>2 DEF RunScript, OtherProgram, asking
  <2>2. CASE shown = NoItem
    BY <2>1, <2>2 DEF CurrentInv
  <2>3. CASE shown # NoItem
    BY <1>2, <2>1, <2>3, OutsideIsQuiet, QuietCurrent
  <2> QED BY <2>2, <2>3
<1>3. CASE UNCHANGED vars
  <2>1. UNCHANGED <<shown, pane, m_bLimited, compared, refused, calls>>
    BY <1>3 DEF vars, windowVars, window, asking
  <2> QED BY <2>1 DEF CurrentInv, Scanned, Current
<1> QED BY <1>1, <1>2, <1>3 DEF Next

(* Whatever is edited, undone, saved, reloaded or given up, and whatever   *)
(* other programs do to the files: when a command has been carried out,    *)
(* the differences shown are those of the texts in the panes, unless there *)
(* were edits since, a rescan was given up, or lines are left out.         *)
THEOREM DifferencesAreCurrent == Spec => []ComparedIsCurrent
<1>1. Init => CallOrderInv /\ CurrentInv
  <2> SUFFICES ASSUME Init
               PROVE  CallOrderInv /\ CurrentInv
    OBVIOUS
  <2>1. calls = <<>> /\ shown = NoItem
    BY DEF Init, WindowInit
  <2> QED BY <2>1, NoCallsFit DEF CallOrderInv, CurrentInv
<1>2. IInv /\ (CallOrderInv /\ CurrentInv) /\ [Next]_vars => (CallOrderInv /\ CurrentInv)'
  BY CallOrderKeeps, CurrentKeeps
<1>3. IInv /\ CallOrderInv /\ CurrentInv => ComparedIsCurrent
  <2> SUFFICES ASSUME IInv, CallOrderInv, CurrentInv, Settled, ~ refused,
                      \A s \in Sides : ~ pane[s].m_bEditAfterRescan /\ ~ pane[s].limited
               PROVE  Current
    BY DEF ComparedIsCurrent, Current
  <2>1. shown # NoItem /\ calls = <<>> /\ Scanned
    BY DEF Settled, Scanned
  <2> QED BY <2>1, NothingAwaited DEF CurrentInv
<1> QED BY <1>1, <1>2, <1>3, Inductive, PTL DEF Spec

-----------------------------------------------------------------------------
(* The items that the saves make stray *)

(* What is saved when no more files are, and no pane is about another      *)
LEMMA SavedStill ==
    ASSUME SavedInv, shown' = shown, save'.success => save.success,
           Saving(calls') => Saving(calls), strayed \subseteq strayed',
           \A t \in Sides : pane'[t].m_strPath = pane[t].m_strPath
    PROVE  SavedInv'
<1> SUFFICES ASSUME shown' # NoItem, save'.success, Saving(calls')
             PROVE  \E s \in Sides : ItemOf(pane'[s].m_strPath) \subseteq strayed'
  BY DEF SavedInv
<1>1. PICK s \in Sides : ItemOf(pane[s].m_strPath) \subseteq strayed
  BY DEF SavedInv
<1>2. ItemOf(pane'[s].m_strPath) \subseteq strayed'
  BY <1>1
<1> QED BY <1>2

(* What is called in the rest of the calls is called in all of them.       *)
LEMMA SavingRest ==
    ASSUME NEW cs, CallsInv(cs), cs # <<>>, NEW k \in Nat, k >= 2,
           Saving(SubSeq(cs, k, Len(cs))) \/ Saving(Tail(cs))
    PROVE  Saving(cs) /\ (Saving(Tail(cs)) =>
              \E j \in 2 .. Len(cs) :
                 cs[j][1] \in {"DoSave", "SaveToFile", "AfterSave", "UpdateChangedItem"})
<1> DEFINE late == {"DoSave", "SaveToFile", "AfterSave", "UpdateChangedItem"}
<1>1. cs \in Seq(Call) /\ Len(cs) \in Nat
  BY DEF CallsInv
<1>2. ASSUME NEW n \in Nat, n >= 2, Saving(SubSeq(cs, n, Len(cs)))
      PROVE  \E j \in 2 .. Len(cs) : cs[j][1] \in late
  <2> DEFINE rest == SubSeq(cs, n, Len(cs))
  <2>1. /\ Len(rest) = IF n <= Len(cs) THEN Len(cs) - n + 1 ELSE 0
        /\ \A i \in 1 .. Len(rest) : rest[i] = cs[i + (n - 1)]
    BY <1>1, <1>2, SuffixKeeps
  <2> HIDE DEF rest
  <2>2. PICK i \in 1 .. Len(rest) : rest[i][1] \in late
    BY <1>2 DEF Saving, rest
  <2> HIDE DEF late
  <2>3. i + (n - 1) \in 2 .. Len(cs) /\ cs[i + (n - 1)][1] \in late
    BY <1>1, <1>2, <2>1, <2>2
  <2> QED BY <2>3
<1>3. Tail(cs) = SubSeq(cs, 2, Len(cs)) /\ 2 \in Nat /\ 2 >= 2
  BY TailIsSubSeq DEF CallsInv
<1>4. Saving(Tail(cs)) => \E j \in 2 .. Len(cs) : cs[j][1] \in late
  BY <1>2, <1>3
<1>5. \E j \in 2 .. Len(cs) : cs[j][1] \in late
  BY <1>2, <1>4
<1>6. 2 .. Len(cs) \subseteq 1 .. Len(cs)
  BY <1>1
<1>7. Saving(cs)
  BY <1>5, <1>6 DEF Saving
<1> QED BY <1>4, <1>7

(* A pane is saved: its item, if it is one's, is known not to tell.        *)
LEMMA SavedNow ==
    ASSUME IInv, shown # NoItem, NEW s \in Sides, NEW path, WriteFile(s, path)
    PROVE  SavedInv'
<1> DEFINE panes == [pane EXCEPT ![s] = SavedTo(pane[s], path)]
<1>1. pane' = Noticed(panes, {path}, s) /\ strayed' = strayed \union ItemOf(path)
  BY DEF WriteFile
<1>2. panes[s] = SavedTo(pane[s], path)
  BY OpenPanes
<1> HIDE DEF panes
<1>3. pane'[s] = SavedTo(pane[s], path)
  BY <1>1, <1>2 DEF Noticed
<1>4. SavedTo(pane[s], path).m_strPath = path
  <2> DEFINE p == pane[s]
             content == ContentOf(p)
             n == p.marker - 1
  <2>1. IsPane(p)
    BY OpenPanes
  <2>2. SavedTo(p, path) = [p EXCEPT !.m_strPath = path, !.whole = content.whole, !.m_bModified = FALSE,
              !.m_nSyncPosition = n,
              !.m_pSaveFileInfo = TRUE, !.m_pRescanFileInfo = TRUE, !.loaded = content]
    BY DEF SavedTo
  <2> HIDE DEF p, content, n
  <2>3. SavedTo(p, path).m_strPath = path
    BY <2>1, <2>2 DEF IsPane, PaneFields
  <2> QED BY <2>3 DEF p
<1>5. ItemOf(pane'[s].m_strPath) \subseteq strayed'
  BY <1>1, <1>3, <1>4
<1> QED BY <1>5 DEF SavedInv

(* The next call is done, and saves nothing.                               *)
LEMMA SavedRest ==
    ASSUME IInv, SavedInv, calls # <<>>, NEW saved, NEW given, Return(<<>>, saved, given),
           saved.success => save.success, shown' = shown, strayed \subseteq strayed',
           \A t \in Sides : pane'[t].m_strPath = pane[t].m_strPath
    PROVE  SavedInv'
<1>1. /\ calls' = Tail(calls) /\ save' = (IF calls' = <<>> THEN NotSaved ELSE saved)
      /\ CallsInv(calls)
  BY NothingMore, OpenCalls
<1>2. NotSaved.success = FALSE
  BY DEF NotSaved
<1>3. save'.success => save.success
  BY <1>1, <1>2
<1>4. Saving(calls') => Saving(calls)
  <2>1. 2 \in Nat /\ 2 >= 2
    OBVIOUS
  <2> QED BY <1>1, <2>1, SavingRest
<1> QED BY <1>3, <1>4, SavedStill

(* Nothing has been saved yet when the user commands something.            *)
LEMMA NothingSaved ==
    ASSUME \/ \E cs : Command(cs)
           \/ \E then : SaveModified(then)
           \/ calls' = <<>>
    PROVE  SavedInv'
<1>1. NotSaved.success = FALSE
  BY DEF NotSaved
<1>2. CASE \E cs, given : Calls(cs, NotSaved, given)
  <2>1. save' = NotSaved
    BY <1>2 DEF Calls
  <2> QED BY <1>1, <2>1 DEF SavedInv
<1>3. CASE calls' = <<>>
  <2>1. 1 .. Len(<<>>) = {}
    OBVIOUS
  <2> QED BY <1>3, <2>1 DEF SavedInv, Saving
<1> QED BY <1>2, <1>3 DEF Command, SaveModified

(* Calls of a rescan keep note of what was saved before.                   *)
LEMMA RescanSaved ==
    ASSUME IInv, SavedInv, NEW s \in Sides,
           RescanNothingNew(s) \/ RescanFileGone(s) \/ RescanFileChanged(s) \/ RescanCompare
    PROVE  SavedInv'
<1>1. shown # NoItem /\ calls # <<>> /\ CallsInv(calls)
  BY OpenCalls DEF RescanNothingNew, RescanFileGone, RescanFileChanged, RescanCompare
<1>2. CASE RescanNothingNew(s)
  <2>1. Return(<<>>, save, agreed) /\ UNCHANGED <<shown, strayed, pane>>
    BY <1>2 DEF RescanNothingNew, window, files
  <2> QED BY <1>1, <2>1, SavedRest
<1>3. CASE RescanFileGone(s)
  <2>1. CASE \E path : WriteFile(s, path)
    BY <1>1, <2>1, SavedNow
  <2>2. CASE Calls(AfterRescan(s), save, agreed) /\ UNCHANGED <<shown, files, pane>>
    <3> DEFINE rest == AfterRescan(s)
               k == 5 - s
    <3>1. calls' = rest /\ save' = (IF rest = <<>> THEN NotSaved ELSE save)
      BY <2>2 DEF Calls
    <3>2. save'.success => save.success
      BY <3>1 DEF NotSaved
    <3>3. k \in Nat /\ k >= 2 /\ rest = SubSeq(calls, k, Len(calls))
      BY DEF Sides, AfterRescan
    <3>4. Saving(rest) => Saving(calls)
      <4> HIDE DEF rest, k
      <4> QED BY <1>1, <3>3, SavingRest
    <3>5. strayed' = strayed
      BY <2>2 DEF files
    <3> HIDE DEF rest, k
    <3> QED BY <2>2, <3>1, <3>2, <3>4, <3>5, SavedStill
  <2> QED BY <1>3, <2>1, <2>2 DEF RescanFileGone
<1>4. CASE RescanFileChanged(s)
  <2>1. (\E given : Return(<<>>, save, given)) /\ shown' = shown /\ strayed' = strayed
    BY <1>4 DEF RescanFileChanged, files
  <2>2. \A t \in Sides : pane'[t].m_strPath = pane[t].m_strPath
    <3>1. CASE pane' = [pane EXCEPT ![s] = LoadFile(pane[s])]
      BY <1>1, <3>1, OneLoaded
    <3>2. CASE pane' = pane
      BY <3>2
    <3> QED BY <1>4, <3>1, <3>2 DEF RescanFileChanged
  <2> QED BY <1>1, <2>1, <2>2, SavedRest
<1>5. CASE RescanCompare
  <2>1. /\ Return(<<>>, save, agreed) /\ Rescan2(pane, FALSE)
        /\ shown' = shown /\ strayed' = strayed
    BY <1>5 DEF RescanCompare, files
  <2>2. \A t \in Sides : pane'[t].m_strPath = pane[t].m_strPath
    BY <1>1, <2>1, OpenPanes, AllCompared
  <2> QED BY <1>1, <2>1, <2>2, SavedRest
<1> QED BY <1>2, <1>3, <1>4, <1>5

(* Calls that save, or that follow saves                                   *)
LEMMA SavesSaved ==
    ASSUME IInv, CallOrderInv, SavedInv, NEW s \in Sides,
           AfterSave \/ DoSave(s) \/ SaveToFile(s) \/ UpdateChangedItem \/ ReloadDoc(s) \/ Close
    PROVE  SavedInv'
<1>1. shown # NoItem /\ calls # <<>> /\ CallsInv(calls)
  BY OpenCalls DEF AfterSave, DoSave, SaveToFile, UpdateChangedItem, ReloadDoc, Close
<1>2. save \in [success : BOOLEAN, result : BOOLEAN] /\ NotSaved.success = FALSE
  BY DEF IInv, WindowInv, NotSaved
<1>3. ASSUME NEW op \in {"DoSave", "SaveToFile", "AfterSave", "UpdateChangedItem"}, NEW n,
             Calling(op, n)
      PROVE  Saving(calls)
  <2>1. calls[1][1] = op /\ 1 \in 1 .. Len(calls)
    BY <1>3, OpenCalls
  <2> QED BY <2>1 DEF Saving
<1>4. ASSUME NEW op \in {"DoSave", "SaveToFile", "AfterSave"}, NEW n, Calling(op, n),
             UNCHANGED <<shown, strayed, pane>>, NEW saved, saved.success => save.success,
             save' = saved \/ save' = NotSaved
      PROVE  SavedInv'
  <2>1. save'.success => save.success
    BY <1>2, <1>4
  <2>2. Saving(calls)
    BY <1>3, <1>4
  <2> QED BY <1>4, <2>1, <2>2, SavedStill
<1>5. CASE AfterSave
  <2>1. /\ Calling("AfterSave", 0) /\ UNCHANGED <<shown, strayed, pane>>
        /\ save' = save \/ save' = NotSaved
    BY <1>5 DEF AfterSave, Return, Calls, window, files
  <2> QED BY <1>4, <2>1
<1>6. CASE DoSave(s)
  <2>1. /\ Calling("DoSave", s) /\ UNCHANGED <<shown, strayed, pane>>
        /\ save' = save \/ save' = NotSaved
    BY <1>6 DEF DoSave, Return, Calls, window, files
  <2> QED BY <1>4, <2>1
<1>7. CASE SaveToFile(s)
  <2>1. CASE \E path : WriteFile(s, path)
    BY <1>1, <2>1, SavedNow
  <2>2. CASE Return(<<>>, [save EXCEPT !.result = FALSE], agreed) /\ UNCHANGED <<files, window, budget>>
    <3> DEFINE failed == [save EXCEPT !.result = FALSE]
    <3>1. failed.success = save.success
      BY <1>2
    <3>2. /\ Calling("SaveToFile", s) /\ UNCHANGED <<shown, strayed, pane>>
          /\ save' = failed \/ save' = NotSaved
      BY <1>7, <2>2 DEF SaveToFile, Return, Calls, window, files
    <3> HIDE DEF failed
    <3> QED BY <1>4, <3>1, <3>2
  <2> QED BY <1>7, <2>1, <2>2 DEF SaveToFile
<1>8. CASE UpdateChangedItem
  <2>1. Calling("UpdateChangedItem", 0) /\ Return(<<>>, save, agreed)
    BY <1>8 DEF UpdateChangedItem
  <2>2. calls[1] = <<"UpdateChangedItem", 0>> /\ 1 \in 1 .. Len(calls) /\ calls' = Tail(calls)
    BY <1>1, <2>1, OpenCalls, NothingMore
  <2>3. \A j \in 2 .. Len(calls) : calls[j][1] \in {"ReloadDoc", "Close"}
    <3>1. \A j \in 1 + 1 .. Len(calls) : calls[j][1] \in {"ReloadDoc", "Close"}
      BY <2>2 DEF CallOrderInv, CallsFit, ScanCalls
    <3> QED BY <3>1
  <2>4. ~ Saving(calls')
    <3>1. 2 \in Nat /\ 2 >= 2
      OBVIOUS
    <3> QED BY <1>1, <2>2, <2>3, <3>1, SavingRest
  <2> QED BY <2>4 DEF SavedInv
<1>9. CASE ReloadDoc(s) \/ Close
  <2>1. Tail(calls) = <<>>
    BY <1>9, LastCall DEF ReloadDoc, Close
  <2>2. FlushAndRescan \in Seq(Call)
    BY FlushFits
  <2>3. FlushAndRescan \o <<>> = FlushAndRescan /\ <<>> \o <<>> = <<>>
    BY <2>2, ConcatEmptySeq
  <2>4. calls' = FlushAndRescan \/ calls' = <<>>
    BY <1>9, <2>1, <2>3 DEF ReloadDoc, Close, Return, Calls
  <2>5. ~ Saving(FlushAndRescan)
    <3> DEFINE scan == FlushAndRescan
    <3>1. \A i \in 1 .. Len(scan) : scan[i][1] \in {"Rescan", "Rescan2", "UpdateChangedItem"}
      BY RescanCalls
    <3>2. CallsFit(scan, m_bLimited, FALSE, FALSE)
      BY FlushFits
    <3> HIDE DEF scan
    <3>3. \A i \in 1 .. Len(scan) : scan[i][1] # "UpdateChangedItem"
      BY <3>2 DEF CallsFit
    <3>4. ~ Saving(scan)
      BY <3>1, <3>3 DEF Saving
    <3> QED BY <3>4 DEF scan
  <2> QED BY <2>4, <2>5, NothingSaved DEF SavedInv
<1> QED BY <1>5, <1>6, <1>7, <1>8, <1>9

(* Every step keeps note of what was saved.                                *)
LEMMA SavedKeeps == IInv /\ CallOrderInv /\ SavedInv /\ [Next]_vars => SavedInv'
<1> SUFFICES ASSUME IInv, CallOrderInv, SavedInv, [Next]_vars
             PROVE  SavedInv'
  OBVIOUS
<1>1. CASE WindowNext
  <2>1. CASE OpenDocs
    <3>1. calls' = <<>>
      BY <2>1, OpenCalls DEF OpenDocs, asking
    <3> QED BY <3>1, NothingSaved
  <2>2. CASE \/ OnEditUndo \/ OnEditRedo \/ OnRefresh \/ OnClose
             \/ \E limited \in BOOLEAN : SetContextLines(limited)
             \/ \E S \in SUBSET Sides : OnFileSave(S)
             \/ \E s \in Sides : \/ Edit(s) \/ OnConvertEol(s) \/ SwitchEncoding(s) \/ OnReadOnly(s)
                                 \/ OnFileSaveAs(s) \/ SwitchEncodingReload(s)
    <3>1. (\E cs : Command(cs)) \/ (\E then : SaveModified(then))
      BY <2>2 DEF OnEditUndo, OnEditRedo, OnRefresh, OnClose, SetContextLines, OnFileSave, Edit,
                  OnConvertEol, SwitchEncoding, OnReadOnly, OnFileSaveAs, SwitchEncodingReload
    <3> QED BY <3>1, NothingSaved, SMTT(30)
  <2>3. ASSUME NEW s \in Sides,
               RescanNothingNew(s) \/ RescanFileGone(s) \/ RescanFileChanged(s) \/ RescanCompare
        PROVE  SavedInv'
    BY <2>3, RescanSaved
  <2>4. ASSUME NEW s \in Sides,
               AfterSave \/ DoSave(s) \/ SaveToFile(s) \/ UpdateChangedItem \/ ReloadDoc(s) \/ Close
        PROVE  SavedInv'
    BY <2>4, SavesSaved
  <2>5. 1 \in Sides
    BY DEF Sides
  <2> QED BY <1>1, <2>1, <2>2, <2>3, <2>4, <2>5 DEF WindowNext
<1>2. CASE RunScript
  <2>1. calls' = <<>>
    BY <1>2 DEF RunScript, asking
  <2> QED BY <2>1, NothingSaved
<1>3. CASE OtherProgram
  <2>1. PICK p \in (Items \ Folders) \X Sides : ChangeFile(p) /\ pane' = Noticed(pane, {p}, 0)
    BY <1>3 DEF OtherProgram
  <2>2. UNCHANGED <<shown, calls, save>> /\ strayed \subseteq strayed'
    BY <1>3, <2>1 DEF OtherProgram, ChangeFile
  <2>3. CASE shown = NoItem
    BY <2>2, <2>3 DEF SavedInv
  <2>4. CASE shown # NoItem
    <3>1. ASSUME NEW t \in Sides
          PROVE  pane'[t].m_strPath = pane[t].m_strPath
      <4>1. pane'[t] = Outdated(pane[t]) \/ pane'[t] = pane[t]
        BY <2>1 DEF Noticed, Outdated
      <4>2. Outdated(pane[t]).m_strPath = pane[t].m_strPath
        BY <2>4, OpenPanes DEF Outdated, IsPane, PaneFields
      <4> QED BY <4>1, <4>2
    <3> QED BY <2>2, <3>1, SavedStill
  <2> QED BY <2>3, <2>4
<1>4. CASE UNCHANGED vars
  <2>1. UNCHANGED <<shown, pane, calls, save, strayed>>
    BY <1>4 DEF vars, windowVars, window, asking, files
  <2> QED BY <2>1 DEF SavedInv
<1> QED BY <1>1, <1>2, <1>3, <1>4 DEF Next

-----------------------------------------------------------------------------
(* The items *)

(* What an item tells when nothing of it has changed                       *)
LEMMA StillTells ==
    ASSUME NEW i, Tells(i), items'[i] = items[i],
           \A s \in Sides : disk'[<<i, s>>] = disk[<<i, s>>]
    PROVE  Tells(i)'
<1>1. SidesOf(disk', i) = SidesOf(disk, i)
  BY DEF SidesOf
<1>2. disk'[<<i, 1>>] = disk[<<i, 1>>] /\ disk'[<<i, 2>>] = disk[<<i, 2>>]
  BY DEF Sides
<1> QED BY <1>1, <1>2 DEF Tells

(* A file changes at a path, and its item is known to have strayed.        *)
LEMMA StrayedTell ==
    ASSUME IInv, ItemsTellFiles, NEW path, NEW new, disk' = [disk EXCEPT ![path] = new],
           strayed' = strayed \union ItemOf(path), items' = items
    PROVE  ItemsTellFiles'
<1> SUFFICES ASSUME NEW i \in DOMAIN items, i \notin strayed'
             PROVE  Tells(i)'
  BY DEF ItemsTellFiles
<1>1. i \in Items /\ DOMAIN disk = Paths
  BY DEF IInv, FilesInv, FilesTypeOK
<1>2. ASSUME NEW s \in Sides
      PROVE  disk'[<<i, s>>] = disk[<<i, s>>]
  <2>1. <<i, s>> \in Items \X Sides /\ <<i, s>> \in Paths
    BY <1>1 DEF Paths
  <2>2. <<i, s>> # path
    BY <2>1 DEF ItemOf
  <2> QED BY <1>1, <2>1, <2>2
<1>3. Tells(i)
  BY DEF ItemsTellFiles
<1> QED BY <1>2, <1>3, StillTells

(* Nothing happens to files and items.                                     *)
LEMMA UntouchedTell ==
    ASSUME ItemsTellFiles, UNCHANGED files
    PROVE  ItemsTellFiles'
BY DEF ItemsTellFiles, files, Tells, SidesOf

(* A script that fails: what it changed is known to have strayed.          *)
LEMMA FailedTell ==
    ASSUME IInv, ItemsTellFiles, Failed
    PROVE  ItemsTellFiles'
<1> SUFFICES ASSUME NEW i \in DOMAIN items, i \notin strayed'
             PROVE  Tells(i)'
  BY DEF ItemsTellFiles, Failed
<1>1. i \in Items /\ i \notin Affected /\ i \notin strayed /\ items'[i] = items[i]
  BY DEF IInv, FilesInv, FilesTypeOK, Failed
<1>2. \A s \in Sides : disk'[<<i, s>>] = disk[<<i, s>>]
  BY <1>1 DEF Affected
<1>3. Tells(i)
  BY <1>1 DEF ItemsTellFiles
<1> QED BY <1>1, <1>2, <1>3, StillTells

(* What is copied is the same on both sides, and its item says so.         *)
LEMMA DoCopyTells ==
    ASSUME IInv, ItemsTellFiles, NEW selected \in SUBSET rows, NEW to \in Sides, DoCopy(selected, to)
    PROVE  ItemsTellFiles'
<1> DEFINE acts == {i \in selected : Other(to) \in items[i].sides}
           folders == acts \intersect Folders
           from(i) == <<i, Other(to)>>
           d == Made(disk, folders, to)
<1>1. selected \subseteq DOMAIN items /\ DOMAIN items \subseteq Items
  BY DEF IInv, RowsHaveItems, FilesInv, FilesTypeOK
<1>2. \A i \in acts : Exists(from(i))
  BY DEF DoCopy
<1>3. Other(to) \in Sides /\ Other(to) # to /\ \A s \in Sides : s = to \/ s = Other(to)
  BY DEF Sides, Other
<1>4. CASE \E skipped \in SUBSET acts :
               /\ disk' = Copied(d, acts \ skipped, to)
               /\ items' = [i \in DOMAIN items |-> IF i \in acts THEN SynchronizedItem(i) ELSE items[i]]
               /\ strayed' = (strayed \ acts) \union (Affected \ acts) \union skipped
  <2>1. PICK skipped \in SUBSET acts :
               /\ disk' = Copied(d, acts \ skipped, to)
               /\ items' = [i \in DOMAIN items |-> IF i \in acts THEN SynchronizedItem(i) ELSE items[i]]
               /\ strayed' = (strayed \ acts) \union (Affected \ acts) \union skipped
    BY <1>4
  <2> DEFINE S == acts \ skipped
  <2> SUFFICES ASSUME NEW i \in DOMAIN items, i \notin strayed'
               PROVE  Tells(i)'
    BY <2>1 DEF ItemsTellFiles
  <2>2. i \in Items
    BY <1>1
  <2>3. CASE i \notin acts
    <3>1. i \notin strayed /\ i \notin Affected /\ items'[i] = items[i]
      BY <2>1, <2>3
    <3>2. \A s \in Sides : disk'[<<i, s>>] = disk[<<i, s>>]
      BY <2>2, <3>1 DEF Affected
    <3>3. Tells(i)
      BY <3>1 DEF ItemsTellFiles
    <3> QED BY <3>1, <3>2, <3>3, StillTells
  <2>4. CASE i \in acts
    <3>1. i \in S /\ items'[i] = SynchronizedItem(i)
      BY <2>1, <2>4
    <3>2. <<i, to>> \in Paths /\ <<i, to>> \in Items \X {to}
          /\ from(i) \in Paths /\ from(i) \notin Items \X {to}
      BY <1>3, <2>2 DEF Paths
    <3>3. d[from(i)] = disk[from(i)]
      <4>1. \A f \in folders : from(i) \notin ({f} \union Above[f]) \X {to}
        BY <1>3
      <4> HIDE DEF folders
      <4> QED BY <3>2, <4>1 DEF Made
    <3>4. disk[from(i)] # Absent
      BY <1>2, <2>4 DEF Exists
    <3> HIDE DEF d, acts
    <3>5. disk'[from(i)] = d[from(i)]
      BY <2>1, <3>2 DEF Copied
    <3>6. disk'[<<i, to>>] = d[from(i)]
      <4>1. Inside(i, S)
        BY <3>1 DEF Inside
      <4>2. <<i, to>>[1] = i
        OBVIOUS
      <4> HIDE DEF S
      <4>3. disk' = Copied(d, S, to)
        BY <2>1 DEF S
      <4> QED BY <3>2, <3>3, <3>4, <4>1, <4>2, <4>3 DEF Copied
    <3>7. \A s \in Sides : disk'[<<i, s>>] = d[from(i)]
      BY <1>3, <3>5, <3>6
    <3>8. SidesOf(disk', i) = Sides
      BY <3>3, <3>4, <3>7 DEF SidesOf
    <3>9. disk'[<<i, 1>>] = disk'[<<i, 2>>]
      BY <3>7 DEF Sides
    <3>10. items'[i].sides = Sides /\ items'[i].result # "diff"
      BY <3>1 DEF SynchronizedItem, Item
    <3> QED BY <3>8, <3>9, <3>10 DEF Tells
  <2> QED BY <2>3, <2>4
<1>5. CASE Failed
  BY <1>5, FailedTell
<1> QED BY <1>4, <1>5 DEF DoCopy

(* What is deleted is gone on the sides that its item no longer tells,     *)
(* when what goes with a folder goes on the same sides or with its item.   *)
LEMMA DeleteTells ==
    ASSUME IInv, ItemsTellFiles, NEW sides, DOMAIN sides \subseteq DOMAIN items, Delete(sides),
           \A i \in DOMAIN sides : sides[i] \subseteq Sides,
           \A i \in DOMAIN sides : \A f \in DOMAIN sides :
               sides[f] \subseteq sides[i] \/ items[f].sides \subseteq sides[f]
    PROVE  ItemsTellFiles'
<1> DEFINE acts == DOMAIN sides
           paths == UNION {{i} \X sides[i] : i \in acts}
           gone == {i \in acts : items[i].sides \subseteq sides[i]}
<1>1. DOMAIN items \subseteq Items
  BY DEF IInv, FilesInv, FilesTypeOK
<1>2. CASE /\ disk' = Removed(disk, paths)
           /\ items' = [i \in DOMAIN items \ RemoveDiff(gone) |->
                          IF i \in acts THEN Item(items[i].sides \ sides[i], "nocmp") ELSE items[i]]
           /\ strayed' = strayed \union (Affected \ acts)
  <2> SUFFICES ASSUME NEW i \in DOMAIN items \ RemoveDiff(gone), i \notin strayed'
               PROVE  Tells(i)'
    BY <1>2 DEF ItemsTellFiles
  <2>1. i \in DOMAIN items /\ i \in Items /\ i \notin strayed /\ Tells(i)
    BY <1>1, <1>2 DEF ItemsTellFiles
  <2>2. CASE i \notin acts
    <3>1. i \notin Affected /\ items'[i] = items[i]
      BY <1>2, <2>2
    <3>2. \A s \in Sides : disk'[<<i, s>>] = disk[<<i, s>>]
      BY <2>1, <3>1 DEF Affected
    <3> QED BY <2>1, <3>1, <3>2, StillTells
  <2>3. CASE i \in acts
    <3>1. items'[i] = Item(items[i].sides \ sides[i], "nocmp")
      BY <1>2, <2>3
    <3>2. ASSUME NEW s \in Sides
          PROVE  disk'[<<i, s>>] = IF s \in sides[i] THEN Absent ELSE disk[<<i, s>>]
      <4>1. <<i, s>> \in Paths /\ <<i, s>> \in Items \X Sides /\ <<i, s>>[1] = i /\ <<i, s>>[2] = s
        BY <2>1 DEF Paths
      <4>2. <<i, s>> \in paths <=> s \in sides[i]
        BY <2>3
      <4>3. ASSUME NEW f \in Above[i], <<f, s>> \in paths
            PROVE  s \in sides[i]
        <5>1. f \in acts /\ s \in sides[f]
          BY <4>3
        <5>2. ~ (items[f].sides \subseteq sides[f])
          <6>1. i \in Below(f)
            BY <2>1 DEF Below
          <6> QED BY <5>1, <6>1 DEF RemoveDiff
        <5> QED BY <2>3, <5>1, <5>2
      <4> HIDE DEF paths
      <4>4. disk'[<<i, s>>] = IF <<i, s>> \in paths
                                 \/ (<<i, s>> \in Items \X Sides /\ \E f \in Above[i] : <<f, s>> \in paths)
                              THEN Absent ELSE disk[<<i, s>>]
        BY <1>2, <4>1 DEF Removed
      <4> QED BY <4>2, <4>3, <4>4
    <3>3. SidesOf(disk', i) = items[i].sides \ sides[i]
      <4>1. items[i].sides = SidesOf(disk, i)
        BY <2>1 DEF Tells
      <4> QED BY <3>2, <4>1 DEF SidesOf
    <3> QED BY <3>1, <3>3 DEF Tells, Item
  <2> QED BY <2>2, <2>3
<1>3. CASE Failed
  BY <1>3, FailedTell
<1> QED BY <1>2, <1>3 DEF Delete

(* The commands that delete                                                *)
LEMMA DeletesTell ==
    ASSUME IInv, ItemsTellFiles, NEW selected \in SUBSET rows,
           \/ \E s \in Sides : DoDel(selected, s)
           \/ DoDelBoth(selected) \/ DoDelAll(selected)
    PROVE  ItemsTellFiles'
<1>1. selected \subseteq DOMAIN items /\ \A i \in DOMAIN items : items[i].sides \subseteq Sides
  BY DEF IInv, RowsHaveItems, FilesInv, FilesTypeOK
<1>2. ASSUME NEW s \in Sides, DoDel(selected, s)
      PROVE  ItemsTellFiles'
  <2> DEFINE sides == [i \in {i \in selected : s \in items[i].sides} |-> {s}]
  <2>1. DOMAIN sides \subseteq DOMAIN items /\ Delete(sides)
    BY <1>1, <1>2 DEF DoDel
  <2>2. \A i \in DOMAIN sides : sides[i] = {s}
    OBVIOUS
  <2> HIDE DEF sides
  <2> QED BY <2>1, <2>2, DeleteTells
<1>3. CASE DoDelBoth(selected)
  <2> DEFINE sides == [i \in {i \in selected : items[i].sides = Sides} |-> Sides]
  <2>1. DOMAIN sides \subseteq DOMAIN items /\ Delete(sides)
    BY <1>1, <1>3 DEF DoDelBoth
  <2>2. \A i \in DOMAIN sides : sides[i] = Sides
    OBVIOUS
  <2> HIDE DEF sides
  <2> QED BY <2>1, <2>2, DeleteTells
<1>4. CASE DoDelAll(selected)
  <2> DEFINE sides == [i \in selected |-> items[i].sides]
  <2>1. DOMAIN sides \subseteq DOMAIN items /\ Delete(sides)
    BY <1>1, <1>4 DEF DoDelAll
  <2>2. \A i \in DOMAIN sides : sides[i] = items[i].sides /\ sides[i] \subseteq Sides
    BY <1>1
  <2> HIDE DEF sides
  <2> QED BY <2>1, <2>2, DeleteTells
<1> QED BY <1>2, <1>3, <1>4

(* The item is told what the last rescan found, of the texts just saved.   *)
LEMMA UpdateTells ==
    ASSUME IInv, ShownInv, UpdateChangedItem
    PROVE  ItemsTellFiles'
<1> DEFINE found == {i \in DOMAIN items : \A s \in Sides : pane[s].m_strPath = <<i, s>>}
           result == IF compared[1] = compared[2] THEN "same" ELSE "diff"
           exact == ~ refused /\ ~ m_bLimited /\ \A s \in Sides : Shows(s)
<1>1. /\ Calling("UpdateChangedItem", 0) /\ disk' = disk
      /\ items' = [i \in DOMAIN items |->
                     IF i \in found THEN [items[i] EXCEPT !.result = result] ELSE items[i]]
      /\ strayed' = IF exact THEN strayed \ {i \in found : items[i].sides = Sides} ELSE strayed
  BY DEF UpdateChangedItem
<1>2. /\ calls[1] = <<"UpdateChangedItem", 0>> /\ 1 \in 1 .. Len(calls)
      /\ shown # NoItem
  BY <1>1, OpenCalls
<1>3. /\ CallOrderInv /\ CurrentInv /\ SavedInv /\ ItemsTellFiles
      /\ DOMAIN items \subseteq Items
      /\ \A i \in DOMAIN items : items[i] = Item(items[i].sides, items[i].result)
  BY DEF ShownInv, IInv, FilesInv, FilesTypeOK
<1>4. save.success /\ Free
  <2>1. save.success /\ (Free \/ Awaits(calls, 1))
    BY <1>2, <1>3 DEF CallOrderInv, CallsFit
  <2>2. ~ Awaits(calls, 1)
    BY <1>2 DEF Awaits
  <2> QED BY <2>1, <2>2
<1>5. \A s \in Sides : s = 1 \/ s = 2
  BY DEF Sides
<1> SUFFICES ASSUME NEW i \in DOMAIN items, i \notin strayed'
             PROVE  Tells(i)'
  BY <1>1 DEF ItemsTellFiles
<1>6. CASE i \notin found
  <2>1. items'[i] = items[i] /\ i \notin strayed
    BY <1>1, <1>6
  <2>2. Tells(i)
    BY <1>3, <2>1 DEF ItemsTellFiles
  <2> QED BY <1>1, <2>1, <2>2, StillTells
<1>7. CASE i \in found /\ ~ exact
  <2>1. i \notin strayed
    BY <1>1, <1>7
  <2>2. Saving(calls)
    BY <1>2 DEF Saving
  <2>3. PICK s \in Sides : ItemOf(pane[s].m_strPath) \subseteq strayed
    BY <1>2, <1>3, <1>4, <2>2 DEF SavedInv
  <2>4. pane[s].m_strPath = <<i, s>> /\ i \in Items
    BY <1>3, <1>7
  <2>5. ItemOf(<<i, s>>) = {i}
    BY <2>4 DEF ItemOf
  <2> QED BY <2>1, <2>3, <2>4, <2>5
<1>8. CASE i \in found /\ exact
  <2>1. /\ items'[i] = [items[i] EXCEPT !.result = result]
        /\ i \notin strayed \/ items[i].sides = Sides
    BY <1>1, <1>8
  <2>2. items'[i].sides = items[i].sides /\ items'[i].result = result
    <3> HIDE DEF result
    <3>1. items[i] = Item(items[i].sides, items[i].result)
      BY <1>3
    <3> QED BY <2>1, <3>1 DEF Item
  <2>3. \A s \in Sides : disk[<<i, s>>] = ContentOf(pane[s])
    BY <1>8 DEF Shows
  <2>4. ASSUME NEW s \in Sides
        PROVE  disk[<<i, s>>] # Absent /\ ~ pane[s].limited
    <3>1. PaneInv(pane[s], disk, m_bLimited) /\ IsPane(pane[s])
      BY <1>2, OpenPanes
    <3>2. ContentOf(pane[s]) \in Contents
      BY <3>1 DEF PaneInv, IsPane, ContentOf, TextOf, Contents
    <3>3. ~ pane[s].limited
      BY <1>8, <3>1 DEF PaneInv
    <3> QED BY <2>3, <3>2, <3>3, FilesAssumption
  <2>5. SidesOf(disk', i) = Sides
    BY <1>1, <2>4 DEF SidesOf
  <2>6. items'[i].sides = Sides
    <3>1. CASE i \notin strayed
      <4>1. items[i].sides = SidesOf(disk, i)
        BY <1>3, <3>1 DEF ItemsTellFiles, Tells
      <4> QED BY <1>1, <2>2, <2>5, <4>1
    <3> QED BY <2>1, <2>2, <3>1
  <2>7. Current
    <3>1. Scanned
      BY <1>4, <1>8 DEF Free
    <3>2. ~ Awaits(calls, Len(calls))
      BY <1>1, <1>3, NothingAwaited
    <3> QED BY <1>2, <1>3, <1>8, <2>4, <3>1, <3>2 DEF CurrentInv
  <2>8. compared[1] = compared[2] <=> disk[<<i, 1>>] = disk[<<i, 2>>]
    <3>1. 1 \in Sides /\ 2 \in Sides
      BY DEF Sides
    <3>2. ASSUME NEW s \in Sides
          PROVE  ContentOf(pane[s]) = [text |-> TextOf(pane[s]), converted |-> pane[s].converted,
                                       whole |-> pane[s].whole]
      <4>1. ~ pane[s].limited /\ pane[s].whole \in BOOLEAN
        BY <1>2, <2>4, OpenPanes DEF IsPane
      <4> QED BY <4>1 DEF ContentOf
    <3>3. compared[1] = PaneLines(pane[1]) /\ compared[2] = PaneLines(pane[2])
      BY <2>7, <3>1 DEF Current
    <3>4. /\ disk[<<i, 1>>] = [text |-> TextOf(pane[1]), converted |-> pane[1].converted,
                               whole |-> pane[1].whole]
          /\ disk[<<i, 2>>] = [text |-> TextOf(pane[2]), converted |-> pane[2].converted,
                               whole |-> pane[2].whole]
      BY <2>3, <3>1, <3>2
    <3> QED BY <3>3, <3>4 DEF PaneLines
  <2>9. /\ items'[i].result = "same" => disk'[<<i, 1>>] = disk'[<<i, 2>>]
        /\ items'[i].result = "diff" => disk'[<<i, 1>>] # disk'[<<i, 2>>]
    BY <1>1, <2>2, <2>8
  <2> QED BY <2>5, <2>6, <2>9 DEF Tells
<1> QED BY <1>6, <1>7, <1>8

(* Every step leaves the items telling their files.                        *)
LEMMA ItemsKeep == IInv /\ ShownInv /\ [Next]_vars => ItemsTellFiles'
<1> SUFFICES ASSUME IInv, ShownInv, [Next]_vars
             PROVE  ItemsTellFiles'
  OBVIOUS
<1>1. ItemsTellFiles
  BY DEF ShownInv
<1>2. CASE UNCHANGED files
  BY <1>1, <1>2, UntouchedTell
<1>3. ASSUME NEW s, NEW path, WriteFile(s, path)
      PROVE  ItemsTellFiles'
  <2> DEFINE content == ContentOf(pane[s])
  <2>1. /\ disk' = [disk EXCEPT ![path] = content]
        /\ strayed' = strayed \union ItemOf(path) /\ items' = items
    BY <1>3 DEF WriteFile
  <2> HIDE DEF content
  <2> QED BY <1>1, <2>1, StrayedTell
<1>4. CASE WindowNext
  <2>1. CASE UpdateChangedItem
    BY <2>1, UpdateTells
  <2>2. CASE \E s \in Sides : RescanFileGone(s) \/ OnFileSaveAs(s) \/ SaveToFile(s)
    <3>1. (\E s \in Sides : \E path : WriteFile(s, path)) \/ UNCHANGED files
      BY <2>2 DEF RescanFileGone, OnFileSaveAs, SaveToFile
    <3> QED BY <1>2, <1>3, <3>1
  <2>3. CASE \/ OpenDocs \/ OnEditUndo \/ OnEditRedo \/ OnRefresh
             \/ RescanCompare \/ AfterSave \/ OnClose \/ Close
             \/ \E limited \in BOOLEAN : SetContextLines(limited)
             \/ \E S \in SUBSET Sides : OnFileSave(S)
    <3>1. UNCHANGED files
      BY <2>3 DEF OpenDocs, OnEditUndo, OnEditRedo, OnRefresh, RescanCompare, AfterSave, OnClose,
                  Close, SetContextLines, OnFileSave
    <3> QED BY <1>2, <3>1
  <2>4. CASE \E s \in Sides :
               \/ Edit(s) \/ OnConvertEol(s) \/ SwitchEncoding(s) \/ OnReadOnly(s)
               \/ RescanNothingNew(s) \/ RescanFileChanged(s) \/ DoSave(s)
               \/ SwitchEncodingReload(s) \/ ReloadDoc(s)
    <3>1. UNCHANGED files
      BY <2>4 DEF Edit, OnConvertEol, SwitchEncoding, OnReadOnly, RescanNothingNew,
                  RescanFileChanged, DoSave, SwitchEncodingReload, ReloadDoc
    <3> QED BY <1>2, <3>1
  <2> QED BY <1>4, <2>1, <2>2, <2>3, <2>4 DEF WindowNext
<1>5. CASE RunScript
  <2>1. PICK selected \in SUBSET rows :
            \/ \E s \in Sides : DoCopy(selected, s) \/ DoDel(selected, s)
            \/ DoDelBoth(selected) \/ DoDelAll(selected)
    BY <1>5 DEF RunScript, FileActionsNext
  <2> QED BY <1>1, <2>1, DoCopyTells, DeletesTell
<1>6. CASE OtherProgram
  <2>1. PICK p \in (Items \ Folders) \X Sides : ChangeFile(p)
    BY <1>6 DEF OtherProgram
  <2>2. \E new : disk' = [disk EXCEPT ![p] = new]
    BY <2>1 DEF ChangeFile
  <2>3. strayed' = strayed \union ItemOf(p) /\ items' = items
    BY <2>1 DEF ChangeFile
  <2> QED BY <1>1, <2>2, <2>3, StrayedTell
<1>7. CASE UNCHANGED vars
  BY <1>2, <1>7 DEF vars
<1> QED BY <1>4, <1>5, <1>6, <1>7 DEF Next

(* The items of the first compare                                          *)
LEMMA InitTells == Init => ShownInv
<1> SUFFICES ASSUME Init
             PROVE  ShownInv
  OBVIOUS
<1>1. calls = <<>> /\ shown = NoItem
  BY DEF Init, WindowInit
<1>2. CallOrderInv /\ CurrentInv /\ SavedInv
  BY <1>1, NoCallsFit DEF CallOrderInv, CurrentInv, SavedInv
<1>3. items = [i \in {i \in Items : SidesOf(disk, i) # {}} |-> Compared(disk, i)]
  BY DEF Init, FilesInit
<1>4. ASSUME NEW i \in DOMAIN items
      PROVE  Tells(i)
  <2>1. items[i] = Compared(disk, i)
    BY <1>3
  <2>2. /\ items[i].sides = SidesOf(disk, i)
        /\ items[i].result = IF i \in Folders \/ SidesOf(disk, i) # Sides THEN "nocmp"
                             ELSE IF disk[<<i, 1>>] = disk[<<i, 2>>] THEN "same" ELSE "diff"
    BY <2>1 DEF Compared, Item
  <2> QED BY <2>2 DEF Tells
<1>5. ItemsTellFiles
  BY <1>4 DEF ItemsTellFiles
<1> QED BY <1>2, <1>5 DEF ShownInv

(* Whatever is saved, copied, deleted, edited or changed by others, and    *)
(* whatever questions are answered: an item of the folder window whose     *)
(* files nobody changed without its knowledge tells on which sides they    *)
(* are, and whether they are equal.                                        *)
THEOREM ItemsTellTheirFiles == Spec => []ItemsTellFiles
<1>1. Init => ShownInv
  BY InitTells
<1>2. IInv /\ ShownInv /\ [Next]_vars => ShownInv'
  <2>1. IInv /\ ShownInv /\ [Next]_vars => CallOrderInv' /\ CurrentInv' /\ SavedInv'
    BY CallOrderKeeps, CurrentKeeps, SavedKeeps DEF ShownInv
  <2>2. IInv /\ ShownInv /\ [Next]_vars => ItemsTellFiles'
    BY ItemsKeep
  <2> QED BY <2>1, <2>2 DEF ShownInv
<1>3. ShownInv => ItemsTellFiles
  BY DEF ShownInv
<1> QED BY <1>1, <1>2, <1>3, Inductive, PTL DEF Spec
=============================================================================
