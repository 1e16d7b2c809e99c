---------------------------- MODULE GhostBuffer ----------------------------
(***************************************************************************)
(* The text buffer of one pane of a file compare window, with its undo     *)
(* buffer.  An undo record keeps the place of a change as real line number *)
(* and number of ghost lines above it, because between the change and its  *)
(* undo a rescan may remove and place all ghost lines anew.                *)
(***************************************************************************)
EXTENDS GhostLines

CONSTANTS
    Chars,          \* what lines are made of
    Files,          \* the texts a file may hold when it is loaded
    Inserts,        \* the texts typed, pasted or copied from the other pane
    TrailingGhosts, \* may a rescan place ghost lines past the last real line?
    MaxLines,       \* bound: lines of the buffer an edit or a rescan makes; undo
                    \* and redo may add MaxGhosts to it
    MaxGhosts,      \* bound: ghost lines a rescan places
    MaxLength,      \* bound: length of a line an edit makes
    MaxRecords      \* bound: records in the undo buffer

ASSUME BufferAssumption ==
    /\ EOL \notin Chars
    /\ Files \union Inserts \subseteq Seq(Chars \union {EOL})
    /\ <<>> \notin Inserts
    /\ TrailingGhosts \in BOOLEAN
    /\ {MaxLines, MaxGhosts, MaxLength, MaxRecords} \subseteq Nat

VARIABLES
    m_aLines, m_RealityBlocks,
    m_aUndoBuf, m_nUndoPosition, m_nSyncPosition, m_bModified,
    file,           \* the text on disk
    log, marker     \* history: the texts between the undo groups, the current one

buffer == <<m_aLines, m_RealityBlocks>>
undo == <<m_aUndoBuf, m_nUndoPosition>>
history == <<log, marker>>
vars == <<buffer, undo, m_nSyncPosition, m_bModified, file, history>>

npos == -1

Current == [lines |-> m_aLines, blocks |-> m_RealityBlocks]

Init ==
    /\ file \in Files
    /\ m_aLines = Loaded(file)
    /\ m_RealityBlocks = BlocksOf(m_aLines)
    /\ m_aUndoBuf = <<>> /\ m_nUndoPosition = 0 /\ m_nSyncPosition = 0
    /\ m_bModified = FALSE
    /\ log = <<file>> /\ marker = 1

-----------------------------------------------------------------------------
(* A place in the buffer as an undo record stores it, and the way back *)

Stored(b, p) ==
    LET r == ComputeRealLineAndGhostAdjustment(b.blocks, Len(b.lines), p.y)
    IN  [y |-> r.y, nGhost |-> r.nGhost, x |-> p.x]

Apparent(b, place) ==
    Point(ComputeApparentLine(b.blocks, Len(b.lines), place.y, place.nGhost), place.x)

InsertGhostLine(b, y) == Buf(InsertAt(b.lines, y, GhostLine))

\* Mutant: a missing ghost line is not made.
ProvideNothing(b, place) == b

(* A place that was in a ghost line gets one when the rescans left none.   *)
Provide(b, place) ==
    LET y == Apparent(b, place).y
    IN  IF place.nGhost > 0 /\ (y > Len(b.lines) \/ ~ b.lines[y].ghost)
        THEN InsertGhostLine(b, y)
        ELSE b

(* Both ends of a change: the second is looked up again, and needs a ghost *)
(* line of its own only if a block of text is to be deleted.               *)
Locate(b, first, second, deletes) ==
    LET start == Apparent(b, first)
        b1 == Provide(b, first)
    IN  [buf |-> IF deletes THEN Provide(b1, second) ELSE b1,
         start |-> start,
         end |-> Apparent(b1, second)]

-----------------------------------------------------------------------------
Record(insert, b, start, end, text, nReal) ==
    [insert |-> insert, begin |-> FALSE, text |-> text, nReal |-> nReal,
     start |-> Stored(b, start), end |-> Stored(b, end),
     redoStart |-> Stored(b, start), redoEnd |-> Stored(b, end)]

(* One call of InsertText or DeleteText with its undo record *)
Insertion(st, at, text) ==
    LET ins == InsertText(st.buf, at, text)
    IN  [buf |-> ins.buf,
         records |-> Append(st.records,
                        Record(TRUE, ins.buf, at, ins.end, text, ins.nReal))]

Deletion(st, start, nominalEnd) ==
    LET end == DeletionEnd(st.buf.lines, nominalEnd)
        text == GetText(st.buf.lines, start, end)
        del == DeleteText(st.buf, start, end)
    IN  IF text = <<>> THEN st
        ELSE [buf |-> del.buf,
              records |-> Append(st.records,
                            Record(FALSE, del.buf, start, start, text, del.nReal))]

-----------------------------------------------------------------------------
(* Edits *)

Places == UNION {{Point(y, x) : x \in 0 .. Len(m_aLines[y].text)} : y \in DOMAIN m_aLines}

Bounded(lines) ==
    /\ Len(lines) <= MaxLines
    /\ \A i \in DOMAIN lines : Len(lines[i].text) <= MaxLength

\* Mutant: the saved position survives the records it counts.
SyncPositionKept(drops) == m_nSyncPosition

(* The saved text is out of reach once its record is dropped. *)
SyncPosition(drops) ==
    IF drops /\ m_nSyncPosition > m_nUndoPosition THEN npos ELSE m_nSyncPosition

(* An edit drops the records past the undo position and adds its own, as a *)
(* group or to the previous one.                                           *)
AddUndoRecords(records, merge) ==
    LET joins == merge /\ m_nUndoPosition > 0
        kept == SubSeq(m_aUndoBuf, 1, m_nUndoPosition)
    IN  /\ m_aUndoBuf' = kept \o [records EXCEPT ![1].begin = ~ joins]
        /\ m_nUndoPosition' = Len(m_aUndoBuf')
        /\ m_nSyncPosition' = SyncPosition(m_nUndoPosition < Len(m_aUndoBuf))
        /\ marker' = IF joins THEN marker ELSE marker + 1
        /\ log' = Append(SubSeq(log, 1, marker' - 1), FileText(m_aLines'))

Perform(st, merge) ==
    /\ st.records # <<>>
    /\ m_nUndoPosition + Len(st.records) <= MaxRecords
    /\ Bounded(st.buf.lines)
    /\ m_aLines' = st.buf.lines
    /\ m_RealityBlocks' = st.buf.blocks
    /\ AddUndoRecords(st.records, merge)
    /\ m_bModified' = TRUE
    /\ UNCHANGED file

Untouched == [buf |-> Current, records |-> <<>>]

Insert ==
    /\ m_nUndoPosition < MaxRecords
    /\ \E at \in Places, text \in Inserts, merge \in BOOLEAN :
        /\ Perform(Insertion(Untouched, at, text), merge)

Delete ==
    /\ m_nUndoPosition < MaxRecords
    /\ \E start \in Places, end \in Places :
        /\ Before(start, end)
        /\ Perform(Deletion(Untouched, start, end), FALSE)

(* A paste over a selection, and a difference copied from the other pane *)
Replace ==
    /\ m_nUndoPosition < MaxRecords - 1
    /\ \E start \in Places, end \in Places, text \in Inserts :
        /\ Before(start, end)
        /\ Perform(Insertion(Deletion(Untouched, start, end), start, text), FALSE)

-----------------------------------------------------------------------------
(* Undo and redo of a group of records *)

Roomy(lines) == Len(lines) <= MaxLines + MaxGhosts

(* VerifyText accepts any beginning of the recorded text. *)
UndoInsertion(at, ur) ==
    LET b == at.buf
        Exists(p) == p.y <= Len(b.lines) /\ p.x <= Len(b.lines[p.y].text)
        rest == InternalDeleteText(b.lines, at.start, at.end)
        ghost == b.lines[at.end.y].ghost \/ ur.end.y - ur.start.y = ur.nReal - 1
        flagged == Buf([rest EXCEPT ![at.start.y].ghost = ghost])
        after == [flagged EXCEPT !.lines =
                    RecomputeEOL(@, flagged.blocks, at.start.y, at.start.y)]
    IN  IF Exists(at.start) /\ Exists(at.end)
            /\ IsPrefix(GetText(b.lines, at.start, at.end), ur.text)
        THEN [ok |-> TRUE, buf |-> after,
              record |-> [ur EXCEPT !.redoStart = Stored(after, at.start)]]
        ELSE [ok |-> FALSE, buf |-> b, record |-> ur]

UndoDeletion(at, ur) ==
    LET Unreal(ins) ==
            SetGhosts(ins.lines, (GhostsOf(ins.lines) \union at.start.y .. ins.end.y)
                                    \ (at.start.y .. at.start.y + ur.nReal - 1))
        Repaired(b, end) ==
            [b EXCEPT !.lines = RecomputeEOL(@, b.blocks, at.start.y, end.y)]
        Restored(b, end) ==
            [ok |-> TRUE, buf |-> b,
             record |-> [ur EXCEPT !.redoStart = Stored(b, at.start),
                                   !.redoEnd = Stored(b, end)]]
        ins == InternalInsertText(at.buf.lines, at.start, ur.text)
    IN  Restored(Repaired(Buf(Unreal(ins)), ins.end), ins.end)

UndoRecord(b, ur) ==
    LET at == Locate(b, ur.start, ur.end, ur.insert)
    IN  IF ur.insert THEN UndoInsertion(at, ur) ELSE UndoDeletion(at, ur)

UndoStep(st, ur) ==
    LET After(step) ==
            [ok |-> step.ok, buf |-> step.buf, records |-> <<step.record>> \o st.records]
    IN  IF st.ok THEN After(UndoRecord(st.buf, ur)) ELSE st

(* A record that fails ends the loop.  The whole undo counts as failed,    *)
(* and nothing is left to undo or redo, unless it is the first of a group. *)
Undone(first, done) ==
    LET next == m_nUndoPosition - Len(done.records)
        success == next = first - 1
    IN  /\ Roomy(done.buf.lines)
        /\ m_aLines' = done.buf.lines
        /\ m_RealityBlocks' = done.buf.blocks
        /\ m_bModified' = (m_nSyncPosition # next)
        /\ m_nUndoPosition' = IF success THEN next ELSE 0
        /\ m_aUndoBuf' =
                IF success
                THEN SubSeq(m_aUndoBuf, 1, next) \o done.records
                        \o SubSeq(m_aUndoBuf, m_nUndoPosition + 1, Len(m_aUndoBuf))
                ELSE <<>>
        /\ marker' = IF success THEN marker - 1 ELSE 1
        /\ log' = IF success THEN log ELSE <<FileText(m_aLines')>>

FirstToUndo == Max({k \in 1 .. m_nUndoPosition : m_aUndoBuf[k].begin})

(* What the loop has done after n records *)
Undoing ==
    LET done[n \in 0 .. m_nUndoPosition] ==
            IF n = 0 THEN [ok |-> TRUE, buf |-> Current, records |-> <<>>]
            ELSE UndoStep(done[n - 1], m_aUndoBuf[m_nUndoPosition + 1 - n])
    IN  done

Undo ==
    /\ m_nUndoPosition > 0
    /\ Undone(FirstToUndo, Undoing[m_nUndoPosition + 1 - FirstToUndo])
    /\ UNCHANGED <<m_nSyncPosition, file>>

RedoDeletion(b, start, end) ==
    IF GetText(b.lines, start, end) = <<>> THEN b ELSE DeleteText(b, start, end).buf

RedoRecord(b, ur) ==
    LET At(at) ==
            IF ur.insert THEN InsertText(at.buf, at.start, ur.text).buf
            ELSE RedoDeletion(at.buf, at.start, DeletionEnd(at.buf.lines, at.end))
    IN  At(Locate(b, ur.redoStart, ur.redoEnd, ~ ur.insert))

Redone(last, b) ==
    /\ Roomy(b.lines)
    /\ m_aLines' = b.lines
    /\ m_RealityBlocks' = b.blocks
    /\ m_nUndoPosition' = last
    /\ m_bModified' = (m_nSyncPosition # last)

LastToRedo ==
    LET next == {k \in m_nUndoPosition + 2 .. Len(m_aUndoBuf) : m_aUndoBuf[k].begin}
    IN  IF next = {} THEN Len(m_aUndoBuf) ELSE Min(next) - 1

Redoing ==
    LET done[n \in 0 .. Len(m_aUndoBuf) - m_nUndoPosition] ==
            IF n = 0 THEN Current
            ELSE RedoRecord(done[n - 1], m_aUndoBuf[m_nUndoPosition + n])
    IN  done

Redo ==
    /\ m_nUndoPosition < Len(m_aUndoBuf)
    /\ Redone(LastToRedo, Redoing[LastToRedo - m_nUndoPosition])
    /\ marker' = marker + 1
    /\ UNCHANGED <<m_aUndoBuf, m_nSyncPosition, file, log>>

-----------------------------------------------------------------------------
(* Rescan and save *)

(* All ghost lines go and new ones come, opposite to wherever the other    *)
(* file has lines that this one has not.                                   *)
PlaceGhosts(ghosts, real) ==
    LET n == Len(real) + Cardinality(ghosts)
        rank(i) == Cardinality((1 .. i) \ ghosts)
    IN  [i \in 1 .. n |-> IF i \in ghosts THEN GhostLine ELSE real[rank(i)]]

Rescan ==
    /\ LET real == RealLines(m_aLines)
       IN  \E n \in 0 .. MaxGhosts :
            /\ Len(real) + n \in 1 .. MaxLines
            /\ \E ghosts \in kSubset(n, 1 .. Len(real) + n) :
                /\ TrailingGhosts \/ Len(real) + n \notin ghosts
                /\ m_aLines' = PlaceGhosts(ghosts, real)
    /\ m_RealityBlocks' = BlocksOf(m_aLines')
    /\ UNCHANGED <<undo, m_nSyncPosition, m_bModified, file, history>>

(* The line loop ends at the first real line without a line break. *)
SavedText(lines) ==
    LET real == RealLines(lines)
        stops == {k \in DOMAIN real : ~ real[k].eol} \union {Len(real)}
    IN  FileText(SubSeq(real, 1, Min(stops)))

SaveToFile ==
    /\ file' = SavedText(m_aLines)
    /\ m_bModified' = FALSE
    /\ m_nSyncPosition' = m_nUndoPosition
    /\ UNCHANGED <<buffer, undo, history>>

Next == Insert \/ Delete \/ Replace \/ Undo \/ Redo \/ Rescan \/ SaveToFile

Spec == Init /\ [][Next]_vars

-----------------------------------------------------------------------------
(* Properties *)

(* A ghost line has no text, and none gets there. *)
GhostsAreEmpty == \A i \in GhostsOf(m_aLines) : FullText(m_aLines[i]) = <<>>

(* A record of the undo buffer is well formed and so is every line. *)
TypeOK ==
    /\ m_aLines \in Seq([text : Seq(Chars), eol : BOOLEAN, ghost : BOOLEAN])
    /\ GhostsAreEmpty
    /\ m_RealityBlocks \in Seq([nStartApparent : Nat, nStartReal : Nat, nCount : Nat])
    /\ m_nUndoPosition \in 0 .. Len(m_aUndoBuf)
    /\ m_nSyncPosition \in npos .. Len(m_aUndoBuf)
    /\ m_bModified \in BOOLEAN
    /\ \A k \in DOMAIN m_aUndoBuf : m_aUndoBuf[k].nReal \in Nat

(* What checkFlagsFromReality and the comments on the conversions say: the *)
(* real number of an apparent line counts the real lines above it, the     *)
(* ghost adjustment leads back to the very same apparent line.             *)
MappingIsExact ==
    LET real(y) == {i \in 1 .. y - 1 : ~ m_aLines[i].ghost}
    IN  RealLines(m_aLines) # <<>> =>
            \A y \in DOMAIN m_aLines :
                /\ ComputeRealLine(m_RealityBlocks, y) = Cardinality(real(y)) + 1
                /\ Apparent(Current, Stored(Current, Point(y, 0))).y = y

(* Every real line but the last one ends with a line break, no other line   *)
(* does: edits, undo, redo and rescans neither lose nor double one.         *)
LineBreaksAreExact ==
    \A i \in DOMAIN m_aLines :
        m_aLines[i].eol <=>
            ~ m_aLines[i].ghost /\ \E j \in DOMAIN m_aLines : j > i /\ ~ m_aLines[j].ghost

(* The loop that saves the real lines up to the first one without a line    *)
(* break writes all of the text, after any edits, undos, redos and rescans. *)
SaveWritesAll == SavedText(m_aLines) = FileText(m_aLines)

(* A buffer that is shown as unmodified holds the text of the file. *)
UnmodifiedIsSaved == ~ m_bModified => FileText(m_aLines) = file

(* The records of an undo or redo fit the text they are replayed on.       *)
InText(lines, p) == p.y \in DOMAIN lines /\ p.x \in 0 .. Len(lines[p.y].text)

UndoFits(step, ur) ==
    LET Fits(at) ==
            IF ur.insert THEN ~ Before(at.end, at.start) ELSE InText(at.buf.lines, at.start)
    IN  step.ok => Fits(Locate(step.buf, ur.start, ur.end, ur.insert))

RedoFits(b, ur) ==
    LET Spans(lines, start, end) == InText(lines, end) /\ ~ Before(end, start)
        Fits(at) ==
            /\ InText(at.buf.lines, at.start)
            /\ ~ ur.insert =>
                    /\ at.end.y \in DOMAIN at.buf.lines
                    /\ Spans(at.buf.lines, at.start, DeletionEnd(at.buf.lines, at.end))
    IN  Fits(Locate(b, ur.redoStart, ur.redoEnd, ~ ur.insert))

(* What an undo or a redo puts back goes into the text and not beyond it,   *)
(* and what it takes out does not end before it starts: places that are     *)
(* looked up again after rescans moved the ghost lines are such places as   *)
(* InternalInsertText and InternalDeleteText assert.  (An undo that deletes *)
(* looks for itself whether both lines are there.)                          *)
ReplayFits ==
    /\ m_nUndoPosition > 0 =>
            \A n \in 1 .. m_nUndoPosition + 1 - FirstToUndo :
                UndoFits(Undoing[n - 1], m_aUndoBuf[m_nUndoPosition + 1 - n])
    /\ m_nUndoPosition < Len(m_aUndoBuf) =>
            \A n \in 1 .. LastToRedo - m_nUndoPosition :
                RedoFits(Redoing[n - 1], m_aUndoBuf[m_nUndoPosition + n])

(* Undo and redo restore exactly the texts between the undo groups,        *)
(* whatever rescans happened in between, and never fail.                   *)
History == INSTANCE EditHistory WITH
    Texts <- Seq(Chars \union {EOL}), text <- FileText(m_aLines)
UndoRestoresText == History!Spec

(* After an undo there are as many real lines as before the action undone. *)
UndoRestoresLineCount ==
    [][ Undo => Len(RealLines(m_aLines')) = Len(Pieces(log[marker - 1])) ]_vars
=============================================================================
