------------------------ MODULE GhostBuffer_proofs -------------------------
(***************************************************************************)
(* The block list of a text buffer is the one of its lines after any       *)
(* number of edits, undos, redos and rescans, for every file, text and     *)
(* number of lines, so its line conversions are exact: as long as an undo  *)
(* and a redo do not go beyond the text, there and back is where one was,  *)
(* every real line but the last has a line break and a save writes all of  *)
(* them.                                                                   *)
(* And the position of the last save among the undo records is the one of  *)
(* the text on disk, or none: as long as undo and redo restore the texts,  *)
(* an unmodified buffer is a saved one.                                    *)
(***************************************************************************)
EXTENDS GhostBuffer, GhostLines_proofs

-----------------------------------------------------------------------------
(* Places *)

IsPlace(place) == place.y \in Int /\ place.nGhost \in Nat /\ place.x \in Int

(* The blocks of a buffer fit its lines.                                   *)
LEMMA BufFits ==
    ASSUME NEW b, IsBuf(b)
    PROVE  /\ Len(b.lines) \in Nat /\ DOMAIN b.lines = 1 .. Len(b.lines)
           /\ RealOf(b.lines) \in SUBSET (1 .. Len(b.lines))
           /\ BlocksFit(b.blocks, RealOf(b.lines), Len(b.lines))
<1>1. IsLines(b.lines) /\ b.blocks = BlocksOf(b.lines)
  BY DEF IsBuf
<1>2. Len(b.lines) \in Nat /\ DOMAIN b.lines = 1 .. Len(b.lines)
  BY <1>1, SeqIs DEF IsLines
<1>3. RealOf(b.lines) \in SUBSET (1 .. Len(b.lines))
  BY <1>1, RealOfIs
<1>4. BlocksFit(BlocksOf(b.lines), RealOf(b.lines), Len(b.lines))
  BY <1>2, BlocksOfFit
<1> QED BY <1>1, <1>2, <1>3, <1>4

(* A line of the text is stored as a real line and a number of ghosts.     *)
LEMMA StoredIs ==
    ASSUME NEW b, IsBuf(b), NEW p, p.y \in 1 .. Len(b.lines) + 1, p.x \in Int
    PROVE  IsPlace(Stored(b, p))
<1> DEFINE n == Len(b.lines)
           S == RealOf(b.lines)
           r == ComputeRealLineAndGhostAdjustment(b.blocks, n, p.y)
<1>1. n \in Nat /\ S \in SUBSET (1 .. n) /\ BlocksFit(b.blocks, S, n)
  BY BufFits
<1>2. Stored(b, p) = [y |-> r.y, nGhost |-> r.nGhost, x |-> p.x]
  BY DEF Stored
<1>3. r.y \in Int /\ r.nGhost \in Nat
  <2>1. CASE S = {}
    <3>1. b.blocks = <<>>
      BY <1>1, <2>1, NoBlocks
    <3>2. r = [y |-> 1, nGhost |-> 0]
      BY <3>1 DEF ComputeRealLineAndGhostAdjustment
    <3> HIDE DEF r
    <3> QED BY <3>2
  <2>2. CASE S # {}
    <3>1. r.y \in Nat \ {0} /\ r.nGhost \in Nat
      <4> HIDE DEF S, n
      <4>1. p.y \in 1 .. n + 1
        BY DEF n
      <4> QED BY <1>1, <2>2, <4>1, ConversionIsExact
    <3> HIDE DEF r
    <3> QED BY <3>1
  <2> QED BY <2>1, <2>2
<1> HIDE DEF r
<1> QED BY <1>2, <1>3 DEF IsPlace

(* A stored place leads to a line of the text, or to the one below.        *)
LEMMA ApparentIs ==
    ASSUME NEW b, IsBuf(b), NEW place, IsPlace(place)
    PROVE  Apparent(b, place).y \in 1 .. Len(b.lines) + 1 /\ Apparent(b, place).x \in Int
<1> DEFINE n == Len(b.lines)
           S == RealOf(b.lines)
           y == ComputeApparentLine(b.blocks, n, place.y, place.nGhost)
<1>1. n \in Nat /\ S \in SUBSET (1 .. n) /\ BlocksFit(b.blocks, S, n)
  BY BufFits
<1>2. Apparent(b, place).y = y /\ Apparent(b, place).x = place.x
  BY DEF Apparent, Point
<1>3. y \in 1 .. n + 1
  <2> HIDE DEF S, n
  <2> QED BY <1>1, ApparentInRange DEF IsPlace
<1> QED BY <1>2, <1>3 DEF IsPlace

(* Recomputing the blocks of lines makes a buffer.                         *)
LEMMA BufIs ==
    ASSUME NEW lines, IsLines(lines), HasBreaks(lines)
    PROVE  IsBuf(Buf(lines)) /\ Buf(lines).lines = lines
BY DEF Buf, IsBuf

(* Providing the ghost lines a record names only adds lines.               *)
LEMMA ProvideIs ==
    ASSUME NEW b, IsBuf(b), NEW place, IsPlace(place)
    PROVE  IsBuf(Provide(b, place)) /\ Len(Provide(b, place).lines) >= Len(b.lines)
<1> DEFINE y == Apparent(b, place).y
           n == Len(b.lines)
           new == InsertAt(b.lines, y, GhostLine)
<1>1. n \in Nat /\ y \in 1 .. n + 1 /\ IsLines(b.lines) /\ HasBreaks(b.lines)
  BY BufFits, ApparentIs DEF IsBuf
<1>2. Provide(b, place) = b \/ Provide(b, place) = Buf(new)
  BY DEF Provide, InsertGhostLine
<1>3. IsLines(new) /\ HasBreaks(new) /\ Len(new) >= n
  <2> DEFINE single == <<GhostLine>>
             spliced == Splice(b.lines, y, single, y)
  <2>1. IsLines(single) /\ Len(single) = 1 /\ single[1] = GhostLine
    <3>1. IsLine(GhostLine)
      BY EmptyIs, LineIs DEF GhostLine
    <3> HIDE DEF GhostLine
    <3>2. IsSeq(single) /\ Len(single) = 1 /\ single[1] = GhostLine
      BY SingleIs
    <3> HIDE DEF single
    <3>3. \A i \in 1 .. Len(single) : i = 1
      BY <3>2
    <3> QED BY <3>1, <3>2, <3>3 DEF IsLines
  <2>2. new = spliced
    BY DEF InsertAt, Splice
  <2> HIDE DEF single, new
  <2>3. /\ y \in y .. n + 1 /\ y \in Int /\ y >= y - 1 + Len(single)
        /\ (y - 1) + Len(single) + (n - y + 1) = n + 1
    <3> HIDE DEF y, n
    <3> QED BY <1>1, <2>1
  <2>4. Spliced(b.lines, spliced, y, single, y, y)
    <3> HIDE DEF y, spliced
    <3> QED BY <1>1, <2>1, <2>3, SpliceFramed DEF n, spliced
  <2> HIDE DEF spliced
  <2>5. /\ IsLines(new) /\ Len(new) = n + 1
        /\ Framed(b.lines, new, y, y) /\ new[y] = GhostLine
    <3>1. 1 \in 1 .. Len(single) /\ y - 1 + 1 = y
      <4> HIDE DEF y
      <4> QED BY <1>1, <2>1
    <3>2. new[y - 1 + 1] = single[1]
      <4> HIDE DEF y
      <4> QED BY <2>2, <2>4, <3>1 DEF Spliced
    <3> HIDE DEF y
    <3> QED BY <2>1, <2>2, <2>3, <2>4, <3>1, <3>2 DEF Spliced, n
  <2>6. y \notin RealOf(new) /\ y \notin BreaksOf(new)
    <3>1. GhostLine.ghost /\ ~ GhostLine.eol
      BY DEF GhostLine, Line
    <3> HIDE DEF GhostLine, y
    <3> QED BY <2>5, <3>1 DEF RealOf, BreaksOf
  <2> HIDE DEF y
  <2>7. HasBreaks(new)
    BY <1>1, <2>5, <2>6, BreaksKept DEF n
  <2> QED BY <1>1, <2>5, <2>7
<1> HIDE DEF new
<1>4. IsBuf(Buf(new)) /\ Buf(new).lines = new
  BY <1>3, BufIs
<1> QED BY <1>1, <1>2, <1>3, <1>4

(* The two places of a record are in the text it is replayed on.           *)
LEMMA LocateIs ==
    ASSUME NEW b, IsBuf(b), NEW first, IsPlace(first), NEW second, IsPlace(second), NEW deletes
    PROVE  LET at == Locate(b, first, second, deletes)
           IN  /\ IsBuf(at.buf)
               /\ at.start.y \in 1 .. Len(at.buf.lines) + 1 /\ at.start.x \in Int
               /\ at.end.y \in 1 .. Len(at.buf.lines) + 1 /\ at.end.x \in Int
<1> DEFINE at == Locate(b, first, second, deletes)
           b1 == Provide(b, first)
           b2 == IF deletes THEN Provide(b1, second) ELSE b1
<1>1. at.buf = b2 /\ at.start = Apparent(b, first) /\ at.end = Apparent(b1, second)
  BY DEF Locate
<1>2. IsBuf(b1) /\ Len(b1.lines) >= Len(b.lines)
  BY ProvideIs
<1> HIDE DEF b1
<1>3. IsBuf(b2) /\ Len(b2.lines) >= Len(b1.lines)
  <2>1. Len(b1.lines) >= Len(b1.lines)
    BY <1>2, BufFits
  <2> QED BY <1>2, <2>1, ProvideIs
<1> HIDE DEF b2, at
<1>4. Len(b.lines) \in Nat /\ Len(b1.lines) \in Nat /\ Len(b2.lines) \in Nat
  BY <1>2, <1>3, BufFits
<1>5. at.start.y \in 1 .. Len(b.lines) + 1 /\ at.start.x \in Int
  BY <1>1, ApparentIs
<1>6. at.end.y \in 1 .. Len(b1.lines) + 1 /\ at.end.x \in Int
  BY <1>1, <1>2, ApparentIs
<1>7. at.start.y \in 1 .. Len(b2.lines) + 1 /\ at.end.y \in 1 .. Len(b2.lines) + 1
  <2>1. \A i, j, y \in Int : y \in 1 .. i + 1 /\ i <= j => y \in 1 .. j + 1
    OBVIOUS
  <2>2. Len(b.lines) <= Len(b2.lines) /\ Len(b1.lines) <= Len(b2.lines)
    BY <1>2, <1>3, <1>4
  <2>3. at.start.y \in Int /\ at.end.y \in Int
    BY <1>4, <1>5, <1>6
  <2>4. Len(b.lines) \in Int /\ Len(b1.lines) \in Int /\ Len(b2.lines) \in Int
    BY <1>4
  <2> QED BY <1>5, <1>6, <2>1, <2>2, <2>3, <2>4, Zenon
<1> QED BY <1>1, <1>3, <1>5, <1>6, <1>7 DEF at

-----------------------------------------------------------------------------
(* Undo records *)

(* The real lines a deletion took out are no more than its text has lines. *)
Restorable(nReal, text) == nReal \in Int /\ nReal <= Len(Pieces(text))

IsRecord(ur) ==
    /\ DOMAIN ur = {"insert", "begin", "text", "nReal", "start", "end", "redoStart", "redoEnd"}
    /\ IsSeq(ur.text)
    /\ ~ ur.insert => Restorable(ur.nReal, ur.text)
    /\ IsPlace(ur.start) /\ IsPlace(ur.end) /\ IsPlace(ur.redoStart) /\ IsPlace(ur.redoEnd)

AreRecords(records) == IsSeq(records) /\ \A k \in 1 .. Len(records) : IsRecord(records[k])

(* A record stays one when its place for the redo is set ...               *)
LEMMA RecordWith ==
    ASSUME NEW ur, IsRecord(ur), NEW p, IsPlace(p)
    PROVE  IsRecord([ur EXCEPT !.redoStart = p]) /\ [ur EXCEPT !.redoStart = p].begin = ur.begin
BY DEF IsRecord

(* ... when both are set ...                                               *)
LEMMA RecordWithBoth ==
    ASSUME NEW ur, IsRecord(ur), NEW p, IsPlace(p), NEW q, IsPlace(q)
    PROVE  /\ IsRecord([ur EXCEPT !.redoStart = p, !.redoEnd = q])
           /\ [ur EXCEPT !.redoStart = p, !.redoEnd = q].begin = ur.begin
BY DEF IsRecord

(* ... and when it is made to begin a group or to continue one.            *)
LEMMA RecordBegins ==
    ASSUME NEW ur, IsRecord(ur), NEW e
    PROVE  IsRecord([ur EXCEPT !.begin = e]) /\ [ur EXCEPT !.begin = e].begin = e
BY DEF IsRecord

(* What AddUndoRecord stores is a record.                                  *)
LEMMA RecordIs ==
    ASSUME NEW insert, NEW b, IsBuf(b), NEW start, start.y \in 1 .. Len(b.lines) + 1, start.x \in Int,
           NEW end, end.y \in 1 .. Len(b.lines) + 1, end.x \in Int,
           NEW text, IsSeq(text), NEW nReal, ~ insert => Restorable(nReal, text)
    PROVE  IsRecord(Record(insert, b, start, end, text, nReal))
<1> DEFINE p == Stored(b, start)
           q == Stored(b, end)
<1>1. IsPlace(p) /\ IsPlace(q)
  BY StoredIs
<1>2. Record(insert, b, start, end, text, nReal) =
          [insert |-> insert, begin |-> FALSE, text |-> text, nReal |-> nReal,
           start |-> p, end |-> q, redoStart |-> p, redoEnd |-> q]
  BY Zenon DEF Record
<1> HIDE DEF p, q
<1> QED BY <1>1, <1>2 DEF IsRecord

(* One record more.                                                        *)
LEMMA RecordsWith ==
    ASSUME NEW records, AreRecords(records), NEW ur, IsRecord(ur)
    PROVE  /\ AreRecords(Append(records, ur)) /\ Len(Append(records, ur)) = Len(records) + 1
           /\ AreRecords(<<ur>> \o records) /\ Len(<<ur>> \o records) = Len(records) + 1
           /\ (<<ur>> \o records)[1] = ur
           /\ \A k \in 1 .. Len(records) : (<<ur>> \o records)[k + 1] = records[k]
<1> DEFINE n == Len(records)
           new == Append(records, ur)
           front == <<ur>> \o records
<1>1. n \in Nat /\ IsSeq(records) /\ \A k \in 1 .. n : IsRecord(records[k])
  BY SeqIs DEF AreRecords
<1>2. IsSeq(new) /\ Len(new) = n + 1
      /\ \A k \in 1 .. n + 1 : new[k] = IF k <= n THEN records[k] ELSE ur
  BY <1>1, AppendIs
<1>3. /\ IsSeq(front) /\ Len(front) = 1 + n
      /\ \A k \in 1 .. 1 + n : front[k] = IF k <= 1 THEN ur ELSE records[k - 1]
  <2> DEFINE single == <<ur>>
  <2>1. IsSeq(single) /\ Len(single) = 1 /\ single[1] = ur
    BY SingleIs
  <2> HIDE DEF single
  <2>2. /\ IsSeq(single \o records) /\ Len(single \o records) = Len(single) + n
        /\ \A k \in 1 .. Len(single) + n :
              (single \o records)[k] = IF k <= Len(single) THEN single[k] ELSE records[k - Len(single)]
    BY <1>1, <2>1, ConcatIs
  <2>3. front = single \o records
    BY DEF single
  <2> HIDE DEF front
  <2>4. \A k \in 1 .. 1 + n : k <= 1 => k = 1
    OBVIOUS
  <2> QED BY <2>1, <2>2, <2>3, <2>4
<1> HIDE DEF new, front
<1>4. AreRecords(new)
  <2>1. \A k \in 1 .. n + 1 : k <= n => k \in 1 .. n
    BY <1>1
  <2> QED BY <1>1, <1>2, <2>1 DEF AreRecords
<1>5. AreRecords(front)
  <2>1. \A k \in 1 .. 1 + n : ~ (k <= 1) => k - 1 \in 1 .. n
    BY <1>1
  <2> QED BY <1>1, <1>3, <2>1 DEF AreRecords
<1>6. front[1] = ur /\ Len(front) = n + 1
  <2>1. 1 \in 1 .. 1 + n /\ 1 <= 1 /\ 1 + n = n + 1
    <3> HIDE DEF n
    <3> QED BY <1>1
  <2> QED BY <1>3, <2>1
<1>7. ASSUME NEW k \in 1 .. n PROVE front[k + 1] = records[k]
  <2>1. k + 1 \in 1 .. 1 + n /\ ~ (k + 1 <= 1) /\ k + 1 - 1 = k
    BY <1>1
  <2> QED BY <1>3, <2>1
<1> QED BY <1>2, <1>4, <1>5, <1>6, <1>7 DEF new, front

-----------------------------------------------------------------------------
(* One edit, one undo and one redo *)

IsEdit(st) == IsBuf(st.buf) /\ AreRecords(st.records)

(* InsertText edits a buffer and adds a record.                            *)
LEMMA InsertionIs ==
    ASSUME NEW st, IsEdit(st), NEW at, at.y \in 1 .. Len(st.buf.lines), at.x \in Int,
           NEW text, IsSeq(text)
    PROVE  IsEdit(Insertion(st, at, text))
           /\ Len(Insertion(st, at, text).records) = Len(st.records) + 1
<1> DEFINE ins == InsertText(st.buf, at, text)
           ur == Record(TRUE, ins.buf, at, ins.end, text, ins.nReal)
           new == Append(st.records, ur)
<1>1. IsBuf(ins.buf) /\ ins.end.y \in at.y .. Len(ins.buf.lines) /\ ins.end.x \in Int
  BY InsertTextIs DEF IsEdit
<1>2. Insertion(st, at, text).buf = ins.buf /\ Insertion(st, at, text).records = new
  BY DEF Insertion
<1> HIDE DEF ins
<1>3. Len(ins.buf.lines) \in Nat /\ Len(st.buf.lines) \in Nat
  BY <1>1, BufFits DEF IsEdit
<1>4. at.y \in 1 .. Len(ins.buf.lines) + 1 /\ ins.end.y \in 1 .. Len(ins.buf.lines) + 1
  BY <1>1, <1>3
<1>5. IsRecord(ur)
  BY <1>1, <1>4, RecordIs
<1> HIDE DEF ur
<1>6. AreRecords(new) /\ Len(new) = Len(st.records) + 1
  BY <1>5, RecordsWith DEF IsEdit
<1> QED BY <1>1, <1>2, <1>6 DEF IsEdit

(* A place in a line has a number.                                         *)
LEMMA PlaceInLine ==
    ASSUME NEW lines, IsLines(lines), NEW y \in 1 .. Len(lines), NEW x \in 0 .. Len(lines[y].text)
    PROVE  x \in Int
<1>1. Len(lines[y].text) \in Nat
  BY SeqIs DEF IsLines, IsLine
<1> QED BY <1>1

(* DeleteText edits a buffer and adds its records.                         *)
LEMMA DeletionIs ==
    ASSUME NEW st, IsEdit(st), NEW start, NEW nominalEnd,
           start.y \in 1 .. Len(st.buf.lines),
           start.x \in 0 .. Len(st.buf.lines[start.y].text),
           nominalEnd.y \in 1 .. Len(st.buf.lines), nominalEnd.x \in Int,
           start.y <= nominalEnd.y
    PROVE  LET new == Deletion(st, start, nominalEnd)
           IN  IsEdit(new) /\ start.y \in 1 .. Len(new.buf.lines)
<1> DEFINE new == Deletion(st, start, nominalEnd)
           lines == st.buf.lines
           end == DeletionEnd(lines, nominalEnd)
           text == GetText(lines, start, end)
           del == DeleteText(st.buf, start, end)
           ur == Record(FALSE, del.buf, start, start, text, del.nReal)
<1>1. IsBuf(st.buf) /\ IsLines(lines) /\ Len(lines) \in Nat
  BY BufFits DEF IsEdit, IsBuf
<1>2. end.y \in nominalEnd.y .. Len(lines) /\ end.x = nominalEnd.x
  BY <1>1, DeletionEndIs
<1>3. new = IF text = <<>> THEN st
            ELSE [buf |-> del.buf, records |-> Append(st.records, ur)]
  BY DEF Deletion
<1> HIDE DEF end
<1>4. /\ end.y \in 1 .. Len(lines) /\ end.y \in start.y .. Len(lines) /\ end.x \in Int
      /\ start.y <= end.y
  BY <1>1, <1>2
<1>0. start.x \in Int
  BY <1>1, PlaceInLine
<1>5. IsSeq(text)
  BY <1>0, <1>1, <1>4, GetTextIs
<1>6. IsBuf(del.buf) /\ start.y \in 1 .. Len(del.buf.lines)
  BY <1>0, <1>1, <1>4, DeleteTextIs
<1>11. Restorable(del.nReal, text)
  BY SMTT(20), <1>1, <1>4, DeletedReals DEF Restorable
<1> HIDE DEF text, del
<1>7. Len(del.buf.lines) \in Nat /\ start.y \in 1 .. Len(del.buf.lines) + 1
  BY <1>6, BufFits
<1>8. IsRecord(ur)
  BY <1>0, <1>5, <1>6, <1>7, <1>11, RecordIs
<1> HIDE DEF ur, new
<1>9. CASE text = <<>>
  <2>1. new = st
    BY <1>3, <1>9
  <2> QED BY <2>1 DEF new
<1>10. CASE text # <<>>
  <2>1. new.buf = del.buf /\ new.records = Append(st.records, ur)
    BY <1>3, <1>10
  <2>2. AreRecords(Append(st.records, ur))
    BY <1>8, RecordsWith DEF IsEdit
  <2> QED BY <1>6, <2>1, <2>2 DEF IsEdit, new
<1> QED BY <1>9, <1>10

IsUndone(step, ur) == IsBuf(step.buf) /\ IsRecord(step.record) /\ step.record.begin = ur.begin

(* Undoing an insertion whose text is there leaves a buffer ...            *)
LEMMA UndoInsertionIs ==
    ASSUME NEW at, IsBuf(at.buf),
           at.start.y \in 1 .. Len(at.buf.lines) + 1, at.start.x \in Int,
           at.end.y \in 1 .. Len(at.buf.lines) + 1, at.end.x \in Int,
           at.start.y <= at.end.y, NEW ur, IsRecord(ur)
    PROVE  IsUndone(UndoInsertion(at, ur), ur)
<1> DEFINE b == at.buf
           n == Len(b.lines)
           Exists(p) == p.y <= n /\ p.x <= Len(b.lines[p.y].text)
           rest == InternalDeleteText(b.lines, at.start, at.end)
           ghost == b.lines[at.end.y].ghost \/ ur.end.y - ur.start.y = ur.nReal - 1
           line == [rest[at.start.y] EXCEPT !.ghost = ghost]
           marked == [rest EXCEPT ![at.start.y] = line]
           flagged == Buf(marked)
           new == RecomputeEOL(marked, flagged.blocks, at.start.y, at.start.y)
           after == [flagged EXCEPT !.lines = new]
           record == [ur EXCEPT !.redoStart = Stored(after, at.start)]
           ok == Exists(at.start) /\ Exists(at.end)
                     /\ IsPrefix(GetText(b.lines, at.start, at.end), ur.text)
           step == UndoInsertion(at, ur)
<1>1. step = IF ok THEN [ok |-> TRUE, buf |-> after, record |-> record]
             ELSE [ok |-> FALSE, buf |-> b, record |-> ur]
  <2>1. flagged.lines = marked
    BY DEF Buf
  <2>2. after = [flagged EXCEPT !.lines =
                    RecomputeEOL(@, flagged.blocks, at.start.y, at.start.y)]
    BY <2>1, Zenon
  <2>3. marked = [rest EXCEPT ![at.start.y].ghost = ghost]
    OBVIOUS
  <2> HIDE DEF after, marked, rest, ghost
  <2> QED BY <2>2, <2>3, Zenon DEF UndoInsertion, flagged, rest, ghost
<1>2. n \in Nat /\ IsLines(b.lines) /\ HasBreaks(b.lines)
  BY BufFits DEF IsBuf
<1>3. CASE ok
  <2>1. at.start.y \in 1 .. n /\ at.end.y \in 1 .. n
    BY <1>2, <1>3
  <2>2. /\ IsLines(rest) /\ at.start.y \in 1 .. Len(rest)
        /\ Framed(b.lines, rest, at.start.y, at.start.y)
    BY <1>2, <2>1, InternalDeleteTextIs
  <2> HIDE DEF rest, ghost
  <2>3. IsLine(line)
    BY <2>2, LineWith DEF IsLines
  <2> HIDE DEF line
  <2>4. /\ IsLines(marked) /\ Len(marked) = Len(rest) /\ Len(rest) \in Nat
        /\ \A i \in 1 .. Len(rest) : marked[i] = IF i = at.start.y THEN line ELSE rest[i]
    BY <2>2, <2>3, LinesExcept, SeqIs DEF IsLines
  <2> HIDE DEF marked
  <2>5. flagged.blocks = BlocksOf(marked)
    BY DEF Buf
  <2>11. Framed(b.lines, marked, at.start.y, at.start.y)
    <3>1. /\ RealOf(marked) = {i \in 1 .. Len(rest) : ~ marked[i].ghost}
          /\ RealOf(rest) = {i \in 1 .. Len(rest) : ~ rest[i].ghost}
          /\ BreaksOf(marked) = {i \in 1 .. Len(rest) : marked[i].eol}
          /\ BreaksOf(rest) = {i \in 1 .. Len(rest) : rest[i].eol}
      BY <2>2, <2>4, RealOfIs, BreaksOfIs
    <3>2. \A i \in 1 .. Len(rest) : i < at.start.y \/ i > at.start.y => i # at.start.y
      BY <2>2, <2>4
    <3>3. \A i \in 1 .. Len(rest) : i < at.start.y \/ i > at.start.y =>
              /\ i \in RealOf(rest) <=> i \in RealOf(marked)
              /\ i \in BreaksOf(rest) <=> i \in BreaksOf(marked)
      BY <2>4, <3>1, <3>2
    <3> QED BY <2>2, <2>4, <3>3, FramedWith
  <2>6. /\ IsLines(new) /\ HasBreaks(new) /\ Len(new) = Len(marked)
        /\ flagged.blocks = BlocksOf(new)
    BY <1>2, <2>4, <2>5, <2>11, Repaired
  <2> HIDE DEF new
  <2>7. after.lines = new /\ after.blocks = flagged.blocks
    BY DEF Buf
  <2> HIDE DEF after
  <2>8. IsBuf(after) /\ at.start.y \in 1 .. Len(after.lines) + 1
    <3>1. Len(after.lines) \in Nat
      BY <2>2, <2>4, <2>6, <2>7, SeqIs DEF IsLines
    <3>2. at.start.y \in 1 .. Len(after.lines) + 1
      BY <2>2, <2>4, <2>6, <2>7, <3>1
    <3> QED BY <2>6, <2>7, <3>2 DEF IsBuf
  <2>9. IsRecord(record) /\ record.begin = ur.begin
    <3>1. IsPlace(Stored(after, at.start))
      BY <2>8, StoredIs
    <3> QED BY <3>1, RecordWith
  <2> HIDE DEF record, step, ok
  <2>10. step.buf = after /\ step.record = record
    BY <1>1, <1>3
  <2> QED BY <2>8, <2>9, <2>10 DEF IsUndone, step
<1>4. CASE ~ ok
  <2> HIDE DEF after, record, step, ok
  <2>1. step.buf = b /\ step.record = ur
    BY <1>1, <1>4
  <2> QED BY <2>1 DEF IsUndone, step
<1> QED BY <1>3, <1>4

(* ... and so does undoing a deletion ...                                  *)
LEMMA UndoDeletionIs ==
    ASSUME NEW at, IsBuf(at.buf), InText(at.buf.lines, at.start), at.start.x \in Int,
           NEW ur, IsRecord(ur), ~ ur.insert
    PROVE  IsUndone(UndoDeletion(at, ur), ur)
<1> DEFINE ins == InternalInsertText(at.buf.lines, at.start, ur.text)
           start == at.start
           ghosts == (GhostsOf(ins.lines) \union start.y .. ins.end.y)
                         \ (start.y .. start.y + ur.nReal - 1)
           lines == SetGhosts(ins.lines, ghosts)
           flagged == Buf(lines)
           new == RecomputeEOL(lines, flagged.blocks, start.y, ins.end.y)
           after == [flagged EXCEPT !.lines = new]
           record == [ur EXCEPT !.redoStart = Stored(after, start),
                                !.redoEnd = Stored(after, ins.end)]
           step == UndoDeletion(at, ur)
<1>1. step = [ok |-> TRUE, buf |-> after, record |-> record]
  <2>1. flagged.lines = lines
    BY DEF Buf
  <2>2. after = [flagged EXCEPT !.lines =
                    RecomputeEOL(@, flagged.blocks, start.y, ins.end.y)]
    BY <2>1, Zenon
  <2> HIDE DEF after, ins
  <2> QED BY <2>2, Zenon DEF UndoDeletion, flagged, lines, ghosts, start, ins
<1>2. /\ Len(at.buf.lines) \in Nat /\ IsLines(at.buf.lines) /\ HasBreaks(at.buf.lines)
      /\ start.y \in 1 .. Len(at.buf.lines)
  BY BufFits DEF IsBuf, InText
<1>3. /\ IsLines(ins.lines) /\ Len(ins.lines) \in Nat
      /\ ins.end.y \in start.y .. Len(ins.lines) /\ ins.end.x \in Int
      /\ ins.end.y = start.y + Len(Pieces(ur.text)) - 1
      /\ Framed(at.buf.lines, ins.lines, start.y, ins.end.y)
  <2>1. ArePieces(Pieces(ur.text))
    BY PiecesAre DEF IsRecord
  <2>2. /\ IsLines(ins.lines)
        /\ ins.end.y \in start.y .. Len(ins.lines) /\ ins.end.x \in Int
        /\ ins.end.y = start.y + Len(Pieces(ur.text)) - 1
        /\ Framed(at.buf.lines, ins.lines, start.y, ins.end.y)
    BY <1>2, <2>1, InsertPiecesIs DEF InternalInsertText
  <2> HIDE DEF ins
  <2> QED BY <2>2, SeqIs DEF IsLines
<1> HIDE DEF ins
<1>12. \A i \in 1 .. Len(ins.lines) : i < start.y \/ i > ins.end.y =>
           (i \in ghosts <=> i \in GhostsOf(ins.lines))
  <2> DEFINE pieces == Len(Pieces(ur.text))
  <2>1. ur.nReal \in Int /\ ur.nReal <= pieces /\ pieces \in Nat
    BY PiecesAre DEF IsRecord, Restorable, ArePieces
  <2> HIDE DEF pieces
  <2> QED BY SMTT(30), <1>2, <1>3, <2>1 DEF pieces
<1> HIDE DEF ghosts
<1>4. /\ IsLines(lines) /\ Len(lines) = Len(ins.lines) /\ BreaksOf(lines) = BreaksOf(ins.lines)
      /\ \A i \in 1 .. Len(ins.lines) : lines[i].ghost = (i \in ghosts)
  BY <1>3, SetGhostsIs
<1> HIDE DEF lines
<1>5. flagged.blocks = BlocksOf(lines)
  BY DEF Buf
<1>13. Framed(at.buf.lines, lines, start.y, ins.end.y)
  <2>1. /\ RealOf(lines) = {i \in 1 .. Len(ins.lines) : ~ lines[i].ghost}
        /\ RealOf(ins.lines) = {i \in 1 .. Len(ins.lines) : ~ ins.lines[i].ghost}
        /\ GhostsOf(ins.lines) = {i \in 1 .. Len(ins.lines) : ins.lines[i].ghost}
    BY <1>3, <1>4, RealOfIs, SeqIs DEF IsLines, GhostsOf
  <2>2. \A i \in 1 .. Len(ins.lines) : i < start.y \/ i > ins.end.y =>
            (i \in RealOf(ins.lines) <=> i \in RealOf(lines))
    BY <1>4, <1>12, <2>1
  <2> QED BY <1>3, <1>4, <2>2, FramedWith
<1>6. /\ IsLines(new) /\ HasBreaks(new) /\ Len(new) = Len(lines)
      /\ flagged.blocks = BlocksOf(new)
  BY <1>2, <1>4, <1>5, <1>13, Repaired
<1> HIDE DEF new
<1>7. after.lines = new /\ after.blocks = flagged.blocks
  BY DEF Buf
<1> HIDE DEF after
<1>8. IsBuf(after)
  BY <1>6, <1>7 DEF IsBuf
<1>9. start.y \in 1 .. Len(after.lines) + 1 /\ ins.end.y \in 1 .. Len(after.lines) + 1
  <2>1. Len(after.lines) = Len(ins.lines)
    BY <1>4, <1>6, <1>7
  <2>2. Len(after.lines) \in Nat
    BY <1>8, BufFits
  <2> QED BY <1>2, <1>3, <2>1, <2>2
<1>10. IsRecord(record) /\ record.begin = ur.begin
  <2>1. IsPlace(Stored(after, start)) /\ IsPlace(Stored(after, ins.end))
    BY <1>3, <1>8, <1>9, StoredIs
  <2> DEFINE p == Stored(after, start)
             q == Stored(after, ins.end)
  <2>2. record = [ur EXCEPT !.redoStart = p, !.redoEnd = q]
    OBVIOUS
  <2> HIDE DEF record, p, q
  <2>3. IsPlace(p) /\ IsPlace(q)
    BY <2>1 DEF p, q
  <2>4. IsRecord([ur EXCEPT !.redoStart = p, !.redoEnd = q])
        /\ [ur EXCEPT !.redoStart = p, !.redoEnd = q].begin = ur.begin
    BY <2>3, RecordWithBoth
  <2> QED BY <2>2, <2>4, Zenon
<1> HIDE DEF record, step
<1>11. step.buf = after /\ step.record = record
  BY <1>1
<1> QED BY <1>8, <1>10, <1>11 DEF IsUndone, step

(* ... that is, undoing either ...                                         *)
LEMMA UndoRecordIs ==
    ASSUME NEW before, before.ok, IsBuf(before.buf), NEW ur, IsRecord(ur), UndoFits(before, ur)
    PROVE  IsUndone(UndoRecord(before.buf, ur), ur)
<1> DEFINE b == before.buf
           at == Locate(b, ur.start, ur.end, ur.insert)
<1>1. /\ IsBuf(at.buf)
      /\ at.start.y \in 1 .. Len(at.buf.lines) + 1 /\ at.start.x \in Int
      /\ at.end.y \in 1 .. Len(at.buf.lines) + 1 /\ at.end.x \in Int
  BY LocateIs DEF IsRecord
<1>2. UndoRecord(b, ur) = IF ur.insert THEN UndoInsertion(at, ur) ELSE UndoDeletion(at, ur)
  BY DEF UndoRecord
<1>3. /\ ur.insert => ~ Before(at.end, at.start)
      /\ ~ ur.insert => InText(at.buf.lines, at.start)
  BY DEF UndoFits
<1> HIDE DEF at
<1>4. ur.insert => IsUndone(UndoInsertion(at, ur), ur)
  <2> SUFFICES ASSUME ur.insert PROVE IsUndone(UndoInsertion(at, ur), ur)
    OBVIOUS
  <2>1. Len(at.buf.lines) \in Nat
    BY <1>1, BufFits
  <2>2. at.start.y <= at.end.y
    BY <1>1, <1>3, <2>1 DEF Before
  <2> QED BY <1>1, <2>2, UndoInsertionIs
<1>5. ~ ur.insert => IsUndone(UndoDeletion(at, ur), ur)
  BY <1>1, <1>3, UndoDeletionIs
<1> QED BY <1>2, <1>4, <1>5

(* ... and redoing either.                                                 *)
LEMMA RedoRecordIs ==
    ASSUME NEW b, IsBuf(b), NEW ur, IsRecord(ur), RedoFits(b, ur)
    PROVE  IsBuf(RedoRecord(b, ur))
<1> DEFINE at == Locate(b, ur.redoStart, ur.redoEnd, ~ ur.insert)
           lines == at.buf.lines
           end == DeletionEnd(lines, at.end)
<1>1. /\ IsBuf(at.buf)
      /\ at.start.y \in 1 .. Len(lines) + 1 /\ at.start.x \in Int
      /\ at.end.y \in 1 .. Len(lines) + 1 /\ at.end.x \in Int
  BY LocateIs DEF IsRecord
<1>2. RedoRecord(b, ur) = IF ur.insert THEN InsertText(at.buf, at.start, ur.text).buf
                          ELSE RedoDeletion(at.buf, at.start, end)
  BY DEF RedoRecord
<1>3. /\ InText(lines, at.start)
      /\ ~ ur.insert => at.end.y \in DOMAIN lines /\ InText(lines, end) /\ ~ Before(end, at.start)
  BY DEF RedoFits
<1> HIDE DEF at
<1>4. Len(lines) \in Nat /\ DOMAIN lines = 1 .. Len(lines)
  BY <1>1, BufFits
<1>5. at.start.y \in 1 .. Len(lines)
  BY <1>3, <1>4 DEF InText
<1>6. CASE ur.insert
  <2>1. IsBuf(InsertText(at.buf, at.start, ur.text).buf)
    BY <1>1, <1>5, InsertTextIs DEF IsRecord
  <2> QED BY <1>2, <1>6, <2>1
<1>7. CASE ~ ur.insert
  <2>1. end.y \in 1 .. Len(lines) /\ end.x \in Int
    BY <1>1, <1>3, <1>4, <1>7, DeletionEndIs DEF InText, IsBuf
  <2>4. at.start.y <= end.y
    BY <1>1, <1>3, <1>4, <1>5, <1>7, <2>1 DEF Before
  <2> HIDE DEF end
  <2>2. IsBuf(DeleteText(at.buf, at.start, end).buf)
    BY <1>1, <1>5, <2>1, <2>4, DeleteTextIs
  <2>3. IsBuf(RedoDeletion(at.buf, at.start, end))
    BY <1>1, <2>2 DEF RedoDeletion
  <2> QED BY <1>2, <1>7, <2>3
<1> QED BY <1>6, <1>7

-----------------------------------------------------------------------------
(* The inductive invariant: lines and records are well formed, the line    *)
(* breaks and the block list are the ones of the real lines, a record of a *)
(* deletion counts no more real lines than its text has lines, and the     *)
(* undo buffer begins with a group.                                        *)
IInv ==
    /\ IsBuf(Current)
    /\ AreRecords(m_aUndoBuf)
    /\ m_nUndoPosition \in 0 .. Len(m_aUndoBuf)
    /\ Len(m_aUndoBuf) # 0 => m_aUndoBuf[1].begin

(* An undo goes back to the record that begins the group.                  *)
LEMMA FirstToUndoIs ==
    ASSUME IInv, m_nUndoPosition > 0
    PROVE  FirstToUndo \in 1 .. m_nUndoPosition /\ m_aUndoBuf[FirstToUndo].begin
<1> DEFINE S == {k \in 1 .. m_nUndoPosition : m_aUndoBuf[k].begin}
<1>1. Len(m_aUndoBuf) \in Nat
  BY SeqIs DEF IInv, AreRecords
<1>2. m_nUndoPosition \in Nat /\ 1 \in S
  BY <1>1 DEF IInv
<1>3. S \in SUBSET (0 .. m_nUndoPosition) /\ S # {}
  BY <1>2
<1>4. Max(S) \in S
  <2> HIDE DEF S
  <2> QED BY <1>2, <1>3, GreatestOf
<1> QED BY <1>4 DEF FirstToUndo

(* A redo goes on to the record before the one that begins the next group. *)
LEMMA LastToRedoIs ==
    ASSUME IInv, m_nUndoPosition < Len(m_aUndoBuf)
    PROVE  LastToRedo \in m_nUndoPosition + 1 .. Len(m_aUndoBuf)
<1> DEFINE next == {k \in m_nUndoPosition + 2 .. Len(m_aUndoBuf) : m_aUndoBuf[k].begin}
<1>1. Len(m_aUndoBuf) \in Nat /\ m_nUndoPosition \in Nat
  BY SeqIs DEF IInv, AreRecords
<1>2. LastToRedo = IF next = {} THEN Len(m_aUndoBuf) ELSE Min(next) - 1
  BY DEF LastToRedo
<1>3. CASE next = {}
  BY <1>1, <1>2, <1>3
<1>4. CASE next # {}
  <2>1. next \in SUBSET Nat /\ \A k \in next : k \in m_nUndoPosition + 2 .. Len(m_aUndoBuf)
    BY <1>1
  <2> HIDE DEF next
  <2>2. Min(next) \in next
    BY <1>4, <2>1, MinOf
  <2>3. Min(next) \in m_nUndoPosition + 2 .. Len(m_aUndoBuf)
    BY <2>1, <2>2
  <2> QED BY <1>1, <1>2, <1>4, <2>3
<1> QED BY <1>3, <1>4

(* The loop of an undo goes from record to record ...                      *)
LEMMA UndoingIs ==
    ASSUME m_nUndoPosition \in Nat
    PROVE  \A n \in 0 .. m_nUndoPosition :
               Undoing[n] = IF n = 0 THEN [ok |-> TRUE, buf |-> Current, records |-> <<>>]
                            ELSE UndoStep(Undoing[n - 1], m_aUndoBuf[m_nUndoPosition + 1 - n])
<1> DEFINE N == m_nUndoPosition
           first == [ok |-> TRUE, buf |-> Current, records |-> <<>>]
           next(g, n) == IF n = 0 THEN first ELSE UndoStep(g[n - 1], m_aUndoBuf[N + 1 - n])
           Step(m, g) == [n \in 0 .. m |-> next(g, n)]
           Good(m, g) == g = Step(m, g)
           Bad == {m \in 0 .. N : ~ \E g : Good(m, g)}
           Chosen == CHOOSE g : Good(N, g)
<1>1. Undoing = Chosen
  BY DEF Undoing
<1>2. Bad = {}
  <2> SUFFICES ASSUME Bad # {} PROVE FALSE
    OBVIOUS
  <2>1. PICK m \in Bad : \A k \in Bad : m <= k
    <3>1. Bad \in SUBSET Nat
      <4> HIDE DEF Good
      <4> QED OBVIOUS
    <3> HIDE DEF Bad
    <3> QED BY <3>1, LeastOf
  <2>2. m \in 0 .. N /\ ~ \E g : Good(m, g)
    BY <2>1
  <2>3. m # 0
    <3> DEFINE h == [n \in 0 .. 0 |-> first]
    <3>1. \A n \in 0 .. 0 : n = 0
      OBVIOUS
    <3>2. Good(0, h)
      <4>1. h = [n \in 0 .. 0 |-> next(h, n)]
        <5>1. \A n \in 0 .. 0 : next(h, n) = first
          BY <3>1
        <5> HIDE DEF next, first
        <5> QED BY <5>1
      <4> HIDE DEF h, next
      <4> QED BY <4>1
    <3> HIDE DEF Good
    <3> QED BY <2>2, <3>2
  <2>4. m - 1 \in 0 .. N /\ ~ (m <= m - 1)
    BY <2>2, <2>3
  <2>5. PICK g : Good(m - 1, g)
    <3>1. m - 1 \notin Bad
      BY <2>1, <2>4
    <3> HIDE DEF Good
    <3> QED BY <2>4, <3>1
  <2> DEFINE h == [n \in 0 .. m |-> IF n = m THEN next(g, m) ELSE g[n]]
  <2>6. \A n \in 0 .. m - 1 : g[n] = next(g, n)
    <3> HIDE DEF next
    <3> QED BY <2>5
  <2>7. \A n \in 0 .. m - 1 : h[n] = g[n]
    <3> HIDE DEF next
    <3>1. \A n \in 0 .. m - 1 : n \in 0 .. m /\ n # m
      BY <2>2
    <3> QED BY <3>1
  <2>8. \A n \in 0 .. m : h[n] = next(h, n)
    <3> SUFFICES ASSUME NEW n \in 0 .. m PROVE h[n] = next(h, n)
      OBVIOUS
    <3>1. h[n] = next(g, n)
      <4>1. CASE n = m
        <5> HIDE DEF next
        <5> QED BY <4>1
      <4>2. CASE n # m
        <5>1. n \in 0 .. m - 1
          BY <2>2, <4>2
        <5> HIDE DEF next, h
        <5> QED BY <2>6, <2>7, <5>1
      <4> QED BY <4>1, <4>2
    <3>2. next(g, n) = next(h, n)
      <4>1. n # 0 => n - 1 \in 0 .. m - 1
        BY <2>2
      <4>2. n # 0 => g[n - 1] = h[n - 1]
        BY <2>7, <4>1
      <4> HIDE DEF h, first
      <4> QED BY <4>2
    <3> QED BY <3>1, <3>2
  <2>9. Good(m, h)
    <3>1. h = [n \in 0 .. m |-> h[n]]
      OBVIOUS
    <3> HIDE DEF h, next
    <3> QED BY <2>8, <3>1
  <2> HIDE DEF Good, h
  <2> QED BY <2>2, <2>9
<1>3. Good(N, Chosen)
  <2>1. \E g : Good(N, g)
    <3> HIDE DEF Good
    <3>1. N \in 0 .. N /\ N \notin Bad
      BY <1>2
    <3> QED BY <3>1
  <2> HIDE DEF Good
  <2> QED BY <2>1, Zenon
<1> HIDE DEF Chosen, next
<1>4. \A n \in 0 .. N : Chosen[n] = next(Chosen, n)
  BY <1>3
<1> QED BY <1>1, <1>4, Zenon DEF next

(* ... and so does the one of a redo.                                      *)
LEMMA RedoingIs ==
    ASSUME NEW N \in Nat, N = Len(m_aUndoBuf) - m_nUndoPosition
    PROVE  \A n \in 0 .. N :
               Redoing[n] = IF n = 0 THEN Current
                            ELSE RedoRecord(Redoing[n - 1], m_aUndoBuf[m_nUndoPosition + n])
<1> DEFINE first == Current
           next(g, n) == IF n = 0 THEN first
                         ELSE RedoRecord(g[n - 1], m_aUndoBuf[m_nUndoPosition + n])
           Step(m, g) == [n \in 0 .. m |-> next(g, n)]
           Good(m, g) == g = Step(m, g)
           Bad == {m \in 0 .. N : ~ \E g : Good(m, g)}
           Chosen == CHOOSE g : Good(N, g)
<1>1. Redoing = Chosen
  BY DEF Redoing
<1>2. Bad = {}
  <2> SUFFICES ASSUME Bad # {} PROVE FALSE
    OBVIOUS
  <2>1. PICK m \in Bad : \A k \in Bad : m <= k
    <3>1. Bad \in SUBSET Nat
      <4> HIDE DEF Good
      <4> QED OBVIOUS
    <3> HIDE DEF Bad
    <3> QED BY <3>1, LeastOf
  <2>2. m \in 0 .. N /\ ~ \E g : Good(m, g)
    BY <2>1
  <2>3. m # 0
    <3> DEFINE h == [n \in 0 .. 0 |-> first]
    <3>1. \A n \in 0 .. 0 : n = 0
      OBVIOUS
    <3>2. Good(0, h)
      <4>1. h = [n \in 0 .. 0 |-> next(h, n)]
        <5>1. \A n \in 0 .. 0 : next(h, n) = first
          BY <3>1
        <5> HIDE DEF next, first
        <5> QED BY <5>1
      <4> HIDE DEF h, next
      <4> QED BY <4>1
    <3> HIDE DEF Good
    <3> QED BY <2>2, <3>2
  <2>4. m - 1 \in 0 .. N /\ ~ (m <= m - 1)
    BY <2>2, <2>3
  <2>5. PICK g : Good(m - 1, g)
    <3>1. m - 1 \notin Bad
      BY <2>1, <2>4
    <3> HIDE DEF Good
    <3> QED BY <2>4, <3>1
  <2> DEFINE h == [n \in 0 .. m |-> IF n = m THEN next(g, m) ELSE g[n]]
  <2>6. \A n \in 0 .. m - 1 : g[n] = next(g, n)
    <3> HIDE DEF next
    <3> QED BY <2>5
  <2>7. \A n \in 0 .. m - 1 : h[n] = g[n]
    <3> HIDE DEF next
    <3>1. \A n \in 0 .. m - 1 : n \in 0 .. m /\ n # m
      BY <2>2
    <3> QED BY <3>1
  <2>8. \A n \in 0 .. m : h[n] = next(h, n)
    <3> SUFFICES ASSUME NEW n \in 0 .. m PROVE h[n] = next(h, n)
      OBVIOUS
    <3>1. h[n] = next(g, n)
      <4>1. CASE n = m
        <5> HIDE DEF next
        <5> QED BY <4>1
      <4>2. CASE n # m
        <5>1. n \in 0 .. m - 1
          BY <2>2, <4>2
        <5> HIDE DEF next, h
        <5> QED BY <2>6, <2>7, <5>1
      <4> QED BY <4>1, <4>2
    <3>2. next(g, n) = next(h, n)
      <4>1. n # 0 => n - 1 \in 0 .. m - 1
        BY <2>2
      <4>2. n # 0 => g[n - 1] = h[n - 1]
        BY <2>7, <4>1
      <4> HIDE DEF h, first
      <4> QED BY <4>2
    <3> QED BY <3>1, <3>2
  <2>9. Good(m, h)
    <3>1. h = [n \in 0 .. m |-> h[n]]
      OBVIOUS
    <3> HIDE DEF h, next
    <3> QED BY <2>8, <3>1
  <2> HIDE DEF Good, h
  <2> QED BY <2>2, <2>9
<1>3. Good(N, Chosen)
  <2>1. \E g : Good(N, g)
    <3> HIDE DEF Good
    <3>1. N \in 0 .. N /\ N \notin Bad
      BY <1>2
    <3> QED BY <3>1
  <2> HIDE DEF Good
  <2> QED BY <2>1, Zenon
<1> HIDE DEF Chosen, next
<1>4. \A n \in 0 .. N : Chosen[n] = next(Chosen, n)
  BY <1>3
<1> QED BY <1>1, <1>4, Zenon DEF next

(* What an undo has done after n records, as long as it fits               *)
IsUndoing(n) ==
    LET done == Undoing[n]
        m == Len(done.records)
    IN  /\ IsEdit(done)
        /\ m \in 0 .. n
        /\ done.ok => m = n
        /\ m # 0 => done.records[1].begin = m_aUndoBuf[m_nUndoPosition + 1 - m].begin

(* Every record that an undo comes to leaves a buffer, while all fit.      *)
LEMMA UndoingFits ==
    ASSUME IInv, m_nUndoPosition > 0, ReplayFits
    PROVE  \A n \in 0 .. m_nUndoPosition + 1 - FirstToUndo : IsUndoing(n)
<1> DEFINE N == m_nUndoPosition
           M == m_nUndoPosition + 1 - FirstToUndo
           ur(n) == m_aUndoBuf[m_nUndoPosition + 1 - n]
           Bad == {n \in 0 .. M : ~ IsUndoing(n)}
<1>1. /\ Len(m_aUndoBuf) \in Nat /\ N \in Nat /\ N \in 0 .. Len(m_aUndoBuf)
      /\ M \in 1 .. N
  <2>1. Len(m_aUndoBuf) \in Nat
    BY SeqIs DEF IInv, AreRecords
  <2>2. N \in Nat /\ N \in 0 .. Len(m_aUndoBuf)
    BY <2>1 DEF IInv
  <2>3. FirstToUndo \in 1 .. N
    BY FirstToUndoIs
  <2> QED BY <2>1, <2>2, <2>3
<1>2. \A n \in 1 .. M :
          IsRecord(ur(n)) /\ UndoFits(Undoing[n - 1], ur(n))
  <2>1. \A n \in 1 .. M : m_nUndoPosition + 1 - n \in 1 .. Len(m_aUndoBuf)
    BY <1>1
  <2>2. \A n \in 1 .. M : IsRecord(ur(n))
    BY <2>1 DEF IInv, AreRecords
  <2>3. \A n \in 1 .. M : UndoFits(Undoing[n - 1], ur(n))
    BY DEF ReplayFits
  <2> QED BY <2>2, <2>3
<1>3. \A n \in 0 .. N :
          Undoing[n] = IF n = 0 THEN [ok |-> TRUE, buf |-> Current, records |-> <<>>]
                       ELSE UndoStep(Undoing[n - 1], ur(n))
  BY <1>1, UndoingIs
<1> SUFFICES ASSUME Bad # {} PROVE FALSE
  <2> DEFINE P(n) == IsUndoing(n)
  <2>1. Bad = {n \in 0 .. M : ~ P(n)}
    OBVIOUS
  <2> HIDE DEF P
  <2>2. Bad = {} => \A n \in 0 .. M : P(n)
    BY <2>1
  <2> QED BY <2>2 DEF P
<1>4. PICK n \in Bad : \A k \in Bad : n <= k
  <2>1. Bad \in SUBSET Nat
    <3> HIDE DEF M
    <3> QED BY <1>1
  <2> HIDE DEF Bad
  <2> QED BY <2>1, LeastOf
<1>5. n \in 0 .. M /\ ~ IsUndoing(n)
  BY <1>4
<1> HIDE DEF M, N
<1>6. CASE n = 0
  <2> DEFINE done == [ok |-> TRUE, buf |-> Current, records |-> <<>>]
  <2>1. Undoing[n] = done
    <3>1. 0 \in 0 .. N
      BY <1>1
    <3> QED BY <1>3, <1>6, <3>1, Zenon
  <2>2. IsSeq(done.records) /\ Len(done.records) = 0
    BY EmptyIs
  <2>3. done.buf = Current
    OBVIOUS
  <2> HIDE DEF done
  <2>4. IsEdit(done)
    BY <2>2, <2>3 DEF IsEdit, AreRecords, IInv
  <2> QED BY <1>5, <1>6, <2>1, <2>2, <2>4 DEF IsUndoing
<1>7. CASE n # 0
  <2> DEFINE st == Undoing[n - 1]
             step == UndoRecord(st.buf, ur(n))
  <2>1. n \in 1 .. M /\ n \in 0 .. N /\ n - 1 \in 0 .. M /\ ~ (n <= n - 1)
    BY <1>1, <1>5, <1>7
  <2>2. IsUndoing(n - 1)
    <3>1. n - 1 \notin Bad
      BY <1>4, <2>1
    <3> QED BY <2>1, <3>1
  <2>3. Undoing[n] = UndoStep(st, ur(n))
    BY <1>3, <1>7, <2>1
  <2>4. /\ IsEdit(st) /\ Len(st.records) \in 0 .. n - 1
        /\ st.ok => Len(st.records) = n - 1
        /\ Len(st.records) # 0 =>
               st.records[1].begin = m_aUndoBuf[m_nUndoPosition + 1 - Len(st.records)].begin
    BY <2>2 DEF IsUndoing
  <2>5. CASE ~ st.ok
    <3>1. Undoing[n] = st
      BY <2>3, <2>5 DEF UndoStep
    <3> HIDE DEF st
    <3>2. Len(st.records) \in 0 .. n
      BY <2>1, <2>4
    <3>3. IsUndoing(n)
      BY <2>4, <2>5, <3>1, <3>2 DEF IsUndoing
    <3> QED BY <1>5, <3>3
  <2>6. CASE st.ok
    <3>1. IsUndone(step, ur(n))
      BY <1>2, <2>1, <2>4, <2>6, UndoRecordIs DEF IsEdit
    <3>2. Undoing[n] = [ok |-> step.ok, buf |-> step.buf, records |-> <<step.record>> \o st.records]
      BY <2>3, <2>6 DEF UndoStep
    <3> HIDE DEF st, step
    <3>3. Undoing[n].buf = step.buf /\ Undoing[n].records = <<step.record>> \o st.records
      BY <3>2
    <3>4. /\ AreRecords(Undoing[n].records)
          /\ Len(Undoing[n].records) = Len(st.records) + 1
          /\ Undoing[n].records[1] = step.record
      BY <2>4, <3>1, <3>3, RecordsWith DEF IsEdit, IsUndone
    <3>5. IsEdit(Undoing[n])
      BY <3>1, <3>3, <3>4 DEF IsEdit, IsUndone
    <3>6. Len(Undoing[n].records) = n
      BY <2>1, <2>4, <2>6, <3>4
    <3>7. n \in 0 .. n
      BY <2>1
    <3>8. Undoing[n].records[1].begin = m_aUndoBuf[m_nUndoPosition + 1 - n].begin
      BY <3>1, <3>4 DEF IsUndone
    <3>9. IsUndoing(n)
      BY <3>5, <3>6, <3>7, <3>8 DEF IsUndoing
    <3> QED BY <1>5, <3>9
  <2> QED BY <2>5, <2>6
<1> QED BY <1>6, <1>7

(* Records after records are records, and begin as the first does.         *)
LEMMA RecordsConcat ==
    ASSUME NEW s, NEW t, AreRecords(s), AreRecords(t)
    PROVE  /\ AreRecords(s \o t) /\ Len(s \o t) = Len(s) + Len(t)
           /\ Len(s) # 0 => (s \o t)[1] = s[1]
           /\ Len(s) = 0 /\ Len(t) # 0 => (s \o t)[1] = t[1]
<1>1. Len(s) \in Nat /\ Len(t) \in Nat /\ IsSeq(s) /\ IsSeq(t)
  BY SeqIs DEF AreRecords
<1>2. /\ IsSeq(s \o t) /\ Len(s \o t) = Len(s) + Len(t)
      /\ \A i \in 1 .. Len(s) + Len(t) :
             (s \o t)[i] = IF i <= Len(s) THEN s[i] ELSE t[i - Len(s)]
  BY <1>1, ConcatIs
<1>3. ASSUME NEW i \in 1 .. Len(s) + Len(t) PROVE IsRecord((s \o t)[i])
  <2>1. (i <= Len(s) => i \in 1 .. Len(s)) /\ (~ (i <= Len(s)) => i - Len(s) \in 1 .. Len(t))
    BY <1>1
  <2> QED BY <1>2, <2>1 DEF AreRecords
<1>4. ASSUME Len(s) # 0 PROVE (s \o t)[1] = s[1]
  <2>1. 1 \in 1 .. Len(s) + Len(t) /\ 1 <= Len(s)
    BY <1>1, <1>4
  <2> QED BY <1>2, <2>1
<1>5. ASSUME Len(s) = 0, Len(t) # 0 PROVE (s \o t)[1] = t[1]
  <2>1. 1 \in 1 .. Len(s) + Len(t) /\ ~ (1 <= Len(s)) /\ 1 - Len(s) = 1
    BY <1>1, <1>5
  <2> QED BY <1>2, <2>1
<1> QED BY <1>2, <1>3, <1>4, <1>5 DEF AreRecords

(* A part of the records is records.                                       *)
LEMMA RecordsSub ==
    ASSUME NEW s, AreRecords(s), NEW m \in Nat \ {0}, NEW n \in 0 .. Len(s)
    PROVE  /\ AreRecords(SubSeq(s, m, n))
           /\ Len(SubSeq(s, m, n)) = IF m <= n THEN n - m + 1 ELSE 0
           /\ \A i \in 1 .. n - m + 1 : SubSeq(s, m, n)[i] = s[m + i - 1]
<1>1. Len(s) \in Nat /\ m \in Int /\ n \in Int
  BY SeqIs DEF AreRecords
<1>2. /\ IsSeq(SubSeq(s, m, n))
      /\ Len(SubSeq(s, m, n)) = IF m <= n THEN n - m + 1 ELSE 0
      /\ \A i \in 1 .. n - m + 1 : SubSeq(s, m, n)[i] = s[m + i - 1]
  BY <1>1, SubSeqIs
<1>3. ASSUME NEW i \in 1 .. Len(SubSeq(s, m, n)) PROVE IsRecord(SubSeq(s, m, n)[i])
  <2>1. m <= n /\ i \in 1 .. n - m + 1 /\ m + i - 1 \in 1 .. Len(s)
    BY <1>1, <1>2
  <2> QED BY <1>2, <2>1 DEF AreRecords
<1> QED BY <1>2, <1>3 DEF AreRecords

(* What AddUndoRecord keeps is records.                                    *)
LEMMA RecordsUpTo ==
    ASSUME NEW s, AreRecords(s), NEW n \in 0 .. Len(s)
    PROVE  /\ AreRecords(SubSeq(s, 1, n)) /\ Len(SubSeq(s, 1, n)) = n
           /\ n # 0 => SubSeq(s, 1, n)[1] = s[1]
<1>1. Len(s) \in Nat /\ n \in Nat /\ 1 \in Nat \ {0}
  BY SeqIs DEF AreRecords
<1>2. /\ AreRecords(SubSeq(s, 1, n))
      /\ Len(SubSeq(s, 1, n)) = IF 1 <= n THEN n - 1 + 1 ELSE 0
      /\ \A i \in 1 .. n - 1 + 1 : SubSeq(s, 1, n)[i] = s[1 + i - 1]
  BY <1>1, RecordsSub
<1>3. Len(SubSeq(s, 1, n)) = n
  BY <1>1, <1>2
<1>4. ASSUME n # 0 PROVE SubSeq(s, 1, n)[1] = s[1]
  <2>1. 1 \in 1 .. n - 1 + 1 /\ 1 + 1 - 1 = 1
    BY <1>1, <1>4
  <2>2. SubSeq(s, 1, n)[1] = s[1 + 1 - 1]
    BY <1>2, <2>1
  <2> QED BY <2>1, <2>2
<1> QED BY <1>2, <1>3, <1>4

(* The places the user can be at are in the text.                          *)
LEMMA PlacesAre ==
    ASSUME IInv, NEW p \in Places
    PROVE  p.y \in 1 .. Len(m_aLines) /\ p.x \in 0 .. Len(m_aLines[p.y].text) /\ p.x \in Int
<1>1. IsLines(m_aLines) /\ DOMAIN m_aLines = 1 .. Len(m_aLines)
  BY SeqIs DEF IInv, IsBuf, Current, IsLines
<1>2. PICK y \in DOMAIN m_aLines : \E x \in 0 .. Len(m_aLines[y].text) : p = Point(y, x)
  BY DEF Places
<1>0. PICK x \in 0 .. Len(m_aLines[y].text) : p = Point(y, x)
  BY <1>2
<1>3. p.y = y /\ p.x = x
  BY <1>0 DEF Point
<1>4. x \in Int
  OBVIOUS
<1> QED BY <1>1, <1>3, <1>4

(* An edit of the lines with its records                                   *)
LEMMA PerformKeeps ==
    ASSUME IInv, NEW st, IsEdit(st), NEW merge, Perform(st, merge)
    PROVE  IInv'
<1> DEFINE joins == merge /\ m_nUndoPosition > 0
           kept == SubSeq(m_aUndoBuf, 1, m_nUndoPosition)
           first == [st.records[1] EXCEPT !.begin = ~ joins]
           added == [st.records EXCEPT ![1] = first]
           n == Len(st.records)
<1>1. IsBuf(Current)'
  <2>1. m_aLines' = st.buf.lines /\ m_RealityBlocks' = st.buf.blocks
    BY DEF Perform
  <2>2. IsLines(st.buf.lines) /\ HasBreaks(st.buf.lines) /\ st.buf.blocks = BlocksOf(st.buf.lines)
    BY DEF IsEdit, IsBuf
  <2>3. IsLines(m_aLines)' /\ HasBreaks(m_aLines)' /\ (m_RealityBlocks = BlocksOf(m_aLines))'
    BY <2>1, <2>2
  <2> QED BY <2>3 DEF IsBuf, Current
<1>2. m_aUndoBuf' = kept \o added /\ m_nUndoPosition' = Len(m_aUndoBuf')
  <2>1. added = [st.records EXCEPT ![1].begin = ~ joins]
    OBVIOUS
  <2> HIDE DEF added
  <2> QED BY <2>1, Zenon DEF Perform, AddUndoRecords, joins
<1>3. Len(m_aUndoBuf) \in Nat /\ m_nUndoPosition \in 0 .. Len(m_aUndoBuf) /\ AreRecords(m_aUndoBuf)
  BY SeqIs DEF IInv, AreRecords
<1>4. /\ AreRecords(kept) /\ Len(kept) = m_nUndoPosition
      /\ m_nUndoPosition # 0 => kept[1] = m_aUndoBuf[1]
  BY <1>3, RecordsUpTo
<1>5. n \in Nat \ {0} /\ AreRecords(st.records) /\ DOMAIN st.records = 1 .. n
  <2>1. n \in Nat /\ st.records # <<>> /\ DOMAIN st.records = 1 .. n
        /\ st.records = [i \in 1 .. n |-> st.records[i]]
    BY SeqIs DEF IsEdit, AreRecords, Perform
  <2>2. n # 0
    BY <2>1
  <2> QED BY <2>1, <2>2 DEF IsEdit
<1>6. IsRecord(first) /\ first.begin = ~ joins
  <2>1. IsRecord(st.records[1])
    BY <1>5 DEF AreRecords
  <2> HIDE DEF joins
  <2> QED BY <2>1, RecordBegins
<1> HIDE DEF first, kept, n
<1>7. AreRecords(added) /\ Len(added) = n /\ added[1] = first
  <2>1. /\ added = [k \in 1 .. n |-> added[k]]
        /\ \A k \in 1 .. n : added[k] = IF k = 1 THEN first ELSE st.records[k]
    BY <1>5
  <2> HIDE DEF added
  <2>2. IsSeq(added) /\ Len(added) = n
    BY <1>5, <2>1, FunctionIsSeq
  <2>3. \A k \in 1 .. n : IsRecord(added[k])
    BY <1>5, <1>6, <2>1 DEF AreRecords, n
  <2>4. added[1] = first
    BY <1>5, <2>1
  <2> QED BY <2>2, <2>3, <2>4 DEF AreRecords
<1> HIDE DEF added
<1>8. /\ AreRecords(kept \o added) /\ Len(kept \o added) = Len(kept) + Len(added)
      /\ Len(kept) # 0 => (kept \o added)[1] = kept[1]
      /\ Len(kept) = 0 /\ Len(added) # 0 => (kept \o added)[1] = added[1]
  BY <1>4, <1>7, RecordsConcat
<1>9. AreRecords(m_aUndoBuf)'
  BY <1>2, <1>8
<1>10. (m_nUndoPosition \in 0 .. Len(m_aUndoBuf))'
  <2>1. Len(kept \o added) \in Nat
    BY <1>3, <1>4, <1>5, <1>7, <1>8
  <2> QED BY <1>2, <2>1
<1>11. m_aUndoBuf[1]'.begin
  <2>1. CASE m_nUndoPosition = 0
    <3>1. m_aUndoBuf'[1] = first
      BY <1>2, <1>4, <1>5, <1>7, <1>8, <2>1
    <3>2. ~ joins
      BY <2>1
    <3> HIDE DEF joins
    <3>3. first.begin
      BY <1>6, <3>2
    <3> QED BY <3>1, <3>3
  <2>2. CASE m_nUndoPosition # 0
    <3>1. m_aUndoBuf'[1] = m_aUndoBuf[1]
      BY <1>2, <1>4, <1>8, <2>2
    <3>2. m_aUndoBuf[1].begin
      BY <1>3, <2>2 DEF IInv
    <3> QED BY <3>1, <3>2
  <2> QED BY <2>1, <2>2
<1> QED BY <1>1, <1>9, <1>10, <1>11 DEF IInv

(* InsertText keeps the inductive invariant ...                            *)
LEMMA InsertKeeps ==
    ASSUME BufferAssumption, IInv, Insert
    PROVE  IInv'
<1>1. PICK at \in Places, text \in Inserts, merge \in BOOLEAN :
          Perform(Insertion(Untouched, at, text), merge)
  BY DEF Insert
<1>2. IsEdit(Untouched) /\ Untouched.buf.lines = m_aLines
  BY EmptyIs DEF IsEdit, Untouched, AreRecords, IInv, Current
<1>3. at.y \in 1 .. Len(m_aLines) /\ at.x \in Int
  BY PlacesAre
<1>4. IsSeq(text)
  <2>1. text \in Seq(Chars \union {EOL})
    BY DEF BufferAssumption
  <2> QED BY <2>1, SeqOver
<1>5. IsEdit(Insertion(Untouched, at, text))
  BY <1>2, <1>3, <1>4, InsertionIs
<1> QED BY <1>1, <1>5, PerformKeeps

(* The deletion that the user makes between two places.                    *)
LEMMA DeletionOf ==
    ASSUME IInv, NEW start \in Places, NEW end \in Places, Before(start, end)
    PROVE  LET new == Deletion(Untouched, start, end)
           IN  IsEdit(new) /\ start.y \in 1 .. Len(new.buf.lines) /\ start.x \in Int
<1>1. IsEdit(Untouched) /\ Untouched.buf.lines = m_aLines
  BY EmptyIs DEF IsEdit, Untouched, AreRecords, IInv, Current
<1>2. /\ start.y \in 1 .. Len(m_aLines) /\ start.x \in 0 .. Len(m_aLines[start.y].text)
      /\ end.y \in 1 .. Len(m_aLines) /\ end.x \in Int /\ start.x \in Int
  BY PlacesAre
<1>3. start.y <= end.y
  BY <1>2 DEF Before
<1> QED BY <1>1, <1>2, <1>3, DeletionIs

(* ... so does DeleteText ...                                              *)
LEMMA DeleteKeeps ==
    ASSUME IInv, Delete
    PROVE  IInv'
<1>1. PICK start \in Places, end \in Places :
          Before(start, end) /\ Perform(Deletion(Untouched, start, end), FALSE)
  BY DEF Delete
<1> QED BY <1>1, DeletionOf, PerformKeeps

(* ... and a replacement, which does both ...                              *)
LEMMA ReplaceKeeps ==
    ASSUME BufferAssumption, IInv, Replace
    PROVE  IInv'
<1>1. PICK start \in Places, end \in Places, text \in Inserts :
          /\ Before(start, end)
          /\ Perform(Insertion(Deletion(Untouched, start, end), start, text), FALSE)
  BY DEF Replace
<1> DEFINE st == Deletion(Untouched, start, end)
<1>2. IsEdit(st) /\ start.y \in 1 .. Len(st.buf.lines) /\ start.x \in Int
  BY <1>1, DeletionOf
<1>3. IsSeq(text)
  <2>1. text \in Seq(Chars \union {EOL})
    BY DEF BufferAssumption
  <2> QED BY <2>1, SeqOver
<1> HIDE DEF st
<1>4. IsEdit(Insertion(st, start, text))
  BY <1>2, <1>3, InsertionIs
<1> QED BY <1>1, <1>4, PerformKeeps DEF st

(* ... and Undo, when its records fit the text ...                         *)
LEMMA UndoKeeps ==
    ASSUME IInv, ReplayFits, Undo
    PROVE  IInv'
<1> DEFINE N == m_nUndoPosition
           M == N + 1 - FirstToUndo
           done == Undoing[M]
           m == Len(done.records)
           next == N - m
           success == next = FirstToUndo - 1
           kept == SubSeq(m_aUndoBuf, 1, next)
           rest == SubSeq(m_aUndoBuf, N + 1, Len(m_aUndoBuf))
           new == kept \o done.records \o rest
<1>1. /\ m_aLines' = done.buf.lines /\ m_RealityBlocks' = done.buf.blocks
      /\ m_nUndoPosition' = IF success THEN next ELSE 0
      /\ m_aUndoBuf' = IF success THEN new ELSE <<>>
      /\ N > 0
  BY DEF Undo, Undone
<1>2. Len(m_aUndoBuf) \in Nat /\ N \in 0 .. Len(m_aUndoBuf) /\ AreRecords(m_aUndoBuf)
  BY SeqIs DEF IInv, AreRecords
<1>3. FirstToUndo \in 1 .. N /\ M \in 1 .. N /\ M \in 0 .. M
  <2>1. FirstToUndo \in 1 .. N
    BY <1>1, FirstToUndoIs
  <2> QED BY <1>2, <2>1
<1>4. /\ IsEdit(done) /\ m \in 0 .. M
      /\ m # 0 => done.records[1].begin = m_aUndoBuf[N + 1 - m].begin
  <2>1. IsUndoing(M)
    <3>1. \A n \in 0 .. m_nUndoPosition + 1 - FirstToUndo : IsUndoing(n)
      BY <1>1, UndoingFits
    <3>2. \A n \in 0 .. M : IsUndoing(n)
      BY <3>1
    <3> HIDE DEF M
    <3> QED BY <1>3, <3>2
  <2> HIDE DEF M
  <2> QED BY <2>1 DEF IsUndoing
<1> HIDE DEF done, M
<1>5. IsBuf(Current)'
  <2>1. IsLines(done.buf.lines) /\ HasBreaks(done.buf.lines)
        /\ done.buf.blocks = BlocksOf(done.buf.lines)
    BY <1>4 DEF IsEdit, IsBuf
  <2>2. IsLines(m_aLines)' /\ HasBreaks(m_aLines)' /\ (m_RealityBlocks = BlocksOf(m_aLines))'
    BY <1>1, <2>1
  <2> QED BY <2>2 DEF IsBuf, Current
<1>6. CASE success
  <2>1. next \in 0 .. Len(m_aUndoBuf) /\ m \in Nat /\ next = FirstToUndo - 1
        /\ m = N - next /\ next \in 0 .. N
    <3> HIDE DEF N, m
    <3> QED BY <1>2, <1>3, <1>4, <1>6
  <2>2. /\ AreRecords(kept) /\ Len(kept) = next
        /\ next # 0 => kept[1] = m_aUndoBuf[1]
    <3> HIDE DEF next
    <3> QED BY <1>2, <2>1, RecordsUpTo
  <2>3. AreRecords(rest) /\ Len(rest) \in Nat
    <3>1. N + 1 \in Nat \ {0} /\ Len(m_aUndoBuf) \in 0 .. Len(m_aUndoBuf)
      BY <1>2
    <3>2. AreRecords(rest)
      BY <1>2, <3>1, RecordsSub
    <3> QED BY <3>2, SeqIs DEF AreRecords
  <2> HIDE DEF kept, rest
  <2>4. AreRecords(done.records)
    BY <1>4 DEF IsEdit
  <2> DEFINE front == kept \o done.records
  <2>5. /\ AreRecords(front) /\ Len(front) = next + m
        /\ Len(kept) # 0 => front[1] = kept[1]
        /\ Len(kept) = 0 /\ m # 0 => front[1] = done.records[1]
    BY <2>2, <2>4, RecordsConcat
  <2> HIDE DEF front
  <2>6. /\ AreRecords(front \o rest) /\ Len(front \o rest) = Len(front) + Len(rest)
        /\ Len(front) # 0 => (front \o rest)[1] = front[1]
    BY <2>3, <2>5, RecordsConcat
  <2>7. Len(front) = N /\ N # 0
    <3> HIDE DEF next, m, N
    <3>1. next + m = N
      BY <1>2, <2>1
    <3> QED BY <1>1, <1>2, <2>5, <3>1
  <2>8. m_aUndoBuf' = front \o rest /\ m_nUndoPosition' = next
    BY <1>1, <1>6 DEF front
  <2>9. front[1].begin
    <3>1. CASE next = 0
      <4>1. m # 0 /\ N + 1 - m = 1
        <5> HIDE DEF N, m, next
        <5> QED BY <1>1, <1>2, <2>1, <3>1
      <4>2. front[1] = done.records[1]
        BY <2>2, <2>5, <3>1, <4>1
      <4>3. done.records[1].begin = m_aUndoBuf[1].begin
        BY <1>4, <4>1
      <4>4. m_aUndoBuf[1].begin
        BY <1>1, <1>2 DEF IInv
      <4> QED BY <4>2, <4>3, <4>4
    <3>2. CASE next # 0
      <4>1. front[1] = m_aUndoBuf[1]
        BY <2>2, <2>5, <3>2
      <4>2. m_aUndoBuf[1].begin
        BY <1>1, <1>2 DEF IInv
      <4> QED BY <4>1, <4>2
    <3> QED BY <3>1, <3>2
  <2>10. (m_nUndoPosition \in 0 .. Len(m_aUndoBuf))'
    <3>1. Len(front \o rest) = N + Len(rest)
      BY <2>6, <2>7
    <3> HIDE DEF next, N
    <3>2. next \in 0 .. N + Len(rest)
      BY <1>2, <2>1, <2>3
    <3> QED BY <2>8, <3>1, <3>2
  <2>11. m_aUndoBuf'[1].begin
    BY <2>6, <2>7, <2>8, <2>9
  <2>12. AreRecords(m_aUndoBuf)'
    BY <2>6, <2>8
  <2> QED BY <1>5, <2>10, <2>11, <2>12 DEF IInv
<1>7. CASE ~ success
  <2>1. m_aUndoBuf' = <<>> /\ m_nUndoPosition' = 0
    BY <1>1, <1>7
  <2>2. AreRecords(<<>>) /\ Len(<<>>) = 0
    BY EmptyIs DEF AreRecords
  <2>3. AreRecords(m_aUndoBuf)' /\ Len(m_aUndoBuf') = 0
    BY <2>1, <2>2
  <2> QED BY <1>5, <2>1, <2>3 DEF IInv
<1> QED BY <1>6, <1>7

(* ... and Redo, when its records do ...                                   *)
LEMMA RedoKeeps ==
    ASSUME IInv, ReplayFits, Redo
    PROVE  IInv'
<1> DEFINE N == Len(m_aUndoBuf) - m_nUndoPosition
           M == LastToRedo - m_nUndoPosition
           ur(n) == m_aUndoBuf[m_nUndoPosition + n]
           Bad == {n \in 0 .. M : ~ IsBuf(Redoing[n])}
<1>1. /\ m_nUndoPosition < Len(m_aUndoBuf)
      /\ m_aLines' = Redoing[M].lines /\ m_RealityBlocks' = Redoing[M].blocks
      /\ m_nUndoPosition' = LastToRedo /\ m_aUndoBuf' = m_aUndoBuf
  BY DEF Redo, Redone
<1>2. /\ Len(m_aUndoBuf) \in Nat /\ m_nUndoPosition \in Nat
      /\ LastToRedo \in m_nUndoPosition + 1 .. Len(m_aUndoBuf)
  <2>1. Len(m_aUndoBuf) \in Nat /\ m_nUndoPosition \in 0 .. Len(m_aUndoBuf)
    BY SeqIs DEF IInv, AreRecords
  <2> QED BY <1>1, <2>1, LastToRedoIs
<1>3. N \in Nat /\ M \in 1 .. N
  BY <1>2
<1>4. \A n \in 0 .. N :
          Redoing[n] = IF n = 0 THEN Current ELSE RedoRecord(Redoing[n - 1], ur(n))
  BY <1>3, RedoingIs
<1>5. \A n \in 1 .. M : IsRecord(ur(n)) /\ RedoFits(Redoing[n - 1], ur(n))
  <2>1. \A n \in 1 .. M : m_nUndoPosition + n \in 1 .. Len(m_aUndoBuf)
    BY <1>2
  <2>2. \A n \in 1 .. M : IsRecord(ur(n))
    BY <2>1 DEF IInv, AreRecords
  <2>3. \A n \in 1 .. M : RedoFits(Redoing[n - 1], ur(n))
    BY <1>1 DEF ReplayFits
  <2> QED BY <2>2, <2>3
<1> HIDE DEF M, N
<1>6. Bad = {}
  <2> SUFFICES ASSUME Bad # {} PROVE FALSE
    OBVIOUS
  <2>1. PICK n \in Bad : \A k \in Bad : n <= k
    <3>1. Bad \in SUBSET Nat
      OBVIOUS
    <3> HIDE DEF Bad
    <3> QED BY <3>1, LeastOf
  <2>2. n \in 0 .. M /\ ~ IsBuf(Redoing[n])
    BY <2>1
  <2>3. CASE n = 0
    <3>1. 0 \in 0 .. N
      BY <1>3
    <3>2. Redoing[0] = Current
      BY <1>4, <3>1, Zenon
    <3> QED BY <2>2, <2>3, <3>2 DEF IInv
  <2>4. CASE n # 0
    <3>1. n \in 1 .. M /\ n \in 0 .. N /\ n - 1 \in 0 .. M /\ ~ (n <= n - 1)
      BY <1>3, <2>2, <2>4
    <3>2. IsBuf(Redoing[n - 1])
      BY <2>1, <3>1
    <3>3. Redoing[n] = RedoRecord(Redoing[n - 1], ur(n))
      BY <1>4, <2>4, <3>1
    <3>4. IsBuf(RedoRecord(Redoing[n - 1], ur(n)))
      BY <1>5, <3>1, <3>2, RedoRecordIs
    <3> QED BY <2>2, <3>3, <3>4
  <2> QED BY <2>3, <2>4
<1>7. IsBuf(Redoing[M])
  <2>1. M \in 0 .. M
    BY <1>3
  <2> QED BY <1>6, <2>1
<1>8. IsBuf(Current)'
  <2>1. IsLines(m_aLines)' /\ HasBreaks(m_aLines)' /\ (m_RealityBlocks = BlocksOf(m_aLines))'
    BY <1>1, <1>7 DEF IsBuf
  <2> QED BY <2>1 DEF IsBuf, Current
<1>9. (m_nUndoPosition \in 0 .. Len(m_aUndoBuf))'
  BY <1>1, <1>2
<1> QED BY <1>1, <1>8, <1>9 DEF IInv

(* Without real lines there is no text.                                    *)
LEMMA RealLinesAre ==
    ASSUME NEW lines, IsLines(lines), RealLines(lines) # <<>>
    PROVE  RealOf(lines) # {}
<1> DEFINE real == RealLines(lines)
<1>1. IsLines(real) /\ Len(real) = Cardinality(RealOf(lines))
  BY RealLinesInOrder
<1> HIDE DEF real
<1>2. real = [k \in 1 .. Len(real) |-> real[k]]
  BY <1>1, SeqIs DEF IsLines
<1>3. RealOf(lines) = {} => real = <<>>
  <2>1. RealOf(lines) = {} => Len(real) = 0
    BY <1>1, FS_EmptySet
  <2> QED BY <1>2, <2>1
<1> QED BY <1>3 DEF real

(* The real lines of a buffer end with a line break, but for the last.     *)
AreRealLines(real) ==
    /\ IsLines(real)
    /\ \A k \in 1 .. Len(real) : k \in RealOf(real) /\ (k \in BreaksOf(real) <=> k # Len(real))

LEMMA RemovedGhosts ==
    ASSUME NEW b, IsBuf(b)
    PROVE  AreRealLines(RealLines(b.lines))
<1> DEFINE lines == b.lines
           real == RealLines(lines)
<1>1. IsLines(lines) /\ HasBreaks(lines)
  BY DEF IsBuf
<1> HIDE DEF lines
<1>2. /\ IsLines(real)
      /\ \A k \in 1 .. Len(real) : \E i \in RealOf(lines) : real[k] = lines[i]
  BY <1>1, RealLinesInOrder
<1>3. \A k \in 1 .. Len(real) : k \in BreaksOf(real) <=> k # Len(real)
  BY <1>1, RealLineBreaks
<1> HIDE DEF real
<1>4. \A k \in 1 .. Len(real) : k \in RealOf(real)
  <2>1. \A i \in RealOf(lines) : ~ lines[i].ghost
    BY DEF RealOf
  <2> QED BY <1>2, <2>1, RealOfIs
<1> QED BY <1>2, <1>3, <1>4 DEF AreRealLines, real, lines

(* The real lines are still there, in order, once ghosts are among them.   *)
Placed(real, n, ghosts, new) ==
    LET S == RealOf(new)
    IN  /\ IsLines(new) /\ HasBreaks(new) /\ Len(new) = Len(real) + n
        /\ S = (1 .. Len(real) + n) \ ghosts /\ Cardinality(S) = Len(real)
        /\ \A i \in 1 .. Len(new) :
               new[i] = IF i \in ghosts THEN GhostLine ELSE real[Cardinality(UpTo(S, i))]

(* PrimeTextBuffers puts ghost lines among them.                           *)
LEMMA PlaceGhostsIs ==
    ASSUME NEW real, AreRealLines(real), NEW n \in Nat,
           NEW ghosts \in SUBSET (1 .. Len(real) + n), Cardinality(ghosts) = n
    PROVE  Placed(real, n, ghosts, PlaceGhosts(ghosts, real))
<1> DEFINE M == Len(real)
           N == M + n
           S == (1 .. N) \ ghosts
           rank(i) == Cardinality((1 .. i) \ ghosts)
           at(i) == IF i \in ghosts THEN GhostLine ELSE real[rank(i)]
           new == PlaceGhosts(ghosts, real)
<1>1. M \in Nat /\ N \in Nat /\ S \in SUBSET (1 .. N)
  BY SeqIs DEF AreRealLines, IsLines
<1>2. new = [i \in 1 .. N |-> at(i)]
  BY DEF PlaceGhosts
<1>3. Cardinality(S) = M
  <2> DEFINE all == 1 .. N
  <2>1. IsFiniteSet(all) /\ Cardinality(all) = N
    BY <1>1, FS_Interval
  <2>2. IsFiniteSet(ghosts) /\ all \cap ghosts = ghosts
    BY <2>1, FS_Subset
  <2>3. S = all \ ghosts
    OBVIOUS
  <2> HIDE DEF all, S
  <2>4. Cardinality(S) = Cardinality(all) - Cardinality(all \cap ghosts)
    BY <2>1, <2>3, FS_Difference
  <2>5. N = M + n /\ n \in Nat
    OBVIOUS
  <2> HIDE DEF N, M
  <2>6. Cardinality(S) = N - n
    BY <2>1, <2>2, <2>4
  <2> HIDE DEF S
  <2>7. N - n = M
    BY <1>1, <2>5
  <2> QED BY <2>6, <2>7
<1>4. ASSUME NEW i \in S
      PROVE  /\ rank(i) \in 1 .. M /\ ((\E j \in S : i < j) <=> rank(i) # M)
             /\ rank(i) = Cardinality(UpTo(S, i))
  <2>1. UpTo(S, i) = (1 .. i) \ ghosts
    BY <1>1 DEF UpTo
  <2> HIDE DEF S
  <2> QED BY <1>1, <1>3, <2>1, FollowedIs
<1> HIDE DEF rank
<1>5. ASSUME NEW i \in 1 .. N PROVE IsLine(at(i))
  <2>1. IsLine(GhostLine)
    BY EmptyIs, LineIs DEF GhostLine
  <2>2. i \notin ghosts => IsLine(real[rank(i)])
    BY <1>4 DEF AreRealLines, IsLines
  <2> QED BY <2>1, <2>2
<1> HIDE DEF at, new, N
<1>6. new = [i \in 1 .. N |-> new[i]] /\ \A i \in 1 .. N : new[i] = at(i)
  BY <1>2
<1>7. IsLines(new) /\ Len(new) = N
  BY <1>1, <1>5, <1>6, LinesAre
<1>8. /\ RealOf(new) = {i \in 1 .. N : ~ new[i].ghost}
      /\ BreaksOf(new) = {i \in 1 .. N : new[i].eol}
  BY <1>7, RealOfIs, BreaksOfIs
<1>9. /\ RealOf(real) = {k \in 1 .. M : ~ real[k].ghost}
      /\ BreaksOf(real) = {k \in 1 .. M : real[k].eol}
  BY RealOfIs, BreaksOfIs DEF AreRealLines
<1> HIDE DEF M
<1>10. ASSUME NEW i \in 1 .. N
       PROVE  /\ i \in RealOf(new) <=> i \in S
              /\ i \in BreaksOf(new) <=> i \in S /\ rank(i) # M
  <2>1. CASE i \in ghosts
    <3>1. new[i] = GhostLine
      BY <1>6, <2>1 DEF at
    <3>2. GhostLine.ghost /\ ~ GhostLine.eol
      BY DEF GhostLine, Line
    <3> HIDE DEF GhostLine
    <3> QED BY <1>8, <2>1, <3>1, <3>2
  <2>2. CASE i \notin ghosts
    <3>1. new[i] = real[rank(i)] /\ i \in S
      BY <1>6, <2>2 DEF at
    <3>2. rank(i) \in 1 .. M
      BY <1>4, <3>1
    <3>3. ~ real[rank(i)].ghost /\ (real[rank(i)].eol <=> rank(i) # M)
      BY <1>9, <3>2 DEF AreRealLines, M
    <3> HIDE DEF S
    <3> QED BY <1>8, <3>1, <3>3
  <2> QED BY <2>1, <2>2
<1> HIDE DEF S
<1>11. RealOf(new) = S
  BY <1>1, <1>8, <1>10
<1>12. HasBreaks(new)
  BY <1>4, <1>7, <1>10, <1>11 DEF HasBreaks
<1>13. ASSUME NEW i \in 1 .. N
       PROVE  new[i] = IF i \in ghosts THEN GhostLine ELSE real[Cardinality(UpTo(S, i))]
  <2>1. i \notin ghosts => i \in S
    BY DEF S
  <2> QED BY <1>4, <1>6, <2>1 DEF at
<1>14. Len(real) + n = N /\ S = (1 .. N) \ ghosts /\ Len(real) = M
  BY DEF M, N, S
<1> QED BY <1>3, <1>7, <1>11, <1>12, <1>13, <1>14 DEF Placed, new

(* ... and a rescan.                                                       *)
LEMMA RescanKeeps ==
    ASSUME IInv, Rescan
    PROVE  IInv'
<1> DEFINE real == RealLines(m_aLines)
<1>1. AreRealLines(real)
  <2>1. IsBuf(Current) /\ Current.lines = m_aLines
    BY DEF IInv, Current
  <2> QED BY <2>1, RemovedGhosts
<1>2. PICK n \in 0 .. MaxGhosts :
          \E ghosts \in kSubset(n, 1 .. Len(real) + n) : m_aLines' = PlaceGhosts(ghosts, real)
  BY DEF Rescan
<1>3. PICK ghosts \in kSubset(n, 1 .. Len(real) + n) : m_aLines' = PlaceGhosts(ghosts, real)
  BY <1>2
<1> HIDE DEF real
<1>4. ghosts \in SUBSET (1 .. Len(real) + n) /\ Cardinality(ghosts) = n /\ n \in Nat
  BY DEF kSubset
<1>5. IsLines(m_aLines)' /\ HasBreaks(m_aLines)'
  BY <1>1, <1>3, <1>4, PlaceGhostsIs DEF Placed
<1>6. (m_RealityBlocks = BlocksOf(m_aLines))' /\ UNCHANGED undo
  BY DEF Rescan
<1>7. IsBuf(Current)'
  BY <1>5, <1>6 DEF IsBuf, Current
<1> QED BY <1>6, <1>7 DEF IInv, undo

(* Every step keeps the inductive invariant, when the records that it      *)
(* replays fit the text.                                                   *)
LEMMA BufferStaysWhole ==
    ASSUME BufferAssumption, IInv, ReplayFits, [Next]_vars
    PROVE  IInv'
<1>1. CASE Insert
  BY <1>1, InsertKeeps
<1>2. CASE Delete
  BY <1>2, DeleteKeeps
<1>3. CASE Replace
  BY <1>3, ReplaceKeeps
<1>4. CASE Undo
  BY <1>4, UndoKeeps
<1>5. CASE Redo
  BY <1>5, RedoKeeps
<1>6. CASE Rescan
  BY <1>6, RescanKeeps
<1>7. CASE UNCHANGED <<buffer, undo>>
  BY <1>7 DEF IInv, buffer, undo, Current
<1>8. SaveToFile => UNCHANGED <<buffer, undo>>
  BY DEF SaveToFile
<1>9. UNCHANGED vars => UNCHANGED <<buffer, undo>>
  BY DEF vars
<1> QED BY <1>1, <1>2, <1>3, <1>4, <1>5, <1>6, <1>7, <1>8, <1>9 DEF Next

(* A file that was just loaded satisfies it.                               *)
LEMMA LoadedIsWhole ==
    ASSUME BufferAssumption, Init
    PROVE  IInv
<1> DEFINE pieces == Pieces(file)
           line(k) == Line(pieces[k], k < Len(pieces), FALSE)
           lines == Loaded(file)
<1>1. IsSeq(file)
  <2>1. file \in Seq(Chars \union {EOL})
    BY DEF BufferAssumption, Init
  <2> QED BY <2>1, SeqOver
<1>2. ArePieces(pieces)
  BY <1>1, PiecesAre
<1>3. lines = [k \in DOMAIN pieces |-> line(k)]
  BY DEF Loaded
<1> HIDE DEF pieces, lines
<1>4. DOMAIN pieces = 1 .. Len(pieces) /\ Len(pieces) \in Nat
  BY <1>2, SeqIs DEF ArePieces
<1>5. \A k \in 1 .. Len(pieces) : IsLine(line(k))
  BY <1>2, LineIs DEF ArePieces
<1> HIDE DEF line
<1>6. /\ lines = [k \in 1 .. Len(pieces) |-> lines[k]]
      /\ \A k \in 1 .. Len(pieces) : lines[k] = line(k)
  BY <1>3, <1>4
<1>7. IsLines(lines) /\ Len(lines) = Len(pieces)
  BY <1>4, <1>5, <1>6, LinesAre
<1>11. HasBreaks(lines)
  <2> DEFINE n == Len(pieces)
  <2>1. /\ RealOf(lines) = {i \in 1 .. n : ~ lines[i].ghost}
        /\ BreaksOf(lines) = {i \in 1 .. n : lines[i].eol}
    BY <1>7, RealOfIs, BreaksOfIs
  <2>2. ASSUME NEW i \in 1 .. n
        PROVE  i \in RealOf(lines) /\ (i \in BreaksOf(lines) <=> i < n)
    <3>1. ~ line(i).ghost /\ (line(i).eol <=> i < n)
      BY DEF line, Line
    <3>2. lines[i] = line(i)
      BY <1>6
    <3> HIDE DEF n
    <3> QED BY <2>1, <3>1, <3>2
  <2> HIDE DEF n
  <2>3. \A i \in 1 .. n : (\E j \in RealOf(lines) : i < j) <=> i < n
    <3>1. n \in Nat /\ RealOf(lines) = 1 .. n
      BY <1>4, <2>1, <2>2 DEF n
    <3>2. \A i \in 1 .. n : i < n => n \in 1 .. n
      BY <3>1
    <3>3. \A i, j \in 1 .. n : i < j => i < n
      BY <3>1
    <3> QED BY <3>1, <3>2, <3>3
  <2> QED BY <1>7, <2>2, <2>3 DEF HasBreaks, n
<1>8. IsBuf(Current)
  BY <1>7, <1>11 DEF Init, IsBuf, Current, lines
<1>9. AreRecords(<<>>) /\ Len(<<>>) = 0
  BY EmptyIs DEF AreRecords
<1>10. m_aUndoBuf = <<>> /\ m_nUndoPosition = 0
  BY DEF Init
<1> QED BY <1>8, <1>9, <1>10 DEF IInv

(* With the blocks of its lines, a buffer converts its lines exactly:      *)
(* what the run checks.                                                    *)
LEMMA WholeIsExact ==
    ASSUME IInv
    PROVE  MappingIsExact
<1> DEFINE n == Len(m_aLines)
           S == RealOf(m_aLines)
           real(y) == {i \in 1 .. y - 1 : ~ m_aLines[i].ghost}
<1> SUFFICES ASSUME RealLines(m_aLines) # <<>>, NEW y \in DOMAIN m_aLines
             PROVE  /\ ComputeRealLine(m_RealityBlocks, y) = Cardinality(real(y)) + 1
                    /\ Apparent(Current, Stored(Current, Point(y, 0))).y = y
  BY DEF MappingIsExact
<1>1. IsLines(m_aLines) /\ IsBuf(Current) /\ Current.lines = m_aLines
      /\ Current.blocks = m_RealityBlocks
  BY DEF IInv, IsBuf, Current
<1>2. /\ n \in Nat /\ DOMAIN m_aLines = 1 .. n
      /\ S \in SUBSET (1 .. n) /\ BlocksFit(m_RealityBlocks, S, n)
  BY <1>1, BufFits
<1>3. S # {}
  BY <1>1, RealLinesAre
<1>4. y \in 1 .. n + 1 /\ y \in Int
  BY <1>2
<1>5. ComputeRealLine(m_RealityBlocks, y) = Cardinality(real(y)) + 1
  <2>1. UpTo(S, y - 1) = real(y)
    <3>1. S = {i \in 1 .. n : ~ m_aLines[i].ghost}
      BY <1>1, RealOfIs
    <3>2. \A i : i \in 1 .. y - 1 <=> i \in 1 .. n /\ i <= y - 1
      BY <1>2, <1>4
    <3> QED BY <3>1, <3>2 DEF UpTo
  <2>2. 0 \in Int
    OBVIOUS
  <2> HIDE DEF S, n
  <2>3. ComputeRealLineAndGhostAdjustment(m_RealityBlocks, 0, y).y = Cardinality(UpTo(S, y - 1)) + 1
    BY <1>2, <1>3, <1>4, <2>2, RealLineIs
  <2> QED BY <2>1, <2>3 DEF ComputeRealLine
<1>6. Apparent(Current, Stored(Current, Point(y, 0))).y = y
  <2> DEFINE r == ComputeRealLineAndGhostAdjustment(m_RealityBlocks, n, y)
  <2>1. ComputeApparentLine(m_RealityBlocks, n, r.y, r.nGhost) = y
    <3> HIDE DEF S, n
    <3> QED BY <1>2, <1>3, <1>4, ConversionIsExact
  <2>2. Stored(Current, Point(y, 0)) = [y |-> r.y, nGhost |-> r.nGhost, x |-> 0]
    BY <1>1 DEF Stored, Point
  <2> HIDE DEF r
  <2>3. Stored(Current, Point(y, 0)).y = r.y /\ Stored(Current, Point(y, 0)).nGhost = r.nGhost
    BY <2>2
  <2>4. Apparent(Current, Stored(Current, Point(y, 0))).y =
            ComputeApparentLine(m_RealityBlocks, n, r.y, r.nGhost)
    BY <1>1, <2>3 DEF Apparent, Point
  <2> QED BY <2>1, <2>4 DEF r
<1> QED BY <1>5, <1>6

(* For every file, every text inserted and every bound: after any edits,    *)
(* undos, redos and rescans the block list of RecomputeRealityMapping is    *)
(* that of the lines, ComputeRealLine counts the real lines above a line,   *)
(* and ComputeApparentLine leads from a line's real line and distance back  *)
(* to that line.  ReplayFits is what InternalInsertText and                 *)
(* InternalDeleteText assert of the places that an undo or redo gives them; *)
(* the code defines no outcome for a place beyond the text.                 *)
THEOREM MappingStaysExact == Spec /\ []ReplayFits => []MappingIsExact
<1>1. Init => IInv
  BY BufferAssumption, LoadedIsWhole
<1>2. IInv /\ ReplayFits /\ [Next]_vars => IInv'
  BY BufferAssumption, BufferStaysWhole
<1>3. IInv => MappingIsExact
  BY WholeIsExact
<1> QED BY <1>1, <1>2, <1>3, PTL DEF Spec

-----------------------------------------------------------------------------
(* Line breaks and the saved text *)

(* A buffer has the line breaks of its lines.                              *)
LEMMA WholeHasBreaks ==
    ASSUME IInv
    PROVE  IsLines(m_aLines) /\ HasBreaks(m_aLines) /\ LineBreaksAreExact
<1>1. IsLines(m_aLines) /\ HasBreaks(m_aLines)
  BY DEF IInv, IsBuf, Current
<1>2. /\ DOMAIN m_aLines = 1 .. Len(m_aLines) /\ Len(m_aLines) \in Nat
      /\ RealOf(m_aLines) = {i \in 1 .. Len(m_aLines) : ~ m_aLines[i].ghost}
      /\ BreaksOf(m_aLines) = {i \in 1 .. Len(m_aLines) : m_aLines[i].eol}
  BY <1>1, RealOfIs, BreaksOfIs, SeqIs DEF IsLines
<1>3. ASSUME NEW i \in DOMAIN m_aLines
      PROVE  m_aLines[i].eol <=>
                 ~ m_aLines[i].ghost /\ \E j \in DOMAIN m_aLines : j > i /\ ~ m_aLines[j].ghost
  <2>1. m_aLines[i].eol <=> i \in RealOf(m_aLines) /\ \E j \in RealOf(m_aLines) : i < j
    BY <1>1, <1>2 DEF HasBreaks
  <2>2. \A j \in 1 .. Len(m_aLines) : i < j <=> j > i
    BY <1>2
  <2> QED BY <1>2, <2>1, <2>2
<1> QED BY <1>1, <1>3 DEF LineBreaksAreExact

(* With ghost lines that are empty, as they ought to be, the loop that     *)
(* saves the lines goes to the last of them.                               *)
LEMMA WholeIsSaved ==
    ASSUME IInv, GhostsAreEmpty
    PROVE  SaveWritesAll
<1> DEFINE real == RealLines(m_aLines)
           stops == {k \in DOMAIN real : ~ real[k].eol} \union {Len(real)}
<1>1. IsLines(m_aLines) /\ HasBreaks(m_aLines)
  BY WholeHasBreaks
<1>2. SubSeq(real, 1, Min(stops)) = real
  BY <1>1, RealLinesAreSaved
<1>3. SavedText(m_aLines) = FileText(SubSeq(real, 1, Min(stops)))
  BY DEF SavedText
<1>4. FileText(real) = FileText(m_aLines)
  BY <1>1, GhostsLeaveNoText DEF GhostsAreEmpty
<1> HIDE DEF real, stops
<1> QED BY <1>2, <1>3, <1>4 DEF SaveWritesAll

(* For every file, every text inserted and every bound: after any edits,    *)
(* undos, redos and rescans the real lines but the last end with a line     *)
(* break and no other line does.  RecomputeEOL looks at the lines that an   *)
(* edit changed and at the real line above, and that is enough; UndoRecord  *)
(* counts no line below the text it puts back among those that become real. *)
(* ReplayFits as above.                                                     *)
THEOREM LineBreaksStayExact == Spec /\ []ReplayFits => []LineBreaksAreExact
<1>1. Init => IInv
  BY BufferAssumption, LoadedIsWhole
<1>2. IInv /\ ReplayFits /\ [Next]_vars => IInv'
  BY BufferAssumption, BufferStaysWhole
<1>3. IInv => LineBreaksAreExact
  BY WholeHasBreaks
<1> QED BY <1>1, <1>2, <1>3, PTL DEF Spec

(* So SaveToFile, which stops behind the first real line without a line     *)
(* break, writes all of the text, as long as no text gets into a ghost line *)
(* (what the type invariant of the runs says of the ghost lines).           *)
THEOREM SavesWriteAll == Spec /\ []ReplayFits /\ []GhostsAreEmpty => []SaveWritesAll
<1>1. Init => IInv
  BY BufferAssumption, LoadedIsWhole
<1>2. IInv /\ ReplayFits /\ [Next]_vars => IInv'
  BY BufferAssumption, BufferStaysWhole
<1>3. IInv /\ GhostsAreEmpty => SaveWritesAll
  BY WholeIsSaved
<1> QED BY <1>1, <1>2, <1>3, PTL DEF Spec

-----------------------------------------------------------------------------
(* Groups of records and the log of the texts between them *)

Firsts(s) == {k \in 1 .. Len(s) : s[k].begin}
Group(s, b) == Cardinality(UpTo(Firsts(s), b)) + 1
Whole(s, b) == b = Len(s) \/ b + 1 \in Firsts(s)

Marked(ur) == "begin" \in DOMAIN ur
AreMarked(s) == IsSeq(s) /\ \A k \in 1 .. Len(s) : Marked(s[k])
Plain(s) == AreMarked(s) /\ \A k \in 1 .. Len(s) : ~ s[k].begin

(* The log has an entry after each group; p records are undoable, no group *)
(* is cut there, and the entry after them is the m-th; the text on disk is *)
(* the entry at the position of the last save, unless a group that was     *)
(* typed on has swallowed it.                                              *)
Tracks(s, l, p, m, sync, disk) ==
    /\ AreMarked(s) /\ IsSeq(l)
    /\ p \in 0 .. Len(s) /\ Whole(s, 0) /\ Whole(s, p)
    /\ m = Group(s, p) /\ Len(l) = Group(s, Len(s))
    /\ sync \in npos .. Len(s)
    /\ sync # npos /\ Whole(s, sync) => l[Group(s, sync)] = disk

(* The groups are numbered from 1.                                         *)
LEMMA GroupIs ==
    ASSUME NEW s, IsSeq(s)
    PROVE  /\ Len(s) \in Nat /\ Firsts(s) \in SUBSET (1 .. Len(s)) /\ Firsts(s) \in SUBSET Nat
           /\ \A b \in Int : Group(s, b) \in Nat /\ Group(s, b) >= 1
           /\ \A a, b \in Int : a <= b => Group(s, a) <= Group(s, b)
           /\ \A a, b \in Int : a + 1 \in Firsts(s) /\ a < b => Group(s, a) + 1 <= Group(s, b)
<1>1. Len(s) \in Nat
  BY SeqIs
<1>2. Firsts(s) \in SUBSET (1 .. Len(s)) /\ Firsts(s) \in SUBSET Nat
  BY <1>1 DEF Firsts
<1> DEFINE F == Firsts(s)
<1> HIDE DEF F
<1>3. \A b \in Int : Cardinality(UpTo(F, b)) \in Nat
  BY <1>2, UpToIsFinite DEF F
<1>4. \A b \in Int : Group(s, b) = Cardinality(UpTo(F, b)) + 1
  BY DEF Group, F
<1>5. ASSUME NEW a \in Int, NEW b \in Int, a <= b PROVE Group(s, a) <= Group(s, b)
  <2>1. Cardinality(UpTo(F, a)) <= Cardinality(UpTo(F, b))
    BY <1>2, <1>5, UpToMonotone DEF F
  <2> QED BY <2>1, <1>3, <1>4
<1>6. ASSUME NEW a \in Int, NEW b \in Int, a + 1 \in F, a < b
      PROVE  Group(s, a) + 1 <= Group(s, b)
  <2>1. Cardinality(UpTo(F, a)) < Cardinality(UpTo(F, a + 1))
    <3>1. a < a + 1
      OBVIOUS
    <3> QED BY <1>2, <1>6, <3>1, UpToGrows DEF F
  <2>2. Cardinality(UpTo(F, a + 1)) <= Cardinality(UpTo(F, b))
    BY <1>2, <1>6, UpToMonotone DEF F
  <2> QED BY <2>1, <2>2, <1>3, <1>4
<1>7. \A b \in Int : Group(s, b) \in Nat /\ Group(s, b) >= 1
  BY <1>3, <1>4
<1>8. \A a, b \in Int : a <= b => Group(s, a) <= Group(s, b)
  BY <1>5, Zenon
<1>9. \A a, b \in Int : a + 1 \in F /\ a < b => Group(s, a) + 1 <= Group(s, b)
  BY <1>6, Zenon
<1> QED BY <1>1, <1>2, <1>7, <1>8, <1>9, Zenon DEF F

(* The records of an edit begin a group, or go on with the last one.       *)
Adds(added, p, m, m2) ==
    /\ AreMarked(added) /\ Len(added) # 0
    /\ \A k \in 2 .. Len(added) : ~ added[k].begin
    /\ \/ added[1].begin /\ m2 = m + 1
       \/ ~ added[1].begin /\ m2 = m /\ p > 0

Extended(s, l, p, sync, disk, added, m2, text) ==
    LET t == SubSeq(s, 1, p) \o added
        l2 == Append(SubSeq(l, 1, m2 - 1), text)
        sync2 == IF p < Len(s) /\ sync > p THEN npos ELSE sync
    IN  Tracks(t, l2, Len(t), m2, sync2, disk) /\ l2[m2] = text

(* An edit adds a group, or adds to the last one that is not undone.       *)
LEMMA EditTracks ==
    ASSUME NEW s, NEW l, NEW p, NEW m, NEW sync, NEW disk, Tracks(s, l, p, m, sync, disk),
           NEW added, NEW m2, Adds(added, p, m, m2), NEW text
    PROVE  Extended(s, l, p, sync, disk, added, m2, text)
<1> DEFINE kept == SubSeq(s, 1, p)
           t == kept \o added
           front == SubSeq(l, 1, m2 - 1)
           l2 == Append(front, text)
           sync2 == IF p < Len(s) /\ sync > p THEN npos ELSE sync
           n == Len(added)
           F == Firsts(s)
           G == Firsts(t)
<1>0. /\ AreMarked(added) /\ Len(added) # 0 /\ \A k \in 2 .. Len(added) : ~ added[k].begin
      /\ (added[1].begin /\ m2 = m + 1) \/ (~ added[1].begin /\ m2 = m /\ p > 0)
  BY DEF Adds
<1>1. /\ AreMarked(s) /\ IsSeq(s) /\ IsSeq(l) /\ p \in 0 .. Len(s) /\ Whole(s, 0) /\ Whole(s, p)
      /\ m = Group(s, p) /\ Len(l) = Group(s, Len(s)) /\ sync \in npos .. Len(s)
      /\ sync # npos /\ Whole(s, sync) => l[Group(s, sync)] = disk
  BY DEF Tracks, AreMarked
<1>2. /\ Len(s) \in Nat /\ F \in SUBSET (1 .. Len(s)) /\ F \in SUBSET Nat
      /\ \A b \in Int : Group(s, b) \in Nat /\ Group(s, b) >= 1
      /\ \A a, b \in Int : a <= b => Group(s, a) <= Group(s, b)
      /\ \A a, b \in Int : a + 1 \in F /\ a < b => Group(s, a) + 1 <= Group(s, b)
  BY <1>1, GroupIs
<1>3. p \in Nat /\ p <= Len(s) /\ n \in Nat /\ n >= 1 /\ IsSeq(added)
  BY <1>0, <1>1, <1>2, SeqIs DEF AreMarked
<1>4. /\ IsSeq(kept) /\ Len(kept) = p /\ \A i \in 1 .. p : kept[i] = s[i]
  <2>1. /\ IsSeq(kept) /\ Len(kept) = IF 1 <= p THEN p - 1 + 1 ELSE 0
        /\ \A i \in 1 .. p - 1 + 1 : kept[i] = s[1 + i - 1]
    BY <1>3, SubSeqIs
  <2> HIDE DEF kept
  <2>2. \A i \in 1 .. p : i \in 1 .. p - 1 + 1 /\ 1 + i - 1 = i
    BY <1>3
  <2> QED BY <2>1, <2>2, <1>3
<1> HIDE DEF kept, n
<1>5. /\ IsSeq(t) /\ Len(t) = p + n
      /\ \A i \in 1 .. p : t[i] = s[i]
      /\ \A i \in 1 .. n : t[p + i] = added[i]
  <2>1. /\ IsSeq(t) /\ Len(t) = Len(kept) + Len(added)
        /\ \A i \in 1 .. Len(kept) + Len(added) :
              t[i] = IF i <= Len(kept) THEN kept[i] ELSE added[i - Len(kept)]
    BY <1>3, <1>4, ConcatIs
  <2> HIDE DEF t
  <2>2. ASSUME NEW i \in 1 .. p PROVE t[i] = s[i]
    <3>1. i \in 1 .. p + n /\ i <= p
      BY <1>3
    <3> QED BY <2>1, <3>1, <1>4 DEF n
  <2>3. ASSUME NEW i \in 1 .. n PROVE t[p + i] = added[i]
    <3>1. p + i \in 1 .. p + n /\ ~ (p + i <= p) /\ p + i - p = i
      BY <1>3
    <3> QED BY <2>1, <3>1, <1>4 DEF n
  <2> QED BY <2>1, <2>2, <2>3, <1>4 DEF n
<1> HIDE DEF t
<1>6. \A i \in 1 .. p + n : i \in 1 .. p \/ (i - p \in 1 .. n /\ p + (i - p) = i)
  BY <1>3
<1>7. AreMarked(t)
  <2> SUFFICES ASSUME NEW i \in 1 .. p + n PROVE Marked(t[i])
    BY <1>5 DEF AreMarked
  <2>1. CASE i \in 1 .. p
    <3>1. i \in 1 .. Len(s)
      BY <2>1, <1>3
    <3> QED BY <2>1, <3>1, <1>1, <1>5 DEF AreMarked
  <2>2. CASE i - p \in 1 .. n /\ p + (i - p) = i
    BY <2>2, <1>0, <1>5 DEF AreMarked, n
  <2> QED BY <2>1, <2>2, <1>6
<1>8. /\ \A i \in 1 .. p : i \in G <=> i \in F
      /\ p + 1 \in G <=> added[1].begin
      /\ \A i \in G : i <= p + 1
  <2>1. ASSUME NEW i \in 1 .. p PROVE i \in G <=> i \in F
    <3>1. i \in 1 .. Len(s) /\ i \in 1 .. Len(t) /\ t[i] = s[i]
      BY <1>3, <1>5
    <3> QED BY <3>1 DEF Firsts
  <2>2. p + 1 \in G <=> added[1].begin
    <3>1. p + 1 \in 1 .. Len(t) /\ t[p + 1] = added[1]
      BY <1>3, <1>5
    <3> QED BY <3>1 DEF Firsts
  <2>3. ASSUME NEW i \in G, ~ (i <= p + 1) PROVE FALSE
    <3>1. i \in 1 .. p + n /\ t[i].begin
      BY <1>5 DEF Firsts
    <3>2. i - p \in 2 .. n /\ i - p \in 1 .. n /\ p + (i - p) = i
      BY <1>3, <2>3, <3>1
    <3>3. t[i] = added[i - p]
      BY <1>5, <3>2
    <3>4. ~ added[i - p].begin
      BY <1>0, <3>2 DEF n
    <3> QED BY <3>1, <3>3, <3>4
  <2> QED BY <2>1, <2>2, <2>3
<1>9. /\ Len(t) \in Nat /\ G \in SUBSET (1 .. Len(t)) /\ G \in SUBSET Nat
      /\ \A b \in Int : Group(t, b) \in Nat /\ Group(t, b) >= 1
  BY <1>5, GroupIs
<1>10. \A b \in 0 .. p : Group(t, b) = Group(s, b)
  <2> SUFFICES ASSUME NEW b \in 0 .. p PROVE UpTo(G, b) = UpTo(F, b)
    BY DEF Group
  <2> HIDE DEF F, G
  <2>1. \A j : j \in G /\ j <= b <=> j \in F /\ j <= b
    <3>1. \A j \in G : j <= b => j \in 1 .. p
      BY <1>3, <1>9
    <3>2. \A j \in F : j <= b => j \in 1 .. p
      BY <1>2, <1>3
    <3> QED BY <1>8, <3>1, <3>2
  <2> QED BY <2>1 DEF UpTo
<1>11. Group(t, Len(t)) = m2
  <2>1. Cardinality(UpTo(G, p + 1)) = Cardinality(UpTo(G, p)) + IF p + 1 \in G THEN 1 ELSE 0
    BY <1>3, <1>9, UpToNext
  <2>2. Cardinality(UpTo(G, Len(t))) = Cardinality(UpTo(G, p + 1))
    <3>1. p + 1 \in Int /\ Len(t) \in Int /\ p + 1 <= Len(t)
      BY <1>3, <1>5
    <3>2. \A i \in G : ~ (p + 1 < i /\ i <= Len(t))
      BY <1>8, <1>9, <1>3
    <3> HIDE DEF G
    <3> QED BY <1>9, <3>1, <3>2, UpToGap
  <2>3. Cardinality(UpTo(G, p)) + 1 = m
    <3>1. p \in 0 .. p
      BY <1>3
    <3> QED BY <1>1, <1>10, <3>1 DEF Group
  <2>4. Cardinality(UpTo(G, p)) \in Nat
    <3>1. G \in SUBSET Nat /\ p \in Int
      BY <1>3, <1>9
    <3> HIDE DEF G
    <3> QED BY <3>1, UpToIsFinite
  <2>5. Group(t, Len(t)) = Cardinality(UpTo(G, Len(t))) + 1
    BY DEF Group
  <2> HIDE DEF G
  <2> QED BY <1>0, <1>8, <2>1, <2>2, <2>3, <2>4, <2>5
<1>12. /\ m \in Nat /\ m >= 1 /\ m <= Len(l) /\ Len(l) \in Nat /\ m2 \in Nat
       /\ m2 - 1 \in 0 .. Len(l) /\ m2 >= 1
  <2>1. p \in Int /\ Len(s) \in Int /\ p <= Len(s)
    BY <1>2, <1>3
  <2>2. Group(s, p) <= Group(s, Len(s))
    BY <1>2, <2>1
  <2>3. m \in Nat /\ m >= 1 /\ m <= Len(l) /\ Len(l) \in Nat
    BY <1>1, <1>2, <2>1, <2>2
  <2>4. m2 = m \/ m2 = m + 1
    BY <1>0
  <2> QED BY <2>3, <2>4
<1>13. /\ IsSeq(l2) /\ Len(l2) = m2 /\ l2[m2] = text
       /\ \A i \in 1 .. m2 - 1 : l2[i] = l[i]
  <2>1. /\ IsSeq(front) /\ Len(front) = IF 1 <= m2 - 1 THEN (m2 - 1) - 1 + 1 ELSE 0
        /\ \A i \in 1 .. (m2 - 1) - 1 + 1 : front[i] = l[1 + i - 1]
    BY <1>12, SubSeqIs
  <2> HIDE DEF front
  <2>2. Len(front) = m2 - 1
    BY <2>1, <1>12
  <2>3. /\ IsSeq(l2) /\ Len(l2) = Len(front) + 1
        /\ \A i \in 1 .. Len(front) + 1 : l2[i] = IF i <= Len(front) THEN front[i] ELSE text
    BY <2>1, AppendIs
  <2> HIDE DEF l2
  <2>4. m2 \in 1 .. Len(front) + 1 /\ ~ (m2 <= Len(front)) /\ Len(front) + 1 = m2
    BY <2>2, <1>12
  <2>5. ASSUME NEW i \in 1 .. m2 - 1 PROVE l2[i] = l[i]
    <3>1. i \in 1 .. Len(front) + 1 /\ i <= Len(front) /\ i \in 1 .. (m2 - 1) - 1 + 1 /\ 1 + i - 1 = i
      BY <2>2, <1>12
    <3> QED BY <2>1, <2>3, <3>1
  <2> QED BY <2>3, <2>4, <2>5
<1> HIDE DEF l2
<1>14. Len(t) \in 0 .. Len(t) /\ Whole(t, Len(t))
  BY <1>9 DEF Whole
<1>15. Whole(t, 0)
  <2>1. CASE p = 0
    BY <1>0, <1>8, <2>1 DEF Whole
  <2>2. CASE p # 0
    <3>1. 0 + 1 \in F /\ 0 + 1 \in 1 .. p
      <4>1. 0 # Len(s)
        BY <1>3, <2>2
      <4>2. 0 + 1 \in F
        BY <1>1, <4>1 DEF Whole
      <4> QED BY <1>3, <2>2, <4>2
    <3> QED BY <1>8, <3>1 DEF Whole
  <2> QED BY <2>1, <2>2
<1>16. sync2 = npos \/ (sync2 = sync /\ sync \in 0 .. p)
  BY <1>1, <1>2, <1>3 DEF npos
<1> HIDE DEF sync2
<1>17. sync2 \in npos .. Len(t)
  BY <1>3, <1>5, <1>16 DEF npos
<1>18. ASSUME sync2 # npos, Whole(t, sync2) PROVE l2[Group(t, sync2)] = disk
  <2>1. sync2 = sync /\ sync \in 0 .. p /\ sync # npos /\ sync2 \in Int
    BY <1>3, <1>16, <1>18
  <2>2. sync + 1 \in G
    <3>1. sync2 # Len(t)
      BY <1>3, <1>5, <2>1
    <3> QED BY <1>18, <2>1, <3>1 DEF Whole
  <2>3. Group(t, sync2) = Group(s, sync) /\ Group(s, sync) \in Nat /\ Group(s, sync) >= 1
    BY <1>2, <1>10, <2>1
  <2>4. CASE sync = p
    <3>1. m2 = m + 1 /\ Whole(s, sync)
      BY <1>0, <1>1, <1>8, <2>2, <2>4
    <3>2. Group(s, sync) = m /\ m \in 1 .. m2 - 1
      BY <1>1, <1>12, <2>4, <3>1
    <3>3. l[m] = disk
      BY <1>1, <2>1, <3>1, <3>2
    <3> QED BY <1>13, <2>3, <3>2, <3>3
  <2>5. CASE sync # p
    <3>1. sync + 1 \in 1 .. p /\ sync < p
      BY <1>3, <2>1, <2>5
    <3>2. sync + 1 \in F
      BY <1>8, <2>2, <3>1
    <3>3. Whole(s, sync)
      BY <3>2 DEF Whole
    <3>4. l[Group(s, sync)] = disk
      BY <1>1, <2>1, <3>3
    <3>5. Group(s, sync) + 1 <= m
      BY <1>1, <1>2, <1>3, <2>1, <3>1, <3>2
    <3>6. Group(s, sync) \in 1 .. m2 - 1
      BY <1>0, <1>12, <2>3, <3>5
    <3> QED BY <1>13, <2>3, <3>4, <3>6
  <2> QED BY <2>4, <2>5
<1>19. Tracks(t, l2, Len(t), m2, sync2, disk)
  <2>1. Len(l2) = Group(t, Len(t)) /\ m2 = Group(t, Len(t))
    BY <1>11, <1>13
  <2> HIDE DEF G
  <2> QED BY <1>7, <1>13, <1>14, <1>15, <1>17, <1>18, <2>1 DEF Tracks
<1> QED BY <1>13, <1>19 DEF Extended, t, kept, l2, front, sync2

(* An undo goes back by a group and leaves the marks.                      *)
LEMMA UndoTracks ==
    ASSUME NEW s, NEW l, NEW p, NEW m, NEW sync, NEW disk, Tracks(s, l, p, m, sync, disk),
           NEW f \in 1 .. p, f \in Firsts(s), \A k \in Firsts(s) : k <= f \/ k > p,
           NEW t, AreMarked(t), Len(t) = Len(s), Firsts(t) = Firsts(s)
    PROVE  Tracks(t, l, f - 1, m - 1, sync, disk) /\ m >= 2 /\ m <= Len(l) /\ Len(l) \in Nat
<1>1. /\ IsSeq(s) /\ p \in 0 .. Len(s) /\ m = Group(s, p) /\ Len(l) = Group(s, Len(s))
  BY DEF Tracks, AreMarked
<1>2. /\ Len(s) \in Nat /\ Firsts(s) \in SUBSET Nat
      /\ \A b \in Int : Group(s, b) \in Nat /\ Group(s, b) >= 1
      /\ \A a, b \in Int : a <= b => Group(s, a) <= Group(s, b)
  BY <1>1, GroupIs
<1>3. p \in Nat /\ p <= Len(s) /\ f \in Nat /\ f - 1 \in 0 .. Len(s) /\ f <= p
  BY <1>1, <1>2
<1>4. Group(s, p) = Group(s, f - 1) + 1
  <2> DEFINE F == Firsts(s)
             c(b) == Cardinality(UpTo(F, b))
  <2>0. F \in SUBSET Nat /\ f \in F /\ (\A k \in F : k <= f \/ k > p)
        /\ f \in Int /\ p \in Int /\ f - 1 \in Int /\ f - 1 + 1 = f
    BY <1>2, <1>3
  <2>5. \A b \in Int : Group(s, b) = c(b) + 1
    BY DEF Group
  <2> HIDE DEF F
  <2>1. Cardinality(UpTo(F, f - 1 + 1)) = Cardinality(UpTo(F, f - 1)) + IF f - 1 + 1 \in F THEN 1 ELSE 0
    BY <2>0, UpToNext
  <2>2. c(p) = c(f)
    <3>1. \A i \in F : ~ (f < i /\ i <= p)
      BY <2>0
    <3> QED BY <1>3, <2>0, <3>1, UpToGap
  <2>3. c(f - 1) \in Nat /\ c(f) \in Nat
    BY <2>0, UpToIsFinite
  <2>4. c(f) = c(f - 1) + 1
    BY <2>0, <2>1
  <2> HIDE DEF c
  <2> QED BY <2>0, <2>2, <2>3, <2>4, <2>5
<1>5. \A b : Group(t, b) = Group(s, b) /\ (Whole(t, b) <=> Whole(s, b))
  BY DEF Group, Whole
<1>6. Whole(t, f - 1)
  <2>1. f - 1 + 1 = f
    BY <1>3
  <2> QED BY <2>1 DEF Whole
<1>7. m - 1 = Group(t, f - 1)
  BY <1>1, <1>2, <1>3, <1>4, <1>5
<1>8. m >= 2 /\ m <= Len(l) /\ Len(l) \in Nat
  BY <1>1, <1>2, <1>3, <1>4
<1> QED BY <1>3, <1>5, <1>6, <1>7, <1>8 DEF Tracks

(* A redo goes on by a group.                                              *)
LEMMA RedoTracks ==
    ASSUME NEW s, NEW l, NEW p, NEW m, NEW sync, NEW disk, Tracks(s, l, p, m, sync, disk),
           NEW last \in p + 1 .. Len(s), Whole(s, last),
           \A k \in Firsts(s) : k <= p + 1 \/ k > last
    PROVE  Tracks(s, l, last, m + 1, sync, disk)
<1>1. /\ IsSeq(s) /\ p \in 0 .. Len(s) /\ Whole(s, p) /\ m = Group(s, p)
  BY DEF Tracks, AreMarked
<1>2. /\ Len(s) \in Nat /\ Firsts(s) \in SUBSET Nat
      /\ \A b \in Int : Group(s, b) \in Nat
  BY <1>1, GroupIs
<1>3. p \in Nat /\ last \in Nat /\ p + 1 <= last /\ last \in 0 .. Len(s) /\ p # Len(s)
  BY <1>1, <1>2
<1>4. Group(s, last) = Group(s, p) + 1
  <2> DEFINE F == Firsts(s)
             c(b) == Cardinality(UpTo(F, b))
  <2>1. p + 1 \in F
    BY <1>1, <1>3 DEF Whole
  <2>0. F \in SUBSET Nat /\ (\A k \in F : k <= p + 1 \/ k > last)
        /\ p \in Int /\ p + 1 \in Int /\ last \in Int
    BY <1>2, <1>3
  <2>5. \A b \in Int : Group(s, b) = c(b) + 1
    BY DEF Group
  <2> HIDE DEF F
  <2>2. c(p + 1) = c(p) + 1
    BY <2>0, <2>1, UpToNext
  <2>3. c(last) = c(p + 1)
    <3>1. \A i \in F : ~ (p + 1 < i /\ i <= last)
      BY <2>0
    <3> QED BY <1>3, <2>0, <3>1, UpToGap
  <2>4. c(p) \in Nat
    BY <2>0, UpToIsFinite
  <2> HIDE DEF c
  <2> QED BY <2>0, <2>2, <2>3, <2>4, <2>5
<1> QED BY <1>1, <1>2, <1>3, <1>4 DEF Tracks
-----------------------------------------------------------------------------
(* The inductive invariant of UnmodifiedIsSaved: groups and log in step     *)

SyncInv ==
    /\ Tracks(m_aUndoBuf, log, m_nUndoPosition, marker, m_nSyncPosition, file)
    /\ ~ m_bModified => m_nSyncPosition = m_nUndoPosition
    /\ log[marker] = FileText(m_aLines)

(* A buffer with the text of the current entry is saved when not modified. *)
LEMMA TrackedIsSaved ==
    ASSUME SyncInv
    PROVE  UnmodifiedIsSaved
<1>1. /\ m_nUndoPosition \in 0 .. Len(m_aUndoBuf) /\ Whole(m_aUndoBuf, m_nUndoPosition)
      /\ marker = Group(m_aUndoBuf, m_nUndoPosition)
      /\ m_nSyncPosition # npos /\ Whole(m_aUndoBuf, m_nSyncPosition) =>
             log[Group(m_aUndoBuf, m_nSyncPosition)] = file
      /\ ~ m_bModified => m_nSyncPosition = m_nUndoPosition
      /\ log[marker] = FileText(m_aLines)
  BY DEF SyncInv, Tracks
<1>2. m_nUndoPosition # npos
  BY <1>1 DEF npos
<1> QED BY <1>1, <1>2 DEF UnmodifiedIsSaved

(* After any step of an edit history the text is the entry of the marker.  *)
LEMMA HistoryHolds ==
    ASSUME IsSeq(log), marker \in 1 .. Len(log), log[marker] = FileText(m_aLines),
           [History!Next]_(History!vars)
    PROVE  (log[marker] = FileText(m_aLines))'
<1> DEFINE text == FileText(m_aLines)'
<1>1. Len(log) \in Nat /\ marker \in Nat /\ marker >= 1
  BY SeqIs
<1>2. ASSUME NEW n \in 1 .. Len(log) + 1, log' = Append(SubSeq(log, 1, n - 1), text)
      PROVE  log'[n] = text
  <2> DEFINE front == SubSeq(log, 1, n - 1)
  <2>1. IsSeq(front) /\ Len(front) = IF 1 <= n - 1 THEN (n - 1) - 1 + 1 ELSE 0
    BY <1>1, <1>2, SubSeqIs
  <2> HIDE DEF front, text
  <2>2. Len(front) + 1 = n /\ n \in 1 .. Len(front) + 1 /\ ~ (n <= Len(front))
    BY <1>1, <1>2, <2>1
  <2>3. \A i \in 1 .. Len(front) + 1 :
            Append(front, text)[i] = IF i <= Len(front) THEN front[i] ELSE text
    BY <2>1, AppendIs
  <2> QED BY <1>2, <2>2, <2>3 DEF front
<1> HIDE DEF text
<1>3. CASE History!Edit
  <2>1. log' = Append(SubSeq(log, 1, marker), text) /\ marker' = marker + 1
    BY <1>3 DEF History!Edit, text
  <2>2. marker + 1 \in 1 .. Len(log) + 1 /\ marker + 1 - 1 = marker
    BY <1>1
  <2> QED BY <1>2, <2>1, <2>2 DEF text
<1>4. CASE History!EditOn
  <2>1. log' = Append(SubSeq(log, 1, marker - 1), text) /\ marker' = marker
    BY <1>4 DEF History!EditOn, text
  <2>2. marker \in 1 .. Len(log) + 1
    BY <1>1
  <2> QED BY <1>2, <2>1, <2>2 DEF text
<1>5. CASE History!Undo
  BY <1>5 DEF History!Undo, text
<1>6. CASE History!Redo
  BY <1>6 DEF History!Redo, text
<1>7. CASE UNCHANGED History!vars
  BY <1>7 DEF History!vars
<1> QED BY <1>3, <1>4, <1>5, <1>6, <1>7 DEF History!Next

(* Saving puts the sync position where the undo position is.               *)
LEMMA SaveTracks ==
    ASSUME SyncInv, SaveWritesAll, SaveToFile
    PROVE  SyncInv'
<1>1. file' = log[marker]
  BY DEF SaveToFile, SaveWritesAll, SyncInv
<1>2. /\ m_nSyncPosition' = m_nUndoPosition /\ m_aUndoBuf' = m_aUndoBuf /\ m_aLines' = m_aLines
      /\ m_nUndoPosition' = m_nUndoPosition /\ log' = log /\ marker' = marker
  BY DEF SaveToFile, buffer, undo, history
<1>3. m_nUndoPosition \in npos .. Len(m_aUndoBuf)
  <2>1. IsSeq(m_aUndoBuf) /\ m_nUndoPosition \in 0 .. Len(m_aUndoBuf)
    BY DEF SyncInv, Tracks, AreMarked
  <2> QED BY <2>1, SeqIs DEF npos
<1>4. Tracks(m_aUndoBuf, log, m_nUndoPosition, marker, m_nUndoPosition, log[marker])
  BY <1>3 DEF SyncInv, Tracks
<1>5. Tracks(m_aUndoBuf, log, m_nUndoPosition, marker, m_nSyncPosition, file)'
  BY <1>1, <1>2, <1>4
<1> QED BY <1>2, <1>5 DEF SyncInv

(* A rescan changes neither records nor log.                               *)
LEMMA RescanTracks ==
    ASSUME SyncInv, (log[marker] = FileText(m_aLines))', Rescan
    PROVE  SyncInv'
<1>1. /\ m_nSyncPosition' = m_nSyncPosition /\ m_aUndoBuf' = m_aUndoBuf /\ file' = file
      /\ m_nUndoPosition' = m_nUndoPosition /\ log' = log /\ marker' = marker
      /\ m_bModified' = m_bModified
  BY DEF Rescan, undo, history
<1> QED BY <1>1 DEF SyncInv

(* Edits add records that begin no group yet.                              *)
LEMMA InsertionPlain ==
    ASSUME NEW st, Plain(st.records), NEW at, NEW text
    PROVE  Plain(Insertion(st, at, text).records)
<1> DEFINE ins == InsertText(st.buf, at, text)
           ur == Record(TRUE, ins.buf, at, ins.end, text, ins.nReal)
<1>1. Insertion(st, at, text).records = Append(st.records, ur)
  BY DEF Insertion
<1>2. Marked(ur) /\ ~ ur.begin
  <2> HIDE DEF ins
  <2> QED BY DEF Marked, Record
<1> HIDE DEF ur
<1>3. IsSeq(st.records) /\ Len(st.records) \in Nat
      /\ \A k \in 1 .. Len(st.records) : Marked(st.records[k]) /\ ~ st.records[k].begin
  BY SeqIs DEF Plain, AreMarked
<1>4. /\ IsSeq(Append(st.records, ur))
      /\ Len(Append(st.records, ur)) = Len(st.records) + 1
      /\ \A i \in 1 .. Len(st.records) + 1 :
             Append(st.records, ur)[i] = IF i <= Len(st.records) THEN st.records[i] ELSE ur
  BY <1>3, AppendIs
<1>5. \A i \in 1 .. Len(st.records) + 1 : i <= Len(st.records) => i \in 1 .. Len(st.records)
  BY <1>3
<1> DEFINE new == Append(st.records, ur)
<1> HIDE DEF new
<1>6. ASSUME NEW i \in 1 .. Len(new) PROVE Marked(new[i]) /\ ~ new[i].begin
  BY <1>2, <1>3, <1>4, <1>5 DEF new
<1> QED BY <1>1, <1>4, <1>6 DEF Plain, AreMarked, new

(* ... and a deletion of no text adds none.                                *)
LEMMA DeletionPlain ==
    ASSUME NEW st, Plain(st.records), NEW start, NEW end
    PROVE  Plain(Deletion(st, start, end).records)
<1> DEFINE stop == DeletionEnd(st.buf.lines, end)
           text == GetText(st.buf.lines, start, stop)
           del == DeleteText(st.buf, start, stop)
           ur == Record(FALSE, del.buf, start, start, text, del.nReal)
           new == Append(st.records, ur)
<1>1. Deletion(st, start, end).records = st.records \/ Deletion(st, start, end).records = new
  BY DEF Deletion
<1>2. Marked(ur) /\ ~ ur.begin
  <2> HIDE DEF del, text
  <2> QED BY DEF Marked, Record
<1> HIDE DEF ur
<1>3. IsSeq(st.records) /\ Len(st.records) \in Nat
      /\ \A k \in 1 .. Len(st.records) : Marked(st.records[k]) /\ ~ st.records[k].begin
  BY SeqIs DEF Plain, AreMarked
<1>4. /\ IsSeq(new)
      /\ Len(new) = Len(st.records) + 1
      /\ \A i \in 1 .. Len(st.records) + 1 :
             new[i] = IF i <= Len(st.records) THEN st.records[i] ELSE ur
  BY <1>3, AppendIs
<1>5. \A i \in 1 .. Len(st.records) + 1 : i <= Len(st.records) => i \in 1 .. Len(st.records)
  BY <1>3
<1> HIDE DEF new
<1>6. ASSUME NEW i \in 1 .. Len(new) PROVE Marked(new[i]) /\ ~ new[i].begin
  BY <1>2, <1>3, <1>4, <1>5
<1>7. Plain(new)
  BY <1>4, <1>6 DEF Plain, AreMarked
<1> QED BY <1>1, <1>7

(* Added are the records of an edit, but for the mark of the first one.    *)
MarkedFrom(records, added) ==
    /\ Len(added) = Len(records)
    /\ \E e : \A k \in 1 .. Len(records) :
           added[k] = IF k = 1 THEN [records[1] EXCEPT !.begin = e] ELSE records[k]

(* A step adds these records behind those that are not undone.             *)
Added(added) ==
    LET t == SubSeq(m_aUndoBuf, 1, m_nUndoPosition) \o added
    IN  /\ m_aUndoBuf' = t /\ m_nUndoPosition' = Len(t)
        /\ log' = Append(SubSeq(log, 1, marker' - 1), FileText(m_aLines'))
        /\ m_nSyncPosition' =
               IF m_nUndoPosition < Len(m_aUndoBuf) /\ m_nSyncPosition > m_nUndoPosition
               THEN npos ELSE m_nSyncPosition
        /\ m_bModified' = TRUE /\ file' = file
        /\ Adds(added, m_nUndoPosition, marker, marker')

(* The records of an edit are added as a group or to the last group.       *)
LEMMA PerformAdds ==
    ASSUME SyncInv, NEW st, Plain(st.records), NEW merge, Perform(st, merge)
    PROVE  \E added : MarkedFrom(st.records, added) /\ Added(added)
<1> DEFINE joins == merge /\ m_nUndoPosition > 0
           e == ~ joins
           first == [st.records[1] EXCEPT !.begin = e]
           added == [st.records EXCEPT ![1] = first]
           n == Len(st.records)
           text == FileText(m_aLines')
           t == SubSeq(m_aUndoBuf, 1, m_nUndoPosition) \o added
           l2 == Append(SubSeq(log, 1, marker' - 1), text)
<1>1. /\ IsSeq(st.records) /\ n \in Nat /\ n # 0 /\ DOMAIN st.records = 1 .. n
      /\ \A k \in 1 .. n : Marked(st.records[k]) /\ ~ st.records[k].begin
  <2>1. IsSeq(st.records) /\ st.records # <<>>
    BY DEF Plain, AreMarked, Perform
  <2>2. n \in Nat /\ DOMAIN st.records = 1 .. n /\ st.records = [i \in 1 .. n |-> st.records[i]]
    BY <2>1, SeqIs
  <2>3. n # 0
    BY <2>1, <2>2
  <2> QED BY <2>1, <2>2, <2>3 DEF Plain, AreMarked
<1>2. /\ m_aUndoBuf' = t /\ m_nUndoPosition' = Len(t) /\ log' = l2
      /\ m_nSyncPosition' = SyncPosition(m_nUndoPosition < Len(m_aUndoBuf))
      /\ marker' = IF joins THEN marker ELSE marker + 1
      /\ m_bModified' = TRUE /\ file' = file
  <2>1. added = [st.records EXCEPT ![1].begin = ~ joins]
    OBVIOUS
  <2> HIDE DEF added, e
  <2>2. m_aUndoBuf' = t
    BY <2>1, Zenon DEF Perform, AddUndoRecords, joins
  <2>3. m_nUndoPosition' = Len(m_aUndoBuf')
    BY Zenon DEF Perform, AddUndoRecords
  <2>4. log' = l2
    BY Zenon DEF Perform, AddUndoRecords
  <2>5. m_nSyncPosition' = SyncPosition(m_nUndoPosition < Len(m_aUndoBuf))
    BY Zenon DEF Perform, AddUndoRecords
  <2>6. marker' = IF joins THEN marker ELSE marker + 1
    BY Zenon DEF Perform, AddUndoRecords
  <2>7. m_bModified' = TRUE /\ file' = file
    BY Zenon DEF Perform
  <2> QED BY <2>2, <2>3, <2>4, <2>5, <2>6, <2>7, Zenon
<1>3. Marked(first) /\ first.begin = ~ joins
  <2>1. Marked(st.records[1])
    BY <1>1
  <2>2. first = [st.records[1] EXCEPT !.begin = e]
    OBVIOUS
  <2> HIDE DEF joins, first, e
  <2>3. Marked(first) /\ first.begin = e
    BY <2>1, <2>2 DEF Marked
  <2> QED BY <2>3 DEF e
<1>4. ~ joins => first.begin
  <2> HIDE DEF joins, first
  <2> QED BY <1>3
<1>5. joins => ~ first.begin
  <2> HIDE DEF joins, first
  <2> QED BY <1>3
<1> HIDE DEF first
<1>6. /\ AreMarked(added) /\ Len(added) = n /\ added[1] = first
      /\ \A k \in 2 .. n : ~ added[k].begin
      /\ \A k \in 1 .. n : added[k] = IF k = 1 THEN first ELSE st.records[k]
  <2>1. /\ added = [k \in 1 .. n |-> added[k]]
        /\ \A k \in 1 .. n : added[k] = IF k = 1 THEN first ELSE st.records[k]
    BY <1>1
  <2> HIDE DEF added, n
  <2>2. IsSeq(added) /\ Len(added) = n
    BY <1>1, <2>1, FunctionIsSeq
  <2>3. \A k \in 1 .. n : Marked(added[k])
    BY <1>1, <1>3, <2>1
  <2>4. added[1] = first
    BY <1>1, <2>1
  <2>5. ASSUME NEW k \in 2 .. n PROVE ~ added[k].begin
    <3>1. k \in 1 .. n /\ k # 1
      OBVIOUS
    <3>2. added[k] = st.records[k] /\ ~ st.records[k].begin
      BY <1>1, <2>1, <3>1
    <3> QED BY <3>2
  <2> QED BY <2>1, <2>2, <2>3, <2>4, <2>5 DEF AreMarked
<1> HIDE DEF added, n
<1>7. \/ added[1].begin /\ marker' = marker + 1
      \/ ~ added[1].begin /\ marker' = marker /\ m_nUndoPosition > 0
  <2>1. CASE joins
    <3>1. ~ first.begin /\ m_nUndoPosition > 0 /\ marker' = marker
      BY <1>2, <1>5, <2>1
    <3> QED BY <1>6, <3>1
  <2>2. CASE ~ joins
    <3>1. first.begin /\ marker' = marker + 1
      BY <1>2, <1>4, <2>2
    <3> QED BY <1>6, <3>1
  <2> QED BY <2>1, <2>2
<1>8. Adds(added, m_nUndoPosition, marker, marker')
  BY <1>1, <1>6, <1>7 DEF Adds
<1>9. MarkedFrom(st.records, added)
  <2>1. \A k \in 1 .. n : added[k] = IF k = 1 THEN [st.records[1] EXCEPT !.begin = e] ELSE st.records[k]
    BY <1>6 DEF first
  <2> HIDE DEF e
  <2> QED BY <1>6, <2>1 DEF MarkedFrom, n
<1> HIDE DEF l2, text, e
<1>10. Added(added)
  <2>1. SyncPosition(m_nUndoPosition < Len(m_aUndoBuf))
            = IF m_nUndoPosition < Len(m_aUndoBuf) /\ m_nSyncPosition > m_nUndoPosition
              THEN npos ELSE m_nSyncPosition
    BY DEF SyncPosition
  <2> QED BY <1>2, <1>8, <2>1 DEF Added, l2, text
<1> QED BY <1>9, <1>10

(* An edit keeps groups and log in step.                                   *)
LEMMA PerformTracks ==
    ASSUME SyncInv, NEW st, Plain(st.records), NEW merge, Perform(st, merge)
    PROVE  SyncInv'
<1> DEFINE text == FileText(m_aLines')
<1>1. PICK added : Added(added)
  BY PerformAdds
<1> DEFINE t == SubSeq(m_aUndoBuf, 1, m_nUndoPosition) \o added
           l2 == Append(SubSeq(log, 1, marker' - 1), text)
<1>2. /\ m_aUndoBuf' = t /\ m_nUndoPosition' = Len(t) /\ log' = l2
      /\ m_nSyncPosition' =
             IF m_nUndoPosition < Len(m_aUndoBuf) /\ m_nSyncPosition > m_nUndoPosition
             THEN npos ELSE m_nSyncPosition
      /\ m_bModified' = TRUE /\ file' = file
      /\ Adds(added, m_nUndoPosition, marker, marker')
  BY <1>1 DEF Added
<1>3. Tracks(t, l2, Len(t), marker', m_nSyncPosition', file) /\ l2[marker'] = text
  <2>1. Tracks(m_aUndoBuf, log, m_nUndoPosition, marker, m_nSyncPosition, file)
    BY DEF SyncInv
  <2>2. Extended(m_aUndoBuf, log, m_nUndoPosition, m_nSyncPosition, file, added, marker', text)
    <3> HIDE DEF text
    <3> QED BY <1>2, <2>1, EditTracks
  <2> QED BY <1>2, <2>2 DEF Extended
<1> HIDE DEF t, l2
<1>4. Tracks(m_aUndoBuf, log, m_nUndoPosition, marker, m_nSyncPosition, file)'
  BY <1>2, <1>3
<1>5. (log[marker] = FileText(m_aLines))'
  BY <1>2, <1>3
<1>6. (~ m_bModified => m_nSyncPosition = m_nUndoPosition)'
  BY <1>2
<1> QED BY <1>4, <1>5, <1>6 DEF SyncInv

(* So does each of the edits.                                              *)
LEMMA EditsTrack ==
    ASSUME SyncInv, Insert \/ Delete \/ Replace
    PROVE  SyncInv'
<1>1. Plain(Untouched.records)
  <2>1. Untouched.records = <<>>
    BY DEF Untouched
  <2>2. IsSeq(<<>>) /\ \A k \in 1 .. Len(<<>>) : FALSE
    BY EmptyIs
  <2> QED BY <2>1, <2>2 DEF Plain, AreMarked
<1>2. CASE Insert
  <2>1. PICK at \in Places, text \in Inserts, merge \in BOOLEAN :
            Perform(Insertion(Untouched, at, text), merge)
    BY <1>2 DEF Insert
  <2> QED BY <1>1, <2>1, InsertionPlain, PerformTracks
<1>3. CASE Delete
  <2>1. PICK start \in Places, end \in Places : Perform(Deletion(Untouched, start, end), FALSE)
    BY <1>3 DEF Delete
  <2> QED BY <1>1, <2>1, DeletionPlain, PerformTracks
<1>4. CASE Replace
  <2>1. PICK start \in Places, end \in Places, text \in Inserts :
            Perform(Insertion(Deletion(Untouched, start, end), start, text), FALSE)
    BY <1>4 DEF Replace
  <2>2. Plain(Deletion(Untouched, start, end).records)
    BY <1>1, DeletionPlain
  <2>3. Plain(Insertion(Deletion(Untouched, start, end), start, text).records)
    BY <2>2, InsertionPlain
  <2> QED BY <2>1, <2>3, PerformTracks
<1> QED BY <1>2, <1>3, <1>4

(* An undone record begins a group if it did before.                       *)
LEMMA UndoRecordMarks ==
    ASSUME NEW b, NEW ur, Marked(ur)
    PROVE  Marked(UndoRecord(b, ur).record) /\ UndoRecord(b, ur).record.begin = ur.begin
<1> DEFINE at == Locate(b, ur.start, ur.end, ur.insert)
<1>1. ASSUME NEW e PROVE LET new == [ur EXCEPT !.redoStart = e]
                         IN  Marked(new) /\ new.begin = ur.begin
  BY DEF Marked
<1>2. UndoRecord(b, ur) = IF ur.insert THEN UndoInsertion(at, ur) ELSE UndoDeletion(at, ur)
  BY Zenon DEF UndoRecord
<1> HIDE DEF at
<1>3. UndoInsertion(at, ur).record = ur \/ \E e : UndoInsertion(at, ur).record = [ur EXCEPT !.redoStart = e]
  BY Zenon DEF UndoInsertion
<1>4. \E e, f : UndoDeletion(at, ur).record = [ur EXCEPT !.redoStart = e, !.redoEnd = f]
  BY DEF UndoDeletion
<1>5. Marked(UndoInsertion(at, ur).record) /\ UndoInsertion(at, ur).record.begin = ur.begin
  BY <1>1, <1>3
<1>6. Marked(UndoDeletion(at, ur).record) /\ UndoDeletion(at, ur).record.begin = ur.begin
  <2>1. PICK e, f : UndoDeletion(at, ur).record = [ur EXCEPT !.redoStart = e, !.redoEnd = f]
    BY <1>4
  <2> DEFINE new == [ur EXCEPT !.redoStart = e, !.redoEnd = f]
  <2>2. Marked(new) /\ new.begin = ur.begin
    BY DEF Marked
  <2> HIDE DEF new
  <2> QED BY <2>1, <2>2 DEF new
<1> QED BY <1>2, <1>5, <1>6

(* One record more.                                                        *)
LEMMA MarkedWith ==
    ASSUME NEW s, AreMarked(s), NEW ur, Marked(ur)
    PROVE  /\ AreMarked(<<ur>> \o s) /\ Len(<<ur>> \o s) = Len(s) + 1
           /\ \A k \in 1 .. Len(s) + 1 : (<<ur>> \o s)[k] = IF k = 1 THEN ur ELSE s[k - 1]
<1> DEFINE single == <<ur>>
           t == single \o s
<1>1. IsSeq(s) /\ Len(s) \in Nat /\ \A k \in 1 .. Len(s) : Marked(s[k])
  BY SeqIs DEF AreMarked
<1>2. IsSeq(single) /\ Len(single) = 1 /\ single[1] = ur
  BY SingleIs
<1> HIDE DEF single
<1>3. /\ IsSeq(t) /\ Len(t) = 1 + Len(s)
      /\ \A k \in 1 .. 1 + Len(s) : t[k] = IF k <= 1 THEN single[k] ELSE s[k - 1]
  <2>1. /\ IsSeq(t) /\ Len(t) = Len(single) + Len(s)
        /\ \A k \in 1 .. Len(single) + Len(s) :
               t[k] = IF k <= Len(single) THEN single[k] ELSE s[k - Len(single)]
    BY <1>1, <1>2, ConcatIs, Zenon
  <2> QED BY <1>2, <2>1, Zenon
<1> HIDE DEF t
<1>4. ASSUME NEW k \in 1 .. Len(s) + 1
      PROVE  t[k] = IF k = 1 THEN ur ELSE s[k - 1]
  <2>1. k \in 1 .. 1 + Len(s) /\ (k <= 1 <=> k = 1)
    BY <1>1
  <2> QED BY <1>2, <1>3, <2>1
<1>5. ASSUME NEW k \in 1 .. Len(t) PROVE Marked(t[k])
  <2>1. k \in 1 .. Len(s) + 1 /\ (k = 1 \/ k - 1 \in 1 .. Len(s))
    BY <1>1, <1>3
  <2> QED BY <1>1, <1>4, <2>1
<1>6. AreMarked(t) /\ Len(t) = Len(s) + 1
  BY <1>1, <1>3, <1>5 DEF AreMarked
<1> QED BY <1>4, <1>6 DEF t, single

(* What an undo has done after n records has their marks.                  *)
IsMarking(n) ==
    LET done == Undoing[n]
        m == Len(done.records)
    IN  /\ AreMarked(done.records)
        /\ m \in 0 .. n
        /\ done.ok => m = n
        /\ \A j \in 1 .. m : done.records[j].begin = m_aUndoBuf[m_nUndoPosition - m + j].begin

(* The loop of an undo keeps the marks, record by record.                  *)
LEMMA UndoingMarks ==
    ASSUME AreMarked(m_aUndoBuf), m_nUndoPosition \in 0 .. Len(m_aUndoBuf)
    PROVE  \A n \in 0 .. m_nUndoPosition : IsMarking(n)
<1> DEFINE N == m_nUndoPosition
           ur(n) == m_aUndoBuf[m_nUndoPosition + 1 - n]
           Bad == {n \in 0 .. N : ~ IsMarking(n)}
<1>1. Len(m_aUndoBuf) \in Nat /\ N \in Nat /\ N <= Len(m_aUndoBuf)
  <2>1. Len(m_aUndoBuf) \in Nat
    BY SeqIs DEF AreMarked
  <2> QED BY <2>1
<1>2. \A n \in 0 .. N :
          Undoing[n] = IF n = 0 THEN [ok |-> TRUE, buf |-> Current, records |-> <<>>]
                       ELSE UndoStep(Undoing[n - 1], ur(n))
  BY <1>1, UndoingIs
<1> SUFFICES ASSUME Bad # {} PROVE FALSE
  <2> DEFINE P(n) == IsMarking(n)
  <2>1. Bad = {n \in 0 .. N : ~ P(n)}
    OBVIOUS
  <2> HIDE DEF P
  <2>2. Bad = {} => \A n \in 0 .. N : P(n)
    BY <2>1
  <2> QED BY <2>2 DEF P
<1>4. PICK n \in Bad : \A k \in Bad : n <= k
  <2>1. Bad \in SUBSET Nat
    OBVIOUS
  <2> HIDE DEF Bad
  <2> QED BY <2>1, LeastOf
<1>5. n \in 0 .. N /\ ~ IsMarking(n)
  BY <1>4
<1>6. CASE n = 0
  <2> DEFINE done == [ok |-> TRUE, buf |-> Current, records |-> <<>>]
  <2>1. Undoing[n] = done
    <3>1. 0 \in 0 .. N
      BY <1>1
    <3> QED BY <1>2, <1>6, <3>1, Zenon
  <2>2. IsSeq(done.records) /\ Len(done.records) = 0
    BY EmptyIs
  <2> HIDE DEF done
  <2> QED BY <1>5, <1>6, <2>1, <2>2 DEF IsMarking, AreMarked
<1>7. CASE n # 0
  <2> DEFINE st == Undoing[n - 1]
             step == UndoRecord(st.buf, ur(n))
             m == Len(st.records)
  <2>1. n \in Nat /\ n - 1 \in 0 .. N /\ ~ (n <= n - 1) /\ N + 1 - n \in 1 .. Len(m_aUndoBuf)
    BY <1>1, <1>5, <1>7
  <2>2. IsMarking(n - 1)
    <3>1. n - 1 \notin Bad
      BY <1>4, <2>1
    <3> QED BY <2>1, <3>1
  <2>3. Undoing[n] = UndoStep(st, ur(n))
    BY <1>2, <1>5, <1>7
  <2>4. /\ AreMarked(st.records) /\ m \in 0 .. n - 1 /\ (st.ok => m = n - 1)
        /\ \A j \in 1 .. m : st.records[j].begin = m_aUndoBuf[N - m + j].begin
    BY <2>2 DEF IsMarking
  <2>5. CASE ~ st.ok
    <3>1. Undoing[n] = st
      BY <2>3, <2>5 DEF UndoStep
    <3> HIDE DEF st
    <3>2. m \in 0 .. n
      BY <2>1, <2>4
    <3>3. IsMarking(n)
      BY <2>4, <2>5, <3>1, <3>2 DEF IsMarking
    <3> QED BY <1>5, <3>3
  <2>6. CASE st.ok
    <3>1. Marked(ur(n))
      BY <2>1 DEF AreMarked
    <3>2. Marked(step.record) /\ step.record.begin = ur(n).begin
      BY <3>1, UndoRecordMarks
    <3>3. Undoing[n] = [ok |-> step.ok, buf |-> step.buf, records |-> <<step.record>> \o st.records]
      BY <2>3, <2>6 DEF UndoStep
    <3> DEFINE r == step.record
               new == <<r>> \o st.records
    <3>4. Undoing[n].records = new
      BY SMTT(20), <3>3
    <3> HIDE DEF r
    <3>5. /\ AreMarked(new) /\ Len(new) = m + 1
          /\ \A k \in 1 .. m + 1 : new[k] = IF k = 1 THEN r ELSE st.records[k - 1]
      BY <2>4, <3>2, MarkedWith DEF r
    <3> HIDE DEF new, st
    <3>6. m = n - 1 /\ Len(new) = n /\ n \in 0 .. n
      BY <2>1, <2>4, <2>6, <3>5
    <3> HIDE DEF m
    <3>7. ASSUME NEW j \in 1 .. n PROVE new[j].begin = m_aUndoBuf[N - n + j].begin
      <4>1. CASE j = 1
        <5>1. N + 1 - n = N - n + j /\ j \in 1 .. m + 1
          BY <1>1, <2>1, <3>6, <4>1
        <5>2. new[j] = r
          BY <3>5, <4>1, <5>1
        <5> QED BY <3>2, <5>1, <5>2 DEF r
      <4>2. CASE j # 1
        <5>1. j - 1 \in 1 .. m /\ j \in 1 .. m + 1 /\ N - m + (j - 1) = N - n + j
          BY <1>1, <2>1, <3>6, <4>2
        <5>2. new[j] = st.records[j - 1]
          BY <3>5, <4>2, <5>1
        <5>3. st.records[j - 1].begin = m_aUndoBuf[N - m + (j - 1)].begin
          BY <2>4, <5>1 DEF m
        <5> QED BY <5>1, <5>2, <5>3
      <4> QED BY <4>1, <4>2
    <3>8. IsMarking(n)
      BY <3>4, <3>5, <3>6, <3>7 DEF IsMarking
    <3> QED BY <1>5, <3>8
  <2> QED BY <2>5, <2>6
<1> QED BY <1>6, <1>7

(* Records r take the places next + 1 to p of s.                           *)
Swapped(s, next, r, p, t) ==
    /\ IsSeq(t) /\ Len(t) = Len(s)
    /\ \A i \in 1 .. Len(s) :
           t[i] = IF i <= next \/ i > p THEN s[i] ELSE r[i - next]

(* What an undo makes of the undo buffer is such an exchange of records.   *)
LEMMA SwappedIs ==
    ASSUME NEW s, IsSeq(s), NEW p \in 0 .. Len(s), NEW next \in 0 .. p,
           NEW r, IsSeq(r), Len(r) = p - next
    PROVE  Swapped(s, next, r, p, SubSeq(s, 1, next) \o r \o SubSeq(s, p + 1, Len(s)))
<1> DEFINE kept == SubSeq(s, 1, next)
           rest == SubSeq(s, p + 1, Len(s))
           front == kept \o r
           t == front \o rest
           n == Len(s)
<1>1. /\ n \in Nat /\ p \in Nat /\ next \in Nat /\ next <= p /\ p <= n
      /\ Len(r) \in Nat
  BY SeqIs
<1>2. IsSeq(kept) /\ Len(kept) = next /\ \A i \in 1 .. next : kept[i] = s[i]
  <2>1. /\ IsSeq(kept) /\ Len(kept) = IF 1 <= next THEN next - 1 + 1 ELSE 0
        /\ \A i \in 1 .. next - 1 + 1 : kept[i] = s[1 + i - 1]
    BY <1>1, SubSeqIs
  <2> HIDE DEF kept
  <2>2. \A i \in 1 .. next : i \in 1 .. next - 1 + 1 /\ 1 + i - 1 = i
    BY <1>1
  <2> QED BY <2>1, <2>2, <1>1
<1>3. IsSeq(rest) /\ Len(rest) = n - p /\ \A i \in 1 .. n - p : rest[i] = s[p + i]
  <2>1. /\ IsSeq(rest) /\ Len(rest) = IF p + 1 <= n THEN n - (p + 1) + 1 ELSE 0
        /\ \A i \in 1 .. n - (p + 1) + 1 : rest[i] = s[p + 1 + i - 1]
    BY <1>1, SubSeqIs
  <2> HIDE DEF rest
  <2>2. \A i \in 1 .. n - p : i \in 1 .. n - (p + 1) + 1 /\ p + 1 + i - 1 = p + i
    BY <1>1
  <2> HIDE DEF n
  <2> QED BY <2>1, <2>2, <1>1
<1> HIDE DEF kept, rest
<1>4. /\ IsSeq(front) /\ Len(front) = p
      /\ \A i \in 1 .. p : front[i] = IF i <= next THEN kept[i] ELSE r[i - next]
  <2>1. /\ IsSeq(front) /\ Len(front) = Len(kept) + Len(r)
        /\ \A i \in 1 .. Len(kept) + Len(r) :
              front[i] = IF i <= Len(kept) THEN kept[i] ELSE r[i - Len(kept)]
    BY <1>1, <1>2, ConcatIs
  <2> HIDE DEF front
  <2>2. Len(kept) + Len(r) = p
    BY <1>1, <1>2
  <2> QED BY <2>1, <2>2, <1>2
<1> HIDE DEF front
<1>5. /\ IsSeq(t) /\ Len(t) = n
      /\ \A i \in 1 .. n : t[i] = IF i <= p THEN front[i] ELSE rest[i - p]
  <2>1. /\ IsSeq(t) /\ Len(t) = Len(front) + Len(rest)
        /\ \A i \in 1 .. Len(front) + Len(rest) :
              t[i] = IF i <= Len(front) THEN front[i] ELSE rest[i - Len(front)]
    BY <1>3, <1>4, ConcatIs
  <2> HIDE DEF t
  <2>2. Len(front) + Len(rest) = n
    BY <1>1, <1>3, <1>4
  <2> QED BY <2>1, <2>2, <1>4
<1> HIDE DEF t
<1>6. ASSUME NEW i \in 1 .. n PROVE t[i] = IF i <= next \/ i > p THEN s[i] ELSE r[i - next]
  <2>1. CASE i <= next
    <3>1. i \in 1 .. p /\ i <= p /\ i \in 1 .. next
      BY <1>1, <2>1
    <3> QED BY <1>2, <1>4, <1>5, <2>1, <3>1
  <2>2. CASE ~ (i <= next) /\ i <= p
    <3>1. i \in 1 .. p /\ ~ (i > p)
      BY <1>1, <2>2
    <3> QED BY <1>4, <1>5, <2>2, <3>1
  <2>3. CASE ~ (i <= p)
    <3>1. i - p \in 1 .. n - p /\ p + (i - p) = i /\ i > p
      BY <1>1, <2>3
    <3> QED BY <1>3, <1>5, <2>3, <3>1
  <2> QED BY <2>1, <2>2, <2>3
<1>7. Swapped(s, next, r, p, t)
  BY <1>5, <1>6 DEF Swapped, n
<1> QED BY <1>7 DEF t, front, kept, rest

(* The undone records take the places of those they were.                  *)
LEMMA UndoneMarks ==
    ASSUME NEW s, AreMarked(s), NEW p \in 0 .. Len(s), NEW next \in 0 .. p,
           NEW r, AreMarked(r), Len(r) = p - next,
           \A j \in 1 .. Len(r) : r[j].begin = s[next + j].begin
    PROVE  LET t == SubSeq(s, 1, next) \o r \o SubSeq(s, p + 1, Len(s))
           IN  AreMarked(t) /\ Len(t) = Len(s) /\ Firsts(t) = Firsts(s)
<1> DEFINE t == SubSeq(s, 1, next) \o r \o SubSeq(s, p + 1, Len(s))
           n == Len(s)
<1>1. n \in Nat /\ p \in Nat /\ next \in Nat /\ next <= p /\ p <= n /\ IsSeq(s) /\ IsSeq(r)
  BY SeqIs DEF AreMarked
<1>2. Swapped(s, next, r, p, t)
  BY <1>1, SwappedIs
<1>3. /\ IsSeq(t) /\ Len(t) = n
      /\ \A i \in 1 .. n : t[i] = IF i <= next \/ i > p THEN s[i] ELSE r[i - next]
  BY <1>2 DEF Swapped
<1> HIDE DEF t
<1>4. ASSUME NEW i \in 1 .. n PROVE Marked(t[i]) /\ t[i].begin = s[i].begin
  <2>1. CASE i <= next \/ i > p
    <3>1. t[i] = s[i]
      BY <1>3, <2>1
    <3> QED BY <3>1 DEF AreMarked, n
  <2>2. CASE ~ (i <= next \/ i > p)
    <3>1. i - next \in 1 .. Len(r) /\ next + (i - next) = i
      BY <1>1, <2>2
    <3>2. t[i] = r[i - next]
      BY <1>3, <2>2
    <3>3. r[i - next].begin = s[i].begin
      BY <3>1
    <3> QED BY <3>1, <3>2, <3>3 DEF AreMarked
  <2> QED BY <2>1, <2>2
<1>5. AreMarked(t) /\ Len(t) = Len(s)
  BY <1>3, <1>4 DEF AreMarked, n
<1>6. Firsts(t) = Firsts(s)
  <2>1. \A i \in 1 .. n : t[i].begin <=> s[i].begin
    BY <1>4
  <2> QED BY <1>5, <2>1 DEF Firsts, n
<1> QED BY <1>5, <1>6 DEF t

(* The marker is always one of an entry of the log.                        *)
LEMMA MarkerIs ==
    ASSUME SyncInv
    PROVE  /\ IsSeq(log) /\ Len(log) \in Nat /\ marker \in 1 .. Len(log)
           /\ AreMarked(m_aUndoBuf) /\ IsSeq(m_aUndoBuf) /\ Len(m_aUndoBuf) \in Nat
           /\ m_nUndoPosition \in 0 .. Len(m_aUndoBuf) /\ m_nUndoPosition \in Nat
           /\ Firsts(m_aUndoBuf) \in SUBSET (1 .. Len(m_aUndoBuf))
<1> DEFINE s == m_aUndoBuf
           p == m_nUndoPosition
<1>1. /\ AreMarked(s) /\ IsSeq(s) /\ IsSeq(log) /\ p \in 0 .. Len(s)
      /\ marker = Group(s, p) /\ Len(log) = Group(s, Len(s))
  BY DEF SyncInv, Tracks, AreMarked
<1> HIDE DEF s, p
<1>2. /\ Len(s) \in Nat /\ Firsts(s) \in SUBSET (1 .. Len(s))
      /\ \A b \in Int : Group(s, b) \in Nat /\ Group(s, b) >= 1
      /\ \A a, b \in Int : a <= b => Group(s, a) <= Group(s, b)
  BY <1>1, GroupIs
<1>3. p \in Nat /\ p \in Int /\ Len(s) \in Int /\ p <= Len(s)
  BY <1>1, <1>2
<1>4. Group(s, p) <= Group(s, Len(s)) /\ Group(s, p) >= 1
      /\ Group(s, p) \in Nat /\ Group(s, Len(s)) \in Nat
  BY <1>2, <1>3
<1> QED BY <1>1, <1>2, <1>3, <1>4 DEF s, p

(* An undo that leaves nothing to redo is no step of the edit history.     *)
LEMMA UndoSucceeds ==
    ASSUME Len(log) \in Nat, marker \in Nat, marker >= 2, marker <= Len(log), NEW e,
           marker' = 1, log' = <<e>>, [History!Next]_(History!vars)
    PROVE  FALSE
<1>1. Len(log') = 1
  BY SingleIs
<1>2. CASE History!Edit
  BY <1>2 DEF History!Edit
<1>3. CASE History!EditOn
  BY <1>3 DEF History!EditOn
<1>4. CASE History!Undo
  BY <1>1, <1>4 DEF History!Undo
<1>5. CASE History!Redo
  BY <1>5 DEF History!Redo
<1>6. CASE UNCHANGED History!vars
  BY <1>6 DEF History!vars
<1> QED BY <1>2, <1>3, <1>4, <1>5, <1>6 DEF History!Next

(* Where the group starts that is undone next.                             *)
LEMMA FirstOfGroup ==
    ASSUME SyncInv, m_nUndoPosition > 0
    PROVE  /\ FirstToUndo \in 1 .. m_nUndoPosition /\ FirstToUndo \in Firsts(m_aUndoBuf)
           /\ \A k \in Firsts(m_aUndoBuf) : k <= FirstToUndo \/ k > m_nUndoPosition
<1> DEFINE s == m_aUndoBuf
           p == m_nUndoPosition
           f == FirstToUndo
           S == {k \in 1 .. p : s[k].begin}
<1>0. /\ AreMarked(s) /\ Len(s) \in Nat /\ p \in 0 .. Len(s) /\ p \in Nat /\ p > 0
      /\ Tracks(s, log, p, marker, m_nSyncPosition, file)
      /\ Firsts(s) \in SUBSET (1 .. Len(s))
  BY MarkerIs DEF SyncInv
<1>1. 1 \in S
  <2>1. 1 \in Firsts(s)
    <3>1. Whole(s, 0) /\ 0 # Len(s) /\ 0 + 1 = 1
      BY <1>0 DEF Tracks
    <3> HIDE DEF s
    <3> QED BY <3>1 DEF Whole
  <2> QED BY <1>0, <2>1 DEF Firsts
<1>2. f = Max(S)
  BY DEF FirstToUndo
<1>3. S \in SUBSET (0 .. p) /\ S # {}
  BY <1>1
<1>4. Max(S) \in S /\ \A k \in S : k <= Max(S)
  <2> HIDE DEF S
  <2> QED BY <1>0, <1>3, GreatestOf
<1>5. \A k \in Firsts(s) : k \in S \/ k > p
  BY <1>0 DEF Firsts
<1>6. f \in S /\ f \in 1 .. p
  BY <1>2, <1>4
<1>7. f \in Firsts(s)
  BY <1>0, <1>6 DEF Firsts
<1> HIDE DEF S
<1> QED BY <1>2, <1>4, <1>5, <1>6, <1>7

(* An undo keeps groups and log in step.                                   *)
LEMMA UndoKeepsTrack ==
    ASSUME SyncInv, Undo, [History!Next]_(History!vars), (log[marker] = FileText(m_aLines))'
    PROVE  SyncInv'
<1> DEFINE s == m_aUndoBuf
           p == m_nUndoPosition
           f == FirstToUndo
           M == p + 1 - f
           done == Undoing[M]
           r == done.records
           next == p - Len(r)
           t == SubSeq(s, 1, next) \o r \o SubSeq(s, p + 1, Len(s))
<1>1. /\ AreMarked(s) /\ Len(s) \in Nat /\ p \in 0 .. Len(s) /\ p \in Nat /\ p > 0
      /\ Tracks(s, log, p, marker, m_nSyncPosition, file) /\ Len(log) \in Nat /\ marker \in Nat
      /\ Firsts(s) \in SUBSET (1 .. Len(s))
  BY MarkerIs DEF Undo, SyncInv
<1>2. f \in 1 .. p /\ f \in Firsts(s) /\ \A k \in Firsts(s) : k <= f \/ k > p
  BY <1>1, FirstOfGroup
<1>3. M \in 0 .. p
  BY <1>1, <1>2
<1>4. IsMarking(M)
  BY <1>1, <1>3, UndoingMarks
<1>5. /\ AreMarked(r) /\ Len(r) \in 0 .. M
      /\ \A j \in 1 .. Len(r) : r[j].begin = s[p - Len(r) + j].begin
  BY <1>4 DEF IsMarking
<1>6. /\ m_bModified' = (m_nSyncPosition # next)
      /\ m_nUndoPosition' = IF next = f - 1 THEN next ELSE 0
      /\ m_aUndoBuf' = IF next = f - 1 THEN t ELSE <<>>
      /\ marker' = IF next = f - 1 THEN marker - 1 ELSE 1
      /\ log' = IF next = f - 1 THEN log ELSE <<FileText(m_aLines')>>
      /\ m_nSyncPosition' = m_nSyncPosition /\ file' = file
  BY Zenon DEF Undo, Undone
<1>7. AreMarked(t) /\ Len(t) = Len(s) /\ Firsts(t) = Firsts(s)
  <2> HIDE DEF s, p, r, M
  <2>1. next \in 0 .. p /\ Len(r) = p - next
    BY <1>1, <1>3, <1>5
  <2> QED BY <1>1, <1>5, <2>1, UndoneMarks
<1> HIDE DEF t, next, r, done, M, f
<1>8. /\ Tracks(t, log, f - 1, marker - 1, m_nSyncPosition, file)
      /\ marker >= 2 /\ marker <= Len(log)
  BY <1>1, <1>2, <1>7, UndoTracks
<1>9. CASE next = f - 1
  <2>1. /\ m_aUndoBuf' = t /\ m_nUndoPosition' = f - 1 /\ marker' = marker - 1 /\ log' = log
        /\ (~ m_bModified' => m_nSyncPosition = f - 1)
    BY <1>6, <1>9
  <2>2. Tracks(m_aUndoBuf, log, m_nUndoPosition, marker, m_nSyncPosition, file)'
    BY <1>6, <1>8, <2>1
  <2>3. (~ m_bModified => m_nSyncPosition = m_nUndoPosition)'
    BY <1>6, <2>1
  <2> QED BY <2>2, <2>3 DEF SyncInv
<1>10. CASE next # f - 1
  <2> DEFINE e == FileText(m_aLines')
  <2>1. marker' = 1 /\ log' = <<e>>
    BY <1>6, <1>10
  <2> HIDE DEF e
  <2> QED BY <1>1, <1>8, <2>1, UndoSucceeds
<1> QED BY <1>9, <1>10

(* Where the group ends that is redone next.                               *)
LEMMA LastOfGroup ==
    ASSUME SyncInv, m_nUndoPosition < Len(m_aUndoBuf)
    PROVE  /\ LastToRedo \in m_nUndoPosition + 1 .. Len(m_aUndoBuf) /\ Whole(m_aUndoBuf, LastToRedo)
           /\ \A k \in Firsts(m_aUndoBuf) : k <= m_nUndoPosition + 1 \/ k > LastToRedo
<1> DEFINE s == m_aUndoBuf
           p == m_nUndoPosition
           last == LastToRedo
           next == {k \in p + 2 .. Len(s) : s[k].begin}
<1>0. /\ AreMarked(s) /\ Len(s) \in Nat /\ p \in 0 .. Len(s) /\ p \in Nat /\ p < Len(s)
      /\ Firsts(s) \in SUBSET (1 .. Len(s))
  BY MarkerIs
<1>1. last = IF next = {} THEN Len(s) ELSE Min(next) - 1
  BY DEF LastToRedo
<1>2. \A k \in Firsts(s) : k <= p + 1 \/ k \in next
  BY <1>0 DEF Firsts
<1>3. next \in SUBSET Nat /\ (\A k \in next : k \in p + 2 .. Len(s) /\ k \in Firsts(s))
  BY <1>0 DEF Firsts
<1> HIDE DEF next, s, p, last
<1>4. /\ last \in p + 1 .. Len(s) /\ Whole(s, last)
      /\ \A k \in Firsts(s) : k <= p + 1 \/ k > last
  <2>1. CASE next = {}
    <3>1. last = Len(s)
      BY <1>1, <2>1
    <3> QED BY <1>0, <1>2, <2>1, <3>1 DEF Whole
  <2>2. CASE next # {}
    <3>1. Min(next) \in next /\ \A k \in next : Min(next) <= k
      BY <1>3, <2>2, MinOf
    <3>2. Min(next) \in p + 2 .. Len(s) /\ Min(next) \in Firsts(s)
      BY <1>3, <3>1
    <3>3. last = Min(next) - 1
      BY <1>1, <2>2
    <3>4. last \in p + 1 .. Len(s) /\ last + 1 = Min(next)
      BY <1>0, <3>2, <3>3
    <3>5. Whole(s, last)
      BY <3>2, <3>4 DEF Whole
    <3>6. \A k \in next : k > last
      BY <1>0, <1>3, <3>1, <3>2, <3>4
    <3> QED BY <1>2, <3>4, <3>5, <3>6
  <2> QED BY <2>1, <2>2
<1> QED BY <1>4 DEF s, p, last

(* A redo keeps groups and log in step.                                    *)
LEMMA RedoKeepsTrack ==
    ASSUME SyncInv, Redo, (log[marker] = FileText(m_aLines))'
    PROVE  SyncInv'
<1> DEFINE s == m_aUndoBuf
           p == m_nUndoPosition
           last == LastToRedo
<1>1. /\ AreMarked(s) /\ Len(s) \in Nat /\ p \in 0 .. Len(s) /\ p \in Nat /\ p < Len(s)
      /\ Tracks(s, log, p, marker, m_nSyncPosition, file)
      /\ Firsts(s) \in SUBSET (1 .. Len(s))
  BY MarkerIs DEF Redo, SyncInv
<1>2. /\ last \in p + 1 .. Len(s) /\ Whole(s, last)
      /\ \A k \in Firsts(s) : k <= p + 1 \/ k > last
  BY <1>1, LastOfGroup
<1>3. Tracks(s, log, last, marker + 1, m_nSyncPosition, file)
  <2> HIDE DEF s, p, last
  <2> QED BY <1>1, <1>2, RedoTracks
<1>4. /\ m_aUndoBuf' = s /\ m_nUndoPosition' = last /\ marker' = marker + 1 /\ log' = log
      /\ m_bModified' = (m_nSyncPosition # last)
      /\ m_nSyncPosition' = m_nSyncPosition /\ file' = file
  BY Zenon DEF Redo, Redone
<1> HIDE DEF s, p, last
<1>5. Tracks(m_aUndoBuf, log, m_nUndoPosition, marker, m_nSyncPosition, file)'
  BY <1>3, <1>4
<1>6. (~ m_bModified => m_nSyncPosition = m_nUndoPosition)'
  BY <1>4
<1> QED BY <1>5, <1>6 DEF SyncInv

(* A loaded buffer has no records, and the log has the text of the file.   *)
LEMMA LoadedIsTracked ==
    ASSUME Init, History!Init
    PROVE  SyncInv
<1>1. /\ m_aUndoBuf = <<>> /\ m_nUndoPosition = 0 /\ m_nSyncPosition = 0
      /\ log = <<file>> /\ marker = 1 /\ log = <<FileText(m_aLines)>>
  BY DEF Init, History!Init
<1>2. IsSeq(m_aUndoBuf) /\ Len(m_aUndoBuf) = 0
  BY <1>1, EmptyIs
<1>3. IsSeq(log) /\ Len(log) = 1 /\ log[1] = file /\ log[1] = FileText(m_aLines)
  BY <1>1, SingleIs
<1>4. Firsts(m_aUndoBuf) = {}
  BY <1>2 DEF Firsts
<1>5. Group(m_aUndoBuf, 0) = 1
  <2>1. UpTo({}, 0) = {}
    BY DEF UpTo
  <2>2. Cardinality({}) = 0
    BY FS_EmptySet
  <2> QED BY <1>4, <2>1, <2>2 DEF Group
<1>6. AreMarked(m_aUndoBuf) /\ Whole(m_aUndoBuf, 0)
  BY <1>2 DEF AreMarked, Whole
<1> HIDE DEF Group
<1>7. Tracks(m_aUndoBuf, log, m_nUndoPosition, marker, m_nSyncPosition, file)
  BY <1>1, <1>2, <1>3, <1>5, <1>6 DEF Tracks, npos
<1> QED BY <1>1, <1>3, <1>7 DEF SyncInv

(* Every step keeps groups and log in step.                                *)
LEMMA StepsTrack ==
    ASSUME SyncInv, SaveWritesAll, [Next]_vars, [History!Next]_(History!vars)
    PROVE  SyncInv'
<1>1. (log[marker] = FileText(m_aLines))'
  BY MarkerIs, HistoryHolds DEF SyncInv
<1>2. CASE Insert \/ Delete \/ Replace
  BY <1>2, EditsTrack
<1>3. CASE Undo
  BY <1>1, <1>3, UndoKeepsTrack
<1>4. CASE Redo
  BY <1>1, <1>4, RedoKeepsTrack
<1>5. CASE Rescan
  BY <1>1, <1>5, RescanTracks
<1>6. CASE SaveToFile
  BY <1>6, SaveTracks
<1>7. CASE UNCHANGED vars
  BY <1>7 DEF vars, buffer, undo, history, SyncInv
<1> QED BY <1>2, <1>3, <1>4, <1>5, <1>6, <1>7 DEF Next

(* For every file, every text inserted and every bound: a pane that is not  *)
(* shown as modified holds the text of its file, after any edits, undos,    *)
(* redos, rescans and saves, when undo and redo restore the texts and a     *)
(* save writes all of the text.  This is about m_nSyncPosition, which       *)
(* AddUndoRecord invalidates when the saved state is among the records it   *)
(* drops, which a save sets, and which undo and redo compare with the       *)
(* position they reach: the saved text is never taken for another one, not  *)
(* even when an edit is joined to the last group before the save.           *)
THEOREM UnmodifiedStaysSaved ==
    Spec /\ UndoRestoresText /\ []SaveWritesAll => []UnmodifiedIsSaved
<1>1. Init /\ History!Init => SyncInv
  BY LoadedIsTracked
<1>2. SyncInv /\ SaveWritesAll /\ [Next]_vars /\ [History!Next]_(History!vars) => SyncInv'
  BY StepsTrack
<1>3. SyncInv => UnmodifiedIsSaved
  BY TrackedIsSaved
<1> QED BY <1>1, <1>2, <1>3, PTL DEF Spec, UndoRestoresText, History!Spec
=============================================================================
