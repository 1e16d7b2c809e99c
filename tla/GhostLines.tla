----------------------------- MODULE GhostLines -----------------------------
(***************************************************************************)
(* The lines of a pane of a file compare window and the operations of      *)
(* CGhostTextBuffer and CCrystalTextBuffer on them.  A line is real, one   *)
(* of the file's, or a ghost, an empty place holder opposite to lines that *)
(* only the other file has.  A list of blocks of adjacent real lines maps  *)
(* apparent (screen) line numbers to real ones and back.                   *)
(*                                                                         *)
(* Lines count from 1 here and from 0 in the code.  A character stands for *)
(* a run of characters with no line break in it, EOL for a line break of   *)
(* whatever style, revision numbers and skipped lines are left out.        *)
(***************************************************************************)
EXTENDS Integers, Sequences, FiniteSets, SequencesExt, FiniteSetsExt

CONSTANT EOL        \* a line break

Line(text, eol, ghost) == [text |-> text, eol |-> eol, ghost |-> ghost]

GhostLine == Line(<<>>, FALSE, TRUE)

FullText(li) == IF li.eol THEN Append(li.text, EOL) ELSE li.text

Point(y, x) == [y |-> y, x |-> x]

Before(p, q) == p.y < q.y \/ (p.y = q.y /\ p.x < q.x)

(* The numbers of a set, in order *)
Ranked(S) == [k \in 1 .. Cardinality(S) |->
                CHOOSE i \in S : Cardinality({j \in S : j <= i}) = k]

\* Mutant: the line break stays in the line.
PieceEndAtBreak(text, break) == Min({break, Len(text)})

PieceEnd(text, break) == break - 1

(* The pieces of a text between its line breaks; the last piece is empty   *)
(* when the text ends with a line break.                                   *)
Pieces(text) ==
    LET breaks == Ranked({i \in DOMAIN text : text[i] = EOL})
        ends == <<0>> \o breaks \o <<Len(text) + 1>>
    IN  [k \in 1 .. Len(ends) - 1 |-> SubSeq(text, ends[k] + 1, PieceEnd(text, ends[k + 1]))]

-----------------------------------------------------------------------------
(* Blocks of real lines and the two line numberings *)

(* A block begins at every real line with no real line just above.  *)
BlocksOf(lines) ==
    LET Real(i) == i \in DOMAIN lines /\ ~ lines[i].ghost
        Ghost(i) == ~ Real(i)
        starts == {i \in DOMAIN lines : Real(i) /\ Ghost(i - 1)}
        start == Ranked(starts)
        past(s) == Min({j \in s .. Len(lines) + 1 : Ghost(j)})
    IN  [k \in DOMAIN start |->
            [nStartApparent |-> start[k],
             nStartReal |-> Cardinality({j \in 1 .. start[k] : Real(j)}),
             nCount |-> past(start[k]) - start[k]]]

PastApparent(block) == block.nStartApparent + block.nCount
PastReal(block) == block.nStartReal + block.nCount

(* The binary search of all four conversions: blo and bhi close in on the  *)
(* block that holds the line, then bhi < blo, or on the gap before a block,*)
(* then bhi = blo.  The blocks start and end at these lines of a numbering.*)
Nearest(starts, pasts, line) ==
    LET search[range \in (0 .. Len(starts)) \X (0 .. Len(starts))] ==
            LET blo == range[1]
                bhi == range[2]
                b == blo + (bhi - blo) \div 2
            IN  IF blo >= bhi THEN [found |-> bhi < blo, block |-> bhi + 1]
                ELSE search[<<IF line >= starts[b + 1] THEN b + 1 ELSE blo,
                              IF line < pasts[b + 1] THEN b ELSE bhi>>]
    IN  search[<<0, Len(starts)>>]

NearestApparent(blocks, line) ==
    Nearest([k \in DOMAIN blocks |-> blocks[k].nStartApparent],
            [k \in DOMAIN blocks |-> PastApparent(blocks[k])], line)

NearestReal(blocks, line) ==
    Nearest([k \in DOMAIN blocks |-> blocks[k].nStartReal],
            [k \in DOMAIN blocks |-> PastReal(blocks[k])], line)

(* The real line of an apparent line and how many lines above it a ghost   *)
(* line is; a trailing ghost belongs to the real line past the last one.   *)
ComputeRealLineAndGhostAdjustment(blocks, count, y) ==
    IF blocks = <<>> THEN [y |-> 1, nGhost |-> 0]
    ELSE IF y >= PastApparent(Last(blocks))
    THEN [y |-> PastReal(Last(blocks)), nGhost |-> count + 1 - y]
    ELSE LET n == NearestApparent(blocks, y)
             b == blocks[n.block]
         IN  IF n.found
             THEN [y |-> y - b.nStartApparent + b.nStartReal, nGhost |-> 0]
             ELSE [y |-> b.nStartReal, nGhost |-> b.nStartApparent - y]

ComputeRealLine(blocks, y) == ComputeRealLineAndGhostAdjustment(blocks, 0, y).y

(* The way back: the ghost lines asked for above a real line, as far as    *)
(* there is room for them below the block before.                          *)
ComputeApparentLine(blocks, count, real, nGhost) ==
    LET n == NearestReal(blocks, real)
        b == blocks[n.block]
        last == real >= PastReal(Last(blocks))
        before == IF last THEN Len(blocks) ELSE n.block - 1
        room == IF before = 0 THEN 1 ELSE PastApparent(blocks[before])
        apparent == IF last THEN count + 1
                    ELSE real - b.nStartReal + b.nStartApparent
    IN  IF blocks = <<>> THEN 1
        ELSE IF ~ last /\ real > b.nStartReal THEN apparent
        ELSE Max({apparent - nGhost, room})

ApparentLastRealLine(blocks) ==
    IF blocks = <<>> THEN 0 ELSE PastApparent(Last(blocks)) - 1

-----------------------------------------------------------------------------
(* Operations on the lines *)

GetText(lines, start, end) ==
    IF start.y = end.y THEN SubSeq(lines[start.y].text, start.x + 1, end.x)
    ELSE LET first == FullText(lines[start.y])
             middle == [i \in 1 .. end.y - start.y - 1 |-> FullText(lines[start.y + i])]
         IN  SubSeq(first, start.x + 1, Len(first)) \o FlattenSeq(middle)
                \o SubSeq(lines[end.y].text, 1, end.x)

(* The pieces of a text go in at a point, the rest of the line goes behind *)
(* them.  No line is made for an empty rest while a line follows.          *)
InsertPieces(lines, at, pieces) ==
    LET li == lines[at.y]
        n == Len(pieces)
        head == SubSeq(li.text, 1, at.x)
        tail == SubSeq(li.text, at.x + 1, Len(li.text))
        new == [k \in 1 .. n |->
                    Line((IF k = 1 THEN head ELSE <<>>) \o pieces[k]
                            \o (IF k = n THEN tail ELSE <<>>),
                         k < n \/ li.eol,
                         k = 1 /\ li.ghost)]
        dropped == n > 1 /\ new[n].text = <<>> /\ ~ li.eol /\ at.y < Len(lines)
    IN  [lines |-> SubSeq(lines, 1, at.y - 1)
                    \o (IF dropped THEN Front(new) ELSE new)
                    \o SubSeq(lines, at.y + 1, Len(lines)),
         end |-> Point(at.y + n - 1, Len(pieces[n]) + IF n = 1 THEN at.x ELSE 0)]

InternalInsertText(lines, at, text) == InsertPieces(lines, at, Pieces(text))

InternalDeleteText(lines, start, end) ==
    LET last == lines[end.y]
        rest == Line(SubSeq(lines[start.y].text, 1, start.x)
                        \o SubSeq(last.text, end.x + 1, Len(last.text)),
                     last.eol, lines[start.y].ghost)
    IN  SubSeq(lines, 1, start.y - 1) \o <<rest>> \o SubSeq(lines, end.y + 1, Len(lines))

\* Mutant: the real line above is forgotten.
FirstForEOLAsGiven(lines, blocks, start, end) == start

(* A change in the last real line may give or take the line break of the   *)
(* real line above it.                                                     *)
FirstForEOL(lines, blocks, start, end) ==
    LET above == {j \in 1 .. start - 1 : ~ lines[j].ghost}
    IN  IF ApparentLastRealLine(blocks) <= end /\ above # {} THEN Max(above) ELSE start

(* Ghosts and the last real line lose their line break, the other real     *)
(* lines get one.                                                          *)
RecomputeEOL(lines, blocks, start, end) ==
    [i \in DOMAIN lines |->
        IF i \in FirstForEOL(lines, blocks, start, end) .. end
        THEN [lines[i] EXCEPT !.eol = ~ lines[i].ghost /\ i # ApparentLastRealLine(blocks)]
        ELSE lines[i]]

SetGhosts(lines, ghosts) ==
    [i \in DOMAIN lines |-> [lines[i] EXCEPT !.ghost = i \in ghosts]]

GhostsOf(lines) == {i \in DOMAIN lines : lines[i].ghost}

RealLines(lines) ==
    LET at == Ranked({i \in DOMAIN lines : ~ lines[i].ghost})
    IN  [k \in DOMAIN at |-> lines[at[k]]]

FileText(lines) == FlattenSeq([i \in DOMAIN lines |-> FullText(lines[i])])

(* A text as it is loaded: all lines are real. *)
Loaded(text) ==
    LET pieces == Pieces(text)
    IN  [k \in DOMAIN pieces |-> Line(pieces[k], k < Len(pieces), FALSE)]

Buf(lines) == [lines |-> lines, blocks |-> BlocksOf(lines)]

-----------------------------------------------------------------------------
(* Insertion and deletion with the ghost flags *)

\* Mutant: a ghost line that became real is not noticed.
MovesLinesIfMore(start, end, firstLineGhost) == end.y > start.y

\* When the block list is made anew.
MovesLines(start, end, firstLineGhost) == end.y > start.y \/ firstLineGhost

(* The ghost line the text went into and the new lines are real now, but   *)
(* the one after a text that ends with a line break stays as it was.       *)
MarkInserted(b, at, ins) ==
    LET firstLineGhost == ins.lines[at.y].ghost
        discrepancy == firstLineGhost /\ ins.end.x = 0
        becomeReal == at.y .. (IF discrepancy THEN ins.end.y - 1 ELSE ins.end.y)
        lines == SetGhosts(ins.lines, GhostsOf(ins.lines) \ becomeReal)
        blocks == IF MovesLines(at, ins.end, firstLineGhost) THEN BlocksOf(lines) ELSE b.blocks
    IN  [buf |-> [lines |-> RecomputeEOL(lines, blocks, at.y, ins.end.y), blocks |-> blocks],
         end |-> ins.end,
         nReal |-> ins.end.y - at.y + IF firstLineGhost /\ ins.end.x > 0 THEN 1 ELSE 0]

InsertText(b, at, text) == MarkInserted(b, at, InternalInsertText(b.lines, at, text))

(* Deletion up to the start of a ghost line extends over the ghosts. *)
DeletionEnd(lines, end) ==
    Point(Min({y \in end.y .. Len(lines) : ~ lines[y].ghost \/ y = Len(lines)}), end.x)

(* What is left of the lines is a ghost only if both ends were. *)
RemainsGhost(firstLineGhost, lastLineGhost) == firstLineGhost /\ lastLineGhost

DeleteText(b, start, end) ==
    LET lastLineGhost == b.lines[end.y].ghost
        rest == InternalDeleteText(b.lines, start, end)
        lines == [rest EXCEPT ![start.y].ghost = RemainsGhost(@, lastLineGhost)]
        blocks == IF start.y # end.y THEN BlocksOf(lines) ELSE b.blocks
    IN  [buf |-> [lines |-> RecomputeEOL(lines, blocks, start.y, start.y), blocks |-> blocks],
         nReal |-> ComputeRealLine(b.blocks, end.y) - ComputeRealLine(b.blocks, start.y)
                    + IF lastLineGhost THEN 0 ELSE 1]
=============================================================================
