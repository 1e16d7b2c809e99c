----------------------------- MODULE SideBySide -----------------------------
(***************************************************************************)
(* A file compare window between its two panes: from the hunks of the      *)
(* difference engine over the list of differences to panes whose lines are *)
(* level, and the copying of differences from pane to pane.                *)
(*                                                                         *)
(* What belongs to both sides is a pair indexed by side.  Lines and        *)
(* differences count from 1 here and from 0 in the code.  An empty range   *)
(* of lines ends just before it begins.                                    *)
(***************************************************************************)
EXTENDS GhostLines

Sides == {1, 2}
Other(i) == 3 - i

DIFFRANGE(begin, end, op) ==
    [begin |-> begin, end |-> end, op |-> op, dbegin |-> 0, dend |-> 0]

CountOf(dr, i) == dr.end[i] - dr.begin[i] + 1

Empty(dr, i) == dr.end[i] < dr.begin[i]

OpOf(dr) == IF Empty(dr, 1) THEN "rightonly" ELSE IF Empty(dr, 2) THEN "leftonly" ELSE "diff"

(* The engine matches lines of the left file with equal ones of the right. *)
(* Each gap between matches is a hunk; filters say which are trivial.      *)
LoadWinMergeDiffs(counts, matches, trivial) ==
    LET cuts == <<<<0, 0>>>> \o SetToSortSeq(matches, LAMBDA p, q : p[1] < q[1])
                    \o <<<<counts[1] + 1, counts[2] + 1>>>>
        gap(k) == DIFFRANGE([i \in Sides |-> cuts[k][i] + 1],
                            [i \in Sides |-> cuts[k + 1][i] - 1], "none")
        gaps == [k \in 1 .. Len(cuts) - 1 |-> gap(k)]
        hunks == SelectSeq(gaps, LAMBDA dr : \E i \in Sides : ~ Empty(dr, i))
    IN  [k \in DOMAIN hunks |->
            [hunks[k] EXCEPT !.op = IF k \in trivial THEN "trivial" ELSE OpOf(hunks[k])]]

(* A file that ends with a line break has an empty last line in its pane,  *)
(* which the engine does not know of.  If the other file does not end with *)
(* one, the last difference is to have that line; count is that of the     *)
(* panes.                                                                  *)
FixLastDiffRange(diffs, counts, missing, ignoring) ==
    LET e == CHOOSE i \in Sides : ~ missing[i]
        ends == {i \in Sides : diffs # <<>> /\ Last(diffs).end[i] = counts[i]}
        lastLine == DIFFRANGE([i \in Sides |-> IF i = e THEN counts[i] ELSE counts[i] + 1],
                              counts, "trivial")
        onlyOther == IF e = 1 THEN "rightonly" ELSE "leftonly"
    IN  IF missing[1] = missing[2] THEN diffs
        ELSE IF ignoring /\ ends = {} THEN Append(diffs, lastLine)
        ELSE IF diffs = <<>> THEN diffs
        ELSE [diffs EXCEPT ![Len(diffs)].end[e] = @ + 1,
                           ![Len(diffs)].op = IF @ = onlyOther THEN "diff" ELSE @]

-----------------------------------------------------------------------------
(* Similar lines of a difference are put side by side *)

Ghost == 0

(* Line i of the left side is put opposite to map[i] of the right one: the  *)
(* best match first, then what is above and what is below it.              *)
AdjustDiffBlock(n, cost) ==
    LET Best(box) ==
            LET pairs == (box[1] .. box[2]) \X (box[3] .. box[4])
                least == {m \in pairs : \A p \in pairs : cost[m] <= cost[p]}
            IN  CHOOSE m \in least :
                    \A p \in least : m[2] < p[2] \/ (m[2] = p[2] /\ m[1] <= p[1])
        map[box \in (1 .. n[1] + 1) \X (0 .. n[1]) \X (1 .. n[2] + 1) \X (0 .. n[2])] ==
            LET best == Best(box)
            IN  IF box[1] > box[2] THEN <<>>
                ELSE IF box[3] > box[4] THEN [i \in 1 .. box[2] - box[1] + 1 |-> Ghost]
                ELSE map[<<box[1], best[1] - 1, box[3], best[2] - 1>>]
                        \o <<best[2]>>
                        \o map[<<best[1] + 1, box[2], best[2] + 1, box[4]>>]
    IN  map[<<1, n[1], 1, n[2]>>]

(* A difference is divided into pairs of lines and the lines between them. *)
Divide(dr, map) ==
    LET Mapped(l) == l > 0 /\ map[l] # Ghost
        target(l) == Max({0} \union {map[k] : k \in 1 .. l})
        left(a, b) == [f |-> a, l |-> b]
        Block(l0, h0, l1, h1) ==
            DIFFRANGE(<<dr.begin[1] + l0 - 1, dr.begin[2] + l1 - 1>>,
                      <<dr.begin[1] + h0 - 1, dr.begin[2] + h1 - 1>>, dr.op)
        GhostsEnd(l) == Max({k \in l .. Len(map) : \A m \in l .. k : ~ Mapped(m)})
        At(l) == IF Mapped(l)
                 THEN (IF target(l - 1) + 1 < map[l]
                       THEN <<Block(l, l - 1, target(l - 1) + 1, map[l] - 1)>> ELSE <<>>)
                        \o <<Block(l, l, map[l], map[l])>>
                 ELSE IF l = 1 \/ Mapped(l - 1)
                 THEN <<Block(l, GhostsEnd(l), target(l) + 1, target(l))>>
                 ELSE <<>>
        n == Len(map)
        rest == IF target(n) < CountOf(dr, 2)
                THEN <<Block(n + 1, n, target(n) + 1, CountOf(dr, 2))>> ELSE <<>>
    IN  FlattenSeq([l \in 1 .. n |-> At(l)]) \o rest

AdjustDiffBlocks(diffs, cost) ==
    LET Adjusted(dr) ==
            LET inBlock == [m \in (1 .. CountOf(dr, 1)) \X (1 .. CountOf(dr, 2)) |->
                               cost[dr.begin[1] + m[1] - 1, dr.begin[2] + m[2] - 1]]
            IN  IF \E i \in Sides : Empty(dr, i) THEN <<dr>>
                ELSE Divide(dr, AdjustDiffBlock(<<CountOf(dr, 1), CountOf(dr, 2)>>, inBlock))
    IN  FlattenSeq([k \in DOMAIN diffs |-> Adjusted(diffs[k])])

-----------------------------------------------------------------------------
(* The panes are made level *)

Unlimited == -1

(* With limited context the lines farther than that from a difference are  *)
(* replaced by one ghost that tells their number.                          *)
Skipped(diffs, count, context, i, k) ==
    LET first == IF k = 1 THEN 1 ELSE diffs[k - 1].end[i] + 1 + context
        past == IF k > Len(diffs) THEN count + 1 ELSE diffs[k].begin[i] - context
    IN  IF context = Unlimited THEN {} ELSE first .. past - 1

\* Mutant: the placeholder is taken for removed, too.
RemovedWithPlaceholder(run) == Cardinality(run)

(* The first of the lines becomes the placeholder. *)
Removed(run) == Max({0, Cardinality(run) - 1})

(* Lines to be removed before difference k *)
SkipCount(diffs, count, context, i, k) ==
    FoldSet(LAMBDA j, sum : sum + Removed(Skipped(diffs, count, context, i, j)), 0, 1 .. k)

SkippedLines(n) == Line(<<n>>, FALSE, TRUE)

LimitContext(lines, diffs, context, i) ==
    LET runs == {Skipped(diffs, Len(lines), context, i, k) : k \in 1 .. Len(diffs) + 1} \ {{}}
        RunOf(l) == {run \in runs : l \in run}
        At(l) == IF RunOf(l) = {} THEN <<lines[l]>>
                 ELSE LET run == CHOOSE run \in RunOf(l) : TRUE
                      IN  IF l = Min(run) THEN <<SkippedLines(Cardinality(run))>> ELSE <<>>
    IN  FlattenSeq([l \in DOMAIN lines |-> At(l)])

(* The differences in what is left of the lines *)
Shifted(diffs, counts, context) ==
    LET skip(k) == [i \in Sides |-> SkipCount(diffs, counts[i], context, i, k)]
    IN  [k \in DOMAIN diffs |->
            [diffs[k] EXCEPT !.begin = [i \in Sides |-> @[i] - skip(k)[i]],
                             !.end = [i \in Sides |-> @[i] - skip(k)[i]]]]

(* The lines a side lacks in all differences *)
ExtraLines(diffs, i) ==
    FoldSet(LAMBDA k, sum : sum + Max({0, CountOf(diffs[k], Other(i)) - CountOf(diffs[k], i)}),
            0, DOMAIN diffs)

MoveLine(lines, first, last, to) ==
    [l \in DOMAIN lines |-> IF l \in to .. to + last - first THEN lines[l - to + first] ELSE lines[l]]

AddGhosts(lines, first, last) ==
    [l \in DOMAIN lines |-> IF l \in first .. last THEN GhostLine ELSE lines[l]]

(* The lines of a difference in their place, ghosts below them *)
Place(lines, dr, i, new, height) ==
    AddGhosts(MoveLine(lines, dr.begin[i], dr.end[i], new + 1),
              new + CountOf(dr, i) + 1, new + height)

(* From the last difference to the first; old and new are the last lines   *)
(* that are still to be moved, where they are and where they will be.      *)
PrimeDiff(dr, st) ==
    LET after(i) == st.old[i] - dr.end[i]
        height == Max({CountOf(dr, 1), CountOf(dr, 2)})
        new == [i \in Sides |-> st.new[i] - after(i) - height]
        Below(i) == MoveLine(st.lines[i], dr.end[i] + 1, st.old[i], st.new[i] - after(i) + 1)
    IN  [old |-> [i \in Sides |-> dr.begin[i] - 1],
         new |-> new,
         lines |-> [i \in Sides |-> Place(Below(i), dr, i, new[i], height)],
         diffs |-> <<[dr EXCEPT !.dbegin = [i \in Sides |-> new[i] + 1],
                                !.dend = [i \in Sides |-> new[i] + height]]>> \o st.diffs]

(* Lines that differ outside of all differences are trivial ones, too.     *)
TrivialLines(lines, diffs) ==
    {l \in DOMAIN lines[1] \intersect DOMAIN lines[2] :
        /\ \A k \in DOMAIN diffs : l \notin diffs[k].dbegin[1] .. diffs[k].dend[1]
        /\ ~ lines[1][l].ghost /\ ~ lines[2][l].ghost
        /\ FullText(lines[1][l]) # FullText(lines[2][l])}

PrimeTextBuffers(files, diffs, context) ==
    LET counts == [i \in Sides |-> Len(files[i])]
        kept == [i \in Sides |-> LimitContext(files[i], diffs, context, i)]
        shifted == Shifted(diffs, counts, context)
        new == [i \in Sides |-> Len(kept[i]) + ExtraLines(diffs, i)]
        Resized(i) == [l \in 1 .. new[i] |-> IF l <= Len(kept[i]) THEN kept[i][l] ELSE Line(<<>>, FALSE, FALSE)]
        primed == FoldRight(PrimeDiff, shifted,
                            [old |-> [i \in Sides |-> Len(kept[i])], new |-> new,
                             lines |-> [i \in Sides |-> Resized(i)], diffs |-> <<>>])
    IN  [panes |-> primed.lines, diffs |-> primed.diffs,
         trivial |-> TrivialLines(primed.lines, primed.diffs), ok |-> TRUE]

-----------------------------------------------------------------------------
(* Rescan2 with a comparison by hunks between matches *)

Rescan2(files, matches, options, cost) ==
    LET missing == [i \in Sides |-> FullText(Last(files[i])) # <<>>]
        counts == [i \in Sides |-> Len(files[i])]
        known == [i \in Sides |-> IF missing[i] THEN counts[i] ELSE counts[i] - 1]
        fixed == FixLastDiffRange(LoadWinMergeDiffs(known, matches, options.trivial),
                                  counts, missing, options.ignoring)
        costs == [m \in (1 .. counts[1]) \X (1 .. counts[2]) |->
                    cost[files[1][m[1]].text, files[2][m[2]].text]]
    IN  PrimeTextBuffers(files,
                         IF options.similar THEN AdjustDiffBlocks(fixed, costs) ELSE fixed,
                         options.context)

-----------------------------------------------------------------------------
(* Differences by line; 0 stands for none *)

None == 0

Significant(diffs, k) == diffs[k].op # "trivial"

\* Mutant: the last line of a difference is not in it.
IsAfterOrLast(dr, line) == line >= dr.dend[1]

IsAfter(dr, line) == line > dr.dend[1]

LineToDiff(diffs, line) ==
    LET search[range \in (1 .. Len(diffs) + 1) \X (0 .. Len(diffs))] ==
            LET left == range[1]
                right == range[2]
                middle == (left + right) \div 2
            IN  IF left > right THEN None
                ELSE IF line < diffs[middle].dbegin[1] THEN search[<<left, middle - 1>>]
                ELSE IF IsAfter(diffs[middle], line) THEN search[<<middle + 1, right>>]
                ELSE middle
    IN  search[<<1, Len(diffs)>>]

PrevSignificantDiffFromLine(diffs, line) ==
    Max({None} \union {k \in DOMAIN diffs : Significant(diffs, k) /\ diffs[k].dend[1] < line})

NextSignificantDiffFromLine(diffs, line) ==
    LET next == {k \in DOMAIN diffs : Significant(diffs, k) /\ diffs[k].dbegin[1] > line}
    IN  IF next = {} THEN None ELSE Min(next)

(* The first and the last difference to copy when whole lines are selected; *)
(* there are none for one line that is in a difference.                     *)
GetContextDiff(diffs, firstLine, lastLine) ==
    LET atFirst == LineToDiff(diffs, firstLine)
        atLast == LineToDiff(diffs, lastLine)
        first == IF atFirst = None THEN NextSignificantDiffFromLine(diffs, firstLine) ELSE atFirst
        last == IF atLast = None THEN PrevSignificantDiffFromLine(diffs, lastLine) ELSE atLast
        from == IF diffs[first].dbegin[1] < firstLine /\ first < last THEN first + 1 ELSE first
        to == IF diffs[last].dend[1] > lastLine /\ from < last THEN last - 1 ELSE last
    IN  IF \/ \A k \in DOMAIN diffs : ~ Significant(diffs, k)
           \/ lastLine < firstLine
           \/ None \in {first, last}
           \/ firstLine = lastLine
        THEN [first |-> None, last |-> None]
        ELSE [first |-> from, last |-> to]

(* What the copy commands copy: the current difference or else the one at   *)
(* the cursor, if it is significant, otherwise those of the selection.      *)
DiffsToCopy(diffs, nCurDiff, cursor, firstLine, lastLine) ==
    LET current == IF nCurDiff = None THEN LineToDiff(diffs, cursor) ELSE nCurDiff
        selected == GetContextDiff(diffs, firstLine, lastLine)
    IN  IF current # None /\ Significant(diffs, current) THEN {current}
        ELSE {k \in DOMAIN diffs : k \in selected.first .. selected.last /\ Significant(diffs, k)}

-----------------------------------------------------------------------------
(* Differences are copied to side dst *)

Marked(w, i, l) ==
    \/ w.panes[i][l].ghost
    \/ l \in w.trivial
    \/ \E k \in DOMAIN w.diffs : l \in w.diffs[k].dbegin[1] .. w.diffs[k].dend[1]

(* The loop over the lines of the difference looks at the last one only. *)
SanityCheckDiff(w, dr) ==
    \A i \in Sides : dr.dend[1] <= Len(w.panes[i]) /\ Marked(w, i, dr.dend[1])

\* Mutant: the line break of the last line is left out.
EndOfDiff(lines, dr) == Point(dr.dend[1], Len(lines[dr.dend[1]].text))

PastDiff(lines, dr) ==
    IF dr.dend[1] < Len(lines) THEN Point(dr.dend[1] + 1, 0)
    ELSE EndOfDiff(lines, dr)

Deleted(lines, start, end) ==
    IF GetText(lines, start, end) = <<>> THEN Buf(lines) ELSE DeleteText(Buf(lines), start, end).buf

CopyLines(from, to, dr) ==
    LET start == Point(dr.dbegin[1], 0)
        text == GetText(from, start, PastDiff(from, dr))
        rest == Deleted(to, start, DeletionEnd(to, PastDiff(to, dr)))
    IN  IF text = <<>> THEN rest.lines ELSE InsertText(rest, start, text).buf.lines

ListCopy(w, dst, dr) ==
    IF w.ok /\ SanityCheckDiff(w, dr)
    THEN [w EXCEPT !.panes[dst] = CopyLines(w.panes[Other(dst)], @, dr)]
    ELSE [w EXCEPT !.ok = FALSE]

(* From bottom to top, so that the lines still to be copied do not move.   *)
CopyMultipleList(w, dst, first, last) ==
    LET Copy(k, u) == IF Significant(w.diffs, k) THEN ListCopy(u, dst, w.diffs[k]) ELSE u
    IN  FoldRight(Copy, [n \in 1 .. last - first + 1 |-> first + n - 1], w)

-----------------------------------------------------------------------------
(* References *)

IsPlaceholder(li) == li.ghost /\ li.text # <<>>

(* How many lines of its file the first lines of a pane stand for *)
StandsFor(pane, n) ==
    LET Count(li) == IF IsPlaceholder(li) THEN li.text[1] ELSE IF li.ghost THEN 0 ELSE 1
    IN  FoldLeft(LAMBDA sum, li : sum + Count(li), 0, SubSeq(pane, 1, n))

(* The rows of all differences *)
Rows(w) == UNION {w.diffs[k].dbegin[1] .. w.diffs[k].dend[1] : k \in DOMAIN w.diffs}

(* Each pane holds its file, with the lines in their order.  *)
HoldsFile(file, pane) ==
    /\ StandsFor(pane, Len(pane)) = Len(file)
    /\ \A l \in DOMAIN pane : ~ pane[l].ghost => pane[l] = file[StandsFor(pane, l)]

(* The texts a row of a pane stands for *)
TextsAt(file, pane, l) ==
    LET before == StandsFor(pane, l - 1)
    IN  [n \in 1 .. StandsFor(pane, l) - before |-> file[before + n].text]

(* Outside of the differences the rows stand for the same text on both      *)
(* sides.                                                                   *)
IsLevel(files, w) ==
    /\ Len(w.panes[1]) = Len(w.panes[2])
    /\ \A l \in DOMAIN w.panes[1] \ Rows(w) :
            /\ TextsAt(files[1], w.panes[1], l) # <<>>
            /\ TextsAt(files[1], w.panes[1], l) = TextsAt(files[2], w.panes[2], l)

(* The rows of a difference hold just its lines, those of one side at least *)
(* in every row, and differences do not overlap.                            *)
DiffsAreInPlace(w) ==
    LET Filled(i, rows) ==
            Cardinality({l \in rows : ~ w.panes[i][l].ghost \/ IsPlaceholder(w.panes[i][l])})
        Real(i, rows) == {l \in rows : ~ w.panes[i][l].ghost}
    IN  \A k \in DOMAIN w.diffs :
            LET dr == w.diffs[k]
                rows == dr.dbegin[1] .. dr.dend[1]
            IN  /\ dr.dbegin[1] = dr.dbegin[2] /\ dr.dend[1] = dr.dend[2]
                /\ k > 1 => w.diffs[k - 1].dend[1] < dr.dbegin[1]
                /\ Real(1, rows) \union Real(2, rows) = rows
                /\ \A i \in Sides :
                        /\ Filled(i, 1 .. dr.dbegin[1] - 1) = dr.begin[i] - 1
                        /\ Cardinality(Real(i, rows)) = CountOf(dr, i)

(* A text from its pieces *)
Joined(pieces) ==
    FlattenSeq([k \in DOMAIN pieces |->
                    IF k < Len(pieces) THEN Append(pieces[k], EOL) ELSE pieces[k]])

(* File dst with the lines of the differences in copied taken from the     *)
(* other file *)
Merged(files, diffs, dst, copied) ==
    LET Source(k) == IF k \in copied THEN Other(dst) ELSE dst
        Pieces0(i, first, last) ==
            [n \in 1 .. last - first + 1 |-> files[i][first + n - 1].text]
        From(k) == Pieces0(Source(k), diffs[k].begin[Source(k)], diffs[k].end[Source(k)])
        Between(k) ==
            Pieces0(dst, IF k = 1 THEN 1 ELSE diffs[k - 1].end[dst] + 1,
                    IF k > Len(diffs) THEN Len(files[dst]) ELSE diffs[k].begin[dst] - 1)
    IN  Joined(FlattenSeq([k \in 1 .. Len(diffs) |-> Between(k) \o From(k)])
                    \o Between(Len(diffs) + 1))
=============================================================================
