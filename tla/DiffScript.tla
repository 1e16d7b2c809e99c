----------------------------- MODULE DiffScript -----------------------------
(***************************************************************************)
(* What is made of the lines that two files have in common: runs of        *)
(* changed lines are shifted over equal lines (analyze.c), turned into a   *)
(* script of changes, and changes are split where their lines have moved   *)
(* (MovedBlocks.cpp, MovedLines.cpp).                                      *)
(*                                                                         *)
(* A file is the sequence of its lines without the identical ends of the   *)
(* two files.  A line is its equivalence class.  Sides are 1 and 2, lines  *)
(* are counted from 1.                                                     *)
(***************************************************************************)
EXTENDS Integers, SequencesExt

Sides == 1 .. 2

Other(s) == 3 - s

(* common[s] are the lines of side s that the files were found to share *)
Changed(files, common) == [s \in Sides |-> DOMAIN files[s] \ common[s]]

(* Unchanged lines before line k.  Those of both files correspond, so that *)
(* the runs of changed lines after the same number of them do, too.        *)
Unchanged(changed, k) == k - 1 - Cardinality({c \in changed : c < k})

Run(changed, n) == {c \in changed : Unchanged(changed, c) = n}

-----------------------------------------------------------------------------
(* Shifting runs of changed lines *)

FirstOf(changed, last) == last - Cardinality(Run(changed, Unchanged(changed, last))) + 1

LastFrom(changed, first) == Max(Run(changed, Unchanged(changed, first)))

(* A run is given by its last line; it merges with runs it meets.          *)
RECURSIVE ShiftBack(_, _, _)
ShiftBack(lines, changed, last) ==
    LET start == FirstOf(changed, last)
    IN  IF start > 1 /\ lines[start - 1] = lines[last]
        THEN ShiftBack(lines, (changed \ {last}) \union {start - 1}, last - 1)
        ELSE [changed |-> changed, last |-> last]

(* corresponding is where the run last ended beside a run of the other file *)
RECURSIVE ShiftForward(_, _, _, _)
ShiftForward(lines, run, other, corresponding) ==
    LET start == FirstOf(run.changed, run.last)
        changed == (run.changed \ {start}) \union {run.last + 1}
        last == LastFrom(changed, run.last + 1)
        beside == Run(other, Unchanged(changed, last)) # {}
    IN  IF run.last < Len(lines) /\ lines[start] = lines[run.last + 1]
        THEN ShiftForward(lines, [changed |-> changed, last |-> last], other,
                          IF beside THEN last ELSE corresponding)
        ELSE [run |-> run, corresponding |-> corresponding]

RECURSIVE ShiftRun(_, _, _)
ShiftRun(lines, run, other) ==
    LET Length(r) == r.last - FirstOf(r.changed, r.last)
        back == ShiftBack(lines, run.changed, run.last)
        beside == Run(other, Unchanged(back.changed, back.last)) # {}
        forward == ShiftForward(lines, back, other, IF beside THEN back.last ELSE Len(lines))
    IN  IF Length(forward.run) = Length(run) THEN forward ELSE ShiftRun(lines, forward.run, other)

(* Moved back to the corresponding run as far as the line it began with    *)
AlignRun(shifted) ==
    LET run == shifted.run
        start == FirstOf(run.changed, run.last)
        d == run.last - shifted.corresponding
    IN  IF d <= 0 THEN run
        ELSE [changed |-> (run.changed \ (start .. run.last)) \union (start - d .. run.last - d),
              last |-> run.last - d]

RECURSIVE ShiftFrom(_, _, _, _)
ShiftFrom(lines, changed, other, from) ==
    LET ahead == {c \in changed : c >= from}
        run == AlignRun(ShiftRun(lines, [changed |-> changed, last |-> LastFrom(changed, Min(ahead))], other))
    IN  IF ahead = {} THEN changed ELSE ShiftFrom(lines, run.changed, other, run.last + 1)

shift_boundaries(files, changed) ==
    LET first == ShiftFrom(files[1], changed[1], changed[2], 1)
    IN  <<first, ShiftFrom(files[2], changed[2], first, 1)>>

-----------------------------------------------------------------------------
(* The script.  match[s] is the line of the other file to which the first   *)
(* of the changed lines of side s has moved, 0 if it has not.               *)

add_change(line, count) == [line |-> line, count |-> count, match |-> <<0, 0>>]

build_script(files, changed) ==
    LET Change(n) ==
            add_change([s \in Sides |-> n + 1 + Cardinality({c \in changed[s] : Unchanged(changed[s], c) < n})],
                       [s \in Sides |-> Cardinality(Run(changed[s], n))])
        all == [n \in 1 .. Len(files[1]) - Cardinality(changed[1]) + 1 |-> Change(n - 1)]
    IN  SelectSeq(all, LAMBDA e : e.count # <<0, 0>>)

LinesOf(e, s) == e.line[s] .. e.line[s] + e.count[s] - 1

ChangedIn(script, s) == UNION {LinesOf(script[k], s) : k \in DOMAIN script}

-----------------------------------------------------------------------------
(* Moved blocks *)

(* The changed lines of a class: a perfect match if they are as many on    *)
(* both sides and consecutive on each.                                     *)
EqGroup(files, script, class) ==
    [s \in Sides |-> {k \in ChangedIn(script, s) : files[s][k] = class}]

isPerfectMatch(group) ==
    /\ Cardinality(group[1]) = Cardinality(group[2])
    /\ \A s \in Sides : group[s] # {} /\ group[s] = Min(group[s]) .. Max(group[s])

(* Reading beyond a file finds what happens to lie in memory *)
ClassAt(lines, k, junk) == IF k \in DOMAIN lines THEN lines[k] ELSE junk

\* Mutant: a block reaches as far as the change, whatever the lines are.
ReachAll(n, same) == n

(* How many of n lines follow that are equal *)
Reach(n, same) == Max({d \in 0 .. n : 1 .. d \subseteq same})

(* A block of lines of side s that have moved: its lines and, in the other *)
(* file, the line that corresponds to the first.  It is extended as far as *)
(* the change goes and the lines are equal.                                *)
MovedBlock(files, junk, group, e, s) ==
    LET i == Max(group[s])
        j == Max(group[Other(s)])
        below == Max(LinesOf(e, s)) - i
        above == i - e.line[s]
        same == {k \in -above .. below : files[s][i + k] = ClassAt(files[Other(s)], j + k, junk)}
        down == Reach(below, same)
        up == Reach(above, {-k : k \in same})
    IN  [first |-> i - up, last |-> i + down, to |-> j - up]

\* Mutant: the last part never takes the other side.
LastTakesNothing(prefix) == FALSE

LastTakesOther(prefix) == prefix = 0

(* The change is split into what is before the block, the block and what   *)
(* is after it.  The other side stays with the first part, or goes to the  *)
(* last if the block comes first.                                          *)
SplitChange(e, s, block) ==
    LET o == Other(s)
        prefix == block.first - e.line[s]
        suffix == Max(LinesOf(e, s)) - block.last
        Part(first, count, match, whole, after) ==
            [line |-> [e.line EXCEPT ![s] = first, ![o] = @ + (IF after THEN e.count[o] ELSE 0)],
             count |-> [e.count EXCEPT ![s] = count, ![o] = IF whole THEN @ ELSE 0],
             match |-> [e.match EXCEPT ![s] = match, ![o] = IF whole THEN @ ELSE 0]]
    IN  [before |-> IF prefix = 0 THEN <<>>
                    ELSE <<Part(e.line[s], prefix, 0, TRUE, FALSE)>>,
         block |-> Part(block.first, block.last - block.first + 1, block.to,
                        prefix = 0 /\ suffix = 0, prefix # 0),
         after |-> IF suffix = 0 THEN <<>>
                   ELSE <<Part(block.last + 1, suffix, 0, LastTakesOther(prefix), prefix # 0)>>]

RECURSIVE SplitMoved(_, _, _, _, _)
SplitMoved(files, junk, script, s, e) ==
    LET Group(k) == EqGroup(files, script, files[s][k])
        perfect == {k \in LinesOf(e, s) : isPerfectMatch(Group(k))}
        split == SplitChange(e, s, MovedBlock(files, junk, Group(Min(perfect)), e, s))
    IN  IF perfect = {} THEN <<e>>
        ELSE split.before \o <<split.block>>
                \o (IF split.after = <<>> THEN <<>>
                    ELSE SplitMoved(files, junk, script, s, split.after[1]))

(* First the blocks that have moved from the left side, then those that    *)
(* have moved to the right side.                                           *)
moved_block_analysis(files, junk, script) ==
    LET Scan(changes, s) ==
            FlattenSeq([k \in DOMAIN changes |-> SplitMoved(files, junk, script, s, changes[k])])
    IN  Scan(Scan(script, 1), 2)

diff_2_files(files, common, junk, moved_blocks_flag) ==
    LET script == build_script(files, shift_boundaries(files, Changed(files, common)))
    IN  IF moved_blocks_flag THEN moved_block_analysis(files, junk, script) ELSE script

(* The lines of side s that are shown as moved, and where to *)
MovedLines(script, s) ==
    UNION {{<<script[k].line[s] + n, script[k].match[s] + n>> : n \in 0 .. script[k].count[s] - 1} :
           k \in {k \in DOMAIN script : script[k].match[s] > 0}}
=============================================================================
