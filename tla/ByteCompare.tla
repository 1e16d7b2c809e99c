---------------------------- MODULE ByteCompare ----------------------------
(***************************************************************************)
(* The quick contents compare of two files (ByteCompare::CompareFiles): two *)
(* readers with a buffer each advance together or, over line breaks and    *)
(* blanks that the options ignore, one at a time.                          *)
(*                                                                         *)
(* A file is a sequence of code points.  Its reader fills its buffer when   *)
(* fewer than LookAhead code points are left in it, by Chunk at most.      *)
(***************************************************************************)
EXTENDS Naturals, Sequences, SequencesExt, FiniteSets

CONSTANTS
    LookAhead,      \* code points in 8 bytes: 8, 4 or 2
    Chunk           \* CMPBUFF in code points

Sides == {1, 2}
Other(i) == 3 - i

LineBreaks == {"cr", "lf", "crlf"}

(* The kinds of line break and NUL that are counted *)
Counters == {"crs", "lfs", "crlfs", "zeros"}

Uncounted == [k \in Counters |-> 0]

(* c is the code point at the cursor, stale at the end of the file.  prev, *)
(* the kind before it, is uninitialized at first.  hold: the side does not *)
(* advance.  failing: the read that would reach the end of the file fails;  *)
(* a read that ends in part of a code point fails, too, and is left out.   *)
Reader(file, failing, junk) ==
    [unread |-> file, ahead |-> <<>>, full |-> TRUE, failing |-> failing, failed |-> FALSE,
     c |-> "?", kind |-> "start", prev |-> junk, width |-> 0, hold |-> TRUE,
     counter |-> "none", stats |-> Uncounted]

Advance(r) ==
    IF r.hold THEN r
    ELSE [r EXCEPT !.ahead = SubSeq(@, r.width + 1, Len(@)),
                   !.prev = r.kind,
                   !.stats = IF r.counter = "none" THEN @
                             ELSE [@ EXCEPT ![r.counter] = @ + 1]]

Fails(r) == r.failing /\ Len(r.unread) < Chunk

ReadFile(r) ==
    LET n == IF Fails(r) THEN 0
             ELSE IF Len(r.unread) < Chunk THEN Len(r.unread) ELSE Chunk
    IN  [r EXCEPT !.ahead = @ \o SubSeq(r.unread, 1, n),
                  !.unread = SubSeq(@, n + 1, Len(@)),
                  !.full = n = Chunk,
                  !.failed = @ \/ Fails(r)]

\* Mutant: the buffer is filled only when it is empty.
IsShortWhenEmpty(r) == r.ahead = <<>>

IsShort(r) == Len(r.ahead) < LookAhead

\* Mutant: a difference found ends the reading in any case.
StopsReadingAlways(options, diff) == diff

(* What is already in memory is processed as far as it goes. *)
StopsReading(options, diff) == options.bStopAfterFirstDiff /\ diff

Refill(options, r, diff) ==
    IF ~ IsShort(r) THEN r
    ELSE IF StopsReading(options, diff) THEN [r EXCEPT !.ahead = <<>>]
    ELSE IF r.full THEN ReadFile(r)
    ELSE r

KindOf(r) ==
    LET c == r.ahead[1]
    IN  IF r.ahead = <<>> THEN "eof"
        ELSE IF c = " " THEN "blank"
        ELSE IF c = "\n" THEN "lf"
        ELSE IF c = "\r"
        THEN IF Len(r.ahead) > 1 /\ r.ahead[2] = "\n" THEN "crlf" ELSE "cr"
        ELSE IF c = "L" /\ r.prev # "lead" THEN "lead"
        ELSE "neither"

CounterOf(r, kind) ==
    CASE kind = "cr" -> "crs"
      [] kind = "lf" -> "lfs"
      [] kind = "crlf" -> "crlfs"
      [] kind = "neither" /\ r.ahead[1] = "0" -> "zeros"
      [] OTHER -> "none"

(* A line break counts as preceded by a blank. *)
Classify(r) ==
    LET kind == KindOf(r)
    IN  [r EXCEPT !.kind = kind,
                  !.hold = FALSE,
                  !.width = CASE kind = "eof" -> 0 [] kind = "crlf" -> 2 [] OTHER -> 1,
                  !.c = IF kind = "eof" THEN @ ELSE r.ahead[1],
                  !.counter = CounterOf(r, kind),
                  !.prev = IF kind \in LineBreaks THEN "blank" ELSE @]

-----------------------------------------------------------------------------
(* One turn of the loop.  p has both readers at their code point; the     *)
(* result is which side stays where it is and whether there is a difference*)

Lower(c) == IF c = "A" THEN "a" ELSE c

SameCodePoint(options, p) ==
    \/ p[1].c = p[2].c
    \/ /\ options.bIgnoreCase
       /\ p[1].prev # "lead" /\ p[2].prev # "lead"
       /\ Lower(p[1].c) = Lower(p[2].c)

Both(p) == [readers |-> p, equal |-> TRUE]
Differ(p) == [readers |-> p, equal |-> FALSE]

(* Side i goes on alone, over a line break or a blank. *)
Alone(p, i) == Both([p EXCEPT ![Other(i)].hold = TRUE])

BreakAlone(p, i) == Alone([p EXCEPT ![i].kind = "blank"], i)

\* Mutant: a blank is ignored wherever the other side is.
FollowsBlankAnywhere(p, i) == p[i].kind = "blank"

(* A blank goes unmatched where the other side is behind a blank, too. *)
FollowsBlank(p, i) == p[i].kind = "blank" /\ p[Other(i)].prev = "blank"

CompareBlank(options, p) ==
    LET q == IF options.nIgnoreWhitespace = "all"
             THEN [i \in Sides |-> [p[i] EXCEPT !.prev = "blank"]] ELSE p
    IN  IF options.nIgnoreWhitespace # "none" /\ p[1].kind = p[2].kind THEN Both(q)
        ELSE IF options.nIgnoreWhitespace # "none" /\ FollowsBlank(q, 1) THEN Alone(q, 1)
        ELSE IF options.nIgnoreWhitespace # "none" /\ FollowsBlank(q, 2) THEN Alone(q, 2)
        ELSE IF SameCodePoint(options, q) THEN Both(q) ELSE Differ(q)

(* Line breaks of different style are made equal or not by what is stored   *)
(* for their code points: 1, and 1 or 0.                                   *)
ForceEqualness(options, p) ==
    [p EXCEPT ![1].c = "1", ![2].c = IF options.bIgnoreEol THEN "1" ELSE "0"]

CompareCodePoints(options, p) == IF SameCodePoint(options, p) THEN Both(p) ELSE Differ(p)

(* EOF_0 is zero and a mask of it and of an ordinary code point passes for  *)
(* two ordinary code points, one of them stale; EOF_1 does not.            *)
Turn(options, p) ==
    LET kinds == {p[1].kind, p[2].kind}
        ordinary == {"neither", "lead"}
    IN  IF p[1].kind \in ordinary \union {"eof"} /\ p[2].kind \in ordinary
        THEN CompareCodePoints(options, p)
        ELSE IF options.bIgnoreBlankLines /\ p[1].kind \in LineBreaks THEN BreakAlone(p, 1)
        ELSE IF options.bIgnoreBlankLines /\ p[2].kind \in LineBreaks THEN BreakAlone(p, 2)
        ELSE IF "blank" \in kinds THEN CompareBlank(options, p)
        ELSE IF kinds \subseteq LineBreaks /\ p[1].kind # p[2].kind
        THEN CompareCodePoints(options, ForceEqualness(options, p))
        ELSE IF "eof" \in kinds THEN Differ(p)
        ELSE CompareCodePoints(options, p)
-----------------------------------------------------------------------------
(* The loop *)

Ended(p) == \A i \in Sides : p[i].kind \in {"eof", "start"}

Step(options, active, s) ==
    LET Next(i) == Classify(Refill(options, Advance(s.readers[i]), ~ s.equal))
        p == [i \in Sides |-> IF i \in active THEN Next(i) ELSE s.readers[i]]
        turn == Turn(options, p)
    IN  IF Ended(p) THEN [readers |-> p, equal |-> s.equal, ended |-> TRUE]
        ELSE [readers |-> turn.readers, equal |-> s.equal /\ turn.equal, ended |-> FALSE]

(* Every turn advances at least one reader. *)
Turns(readers) == Len(readers[1].unread) + Len(readers[2].unread) + 1

(* The loop after so many turns *)
Loop(options, active, readers) ==
    LET after[n \in 0 .. Turns(readers)] ==
            IF n = 0 THEN [readers |-> readers, equal |-> TRUE, ended |-> FALSE]
            ELSE LET s == after[n - 1]
                 IN  IF s.ended THEN s ELSE Step(options, active, s)
    IN  after

Run(options, active, readers) == Loop(options, active, readers)[Turns(readers)]

(* ShouldAbort() is asked where a buffer is short, and says yes from the    *)
(* turn behind the first "cancel" turns.                                   *)
Aborts(options, active, readers, cancel) ==
    LET loop == Loop(options, active, readers)
    IN  \E n \in DOMAIN loop :
            /\ n >= cancel /\ ~ loop[n].ended
            /\ \E i \in active : IsShort(Advance(loop[n].readers[i]))

Code(s) ==
    IF \E i \in Sides : s.readers[i].failed THEN "CMPERR"
    ELSE IF s.equal THEN "SAME" ELSE "DIFF"

Stats(s) == [i \in Sides |-> s.readers[i].stats]

(* No reader but that of side 2 *)
BesideNone(reader) == <<Reader(<<>>, FALSE, reader.prev), reader>>

(* A unique item is compared with itself, with the one reader of side 2;    *)
(* what the turns tell is dropped.                                         *)
CompareAlone(options, reader) ==
    LET s == Run(options, {2}, BesideNone(reader))
    IN  [code |-> Code([s EXCEPT !.equal = TRUE]), stats |-> <<Stats(s)[2], Stats(s)[2]>>]

CompareBoth(options, readers) ==
    LET s == Run(options, Sides, readers)
    IN  [code |-> Code(s), stats |-> Stats(s)]

AnyIgnored(options) ==
    \/ options.nIgnoreWhitespace # "none"
    \/ options.bIgnoreCase \/ options.bIgnoreBlankLines \/ options.bIgnoreEol

(* With bStopAfterFirstDiff sizes may tell the result; nothing is counted. *)
(* What a compare that is cancelled has counted is left out.               *)
CompareFiles(options, readers, unique, cancel) ==
    LET Told(code) == [code |-> code, stats |-> <<Uncounted, Uncounted>>]
    IN  IF options.bStopAfterFirstDiff /\ unique THEN Told("SAME")
        ELSE IF /\ options.bStopAfterFirstDiff /\ ~ AnyIgnored(options)
                /\ Len(readers[1].unread) # Len(readers[2].unread)
        THEN Told("DIFF")
        ELSE IF \/ unique /\ Aborts(options, {2}, BesideNone(readers[2]), cancel)
                \/ ~ unique /\ Aborts(options, Sides, readers, cancel)
        THEN Told("CMPABORT")
        ELSE IF unique THEN CompareAlone(options, readers[2])
        ELSE CompareBoth(options, readers)

-----------------------------------------------------------------------------
(* The comparison of whole texts, for reference *)

BreakAt(file, i) ==
    CASE file[i] = "\r" /\ i < Len(file) /\ file[i + 1] = "\n" -> "crlf"
      [] file[i] = "\r" -> "cr"
      [] file[i] = "\n" /\ (i = 1 \/ file[i - 1] # "\r") -> "lf"
      [] OTHER -> "none"

(* A text with its line breaks as tokens of their own *)
Tokens(file) ==
    LET token == [i \in DOMAIN file |->
                    IF BreakAt(file, i) = "none" THEN file[i] ELSE BreakAt(file, i)]
    IN  SelectSeq(token, LAMBDA c : c # "\n")

(* A text in lower case; the byte behind a lead byte has no case. *)
Folded(file) ==
    LET trail[i \in 0 .. Len(file)] == i > 1 /\ file[i - 1] = "L" /\ ~ trail[i - 1]
    IN  [i \in DOMAIN file |-> IF trail[i] THEN file[i] ELSE Lower(file[i])]

(* What the options leave of a text.  With blank lines go all line breaks. *)
Normal(options, file) ==
    LET change == options.nIgnoreWhitespace = "change"
        IsBreak(c) == c \in LineBreaks
        Keep(c) == /\ options.nIgnoreWhitespace = "all" => c # " "
                   /\ options.bIgnoreBlankLines => ~ IsBreak(c)
        Token(c) == IF IsBreak(c) /\ options.bIgnoreEol THEN "lf"
                    ELSE c
        kept == SelectSeq(Tokens(IF options.bIgnoreCase THEN Folded(file) ELSE file), Keep)
        tokens == [i \in DOMAIN kept |-> Token(kept[i])]
        Redundant(i) == tokens[i] = " " /\ i < Len(tokens)
                            /\ tokens[i + 1] \in LineBreaks \union {" "}
        needed == SelectSeq([i \in DOMAIN tokens |-> i], LAMBDA i : ~ Redundant(i))
    IN  IF change THEN [k \in DOMAIN needed |-> tokens[needed[k]]] ELSE tokens

Breaks(file) ==
    SelectSeq([k \in DOMAIN file |-> BreakAt(file, k)], LAMBDA kind : kind # "none")

(* What is stored as the last code point of file i when it has been read:   *)
(* "?" if there is none, and 1 for a line break the left text ends in that  *)
(* is ignored beside one of another style.                                 *)
LastStored(options, files, i) ==
    LET file == files[i]
        n == Len(Breaks(file))
    IN  IF file = <<>> THEN "?"
        ELSE IF /\ i = 1 /\ options.bIgnoreEol /\ ~ options.bIgnoreBlankLines
                /\ Last(file) \in {"\r", "\n"}
                /\ Breaks(file)[n] # Breaks(files[2])[n]
        THEN "1"
        ELSE IF options.bIgnoreCase THEN Lower(Last(file)) ELSE Last(file)

(* The rest of the longer text repeats what is stored of the shorter one.   *)
(* At the end of the right one only blanks pass.                           *)
RepeatsEnd(options, files, i) ==
    LET short == Normal(options, files[i])
        long == Normal(options, files[Other(i)])
        tail == {long[k] : k \in Len(short) + 1 .. Len(long)}
    IN  /\ IsPrefix(short, long)
        /\ tail \subseteq {LastStored(options, files, i)}
        /\ i = 2 => tail \subseteq {" "} /\ options.nIgnoreWhitespace = "none"

CountOf(file) ==
    LET Number(kind) == Cardinality({i \in DOMAIN file : BreakAt(file, i) = kind})
    IN  [crs |-> Number("cr"), lfs |-> Number("lf"), crlfs |-> Number("crlf"),
         zeros |-> Cardinality({i \in DOMAIN file : file[i] = "0"})]
=============================================================================
