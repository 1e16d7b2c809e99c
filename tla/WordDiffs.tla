------------------------------ MODULE WordDiffs ------------------------------
(***************************************************************************)
(* The differences within a line, down to words (stringdiffs.cpp).  Both    *)
(* lines are cut into words, an edit script that turns the one into the    *)
(* other is found by the O(NP) algorithm of Wu, Manber, Myers and Miller,  *)
(* and what it deletes, inserts or replaces is turned into differences.    *)
(*                                                                         *)
(* Text is a sequence of characters.  Positions in it are counted from 0,   *)
(* as in the source; an end is the position after the last character.      *)
(***************************************************************************)
EXTENDS Integers, SequencesExt

CONSTANTS
    WordLimit       \* STRINGDIFF_WORD_LIMIT

Kind(options, char) ==
    CASE char = " " -> "space"
      [] char = "," /\ options.breakType = 1 -> "break"
      [] OTHER -> "word"

toupper(char) == IF char = "a" THEN "A" ELSE char

Folded(options, text) ==
    IF options.case_sensitive THEN text ELSE [k \in DOMAIN text |-> toupper(text[k])]

(* Blanks are one word and so are other characters, breaks are words each  *)
BuildWordsArray(options, str) ==
    LET kind == [k \in DOMAIN str |-> Kind(options, str[k])]
        starts == SetToSortSeq({k \in DOMAIN str : k = 1 \/ kind[k] # kind[k - 1] \/ kind[k] = "break"}, <)
        end == Append(starts, Len(str) + 1)
    IN  [n \in DOMAIN starts |->
            [start |-> starts[n] - 1, end |-> end[n + 1] - 1, kind |-> kind[starts[n]],
             text |-> Folded(options, SubSeq(str, starts[n], end[n + 1] - 1))]]

IsSpace(word) == word.kind = "space"

\* Mutant: words are compared without regard to case, as their hashes may be.
AreWordsSameInAnyCase(options, word1, word2) ==
    \/ options.whitespace # "none" /\ IsSpace(word1) /\ IsSpace(word2)
    \/ [k \in DOMAIN word1.text |-> toupper(word1.text[k])]
            = [k \in DOMAIN word2.text |-> toupper(word2.text[k])]

AreWordsSame(options, word1, word2) ==
    \/ options.whitespace # "none" /\ IsSpace(word1) /\ IsSpace(word2)
    \/ word1.text = word2.text

-----------------------------------------------------------------------------
(* Shortest edit script.  fp[k] is the furthest point reached on diagonal k *)
(* and es[k] the script that leads there.                                  *)

snake(options, line1, line2, k, y) ==
    y + Max({0} \union {d \in 1 .. Len(line2) - y :
                            /\ y - k + d <= Len(line1)
                            /\ \A n \in 1 .. d : AreWordsSame(options, line1[y - k + n], line2[y + n])})

Extend(options, line1, line2, at, k) ==
    LET z == at.fp[k + 1]
        y == Max({at.fp[k - 1] + 1, z})
        x == IF y > z THEN k - 1 ELSE k + 1
        end == snake(options, line1, line2, k, y)
        edit == IF at.fp[x] = -1 THEN <<>> ELSE IF y > z THEN <<"+">> ELSE <<"-">>
    IN  [fp |-> [at.fp EXCEPT ![k] = end],
         es |-> [at.es EXCEPT ![k] = at.es[x] \o edit \o [n \in 1 .. end - y |-> "="]]]

RECURSIVE Search(_, _, _, _, _)
Search(options, line1, line2, at, p) ==
    LET delta == Len(line2) - Len(line1)
        order == [n \in 1 .. delta + p |-> n - 1 - p] \o [n \in 1 .. p + 1 |-> delta + p + 1 - n]
        next == FoldLeft(LAMBDA a, k : Extend(options, line1, line2, a, k), at, order)
    IN  IF next.fp[delta] >= Len(line2) THEN next.es[delta]
        ELSE Search(options, line1, line2, next, p + 1)

(* A deletion next to an insertion is a replacement *)
RECURSIVE Paired(_, _)
Paired(ses, exchanged) ==
    LET c == IF exchanged THEN [i \in {"+", "-", "="} |->
                                    CASE i = "+" -> "-" [] i = "-" -> "+" [] i = "=" -> "="][Head(ses)]
             ELSE Head(ses)
    IN  IF ses = <<>> THEN <<>>
        ELSE IF Len(ses) > 1 /\ {ses[1], ses[2]} = {"+", "-"}
        THEN <<"!">> \o Paired(Tail(Tail(ses)), exchanged)
        ELSE <<c>> \o Paired(Tail(ses), exchanged)

onp(options, line1, line2) ==
    LET exchanged == Len(line1) > Len(line2)
        short == IF exchanged THEN line2 ELSE line1
        long == IF exchanged THEN line1 ELSE line2
        diagonals == -(Len(short) + 1) .. Len(long) + 1
    IN  Paired(Search(options, short, long,
                      [fp |-> [k \in diagonals |-> -1], es |-> [k \in diagonals |-> <<>>]], 0),
               exchanged)

-----------------------------------------------------------------------------
(* Differences *)

wdiff(s1, e1, s2, e2) == [start |-> <<s1, s2>>, end |-> <<e1, e2>>]

(* What an edit means for the text, where i and j are the words it is about *)
EditDiff(line1, line2, edit, i, j) ==
    LET End(line, n) == IF n = 0 THEN 0 ELSE line[n].end
    IN  CASE edit = "-" -> wdiff(line1[i].start, line1[i].end, End(line2, j - 1), End(line2, j - 1))
          [] edit = "+" -> wdiff(End(line1, i - 1), End(line1, i - 1), line2[j].start, line2[j].end)
          [] OTHER -> wdiff(line1[i].start, line1[i].end, line2[j].start, line2[j].end)

(* Changes of blanks count only if they are to be compared *)
Shown(options, line1, line2, edit, i, j) ==
    CASE edit = "-" -> options.whitespace # "all" \/ ~ IsSpace(line1[i])
      [] edit = "+" -> options.whitespace # "all" \/ ~ IsSpace(line2[j])
      [] edit = "!" -> options.whitespace = "none" \/ ~ IsSpace(line1[i]) \/ ~ IsSpace(line2[j])
      [] OTHER -> FALSE

BuildWordDiffList(options, line1, line2) ==
    LET edscript == onp(options, line1, line2)
        Word(n, without) == 1 + Cardinality({m \in 1 .. n - 1 : edscript[m] # without})
        i == [n \in DOMAIN edscript |-> Word(n, "+")]
        j == [n \in DOMAIN edscript |-> Word(n, "-")]
        shown == SetToSortSeq({n \in DOMAIN edscript :
                                    Shown(options, line1, line2, edscript[n], i[n], j[n])}, <)
    IN  [k \in DOMAIN shown |->
            LET n == shown[k] IN EditDiff(line1, line2, edscript[n], i[n], j[n])]

CombineAdjacentDiffs(diffs) ==
    FoldRight(LAMBDA d, rest :
                    IF rest # <<>> /\ d.end = rest[1].start
                    THEN <<[d EXCEPT !.end = rest[1].end]>> \o Tail(rest) ELSE <<d>> \o rest,
              diffs, <<>>)

sd_ComputeWordDiffs(options, str1, str2) ==
    LET line1 == BuildWordsArray(options, str1)
        line2 == BuildWordsArray(options, str2)
    IN  IF str1 = <<>> /\ str2 = <<>> THEN <<>>
        ELSE IF str1 = <<>> \/ str2 = <<>> \/ Len(line1) > WordLimit \/ Len(line2) > WordLimit
        THEN <<wdiff(0, Len(str1), 0, Len(str2))>>
        ELSE CombineAdjacentDiffs(BuildWordDiffList(options, line1, line2))
=============================================================================
