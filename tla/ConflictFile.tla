---------------------------- MODULE ConflictFile ----------------------------
(***************************************************************************)
(* A file in which version control has marked conflicts is split into the  *)
(* two files to be compared (ConflictFileParser.cpp).                      *)
(*                                                                         *)
(* A line has a text, then a mark or none.  "<<<<<<< " counts as a mark at *)
(* the start of a line only, the row of seven equals signs at the end,     *)
(* ">>>>>>> " anywhere.                                                    *)
(* The last line has no line break and may be empty.                       *)
(***************************************************************************)
EXTENDS Integers, SequencesExt

Line(text, mark, eol) == [text |-> text, mark |-> mark, eol |-> eol]

MineBegin(line) == line.mark = "begin" /\ line.text = ""
Separator(line) == line.mark = "separator"
TheirsEnd(line) == line.mark = "end"

IsConflictFile(lines) == \E k \in DOMAIN lines : MineBegin(lines[k])

-----------------------------------------------------------------------------
Parser ==
    [state |-> "common", iNestingLevel |-> 0, bNestedConflicts |-> FALSE, bResult |-> FALSE,
     workingCopy |-> <<>>, newRevision |-> <<>>]

(* The section a nested conflict lies in *)
Outer(state) == IF state = "nested in mine" THEN "mine" ELSE "theirs"

Files(state) ==
    CASE state = "common" -> {"workingCopy", "newRevision"}
      [] state \in {"mine", "nested in mine"} -> {"workingCopy"}
      [] OTHER -> {"newRevision"}

Write(p, line) == [f \in DOMAIN p |-> IF f \in Files(p.state) THEN Append(p[f], line) ELSE p[f]]

(* The text before a mark is a line if there is any *)
WriteText(p, line) ==
    IF line.text = "" THEN p ELSE Write(p, [line EXCEPT !.mark = "none"])


(* Only one in the working copy's section is reported. *)
Nested(p, line) ==
    LET q == [Write(p, line) EXCEPT !.bNestedConflicts = @ \/ p.state = "nested in mine"]
    IN  CASE MineBegin(line) -> [q EXCEPT !.iNestingLevel = @ + 1]
          [] TheirsEnd(line) /\ p.iNestingLevel = 0 -> [q EXCEPT !.state = Outer(p.state)]
          [] TheirsEnd(line) /\ p.iNestingLevel > 0 -> [q EXCEPT !.iNestingLevel = @ - 1]
          [] OTHER -> q

ReadLine(p, line) ==
    CASE p.state = "common" /\ MineBegin(line) -> [p EXCEPT !.state = "mine", !.bResult = TRUE]
      [] p.state = "mine" /\ MineBegin(line) -> [Write(p, line) EXCEPT !.state = "nested in mine"]
      [] p.state = "mine" /\ Separator(line) -> [WriteText(p, line) EXCEPT !.state = "theirs"]
      [] p.state = "theirs" /\ MineBegin(line) -> [Write(p, line) EXCEPT !.state = "nested in theirs"]
      [] p.state = "theirs" /\ TheirsEnd(line) -> [WriteText(p, line) EXCEPT !.state = "common"]
      [] p.state \in {"nested in mine", "nested in theirs"} -> Nested(p, line)
      [] OTHER -> Write(p, line)

ParseConflictFile(lines) == FoldLeft(ReadLine, Parser, lines)

-----------------------------------------------------------------------------
(* What a well-formed file is made of: texts, and conflicts of two such     *)
(* parts.  A nested conflict is text of the part it lies in.               *)

RECURSIVE LinesOf(_)
LinesOf(part) ==
    LET Item(item) ==
            IF item.kind = "text" THEN <<Line(item.text, "none", TRUE)>>
            ELSE <<Line("", "begin", TRUE)>> \o LinesOf(item.mine)
                    \o <<Line("", "separator", TRUE)>> \o LinesOf(item.theirs)
                    \o <<Line("", "end", TRUE)>>
    IN  FlattenSeq([k \in DOMAIN part |-> Item(part[k])])

SideOf(part, side) ==
    FlattenSeq([k \in DOMAIN part |->
                    LinesOf(IF part[k].kind = "text" THEN <<part[k]>> ELSE part[k][side])])

Conflicts(part) == {k \in DOMAIN part : part[k].kind = "conflict"}

HasNested(part, side) == \E k \in Conflicts(part) : Conflicts(part[k][side]) # {}
=============================================================================
