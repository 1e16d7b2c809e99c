---------------------------- MODULE EditHistory ----------------------------
(***************************************************************************)
(* What an editor with undo and redo promises: the text is always the      *)
(* entry of a log that a marker points at.  An edit drops the entries past *)
(* the marker and appends one, or replaces the one it points at when it is *)
(* typed on; undo and redo move the marker by one; none of them ever fails.*)
(* GhostBuffer implements it with undo records that store line numbers, on *)
(* lines that a rescan moves.                                              *)
(***************************************************************************)
EXTENDS Naturals, Sequences

CONSTANT Texts      \* whatever a file may hold

VARIABLES text, log, marker

vars == <<text, log, marker>>

Init == text \in Texts /\ log = <<text>> /\ marker = 1

Edit ==
    /\ text' \in Texts
    /\ log' = Append(SubSeq(log, 1, marker), text')
    /\ marker' = marker + 1

EditOn ==
    /\ marker > 1
    /\ text' \in Texts
    /\ log' = Append(SubSeq(log, 1, marker - 1), text')
    /\ marker' = marker

Undo ==
    /\ marker > 1
    /\ marker' = marker - 1
    /\ text' = log[marker - 1]
    /\ log' = log

Redo ==
    /\ marker < Len(log)
    /\ marker' = marker + 1
    /\ text' = log[marker + 1]
    /\ log' = log

Next == Edit \/ EditOn \/ Undo \/ Redo

Spec == Init /\ [][Next]_vars
=============================================================================
