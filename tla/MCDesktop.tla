----------------------------- MODULE MCDesktop -----------------------------
(* One folder with one file in it, on either side or on both. *)
EXTENDS Desktop

CONSTANTS folder, file, elsewhere

MCAbove == [i \in {folder, file} |-> IF i = file THEN {folder} ELSE {}]

Budget(edits, changes, switches, scripts) ==
    [edits |-> edits, changes |-> changes, switches |-> switches, scripts |-> scripts]

MCBudgets ==
    {Budget(2, 0, 1, 0), Budget(1, 1, 1, 0), Budget(0, 0, 2, 0),
     Budget(1, 0, 0, 1), Budget(0, 1, 0, 2)}
=============================================================================
