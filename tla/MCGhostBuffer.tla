--------------------------- MODULE MCGhostBuffer ---------------------------
(* GhostBuffer on a file of two lines, the second without a line break.    *)
EXTENDS GhostBuffer

CONSTANTS c1, c2

MCFiles == {<<c1, EOL, c2>>}
MCInserts == {<<c2>>, <<c1, EOL>>}
=============================================================================
