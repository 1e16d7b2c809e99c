---------------------------- MODULE AbstractScan ----------------------------
(***************************************************************************)
(* What a folder scan promises to the window that started it: items are    *)
(* found one after the other while the scan is busy, each is compared once *)
(* after it was found, and the scan is over only when it was aborted or    *)
(* nothing is left to compare.  Only an aborted scan may still find items  *)
(* after it is over.  FolderScan implements it with a collector            *)
(* thread, a pool of compare threads, a semaphore and a shared cursor.     *)
(***************************************************************************)
EXTENDS Naturals

CONSTANT Items      \* whatever the two folders may contain

VARIABLES found, compared, state, aborted

vars == <<found, compared, state, aborted>>

Init == found = {} /\ compared = {} /\ state = "busy" /\ aborted = FALSE

Find ==
    /\ state = "busy" \/ aborted
    /\ \E i \in Items \ found : found' = found \union {i}
    /\ UNCHANGED <<compared, state, aborted>>

Compare ==
    /\ state = "busy"
    /\ \E i \in found \ compared : compared' = compared \union {i}
    /\ UNCHANGED <<found, state, aborted>>

Abort ==
    /\ aborted' = TRUE
    /\ UNCHANGED <<found, compared, state>>

End ==
    /\ state = "busy"
    /\ aborted \/ compared = found
    /\ state' = "over"
    /\ UNCHANGED <<found, compared, aborted>>

Next == Find \/ Compare \/ Abort \/ End

Spec == Init /\ [][Next]_vars
=============================================================================
