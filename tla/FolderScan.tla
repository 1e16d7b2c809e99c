----------------------------- MODULE FolderScan -----------------------------
(***************************************************************************)
(* One folder scan of WinMerge 2011, from the moment                       *)
(* CDiffContext::CompareDirectories has set up its shared state until the  *)
(* window has handled the MSG_UI_UPDATE the last compare thread posts.     *)
(*                                                                         *)
(* The UI thread starts one collector thread (DiffThreadCollect) and a     *)
(* pool of compare threads (DiffThreadCompare).  The collector appends     *)
(* items to a tree without a lock and hands out one semaphore token per    *)
(* finished item; a compare thread takes a token, advances the shared      *)
(* cursor m_diCompareThread under m_csCompareThread, and compares the item *)
(* it finds there.  The last compare thread tears the shared state down.   *)
(*                                                                         *)
(* What the items compare to is the subject of FolderResults.              *)
(***************************************************************************)
EXTENDS Integers, Sequences, FiniteSets

CONSTANTS
    Threads,        \* the compare threads CompareDirectories tries to start
    MaxItems,       \* bound: items below both root folders
    MayFail,        \* threads BeginThreadEx may fail to start: a subset of
                    \* {"collector", "compare"}
    MayAbort        \* BOOLEAN: may the user press Cancel?

ASSUME ThreadsAssumption  == IsFiniteSet(Threads) /\ Threads # {}
ASSUME MaxItemsAssumption == MaxItems \in Nat
ASSUME FlagsAssumption    == MayFail \subseteq {"collector", "compare"} /\ MayAbort \in BOOLEAN

VARIABLES
    items,          \* the DIFFITEM tree, its items numbered in the order
                    \* AddDiff links them: each has its parent (0: none) and
                    \* the set of its ancestors, the chain of parent pointers
    ready,          \* items whose diffcode AddToList has assigned
    colPc,          \* where the collector thread is
    pc,             \* where each compare thread is
    item,           \* the item each compare thread holds (di), 0 for NULL
    cursor,         \* m_diCompareThread, 0 for NULL
    tokens,         \* count of the semaphore m_hSemaphore
    busy,           \* m_hSemaphore # NULL, which is what IsBusy() tests
    csInit,         \* m_csCompareThread is initialised
    nCompareThreads,
    aborting,       \* m_bAborting
    paused,         \* CompareStats::paused
    button,         \* what the dialog's Pause/Continue button does next
    compared,       \* items CompareDiffItem has been through
    nTotal,         \* CompareStats::m_nTotalItems
    nCompared,      \* CompareStats::m_nComparedItems
    ui              \* "scanning", "posted" (MSG_UI_UPDATE queued), "updated"

tree   == <<items, ready>>
pool   == <<pc, item, cursor, tokens, busy, csInit, nCompareThreads>>
stats  == <<compared, nTotal, nCompared>>
user   == <<aborting, paused, button, ui>>
vars   == <<tree, colPc, pool, stats, user>>

-----------------------------------------------------------------------------
(* The item tree and the walk over it.                                     *)

Linked == 1 .. Len(items)

Chain(i) == items[i].above \union {i}

Children(p) == { i \in Linked : items[i].parent = p }

LaterSiblings(i) == { j \in Children(items[i].parent) : j > i }

\* Flink order is link order, so the first of a list is its smallest member.
First(S) == IF S = {} THEN 0 ELSE CHOOSE i \in S : \A j \in S : i <= j

Nearest(S) == CHOOSE i \in S : \A j \in S : j <= i

\* Mutant: an "if" where GetNextDiff has a "while", so the walk never climbs.
GetNextDiffNoClimb(p) ==
    IF Children(p) # {} THEN First(Children(p))
    ELSE IF p = 0 THEN 0 ELSE First(LaterSiblings(p))

\* Mutant: a list read past its head.
GetNextDiffNoEnd(p) == IF Children(p) # {} THEN First(Children(p)) ELSE p + 1

\* DiffItemList::GetNextDiff: the first child; else the next sibling of the
\* nearest of p and its ancestors that has one; else NULL.
GetNextDiff(p) ==
    IF Children(p) # {} THEN First(Children(p))
    ELSE IF p = 0 THEN 0
    ELSE LET climb == { q \in Chain(p) : LaterSiblings(q) # {} }
         IN  IF climb = {} THEN 0 ELSE First(LaterSiblings(Nearest(climb)))

-----------------------------------------------------------------------------
Init ==
    /\ items = << >> /\ ready = {}
    /\ colPc = "new"
    /\ pc = [t \in Threads |-> "new"]
    /\ item = [t \in Threads |-> 0]
    /\ cursor = 0 /\ tokens = 0
    /\ busy = TRUE /\ csInit = TRUE
    /\ nCompareThreads = Cardinality(Threads)
    /\ aborting = FALSE /\ paused = FALSE /\ button = "pause"
    /\ compared = {} /\ nTotal = 0 /\ nCompared = 0
    /\ ui = "scanning"

-----------------------------------------------------------------------------
(* The UI thread: CompareDirectories starts the threads, the progress      *)
(* dialog aborts, pauses and continues, DirView handles MSG_UI_UPDATE.     *)

StartCollector ==
    /\ colPc = "new"
    /\ \/ colPc' = "walk"
       \/ "collector" \in MayFail /\ colPc' = "failed"
    /\ UNCHANGED <<tree, pool, stats, user>>

\* The compare threads are started after the collector.  A thread that could
\* not be created is only subtracted from the count.
StartCompareThread(t) ==
    /\ colPc # "new"
    /\ pc[t] = "new"
    /\ \/ /\ pc' = [pc EXCEPT ![t] = "wait"]
          /\ UNCHANGED nCompareThreads
       \/ /\ "compare" \in MayFail
          /\ pc' = [pc EXCEPT ![t] = "failed"]
          /\ nCompareThreads' = nCompareThreads - 1
    /\ UNCHANGED <<tree, colPc, item, cursor, tokens, busy, csInit, stats, user>>

\* The progress dialog lives until the window has handled MSG_UI_UPDATE.
Cancel ==
    /\ MayAbort
    /\ ui # "updated"
    /\ aborting' = TRUE
    /\ paused' = FALSE
    /\ UNCHANGED <<tree, colPc, pool, stats, button, ui>>

PauseContinue ==
    /\ ui # "updated"
    /\ paused' = (button = "pause")
    /\ button' = IF button = "pause" THEN "continue" ELSE "pause"
    /\ UNCHANGED <<tree, colPc, pool, stats, aborting, ui>>

UpdateUI ==
    /\ ui = "posted"
    /\ ui' = "updated"
    /\ UNCHANGED <<tree, colPc, pool, stats, aborting, paused, button>>

-----------------------------------------------------------------------------
(* The collector thread: DirScan_GetItems and AddToList.                   *)

\* ShouldAbort() before the next item; the walk also ends when both folders
\* have been read, or with an exception that DiffThreadCollect catches.
CollectCheck ==
    /\ colPc = "walk"
    /\ ~paused
    /\ \/ ~aborting /\ Len(items) < MaxItems /\ colPc' = "link"
       \/ colPc' = "finish"
    /\ UNCHANGED <<tree, pool, stats, user>>

\* AddDiff(parent): the item is in the list, its fields are not assigned.
\* DirScan_GetItems recurses into a folder right after adding it, so the
\* parent is the item added last, one of its ancestors, or the root.
CollectLink ==
    /\ colPc = "link"
    /\ LET n    == Len(items)
           path == IF n = 0 THEN {} ELSE Chain(n)
       IN  \E parent \in path \union {0} :
             items' = Append(items, [parent |-> parent, above |-> { a \in path : a <= parent }])
    /\ colPc' = "assign"
    /\ UNCHANGED <<ready, pool, stats, user>>

\* Releasing a closed semaphore, or by a count that is not positive, fails
\* and changes nothing.
ReleaseSemaphore(n) == tokens' = IF busy /\ n > 0 THEN tokens + n ELSE tokens

\* Mutant: the token is handed out before the item is complete.
CollectAssignEarlyToken ==
    /\ colPc = "assign"
    /\ ReleaseSemaphore(1)
    /\ nTotal' = nTotal + 1
    /\ colPc' = "release"
    /\ UNCHANGED <<tree, pc, item, cursor, busy, csInit, nCompareThreads,
                   compared, nCompared, user>>

\* Mutant: IncreaseTotalItems() forgotten.
CollectAssignUncounted ==
    /\ colPc = "assign"
    /\ ready' = ready \union {Len(items)}
    /\ colPc' = "release"
    /\ UNCHANGED <<items, pool, stats, user>>

\* The rest of AddToList up to IncreaseTotalItems().
CollectAssign ==
    /\ colPc = "assign"
    /\ ready' = ready \union {Len(items)}
    /\ nTotal' = nTotal + 1
    /\ colPc' = "release"
    /\ UNCHANGED <<items, pool, compared, nCompared, user>>

CollectRelease ==
    /\ colPc = "release"
    /\ ReleaseSemaphore(1)
    /\ colPc' = "walk"
    /\ UNCHANGED <<tree, pc, item, cursor, busy, csInit, nCompareThreads, stats, user>>

\* Mutant: one token instead of one per compare thread.
CollectFinishOneToken ==
    /\ colPc = "finish"
    /\ ReleaseSemaphore(1)
    /\ colPc' = "done"
    /\ UNCHANGED <<tree, pc, item, cursor, busy, csInit, nCompareThreads, stats, user>>

\* One token per compare thread tells the pool that collecting is over.
CollectFinish ==
    /\ colPc = "finish"
    /\ ReleaseSemaphore(nCompareThreads)
    /\ colPc' = "done"
    /\ UNCHANGED <<tree, pc, item, cursor, busy, csInit, nCompareThreads, stats, user>>

-----------------------------------------------------------------------------
(* A compare thread: DirScan_CompareItems inside DiffThreadCompare.        *)

Wait(t) ==
    /\ pc[t] = "wait"
    /\ tokens > 0
    /\ tokens' = tokens - 1
    /\ pc' = [pc EXCEPT ![t] = "pick"]
    /\ UNCHANGED <<tree, colPc, item, cursor, busy, csInit, nCompareThreads, stats, user>>

\* Mutant: the cursor is read but not advanced.
PickStale(t) ==
    /\ pc[t] = "pick"
    /\ item' = [item EXCEPT ![t] = GetNextDiff(cursor)]
    /\ pc' = [pc EXCEPT ![t] = IF GetNextDiff(cursor) # 0 THEN "check" ELSE "leave"]
    /\ UNCHANGED <<tree, colPc, cursor, tokens, busy, csInit, nCompareThreads, stats, user>>

\* Inside m_csCompareThread.
Pick(t) ==
    /\ pc[t] = "pick"
    /\ LET p == GetNextDiff(cursor)
       IN  /\ item' = [item EXCEPT ![t] = p]
           /\ IF p # 0 THEN /\ cursor' = p
                            /\ pc' = [pc EXCEPT ![t] = "check"]
                       ELSE /\ UNCHANGED cursor
                            /\ pc' = [pc EXCEPT ![t] = "leave"]
    /\ UNCHANGED <<tree, colPc, tokens, busy, csInit, nCompareThreads, stats, user>>

\* ShouldAbort() waits on the event while the scan is paused.
Check(t) ==
    /\ pc[t] = "check"
    /\ ~paused
    /\ pc' = [pc EXCEPT ![t] = IF aborting THEN "leave" ELSE "compare"]
    /\ UNCHANGED <<tree, colPc, item, cursor, tokens, busy, csInit, nCompareThreads, stats, user>>

\* CompareDiffItem up to StoreDiffData.
Compare(t) ==
    /\ pc[t] = "compare"
    /\ compared' = compared \union {item[t]}
    /\ pc' = [pc EXCEPT ![t] = "store"]
    /\ UNCHANGED <<tree, colPc, item, cursor, tokens, busy, csInit, nCompareThreads,
                   nTotal, nCompared, user>>

\* CompareStats::AddItem, then back to the top of the loop.
Store(t) ==
    /\ pc[t] = "store"
    /\ nCompared' = nCompared + 1
    /\ item' = [item EXCEPT ![t] = 0]
    /\ pc' = [pc EXCEPT ![t] = "wait"]
    /\ UNCHANGED <<tree, colPc, cursor, tokens, busy, csInit, nCompareThreads,
                   compared, nTotal, user>>

\* Mutant: off by one.
LastOneOutEarly(n) == n <= 1

\* InterlockedDecrement(&m_nCompareThreads) <= 0 selects the last one out.
LastOneOut(n) == n <= 0

Leave(t) ==
    /\ pc[t] = "leave"
    /\ nCompareThreads' = nCompareThreads - 1
    /\ pc' = [pc EXCEPT ![t] = IF LastOneOut(nCompareThreads - 1) THEN "close" ELSE "done"]
    /\ item' = [item EXCEPT ![t] = 0]
    /\ UNCHANGED <<tree, colPc, cursor, tokens, busy, csInit, stats, user>>

Close(t) ==
    /\ pc[t] = "close"
    /\ busy' = FALSE
    /\ tokens' = 0
    /\ pc' = [pc EXCEPT ![t] = "delete"]
    /\ UNCHANGED <<tree, colPc, item, cursor, csInit, nCompareThreads, stats, user>>

Delete(t) ==
    /\ pc[t] = "delete"
    /\ csInit' = FALSE
    /\ pc' = [pc EXCEPT ![t] = "post"]
    /\ UNCHANGED <<tree, colPc, item, cursor, tokens, busy, nCompareThreads, stats, user>>

Post(t) ==
    /\ pc[t] = "post"
    /\ ui' = "posted"
    /\ pc' = [pc EXCEPT ![t] = "done"]
    /\ UNCHANGED <<tree, colPc, item, cursor, tokens, busy, csInit, nCompareThreads,
                   stats, aborting, paused, button>>

-----------------------------------------------------------------------------
UIThread == StartCollector \/ (\E t \in Threads : StartCompareThread(t)) \/ UpdateUI

Collector == CollectCheck \/ CollectLink \/ CollectAssign \/ CollectRelease \/ CollectFinish

CompareThread(t) ==
    \/ Wait(t) \/ Pick(t) \/ Check(t) \/ Compare(t) \/ Store(t)
    \/ Leave(t) \/ Close(t) \/ Delete(t) \/ Post(t)

Next ==
    \/ UIThread \/ Cancel \/ PauseContinue
    \/ Collector
    \/ \E t \in Threads : CompareThread(t)

Spec == Init /\ [][Next]_vars

\* Threads keep running; nothing obliges the user to do anything.  A thread
\* inside ShouldAbort() waits for a manual-reset event, and setting it wakes
\* every waiter even if the user pauses again at once: strong fairness.
Fairness ==
    /\ WF_vars(UIThread)
    /\ WF_vars(Collector) /\ SF_vars(CollectCheck)
    /\ \A t \in Threads : WF_vars(CompareThread(t)) /\ SF_vars(Check(t))

FairSpec == Spec /\ Fairness

-----------------------------------------------------------------------------
(* Properties.                                                             *)

ThreadPc == {"new", "failed", "wait", "pick", "check", "compare", "store",
             "leave", "close", "delete", "post", "done"}

ItemType == [parent : Nat, above : SUBSET Nat]

TypeOK ==
    /\ items \in Seq(ItemType)
    /\ ready \subseteq Linked
    /\ colPc \in {"new", "failed", "walk", "link", "assign", "release", "finish", "done"}
    /\ pc \in [Threads -> ThreadPc]
    /\ item \in [Threads -> 0 .. Len(items)]
    /\ cursor \in 0 .. Len(items)
    /\ tokens \in Nat
    /\ nCompareThreads \in Int
    /\ busy \in BOOLEAN /\ csInit \in BOOLEAN
    /\ aborting \in BOOLEAN /\ paused \in BOOLEAN
    /\ compared \subseteq Linked
    /\ nTotal \in Nat /\ nCompared \in Nat
    /\ button \in {"pause", "continue"}
    /\ ui \in {"scanning", "posted", "updated"}

Holding(t) == pc[t] \in {"check", "compare", "store"}

\* The collector links an item into the list before it has assigned the
\* item's fields, without a lock (AddToList).  The tokens keep every compare
\* thread behind it: an item in a thread's hands is complete.
PickedIsReady == \A t \in Threads : Holding(t) => item[t] \in ready

\* The cursor under m_csCompareThread gives every item to one thread, once.
NoItemTwice ==
    \A t \in Threads : pc[t] \in {"check", "compare"} =>
        /\ item[t] \notin compared
        /\ \A u \in Threads \ {t} : Holding(u) => item[u] # item[t]

\* The assertion in CompareStats::AddItem.
ComparedWithinTotal == nCompared <= nTotal

\* The semaphore and the critical section outlive every compare thread that
\* may still use them, those not yet started included (DiffThreadCompare).
LastOneOutClosesUp ==
    \A t \in Threads :
        pc[t] \in {"new", "wait", "pick", "check", "compare", "store", "leave"} => busy /\ csInit

\* A scan that the user did not cancel reports back only after every item
\* the collector found has been compared and counted.
ReportedScanIsComplete ==
    ui # "scanning" /\ ~aborting =>
        /\ colPc = "done"
        /\ compared = Linked
        /\ nCompared = nTotal

\* Once IsBusy() is FALSE the UI thread may rescan or delete the context
\* (CDirFrame::Rescan, PreventFromClosing), so the collector must be gone.
CollectorGoneWhenIdle == ~busy => colPc = "done"

\* Every scan ends with the window updated, cancelled or not, unless the
\* user leaves it paused (DirView.cpp: "thread asks update after compare is
\* ready or aborted").
ScanEnds == <>(ui = "updated") \/ <>[]paused

ThreadLost == colPc = "failed" \/ \E t \in Threads : pc[t] = "failed"

\* The same for a scan all of whose threads could be started: the last token,
\* Cancel and Pause reach every thread of the pool.
ScanEndsUnlessThreadLost == ScanEnds \/ <>ThreadLost

\* What a folder scan promises, whatever threads carry it out.
Abstract == INSTANCE AbstractScan WITH
    Items    <- 1 .. MaxItems,
    found    <- ready,
    compared <- compared,
    state    <- IF busy THEN "busy" ELSE "over",
    aborted  <- aborting

AbstractSpec == Abstract!Spec
=============================================================================
