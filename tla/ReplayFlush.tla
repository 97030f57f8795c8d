---------------------------- MODULE ReplayFlush ----------------------------
(***************************************************************************)
(* The replay task FlushPendingStripes composed with the back-end flush it *)
(* starts. FlushPendingActiveStripes pushes every closed write-buffer      *)
(* stripe toward its back-end destination (spec 4.7), which is a           *)
(* FlushSubmission event per stripe; the allocator that creates them is    *)
(* not in the repository. The events then run, fail, retry and complete   *)
(* while the task reports its last sub-task and is destroyed. A stripe     *)
(* with no event yet is "none" to FlushSubmission.                         *)
(***************************************************************************)
EXTENDS Integers

CONSTANTS
    Lsids, Tails, MaxRecords, MaxSkips, None,
    MaxTranslateFailures, MaxSubmitFailures, MaxStops

VARIABLES
    pending, i, pc, tail, flushedOut, progress, skipped,  \* replay
    st, pendingFlush, callbackNotCalledCount, faults          \* flush

replayVars == <<pending, i, pc, tail, flushedOut, progress, skipped>>
flushVars == <<st, pendingFlush, callbackNotCalledCount, faults>>
vars == <<replayVars, flushVars>>

R == INSTANCE FlushPendingStripes

F == INSTANCE FlushSubmission WITH Stripes <- Lsids

Init ==
    /\ R!Init
    /\ st = [l \in Lsids |-> "none"]
    /\ F!InitCounters

\* The bulk flush creates a flush event for each stripe it pushes.
BulkFlush ==
    /\ R!BulkFlush
    /\ st' = [l \in Lsids |-> IF l \in flushedOut' THEN "queued" ELSE st[l]]
    /\ UNCHANGED <<pendingFlush, callbackNotCalledCount, faults>>

Next ==
    \/ (R!LoopStep \/ R!ReportReconstructed \/ R!ReportFlushed \/ R!Destroy)
         /\ UNCHANGED flushVars
    \/ BulkFlush
    \/ F!Next /\ UNCHANGED replayVars

Spec == Init /\ [][Next]_vars

(***************************************************************************)
(* Properties.                                                             *)
(***************************************************************************)

(***************************************************************************)
(* When Start returns, every stripe of a record that was not skipped is    *)
(* closed at its recorded tail and pushed, while the pushed stripes'       *)
(* flushes are already running (FlushPendingStripes::Start).               *)
(***************************************************************************)
TailsReconstructed == R!TailsReconstructed

(***************************************************************************)
(* Once the replay task has been destroyed and every flush event it       *)
(* started has finished, no flush is counted as pending: a back end that   *)
(* waits for pendingFlush to drain after replay is not kept waiting        *)
(* (FlushSubmission::Execute, its retries and its completions).            *)
(***************************************************************************)
ReplayFlushDrains ==
    pc = "freed" /\ (\A l \in Lsids : st[l] \in {"none", "done"}) => pendingFlush = 0
=============================================================================
