------------------------- MODULE FlushPendingStripes -------------------------
(***************************************************************************)
(* The replay task FlushPendingStripes                                     *)
(* (src/poseidonos-main/src/journal_manager/replay/flush_pending_stripes.  *)
(* cpp). Start calls FinishReconstructedStripe(wbLsid, tailVsa) for every  *)
(* pending stripe record in list order, reports a sub-task done, calls     *)
(* FlushPendingActiveStripes once and reports the second of its            *)
(* GetNumSubTasks() = 2 sub-tasks; the destructor frees the records. The   *)
(* write-buffer stripe allocator is not in the repository and is modelled  *)
(* from the spec (4.7): finishing a record closes the stripe at the        *)
(* recorded tail, or fails and skips that record; the bulk flush pushes    *)
(* every closed stripe to the back end. The records are an input chosen in *)
(* Init: distinct write-buffer stripes with their tails.                   *)
(***************************************************************************)
EXTENDS Integers, Sequences, FiniteSets

CONSTANTS
    Lsids,          \* write-buffer logical stripe ids
    Tails,          \* tail offsets reachable before the crash
    MaxRecords,
    MaxSkips,       \* records whose reconstruction fails
    None

NumSubTasks == 2    \* GetNumSubTasks

VARIABLES
    pending,        \* pendingStripes: <<[wbLsid, tailVsa]>>
    i,              \* the loop's position in pending
    pc,             \* "loop" | "reported" | "flushed" | "done" | "freed"
    tail,           \* allocator: lsid -> tail it was closed at, or None
    flushedOut,     \* allocator: stripes the bulk flush pushed
    progress,       \* sub-tasks reported done
    skipped         \* records whose reconstruction failed

vars == <<pending, i, pc, tail, flushedOut, progress, skipped>>

\* The possible pending stripe lists: distinct stripes, each with a tail.
RecordLists ==
    UNION {{r \in [1 .. n -> [wbLsid : Lsids, tailVsa : Tails]] :
              \A a, b \in 1 .. n : a # b => r[a].wbLsid # r[b].wbLsid}
           : n \in 0 .. MaxRecords}

\* allocator FinishReconstructedStripe(wbLsid, tailVsa): the stripe is
\* closed at the recorded tail, or the record fails and is skipped.
FinishReconstructedStripe(rec) ==
    \/ /\ tail' = [tail EXCEPT ![rec.wbLsid] = rec.tailVsa]
       /\ UNCHANGED skipped
    \/ /\ Cardinality(skipped) < MaxSkips
       /\ skipped' = skipped \cup {rec.wbLsid}
       /\ UNCHANGED tail

\* One iteration of Start's loop over pendingStripes (lines 77-88).
LoopStep ==
    /\ pc = "loop"
    /\ i <= Len(pending)
    /\ FinishReconstructedStripe(pending[i])
    /\ i' = i + 1
    /\ UNCHANGED <<pending, pc, flushedOut, progress>>

\* The first SubTaskCompleted reached with the last record still unvisited.
ReportReconstructedEarly ==
    /\ pc = "loop"
    /\ i >= Len(pending)
    /\ progress' = progress + 1
    /\ pc' = "reported"
    /\ UNCHANGED <<pending, i, tail, flushedOut, skipped>>

\* After the loop: the first SubTaskCompleted (line 89).
ReportReconstructed ==
    /\ pc = "loop"
    /\ i > Len(pending)
    /\ progress' = progress + 1
    /\ pc' = "reported"
    /\ UNCHANGED <<pending, i, tail, flushedOut, skipped>>

\* FlushPendingActiveStripes (line 91): every closed stripe is pushed.
BulkFlush ==
    /\ pc = "reported"
    /\ flushedOut' = {l \in Lsids : tail[l] # None}
    /\ pc' = "flushed"
    /\ UNCHANGED <<pending, i, tail, progress, skipped>>

\* The second SubTaskCompleted and the return (lines 92-93).
ReportFlushed ==
    /\ pc = "flushed"
    /\ progress' = progress + 1
    /\ pc' = "done"
    /\ UNCHANGED <<pending, i, tail, flushedOut, skipped>>

\* ~FlushPendingStripes: the records are deleted and the list cleared.
Destroy ==
    /\ pc = "done"
    /\ pending' = <<>>
    /\ pc' = "freed"
    /\ UNCHANGED <<i, tail, flushedOut, progress, skipped>>

Init ==
    /\ pending \in RecordLists
    /\ i = 1
    /\ pc = "loop"
    /\ tail = [l \in Lsids |-> None]
    /\ flushedOut = {}
    /\ progress = 0
    /\ skipped = {}

Next == LoopStep \/ ReportReconstructed \/ BulkFlush \/ ReportFlushed \/ Destroy

Spec == Init /\ [][Next]_vars

(***************************************************************************)
(* Properties.                                                             *)
(***************************************************************************)

Recorded(l) == \E k \in DOMAIN pending : pending[k].wbLsid = l

(***************************************************************************)
(* When Start returns, every record that was not skipped has its stripe    *)
(* closed at exactly its recorded tail and pushed by the bulk flush; a    *)
(* skipped record leaves its stripe untouched and unflushed; both sub-     *)
(* tasks have been reported (spec 8, replay).                              *)
(***************************************************************************)
TailsReconstructed ==
    pc = "done" =>
        /\ \A k \in DOMAIN pending :
              LET l == pending[k].wbLsid IN
              IF l \in skipped THEN tail[l] = None /\ l \notin flushedOut
              ELSE tail[l] = pending[k].tailVsa /\ l \in flushedOut
        /\ \A l \in Lsids : ~Recorded(l) => tail[l] = None
        /\ progress = NumSubTasks

=============================================================================
