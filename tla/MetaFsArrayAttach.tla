------------------------- MODULE MetaFsArrayAttach -------------------------
(***************************************************************************)
(* Attaching and detaching an array to the metadata I/O workers:          *)
(* MetaFsIoApi::AddArray/RemoveArray call MetaFsIoScheduler::AddArrayInfo/ *)
(* RemoveArrayInfo, which walk metaIoWorkerList in order and stop at the   *)
(* first worker whose own AddArrayInfo/RemoveArrayInfo fails, returning    *)
(* false and leaving the earlier workers changed. The worker's call is in  *)
(* mio_handler.cpp, not part of this repository: it may fail (up to        *)
(* MaxFaults times) and otherwise adds or removes the array. The worker    *)
(* list is a variable so that MetaFsSetup can bind it to the handlers      *)
(* MetaFsService registers; here it holds NumWorkers workers.              *)
(***************************************************************************)
EXTENDS Integers, Sequences

CONSTANTS
    Workers,        \* handler ids
    NumWorkers,     \* totalMioHandlerCnt of the stand-alone list
    Arrays,         \* array ids
    MaxFaults       \* failing worker calls

VARIABLES
    workerList, \* metaIoWorkerList
    attached,   \* worker -> arrays in its table
    op,         \* the AddArray/RemoveArray call in progress, or Idle
    ret,        \* result of the last returned call
    faults,     \* worker calls that failed so far
    failedIn    \* history: a worker call of the current op failed

vars == <<workerList, attached, op, ret, faults, failedIn>>

Idle == [kind |-> "none", array |-> 0, idx |-> 0, result |-> TRUE]

\* AddArray(arrayId) / RemoveArray(arrayId): result = true, loop from the
\* first worker.
Call(kind, a) ==
    /\ op = Idle
    /\ op' = [kind |-> kind, array |-> a, idx |-> 0, result |-> TRUE]
    /\ failedIn' = FALSE
    /\ UNCHANGED <<workerList, attached, ret, faults>>

\* metaIoWorker->AddArrayInfo / RemoveArrayInfo succeeds.
WorkerApply(w, kind, a) ==
    attached' = [attached EXCEPT ![w] =
                   IF kind = "add" THEN @ \cup {a} ELSE @ \ {a}]

\* The worker call fails (its state unchanged).
WorkerFail ==
    /\ faults < MaxFaults
    /\ faults' = faults + 1
    /\ failedIn' = TRUE
    /\ UNCHANGED attached

\* A loop that ignores the worker's return value.
StepIgnoreFailure ==
    /\ op # Idle
    /\ op.idx < Len(workerList)
    /\ \/ WorkerApply(workerList[op.idx + 1], op.kind, op.array)
          /\ UNCHANGED <<faults, failedIn>>
       \/ WorkerFail
    /\ op' = [op EXCEPT !.idx = @ + 1]
    /\ UNCHANGED <<workerList, ret>>

\* One iteration: the worker call succeeds and the loop moves on, or it
\* fails, result = false and the loop breaks (lines 150-157, 167-174).
Step ==
    /\ op # Idle
    /\ op.idx < Len(workerList)
    /\ \/ /\ WorkerApply(workerList[op.idx + 1], op.kind, op.array)
          /\ op' = [op EXCEPT !.idx = @ + 1]
          /\ UNCHANGED <<faults, failedIn>>
       \/ /\ WorkerFail
          /\ op' = [op EXCEPT !.idx = Len(workerList), !.result = FALSE]
    /\ UNCHANGED <<workerList, ret>>

\* After the loop: return result.
Finish ==
    /\ op # Idle
    /\ op.idx = Len(workerList)
    /\ op' = Idle
    /\ ret' = [kind |-> op.kind, array |-> op.array, ok |-> op.result]
    /\ UNCHANGED <<workerList, attached, faults, failedIn>>

\* The worker tables and the call state, for any worker list.
InitAttach ==
    /\ attached = [w \in Workers |-> {}]
    /\ op = Idle
    /\ ret = [kind |-> "none", array |-> 0, ok |-> TRUE]
    /\ faults = 0
    /\ failedIn = FALSE

Init ==
    /\ workerList = [k \in 1 .. NumWorkers |-> k - 1]
    /\ InitAttach

Next ==
    \/ \E kind \in {"add", "remove"}, a \in Arrays : Call(kind, a)
    \/ Step
    \/ Finish

Spec == Init /\ [][Next]_vars

(***************************************************************************)
(* Properties.                                                             *)
(***************************************************************************)

TypeOK ==
    /\ attached \in [Workers -> SUBSET Arrays]
    /\ op.kind \in {"none", "add", "remove"}
    /\ faults \in 0 .. MaxFaults

(***************************************************************************)
(* AddArray/RemoveArray report success only when no worker call of theirs  *)
(* failed and every worker now holds the array (add) or none does          *)
(* (remove): a partial failure, which the code does not roll back, always  *)
(* reaches the caller (spec 8, array attach atomicity of reporting).       *)
(***************************************************************************)
ReportedResult ==
    [][op # Idle /\ op' = Idle /\ ret'.ok =>
         /\ ~failedIn
         /\ \A k \in DOMAIN workerList :
               (op.array \in attached'[workerList[k]]) = (op.kind = "add")]_vars
=============================================================================
