--------------------------- MODULE FlushSubmission ---------------------------
(***************************************************************************)
(* FlushSubmission::Execute (src/src/io/backend_io/flush_submission.cpp),  *)
(* the back-end event that writes a full write-buffer stripe to its user   *)
(* stripe. It increments the global pendingFlush, translates the stripe's  *)
(* write-buffer address, and either gives up (translation failed: the      *)
(* count is taken back, callbackNotCalledCount is incremented and the      *)
(* event is done) or submits the write with a StripeMapUpdateRequest       *)
(* callback. SubmitAsyncIO's result decides the return value: SUCCESS and  *)
(* FAIL_IN_SYSTEM_STOP finish the event, any other failure returns false   *)
(* and the event scheduler runs Execute again. The callback, the submit    *)
(* handler and the event scheduler are not in the repository: a submitted  *)
(* write completes its callback once, which takes one off pendingFlush;    *)
(* a submit that fails or meets system stop issues no write.               *)
(***************************************************************************)
EXTENDS Integers, FiniteSets

CONSTANTS
    Stripes,
    MaxTranslateFailures,
    MaxSubmitFailures,      \* submits returning a failure other than stop
    MaxStops                \* submits returning FAIL_IN_SYSTEM_STOP

VARIABLES
    st,                     \* stripe -> "queued" | "inflight" | "done"
    pendingFlush,
    callbackNotCalledCount,
    faults                  \* [translate, submit, stop] failures so far

vars == <<st, pendingFlush, callbackNotCalledCount, faults>>

Outcomes == {"TRANSLATE_FAIL", "SUCCESS", "FAIL", "FAIL_IN_SYSTEM_STOP"}

\* The environment's bound on each kind of failure.
Allowed(o) ==
    CASE o = "TRANSLATE_FAIL"      -> faults.translate < MaxTranslateFailures
      [] o = "FAIL"                -> faults.submit < MaxSubmitFailures
      [] o = "FAIL_IN_SYSTEM_STOP" -> faults.stop < MaxStops
      [] o = "SUCCESS"             -> TRUE

Counted(o) ==
    [faults EXCEPT !.translate = @ + (IF o = "TRANSLATE_FAIL" THEN 1 ELSE 0),
                   !.submit = @ + (IF o = "FAIL" THEN 1 ELSE 0),
                   !.stop = @ + (IF o = "FAIL_IN_SYSTEM_STOP" THEN 1 ELSE 0)]

\* The state of the stripe's event after Execute met outcome o.
After(o) ==
    CASE o = "TRANSLATE_FAIL"      -> "done"
      [] o = "SUCCESS"             -> "inflight"
      [] o = "FAIL"                -> "queued"
      [] o = "FAIL_IN_SYSTEM_STOP" -> "done"

\* The event scheduler runs Execute for stripe s, meeting outcome o.
Execute(s, o) ==
    /\ st[s] = "queued"
    /\ Allowed(o)
    /\ st' = [st EXCEPT ![s] = After(o)]
    /\ pendingFlush' = pendingFlush + 1 - (IF o = "TRANSLATE_FAIL" THEN 1 ELSE 0)
    /\ callbackNotCalledCount' = callbackNotCalledCount
                                   + (IF o = "TRANSLATE_FAIL" THEN 1 ELSE 0)
    /\ faults' = Counted(o)

\* The stripe's write completes and StripeMapUpdateRequest runs.
Callback(s) ==
    /\ st[s] = "inflight"
    /\ st' = [st EXCEPT ![s] = "done"]
    /\ pendingFlush' = pendingFlush - 1
    /\ UNCHANGED <<callbackNotCalledCount, faults>>

\* The counters and the fault budget at start.
InitCounters ==
    /\ pendingFlush = 0
    /\ callbackNotCalledCount = 0
    /\ faults = [translate |-> 0, submit |-> 0, stop |-> 0]

Init ==
    /\ st = [s \in Stripes |-> "queued"]
    /\ InitCounters

Next ==
    \/ \E s \in Stripes, o \in Outcomes : Execute(s, o)
    \/ \E s \in Stripes : Callback(s)

Spec == Init /\ [][Next]_vars

(***************************************************************************)
(* Properties.                                                             *)
(***************************************************************************)

InFlight == {s \in Stripes : st[s] = "inflight"}

=============================================================================
