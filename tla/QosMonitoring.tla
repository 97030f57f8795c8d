--------------------------- MODULE QosMonitoring ---------------------------
(***************************************************************************)
(* The volume part of one QoS monitoring cycle (QosMonitoringManager,      *)
(* src/src/qos/monitoring_manager.cpp). With front-end QoS enabled,        *)
(* Execute runs _GatherActiveVolumeParameters:                             *)
(*  - it resets the context's active volumes and the reactors' processed   *)
(*    flags, then busy-waits until every reactor has processed;            *)
(*  - for each reactor and each volume of a subsystem mapped on it, it     *)
(*    drains the volume's parameters: a volume with some is active on that *)
(*    reactor, one with none makes the reactor inactive for it;            *)
(*  - when the volume -> reactor map differs from the last cycle's, it     *)
(*    pushes the map and the inactive reactors to the context;             *)
(*  - _CheckChangeInActiveVolumes runs a stability counter (a function     *)
(*    static) over the context's active volumes, and ResetCorrection is    *)
(*    called when it reports a settled change.                             *)
(* It then recomputes each active volume's connection count if the map     *)
(* changed. Volumes are global ids (arrayId * MAX_VOLUME_COUNT + volumeId).*)
(* Which volumes are mapped on a reactor and which have parameters are     *)
(* inputs, chosen anew in every cycle. The QoS exit flag (IsExitQosSet)    *)
(* can be set at any time; it ends the busy-wait and breaks the per-array  *)
(* loop before any volume is gathered. A reactor may stop reporting for    *)
(* good (at most MaxStalls of them); the exit flag is then the only way    *)
(* out of the busy-wait. Exit set in the middle of the gathering loop is   *)
(* taken as set before it or after it.                                     *)
(* Execute then runs _GatherActiveEventParameters, with or without         *)
(* front-end QoS: for each UDD worker and each backend event, in that      *)
(* order, it dequeues the worker's event parameters and adds each valid    *)
(* entry's bandwidth to the context, until the queue is empty or the exit  *)
(* flag is set. The workers enqueue concurrently (at most MaxEvents        *)
(* entries in all). Every entry carries bandwidth 1, so an event is in the *)
(* context exactly when its bandwidth there is positive. The context's     *)
(* parameters are reset by qosParameter.Reset() in the volume gather       *)
(* (QosParameters is not in the repository; its Reset is taken to clear    *)
(* the event parameters with the volume ones).                             *)
(***************************************************************************)
EXTENDS Integers, FiniteSets, FiniteSetsExt

CONSTANTS
    Volumes,                \* global volume ids, iterated in ascending order
    Reactors,
    StabilityCycleCheck,    \* the literal 10 of _CheckChangeInActiveVolumes
    MaxStalls,              \* reactors that may stop reporting
    Workers,                \* CPU_COUNT of the UDD_IO_WORKER cpu set
    Events,                 \* BackendEvent_Count
    MaxEvents               \* event entries the workers enqueue in all

VARIABLES
    feQos,          \* qosManager->IsFeQosEnabled()
    phase,          \* "idle", "wait": inside the busy-wait, or "events":
                    \* inside _GatherActiveEventParameters
    processed,      \* reactors that reported since ResetAllReactorsProcessed
    volReactor,     \* volReactorMap: <<volume, reactor>> pairs, last cycle
    activeVols,     \* qosContext->GetActiveVolumes()
    prevActive,     \* prevActiveVolumeMap
    stability,      \* static int stabilityCycleCheck
    totalConn,      \* qosContext total connection per volume
    corrected,      \* the last cycle called qosManager->ResetCorrection()
    changeSeen,     \* history: active volumes changed since the last reset
    stableFor,      \* history: checks since the active volumes last changed
    exitQos,        \* IsExitQosSet()
    stalled,        \* reactors that stopped reporting
    evQueue,        \* <<worker, event>> -> entries in its parameter queue
    cursor,         \* <<workerId, event>> of the event loops
    eventBw,        \* event -> bandwidth in the context's AllEventParameter
    sinceReset,     \* history: event -> entries queued at the last reset
                    \* of the context's parameters or enqueued since
    enqueued        \* history: entries enqueued so far

vars == <<feQos, phase, processed, volReactor,
          activeVols, prevActive, stability, totalConn, corrected, changeSeen,
          stableFor, exitQos, stalled, evQueue, cursor, eventBw, sinceReset,
          enqueued>>

volVars == <<feQos, processed, volReactor, activeVols, prevActive, stability,
             totalConn, corrected, changeSeen, stableFor, stalled>>

evVars == <<evQueue, cursor, eventBw, sinceReset, enqueued>>

WorkerIds == 0 .. Workers - 1

EventIds == 0 .. Events - 1

\* Entries of event e queued at all workers.
Queued(e) == MapThenSumSet(LAMBDA w : evQueue[<<w, e>>], WorkerIds)

Pairs == Volumes \X Reactors

ReactorsOf(v, vr) == {r \in Reactors : <<v, r>> \in vr}

(***************************************************************************)
(* _CheckChangeInActiveVolumes(prev, active) with the counter cnt: the     *)
(* return value and the counter after the call.                            *)
(***************************************************************************)
CheckChangeNoRestart(prev, active, cnt) ==
    IF cnt = 0
    THEN [ret |-> FALSE, cnt |-> IF prev = active THEN 0 ELSE 1]
    ELSE IF cnt + 1 = StabilityCycleCheck
         THEN [ret |-> TRUE, cnt |-> 0]
         ELSE [ret |-> FALSE, cnt |-> cnt + 1]

CheckChangeInActiveVolumes(prev, active, cnt) ==
    IF cnt = 0
    THEN [ret |-> FALSE, cnt |-> IF prev = active THEN 0 ELSE 1]
    ELSE IF prev # active
         THEN [ret |-> FALSE, cnt |-> 0]
         ELSE IF cnt + 1 = StabilityCycleCheck
              THEN [ret |-> TRUE, cnt |-> 0]
              ELSE [ret |-> FALSE, cnt |-> cnt + 1]

(***************************************************************************)
(* _ComputeTotalActiveConnection: for each active volume, the sum of the   *)
(* map's entries (each 1) over its reactors; the running sum is reset      *)
(* after each volume.                                                      *)
(***************************************************************************)
ComputeTotalNoReset(active, vr, old) ==
    [v \in Volumes |->
        IF v \in active
        THEN MapThenSumSet(LAMBDA u : Cardinality(ReactorsOf(u, vr)),
                           {u \in active : u <= v})
        ELSE old[v]]

ComputeTotalActiveConnection(active, vr, old) ==
    [v \in Volumes |->
        IF v \in active THEN Cardinality(ReactorsOf(v, vr)) ELSE old[v]]

\* The history variables after a stability check of active against prev.
Observe(prev, active, ret) ==
    /\ changeSeen' = IF ret THEN FALSE ELSE changeSeen \/ prev # active
    /\ stableFor' = IF prev # active THEN 0
                    ELSE IF stableFor < StabilityCycleCheck
                         THEN stableFor + 1 ELSE stableFor

\* Execute with front-end QoS enabled, up to the busy-wait: the context's
\* active volumes and the processed flags are reset.
GatherBegin ==
    /\ phase = "idle"
    /\ feQos
    /\ phase' = "wait"
    /\ activeVols' = {}
    /\ processed' = {}
    /\ eventBw' = [e \in EventIds |-> 0]
    /\ sinceReset' = [e \in EventIds |-> Queued(e)]
    /\ UNCHANGED <<feQos, volReactor, prevActive,
                   stability, totalConn, corrected, changeSeen, stableFor,
                   exitQos, stalled, evQueue, cursor, enqueued>>

\* A reactor's event loop processes the QoS poll.
ReactorProcessed(r) ==
    /\ phase = "wait"
    /\ r \notin processed \cup stalled
    /\ processed' = processed \cup {r}
    /\ UNCHANGED <<feQos, phase, volReactor,
                   activeVols, prevActive, stability, totalConn, corrected, changeSeen,
                   stableFor, exitQos, stalled>>
    /\ UNCHANGED evVars

\* A reactor stops reporting (its event loop no longer runs the QoS poll).
\* Taken in the busy-wait only: GatherBegin reads neither this nor the exit
\* flag, so a stall or an exit while idle acts as one just after it.
ReactorStall(r) ==
    /\ phase = "wait"
    /\ r \notin processed \cup stalled
    /\ Cardinality(stalled) < MaxStalls
    /\ stalled' = stalled \cup {r}
    /\ UNCHANGED <<feQos, phase, processed, volReactor,
                   activeVols, prevActive, stability, totalConn, corrected, changeSeen,
                   stableFor, exitQos>>
    /\ UNCHANGED evVars

\* The QoS manager's exit handler sets the exit flag (see ReactorStall;
\* EventsBegin does not read it either).
SetExitQos ==
    /\ phase \in {"wait", "events"}
    /\ ~exitQos
    /\ exitQos' = TRUE
    /\ UNCHANGED <<feQos, phase, processed, volReactor,
                   activeVols, prevActive, stability, totalConn, corrected, changeSeen,
                   stableFor, stalled>>
    /\ UNCHANGED evVars

\* The busy-wait of lines 260-266 ends: every reactor processed, or exit.
WaitOver == exitQos \/ processed = Reactors

\* What the gathering loop can find: nothing once exit is set, as the
\* per-array loop breaks before reading any subsystem.
Gatherable == IF exitQos THEN {{}} ELSE SUBSET Pairs

(***************************************************************************)
(* The rest of _GatherActiveVolumeParameters after the busy-wait, and of   *)
(* Execute. Of the <<volume, reactor>> pairs whose subsystem is mapped on  *)
(* the reactor, vr are those whose parameter queue holds an entry          *)
(* (VolParamActivities returned true). The inactive reactors recorded for *)
(* the others, and pushed to the context with the map, are left out: no    *)
(* decision of this cycle reads them.                                      *)
(***************************************************************************)
GatherCollect ==
    /\ phase = "wait"
    /\ WaitOver
    /\ \E vr \in Gatherable :
         LET changed == vr # volReactor
             active  == {p[1] : p \in vr}
             chk     == CheckChangeInActiveVolumes(prevActive, active, stability)
         IN  /\ volReactor' = vr
             /\ activeVols' = active
             /\ prevActive' = active
             /\ stability' = chk.cnt
             /\ corrected' = chk.ret
             /\ totalConn' = IF changed
                             THEN ComputeTotalActiveConnection(active, vr, totalConn)
                             ELSE totalConn
             /\ Observe(prevActive, active, chk.ret)
    /\ phase' = "events"
    /\ cursor' = <<0, 0>>
    /\ UNCHANGED <<feQos, processed, exitQos, stalled, evQueue, eventBw,
                   sinceReset, enqueued>>

\* qosManager->IsFeQosEnabled() changes between cycles.
SetFeQos(b) ==
    /\ phase = "idle"
    /\ feQos # b
    /\ feQos' = b
    /\ UNCHANGED <<phase, processed, volReactor,
                   activeVols, prevActive, stability, totalConn, corrected, changeSeen,
                   stableFor, exitQos, stalled>>
    /\ UNCHANGED evVars

(***************************************************************************)
(* The event part of Execute.                                              *)
(***************************************************************************)

\* Execute with front-end QoS disabled goes straight to the event gather.
EventsBegin ==
    /\ phase = "idle"
    /\ ~feQos
    /\ phase' = "events"
    /\ cursor' = <<0, 0>>
    /\ UNCHANGED <<volVars, exitQos, evQueue, eventBw, sinceReset, enqueued>>

\* The do-while condition of line 442.
DrainContinues(valid) == valid /\ ~exitQos

\* The next <<workerId, event>> of the two loops; <<Workers, 0>> ends them.
NextCursor(c) ==
    IF c[2] + 1 < Events THEN <<c[1], c[2] + 1>> ELSE <<c[1] + 1, 0>>

\* _UpdateEventParameter that sets the bandwidth of an existing event.
UpdateEventParameterSet(bw, e) == [bw EXCEPT ![e] = 1]

\* _UpdateEventParameter: IncreaseBandwidth if the event exists, otherwise
\* a new EventParameter with SetBandwidth.
UpdateEventParameter(bw, e) == [bw EXCEPT ![e] = IF @ > 0 THEN @ + 1 ELSE 1]

\* One iteration of the do-while of _GatherActiveEventParameters.
EventDrain ==
    /\ phase = "events"
    /\ LET valid == evQueue[cursor] > 0
       IN  /\ evQueue' = IF valid THEN [evQueue EXCEPT ![cursor] = @ - 1]
                                  ELSE evQueue
           /\ eventBw' = IF valid THEN UpdateEventParameter(eventBw, cursor[2])
                                  ELSE eventBw
           /\ cursor' = IF DrainContinues(valid) THEN cursor
                                                 ELSE NextCursor(cursor)
    /\ phase' = IF cursor'[1] = Workers THEN "idle" ELSE "events"
    /\ UNCHANGED <<volVars, exitQos, sinceReset, enqueued>>

\* A UDD worker enqueues the parameters of an event (EnqueueEventParams,
\* not in the repository). Taken outside "idle" only: from "idle" the next
\* step that reads the queues is GatherBegin, whose snapshot counts the
\* entry either way, or EventsBegin, after which it can be taken as well.
Enqueue(w, e) ==
    /\ phase # "idle"
    /\ enqueued < MaxEvents
    /\ evQueue' = [evQueue EXCEPT ![<<w, e>>] = @ + 1]
    /\ sinceReset' = [sinceReset EXCEPT ![e] = @ + 1]
    /\ enqueued' = enqueued + 1
    /\ UNCHANGED <<volVars, phase, exitQos, cursor, eventBw>>

Init ==
    /\ feQos = TRUE
    /\ phase = "idle"
    /\ processed = {}
    /\ volReactor = {}
    /\ activeVols = {}
    /\ prevActive = {}
    /\ stability = 0
    /\ totalConn = [v \in Volumes |-> 0]
    /\ corrected = FALSE
    /\ changeSeen = FALSE
    /\ stableFor = 0
    /\ exitQos = FALSE
    /\ stalled = {}
    /\ evQueue = [p \in WorkerIds \X EventIds |-> 0]
    /\ cursor = <<0, 0>>
    /\ eventBw = [e \in EventIds |-> 0]
    /\ sinceReset = [e \in EventIds |-> 0]
    /\ enqueued = 0

Next ==
    \/ GatherBegin
    \/ \E r \in Reactors : ReactorProcessed(r)
    \/ GatherCollect
    \/ \E b \in BOOLEAN : SetFeQos(b)
    \/ \E r \in Reactors : ReactorStall(r)
    \/ SetExitQos
    \/ EventsBegin
    \/ EventDrain
    \/ \E w \in WorkerIds, e \in EventIds : Enqueue(w, e)

(***************************************************************************)
(* A reactor that has not stalled polls continuously, so it processes the  *)
(* QoS request; the monitoring thread spins in the busy-wait, so once the  *)
(* wait is over it goes on, and it runs the event loops to their end.      *)
(* Neither the exit, nor a new cycle, nor an event entry is owed.          *)
(***************************************************************************)
Spec == /\ Init /\ [][Next]_vars
        /\ \A r \in Reactors : WF_vars(ReactorProcessed(r))
        /\ WF_vars(GatherCollect)
        /\ WF_vars(EventDrain)

(***************************************************************************)
(* Properties.                                                             *)
(***************************************************************************)

TypeOK ==
    /\ phase \in {"idle", "wait", "events"}
    /\ volReactor \subseteq Pairs
    /\ stability \in 0 .. StabilityCycleCheck - 1
    /\ totalConn \in [Volumes -> 0 .. Cardinality(Pairs)]

(***************************************************************************)
(* After a cycle, every active volume's connection count in the context is *)
(* the number of reactors it is active on in the current volume -> reactor *)
(* map, although _ComputeTotalActiveConnection runs only in cycles whose   *)
(* map changed and sums over several volumes with one running total.       *)
(***************************************************************************)
TotalConnectionCorrect ==
    phase # "wait" =>
        \A v \in activeVols : totalConn[v] = Cardinality(ReactorsOf(v, volReactor))

(***************************************************************************)
(* ResetCorrection is called only after a change of the active volumes     *)
(* followed by StabilityCycleCheck - 1 checks in which they stayed the     *)
(* same: never while they are still changing.                              *)
(***************************************************************************)
ResetAfterQuietPeriod ==
    [][phase = "wait" /\ phase' # "wait" /\ corrected' =>
        changeSeen /\ stableFor' = StabilityCycleCheck - 1]_vars

(***************************************************************************)
(* Every change of the active volumes that then stays settled for the     *)
(* stability window is followed by a ResetCorrection: no settled change is *)
(* left uncorrected.                                                       *)
(***************************************************************************)
SettledChangeCorrected ==
    changeSeen => stableFor < StabilityCycleCheck - 1

(***************************************************************************)
(* No event entry is lost or counted twice: the context's bandwidth of an  *)
(* event plus its entries still queued at the workers is what was queued  *)
(* when the context was last reset plus what the workers enqueued since,   *)
(* whatever the interleaving of the drain with the workers and wherever   *)
(* the exit flag cuts the do-while short.                                  *)
(***************************************************************************)
EventEntriesAccounted ==
    \A e \in EventIds : eventBw[e] + Queued(e) = sinceReset[e]

=============================================================================
