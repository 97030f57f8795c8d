------------------------------- MODULE MetaFsIo -------------------------------
(***************************************************************************)
(* The metadata I/O path of the meta filesystem:                          *)
(*  - MetaFsIoApi (metafs_io_api.cpp): Read/Write (sync) and SubmitIO       *)
(*    (async) validate a request and hand it to the scheduler;             *)
(*  - MetaFsIoScheduler (metafs_io_scheduler.cpp): one thread dequeues a   *)
(*    request from its multilevel queue, sets the completion count and     *)
(*    clones one sub-request per page, routing page idx to worker          *)
(*    idx % totalMioHandlerCnt;                                            *)
(*  - MioHandler workers (mio_handler.h; their .cpp is not part of this    *)
(*    repository, so their steps follow the spec, 4.4/4.5): defer a        *)
(*    sub-request whose page is locked or already pended, otherwise lock   *)
(*    the page and issue it; on completion release the page, re-issue the  *)
(*    deferred ones that are free, then decrement the shared completion    *)
(*    count, the thread that reaches zero completing the caller's call.    *)
(* Callers are user threads (sync) or async contexts; each makes MaxCalls  *)
(* calls, one at a time. One array and one storage medium are modelled,    *)
(* so the overlap checker of a worker is a set of locked pages.            *)
(***************************************************************************)
EXTENDS Integers, Sequences, FiniteSets

CONSTANTS
    Callers,        \* user threads / async contexts issuing metadata I/O
    MaxCalls,       \* calls each caller makes
    NumWorkers,     \* totalMioHandlerCnt
    ChunkSize,      \* fileCtx->chunkSize
    Fds,            \* file descriptors callers may pass
    FileOf,         \* fd -> [size, base, active], or NoFile (GetFileInfo)
    NoFile,
    Offsets,        \* byte offsets callers pass
    Sizes,          \* byte sizes callers pass
    Priorities,     \* RequestPriority values, larger is more urgent
    NormalPrio,     \* RequestPriority::Normal, used by the sync calls
    MaxStatusChanges, \* SetStatus calls (mount / unmount)
    W,              \* bit width of FileSizeType / MetaLpnType
    NoReq

ASSUME NumWorkers \in Nat \ {0}
ASSUME NormalPrio \in Priorities

F == INSTANCE MetaFsFragment
Q == INSTANCE MetaFsIoMultilevelQ

Workers == 0 .. NumWorkers - 1

VARIABLES
    call,       \* caller -> the request of its pending call, or NoReq
    rc,         \* caller -> code the last returned call gave back
    calls,      \* caller -> calls made so far
    isNormal,   \* MetaFsIoApi::isNormal
    statusChanges,
    schedQ,     \* the scheduler's ioMultiQ
    sched,      \* IssueRequest loop: request being cloned, next and last page
    sq,         \* worker -> its ioSQ (multilevel queue of sub-requests)
    retryQ,     \* worker -> pendingIoRetryQ; the code's multimap is keyed by
                \* page, and only the order within a page matters to a pass
    locked,     \* worker -> pages its range-overlap checker holds
    inflight,   \* worker -> sub-requests issued to storage
    fin,        \* worker -> sub-request whose completion it is finishing
    cnt,        \* caller -> completion count of its call
    ioErr,      \* caller -> error flag of its completion context
    fired       \* history: completions delivered for the current call

vars == <<call, rc, calls, isNormal, statusChanges, schedQ, sched, sq,
          retryQ, locked, inflight, fin, cnt, ioErr, fired>>

NoSched == [cur |-> NoReq, idx |-> 0, last |-> 0]
NoFin == [sub |-> NoReq, ok |-> TRUE]

(***************************************************************************)
(* MetaFsIoApi: building and validating a request.                         *)
(***************************************************************************)

\* _AddFileInfo: the control API knows the fd's file.
AddFileInfo(fd) == FileOf[fd] # NoFile

\* _AddExtraIoReqInfo: a full-file request covers the whole file.
BuildReq(r, fd, full, off, size, prio) ==
    [r |-> r, fd |-> fd, full |-> full, prio |-> prio,
     off  |-> IF full /\ AddFileInfo(fd) THEN 0 ELSE off,
     size |-> IF full /\ AddFileInfo(fd) THEN FileOf[fd].size ELSE size]

InBoundaryOffsetOnly(req, file) ==
    IF req.full THEN req.off = 0 /\ req.size = file.size
    ELSE ~(req.off >= file.size)

\* _CheckFileIoBoundary; the sum is computed in FileSizeType.
InBoundary(req, file) ==
    IF req.full THEN req.off = 0 /\ req.size = file.size
    ELSE ~(req.off >= file.size \/ F!U(req.off + req.size) > file.size)

\* isNormal, _AddFileInfo, then _CheckReqSanity, in the code's order.
ReturnCode(req) ==
    LET file == FileOf[req.fd] IN
    CASE ~isNormal                 -> "MODULE_NOT_READY"
      [] ~AddFileInfo(req.fd)      -> "FILE_NOT_FOUND"
      [] ~InBoundary(req, file)    -> "INVALID_PARAMETER"
      [] ~file.active              -> "FILE_NOT_FOUND"
      [] OTHER                     -> "SUCCESS"

Ready(r) == call[r] = NoReq /\ calls[r] < MaxCalls

\* A call rejected at the API boundary returns at once, never enqueued.
Reject(r, req) ==
    /\ ReturnCode(req) # "SUCCESS"
    /\ rc' = [rc EXCEPT ![r] = ReturnCode(req)]
    /\ calls' = [calls EXCEPT ![r] = @ + 1]
    /\ UNCHANGED <<call, isNormal, statusChanges, schedQ, sched, sq, retryQ,
                   locked, inflight, fin, cnt, ioErr, fired>>

\* ioMgr->HandleNewRequest: a fresh completion context, enqueued by priority.
Accept(r, req) ==
    /\ ReturnCode(req) = "SUCCESS"
    /\ call' = [call EXCEPT ![r] = req]
    /\ calls' = [calls EXCEPT ![r] = @ + 1]
    /\ schedQ' = Q!Enqueue(schedQ, req, req.prio)
    /\ cnt' = [cnt EXCEPT ![r] = 0]
    /\ ioErr' = [ioErr EXCEPT ![r] = FALSE]
    /\ fired' = [fired EXCEPT ![r] = 0]
    /\ UNCHANGED <<rc, isNormal, statusChanges, sched, sq, retryQ, locked,
                   inflight, fin>>

Issue(r, req) == Reject(r, req) \/ Accept(r, req)

\* Read/Write(fd, buf) and Read/Write(fd, offset, size, buf): sync, Normal.
SyncIo(r) ==
    /\ Ready(r)
    /\ \E fd \in Fds :
         \/ Issue(r, BuildReq(r, fd, TRUE, 0, 0, NormalPrio))
         \/ \E off \in Offsets, size \in Sizes :
               Issue(r, BuildReq(r, fd, FALSE, off, size, NormalPrio))

\* SubmitIO(cxt): soffset = nbytes = 0 means the whole file.
SubmitIO(r) ==
    /\ Ready(r)
    /\ \E fd \in Fds, prio \in Priorities,
          in \in {<<o, s>> : o \in Offsets, s \in Sizes} \cup {<<0, 0>>} :
         Issue(r, BuildReq(r, fd, in = <<0, 0>>, in[1], in[2], prio))

\* SetStatus: the meta filesystem is mounted or unmounted.
SetStatus(b) ==
    /\ b # isNormal
    /\ statusChanges < MaxStatusChanges
    /\ isNormal' = b
    /\ statusChanges' = statusChanges + 1
    /\ UNCHANGED <<call, rc, calls, schedQ, sched, sq, retryQ, locked,
                   inflight, fin, cnt, ioErr, fired>>

(***************************************************************************)
(* MetaFsIoScheduler.                                                      *)
(***************************************************************************)

BaseOf(req) == FileOf[req.fd].base

\* metaIoWorkerList[idx % totalMioHandlerCnt]
RouteRelative(req, idx) ==
    (idx - F!StartLpn(BaseOf(req), req.off, ChunkSize)) % NumWorkers

Route(req, idx) == F!WorkerOf(idx, NumWorkers)

\* Execute/_FetchPendingNewReq, then IssueRequest up to its loop: the
\* completion count is set before the first clone is handed out.
SchedFetch ==
    /\ sched.cur = NoReq
    /\ ~Q!IsEmpty(schedQ)
    /\ LET req   == Q!Top(schedQ)
           first == F!StartLpn(BaseOf(req), req.off, ChunkSize)
           last  == F!EndLpn(BaseOf(req), req.off, req.size, ChunkSize)
       IN  /\ schedQ' = Q!Dequeue(schedQ)
           /\ cnt' = [cnt EXCEPT ![req.r] =
                       F!CallbackCount(BaseOf(req), req.off, req.size, ChunkSize)]
           /\ sched' = IF first <= last
                       THEN [cur |-> req, idx |-> first, last |-> last]
                       ELSE NoSched
    /\ UNCHANGED <<call, rc, calls, isNormal, statusChanges, sq, retryQ,
                   locked, inflight, fin, ioErr, fired>>

\* One iteration of the loop: clone page idx and enqueue it to its worker;
\* after the last page the scheduler's copy of the request is deleted.
SchedClone ==
    /\ sched.cur # NoReq
    /\ LET req == sched.cur
           sub == [r |-> req.r, lpn |-> sched.idx, prio |-> req.prio]
           w   == Route(req, sched.idx)
       IN  /\ sq' = [sq EXCEPT ![w] = Q!Enqueue(@, sub, sub.prio)]
           /\ sched' = IF sched.idx = sched.last THEN NoSched
                       ELSE [sched EXCEPT !.idx = @ + 1]
    /\ UNCHANGED <<call, rc, calls, isNormal, statusChanges, schedQ, retryQ,
                   locked, inflight, fin, cnt, ioErr, fired>>

(***************************************************************************)
(* MioHandler workers (spec 4.4, 4.5).                                     *)
(***************************************************************************)

\* _IsRangeOverlapConflicted || _IsPendedRange
Conflicted(w, lpn) ==
    \/ lpn \in locked[w]
    \/ \E i \in DOMAIN retryQ[w] : retryQ[w][i].lpn = lpn

WorkerIdle(w) == fin[w] = NoFin

\* _HandleIoSQ: a free page is locked and its sub-request issued.
SQIssue(w) ==
    /\ WorkerIdle(w)
    /\ ~Q!IsEmpty(sq[w])
    /\ LET sub == Q!Top(sq[w]) IN
       /\ ~Conflicted(w, sub.lpn)
       /\ sq' = [sq EXCEPT ![w] = Q!Dequeue(@)]
       /\ locked' = [locked EXCEPT ![w] = @ \cup {sub.lpn}]
       /\ inflight' = [inflight EXCEPT ![w] = @ \cup {sub}]
    /\ UNCHANGED <<call, rc, calls, isNormal, statusChanges, schedQ, sched,
                   retryQ, fin, cnt, ioErr, fired>>

\* _HandleIoSQ: a conflicting sub-request is pushed to the retry queue.
SQDefer(w) ==
    /\ WorkerIdle(w)
    /\ ~Q!IsEmpty(sq[w])
    /\ LET sub == Q!Top(sq[w]) IN
       /\ Conflicted(w, sub.lpn)
       /\ sq' = [sq EXCEPT ![w] = Q!Dequeue(@)]
       /\ retryQ' = [retryQ EXCEPT ![w] = Append(@, sub)]
    /\ UNCHANGED <<call, rc, calls, isNormal, statusChanges, schedQ, sched,
                   locked, inflight, fin, cnt, ioErr, fired>>

\* _HandleRetryQDeferred over the queue q with pages lk locked: each entry
\* whose page is free is issued (locking it); the others stay, in order.
RECURSIVE RetryPass(_, _)
RetryPass(q, lk) ==
    IF q = << >> THEN [rest |-> << >>, locked |-> lk, issued |-> {}]
    ELSE LET sub == Head(q) IN
         IF sub.lpn \in lk
         THEN LET p == RetryPass(Tail(q), lk)
              IN  [p EXCEPT !.rest = <<sub>> \o @]
         ELSE LET p == RetryPass(Tail(q), lk \cup {sub.lpn})
              IN  [p EXCEPT !.issued = @ \cup {sub}]

MioDoneNoRetry(w, sub, ok) ==
    /\ WorkerIdle(w)
    /\ sub \in inflight[w]
    /\ locked' = [locked EXCEPT ![w] = @ \ {sub.lpn}]
    /\ inflight' = [inflight EXCEPT ![w] = @ \ {sub}]
    /\ ioErr' = [ioErr EXCEPT ![sub.r] = @ \/ ~ok]
    /\ fin' = [fin EXCEPT ![w] = [sub |-> sub, ok |-> ok]]
    /\ UNCHANGED <<call, rc, calls, isNormal, statusChanges, schedQ, sched,
                   sq, retryQ, cnt, fired>>

\* Storage completes an issued sub-request with status ok; the worker
\* releases its page, re-issues the deferred sub-requests now free and
\* records an error in the call's completion context.
MioDone(w, sub, ok) ==
    /\ WorkerIdle(w)
    /\ sub \in inflight[w]
    /\ LET pass == RetryPass(retryQ[w], locked[w] \ {sub.lpn}) IN
       /\ locked' = [locked EXCEPT ![w] = pass.locked]
       /\ retryQ' = [retryQ EXCEPT ![w] = pass.rest]
       /\ inflight' = [inflight EXCEPT ![w] = (@ \ {sub}) \cup pass.issued]
    /\ ioErr' = [ioErr EXCEPT ![sub.r] = @ \/ ~ok]
    /\ fin' = [fin EXCEPT ![w] = [sub |-> sub, ok |-> ok]]
    /\ UNCHANGED <<call, rc, calls, isNormal, statusChanges, schedQ, sched,
                   sq, cnt, fired>>

\* The return code of a completed call.
CallResult(r) == IF ioErr[r] THEN "IO_FAILED" ELSE "SUCCESS"

\* The worker decrements the shared count (an atomic fetch-and-decrement);
\* the thread that brings it to zero completes the call: the sync caller
\* is woken, or the async callback runs.
Finalize(w) ==
    /\ fin[w] # NoFin
    /\ LET r == fin[w].sub.r IN
       /\ cnt' = [cnt EXCEPT ![r] = @ - 1]
       /\ fin' = [fin EXCEPT ![w] = NoFin]
       /\ IF cnt[r] - 1 = 0
          THEN /\ call' = [call EXCEPT ![r] = NoReq]
               /\ rc' = [rc EXCEPT ![r] = CallResult(r)]
               /\ fired' = [fired EXCEPT ![r] = @ + 1]
          ELSE UNCHANGED <<call, rc, fired>>
    /\ UNCHANGED <<calls, isNormal, statusChanges, schedQ, sched, sq, retryQ,
                   locked, inflight, ioErr>>

(***************************************************************************)
(* The specification.                                                      *)
(***************************************************************************)

Init ==
    /\ call = [r \in Callers |-> NoReq]
    /\ rc = [r \in Callers |-> "SUCCESS"]
    /\ calls = [r \in Callers |-> 0]
    /\ isNormal = FALSE
    /\ statusChanges = 0
    /\ schedQ = Q!EmptyQ
    /\ sched = NoSched
    /\ sq = [w \in Workers |-> Q!EmptyQ]
    /\ retryQ = [w \in Workers |-> << >>]
    /\ locked = [w \in Workers |-> {}]
    /\ inflight = [w \in Workers |-> {}]
    /\ fin = [w \in Workers |-> NoFin]
    /\ cnt = [r \in Callers |-> 0]
    /\ ioErr = [r \in Callers |-> FALSE]
    /\ fired = [r \in Callers |-> 0]

Next ==
    \/ \E r \in Callers : SyncIo(r) \/ SubmitIO(r)
    \/ \E b \in BOOLEAN : SetStatus(b)
    \/ SchedFetch
    \/ SchedClone
    \/ \E w \in Workers :
         \/ SQIssue(w)
         \/ SQDefer(w)
         \/ \E sub \in inflight[w], ok \in BOOLEAN : MioDone(w, sub, ok)
         \/ Finalize(w)

\* The scheduler and worker threads run busy loops, and the storage
\* completes every issued page I/O; callers are free to stop calling.
Fairness ==
    /\ WF_vars(SchedFetch)
    /\ WF_vars(SchedClone)
    /\ \A w \in Workers :
         /\ WF_vars(SQIssue(w) \/ SQDefer(w))
         /\ WF_vars(\E sub \in inflight[w], ok \in BOOLEAN : MioDone(w, sub, ok))
         /\ WF_vars(Finalize(w))

Spec == Init /\ [][Next]_vars /\ Fairness

(***************************************************************************)
(* Properties.                                                             *)
(***************************************************************************)

Sub == [r : Callers, lpn : Nat, prio : Priorities]

TypeOK ==
    /\ \A r \in Callers : call[r] = NoReq \/ call[r].r = r
    /\ rc \in [Callers -> {"SUCCESS", "MODULE_NOT_READY", "FILE_NOT_FOUND",
                           "INVALID_PARAMETER", "IO_FAILED"}]
    /\ calls \in [Callers -> 0 .. MaxCalls]
    /\ isNormal \in BOOLEAN
    /\ sched.cur = NoReq \/ sched.idx <= sched.last
    /\ \A w \in Workers :
         /\ Q!Items(sq[w]) \subseteq Sub
         /\ inflight[w] \subseteq Sub
         /\ fin[w] = NoFin \/ fin[w].sub \in Sub
    /\ cnt \in [Callers -> 0 .. 2 ^ W]
    /\ ioErr \in [Callers -> BOOLEAN]
    /\ fired \in [Callers -> Nat]

\* Every sub-request of caller r still queued, deferred, issued or being
\* finished, and whether the scheduler is still cloning r's request.
SubsOf(r) ==
    {s \in UNION {Q!Items(sq[w]) \cup inflight[w]
                  \cup {retryQ[w][i] : i \in DOMAIN retryQ[w]}
                  \cup {fin[w].sub} : w \in Workers} \ {NoReq} : s.r = r}

Scheduling(r) ==
    \/ sched.cur # NoReq /\ sched.cur.r = r
    \/ \E req \in Q!Items(schedQ) : req.r = r

(***************************************************************************)
(* Overlap mutual exclusion: no two sub-requests for the same page are     *)
(* issued to storage at once, across all workers. Each worker only locks   *)
(* pages in its own overlap checker, so this rests on the scheduler        *)
(* routing every clone of a page to the same worker.                       *)
(***************************************************************************)
PageExclusive ==
    \A w1, w2 \in Workers :
        \A s1 \in inflight[w1], s2 \in inflight[w2] :
            s1 # s2 => s1.lpn # s2.lpn

(***************************************************************************)
(* Completion exactly once: a call completes at most once, and only after  *)
(* the scheduler has cloned its whole request and every clone, on any      *)
(* worker, has been finished. Rests on IssueRequest setting the count      *)
(* before the fan-out and on the workers' shared decrement.                *)
(***************************************************************************)
CompletionExactlyOnce ==
    \A r \in Callers :
        /\ fired[r] <= 1
        /\ fired[r] = 1 => SubsOf(r) = {} /\ ~Scheduling(r)

(***************************************************************************)
(* Boundary rejection: a call the API accepts lies inside its file,        *)
(* offset + size <= file size in exact arithmetic.                         *)
(***************************************************************************)
AcceptedInsideFile ==
    \A r \in Callers :
        call[r] # NoReq => call[r].off + call[r].size <= FileOf[call[r].fd].size

(***************************************************************************)
(* Every accepted call eventually completes: the sync caller wakes up, the *)
(* async callback runs. Deferred sub-requests are re-issued when the page  *)
(* they wait for is released.                                              *)
(***************************************************************************)
CallReturns == \A r \in Callers : call[r] # NoReq ~> call[r] = NoReq

(***************************************************************************)
(* Refinement: MetaFsIo implements MetaFsIoAbstract. A page is owed from   *)
(* the call's acceptance until its storage I/O completes (MioDone): while  *)
(* the request waits in the scheduler's queue, while the scheduler has not *)
(* cloned it yet, and while its clone is queued, deferred or issued on a   *)
(* worker. The countdown that follows (Finalize) is hidden, except for the *)
(* step that brings it to zero, which is the abstract Return.              *)
(***************************************************************************)

\* Every request a caller can hand to the API.
AllRequests ==
    {BuildReq(r, fd, full, off, size, prio) :
        r \in Callers, fd \in Fds, full \in BOOLEAN,
        off \in Offsets \cup {0}, size \in Sizes \cup {0}, prio \in Priorities}

ReqPages(req) ==
    F!StartLpn(BaseOf(req), req.off, ChunkSize)
      .. F!EndLpn(BaseOf(req), req.off, req.size, ChunkSize)

PendingPages(r) ==
    UNION {ReqPages(q) : q \in {q \in Q!Items(schedQ) : q.r = r}}
    \cup (IF sched.cur # NoReq /\ sched.cur.r = r
          THEN sched.idx .. sched.last ELSE {})
    \cup {s.lpn : s \in {s \in UNION {Q!Items(sq[w]) \cup inflight[w]
                          \cup {retryQ[w][i] : i \in DOMAIN retryQ[w]}
                          : w \in Workers} : s.r = r}}

Abs == INSTANCE MetaFsIoAbstract
         WITH Requests <- AllRequests,
              pend <- [r \in Callers |-> PendingPages(r)],
              err <- ioErr

(***************************************************************************)
(* The whole pipeline behaves as the API's promise: validation accepts     *)
(* exactly the in-file ranges of mounted, active files; each page of an    *)
(* accepted call is done once; the call returns after its last page with   *)
(* the aggregate status, and it does return.                               *)
(***************************************************************************)
AbsSpec == Abs!Spec
=============================================================================
