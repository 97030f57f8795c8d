---------------------------- MODULE MetaFsSetup ----------------------------
(***************************************************************************)
(* MetaFsService and MetaFsArrayAttach composed. _PrepareThreads creates   *)
(* the one MetaFsIoScheduler and, through _InitiateMioHandler, calls its   *)
(* RegisterMioHandler for each handler, which appends the handler to       *)
(* metaIoWorkerList (metafs_io_scheduler.cpp, lines 68-72). AddArrayInfo   *)
(* and RemoveArrayInfo walk that list, so the attach module's worker list  *)
(* is the service's registered handlers. Arrays are attached once the      *)
(* service is initialized; array registration by name runs alongside.      *)
(***************************************************************************)
EXTENDS Integers, Sequences

CONSTANTS
    Names, Ids, FileSystems, Null, TotalCount, SchedSets, WorkSets,
    StrayDeregister, MaxFaults

VARIABLES
    arrayNameToId, fileSystems, live, initialized, sched, handlers,
    registered, crashed, cpuWork,           \* MetaFsService
    attached, op, ret, faults, failedIn     \* MetaFsArrayAttach

serviceVars == <<arrayNameToId, fileSystems, live, initialized, sched,
                 handlers, registered, crashed, cpuWork>>
attachVars == <<attached, op, ret, faults, failedIn>>
vars == <<serviceVars, attachVars>>

S == INSTANCE MetaFsService

A == INSTANCE MetaFsArrayAttach
        WITH workerList <- registered, Workers <- 0 .. TotalCount - 1,
             NumWorkers <- 0, Arrays <- Ids

Init == S!Init /\ A!InitAttach

\* Register, Deregister and Initialize; the worker tables are untouched.
ServiceStep == S!Next /\ UNCHANGED attachVars

\* AddArray/RemoveArray, their loop steps and their return, on the running
\* service; the list they walk stays as Initialize left it.
AttachStep ==
    /\ initialized /\ ~crashed
    /\ \/ \E kind \in {"add", "remove"}, a \in Ids : A!Call(kind, a)
       \/ A!Step
       \/ A!Finish
    /\ UNCHANGED <<arrayNameToId, fileSystems, live, initialized, sched,
                   handlers, crashed, cpuWork>>

Next == ServiceStep \/ AttachStep

Spec == Init /\ [][Next]_vars

(***************************************************************************)
(* Properties.                                                             *)
(***************************************************************************)

(***************************************************************************)
(* Register/Deregister keep both GetMetaFs lookups current while arrays    *)
(* are attached and detached (MetaFsService::GetMetaFs).                   *)
(***************************************************************************)
LookupCurrent == S!LookupCurrent

(***************************************************************************)
(* _PrepareThreads leaves the scheduler running with one registered        *)
(* handler per usable work core, the list AddArrayInfo then walks.         *)
(***************************************************************************)
ThreadsWired == S!ThreadsWired

(***************************************************************************)
(* AddArray/RemoveArray report success only if every handler the service  *)
(* registered now holds the array (add) or none does (remove), however     *)
(* many handlers the cpu sets gave it.                                     *)
(***************************************************************************)
ReportedResult == A!ReportedResult
=============================================================================
