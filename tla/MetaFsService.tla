--------------------------- MODULE MetaFsService ---------------------------
(***************************************************************************)
(* MetaFsService (src/src/metafs/metafs_service.cpp): the registry that    *)
(* maps an array's name to its id and its id to its MetaFs instance, and   *)
(* the thread set-up of Initialize/_PrepareThreads.                        *)
(*                                                                         *)
(* Register inserts <<name, id>> into arrayNameToId (std::map::insert:     *)
(* kept if the name is present) and sets fileSystems[id]. Deregister reads *)
(* arrayNameToId[name] with operator[] (inserting id 0 for an unknown      *)
(* name), erases the name and clears fileSystems[id]. GetMetaFs looks the  *)
(* name up with find. The callers (array mount and unmount) are not in the *)
(* repository: they register a name that is not live under an id no live  *)
(* array holds, and deregister a live name; StrayDeregister also lets them *)
(* deregister a name that is not live (an unmount after a failed mount).   *)
(***************************************************************************)
EXTENDS Integers, Sequences, FiniteSets, SequencesExt

CONSTANTS
    Names,              \* array names
    Ids,                \* array ids, 0 .. MAX_ARRAY_CNT - 1
    FileSystems,        \* MetaFs instances
    Null,               \* nullptr
    TotalCount,         \* totalCount: cores examined by _PrepareThreads
    SchedSets,          \* cpu sets the scheduler may be given
    WorkSets,           \* cpu sets the workers may be given
    StrayDeregister     \* callers may deregister a name that is not live

VARIABLES
    arrayNameToId,  \* a function on the names present
    fileSystems,    \* id -> MetaFs instance or Null
    live,           \* history: name -> [id, fs] the callers registered, or Null
    initialized,    \* Initialize has run
    sched,          \* core of the started scheduler thread, or Null
    handlers,       \* cores of the started MioHandler threads, in order
    registered,     \* cores of the handlers the scheduler holds
    crashed,        \* a null ioScheduler was dereferenced
    cpuWork         \* the workSet Initialize was given

regVars == <<arrayNameToId, fileSystems, live>>
thrVars == <<initialized, sched, handlers, registered, crashed, cpuWork>>
vars == <<regVars, thrVars>>

(***************************************************************************)
(* The registry.                                                           *)
(***************************************************************************)

\* std::map::insert: a new key is added, an existing one keeps its value.
MapInsert(m, k, v) ==
    IF k \in DOMAIN m THEN m
    ELSE [x \in DOMAIN m \cup {k} |-> IF x = k THEN v ELSE m[x]]

MapErase(m, k) == [x \in DOMAIN m \ {k} |-> m[x]]

\* operator[]: the value, after inserting a value-initialized one (0).
MapIndex(m, k) == IF k \in DOMAIN m THEN m[k] ELSE 0

LiveIds == {live[n].id : n \in {m \in Names : live[m] # Null}}

Register(name, id, fs) ==
    /\ live[name] = Null
    /\ id \notin LiveIds
    /\ arrayNameToId' = MapInsert(arrayNameToId, name, id)
    /\ fileSystems' = [fileSystems EXCEPT ![id] = fs]
    /\ live' = [live EXCEPT ![name] = [id |-> id, fs |-> fs]]
    /\ UNCHANGED thrVars

\* Deregister with the name erased before its id is read.
DeregisterEraseFirst(name) ==
    /\ live[name] # Null \/ StrayDeregister
    /\ LET m  == MapErase(arrayNameToId, name)
           id == MapIndex(m, name)
       IN  /\ arrayNameToId' = [x \in DOMAIN m \cup {name} |->
                                  IF x = name THEN id ELSE m[x]]
           /\ fileSystems' = [fileSystems EXCEPT ![id] = Null]
    /\ live' = [live EXCEPT ![name] = Null]
    /\ UNCHANGED thrVars

Deregister(name) ==
    /\ live[name] # Null \/ StrayDeregister
    /\ LET id == MapIndex(arrayNameToId, name)
       IN  /\ arrayNameToId' = MapErase(arrayNameToId, name)
           /\ fileSystems' = [fileSystems EXCEPT ![id] = Null]
    /\ live' = [live EXCEPT ![name] = Null]
    /\ UNCHANGED thrVars

GetMetaFsByName(name) ==
    IF name \in DOMAIN arrayNameToId THEN fileSystems[arrayNameToId[name]]
    ELSE Null

GetMetaFsById(id) == fileSystems[id]

(***************************************************************************)
(* _PrepareThreads: the scheduler runs on the first core of schedSet below *)
(* totalCount; then a handler is started for each core of workSet below    *)
(* totalCount, until CPU_COUNT(workSet) handlers have been started.        *)
(***************************************************************************)
SchedCore(schedSet) ==
    LET cs == {c \in 0 .. TotalCount - 1 : c \in schedSet}
    IN  IF cs = {} THEN Null ELSE CHOOSE c \in cs : \A d \in cs : c <= d

\* The handler loop run up to and including core totalCount.
RECURSIVE HandlerLoopPastEnd(_, _, _, _)
HandlerLoopPastEnd(coreId, avail, workSet, started) ==
    IF coreId > TotalCount THEN started
    ELSE IF coreId \notin workSet THEN HandlerLoopPastEnd(coreId + 1, avail, workSet, started)
    ELSE IF avail - 1 = 0 THEN Append(started, coreId)
    ELSE HandlerLoopPastEnd(coreId + 1, avail - 1, workSet, Append(started, coreId))

RECURSIVE HandlerLoop(_, _, _, _)
HandlerLoop(coreId, avail, workSet, started) ==
    IF coreId >= TotalCount THEN started
    ELSE IF coreId \notin workSet THEN HandlerLoop(coreId + 1, avail, workSet, started)
    ELSE IF avail - 1 = 0 THEN Append(started, coreId)
    ELSE HandlerLoop(coreId + 1, avail - 1, workSet, Append(started, coreId))

\* Initialize: each handler's thread is started, then RegisterMioHandler is
\* called on ioScheduler; with no scheduler the first call crashes.
Initialize ==
    /\ ~initialized
    /\ initialized' = TRUE
    /\ \E s \in SchedSets, w \in WorkSets :
         LET core == SchedCore(s)
             hs   == HandlerLoop(0, Cardinality(w), w, <<>>)
         IN  /\ sched' = core
             /\ cpuWork' = w
             /\ IF core = Null /\ hs # <<>>
                THEN /\ handlers' = <<hs[1]>>
                     /\ registered' = <<>>
                     /\ crashed' = TRUE
                ELSE /\ handlers' = hs
                     /\ registered' = hs
                     /\ crashed' = FALSE
    /\ UNCHANGED regVars

Init ==
    /\ arrayNameToId = [x \in {} |-> 0]
    /\ fileSystems = [i \in Ids |-> Null]
    /\ live = [n \in Names |-> Null]
    /\ initialized = FALSE
    /\ sched = Null
    /\ handlers = <<>>
    /\ registered = <<>>
    /\ crashed = FALSE
    /\ cpuWork = {}

Next ==
    \/ \E name \in Names, id \in Ids, fs \in FileSystems : Register(name, id, fs)
    \/ \E name \in Names : Deregister(name)
    \/ Initialize

Spec == Init /\ [][Next]_vars

(***************************************************************************)
(* Properties.                                                             *)
(***************************************************************************)

TypeOK ==
    /\ DOMAIN arrayNameToId \subseteq Names
    /\ fileSystems \in [Ids -> FileSystems \cup {Null}]

(***************************************************************************)
(* After any sequence of Register and Deregister calls, looking an array   *)
(* up by name gives the MetaFs instance its caller last registered, or     *)
(* nullptr if it is not registered, and looking up a live array's id (as   *)
(* MetaFsFileIntf does) gives the same instance.                           *)
(***************************************************************************)
LookupCurrent ==
    \A n \in Names :
        IF live[n] = Null THEN GetMetaFsByName(n) = Null
        ELSE /\ GetMetaFsByName(n) = live[n].fs
             /\ GetMetaFsById(live[n].id) = live[n].fs

(***************************************************************************)
(* Initialize leaves one scheduler thread running and exactly one         *)
(* registered handler for each core of the worker cpu set below           *)
(* totalCount, in core order, whatever the sets hold beyond totalCount,    *)
(* and never dereferences a missing scheduler.                             *)
(***************************************************************************)
ThreadsWired ==
    initialized =>
        /\ ~crashed
        /\ sched # Null
        /\ registered = handlers
        /\ handlers = SetToSortSeq(cpuWork \cap (0 .. TotalCount - 1), <)
=============================================================================
