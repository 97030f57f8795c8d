--------------------------- MODULE MetaFsFileIntf ---------------------------
(***************************************************************************)
(* MetaFsFileIntf (src/poseidonos-main/src/metafs/metafs_file_intf.cpp),   *)
(* the file interface the journal and the mapper use, composed with the    *)
(* metadata I/O API it calls. The API is MetaFsIoAbstract, the interface   *)
(* that MetaFsIo is shown to implement (run metafs_io), instantiated on  *)
(* this module's variables.                                                   *)
(*  - _Read/_Write call the sync Read/Write and map any failure to         *)
(*    MFS_FILE_READ_FAILED / MFS_FILE_WRITE_FAILED (one code here, as the  *)
(*    opcode is not modelled).                                             *)
(*  - AsyncIO allocates a MetaFsAioCbCxt, binds CheckIoDoneStatus as its   *)
(*    done check and passes it to SubmitIO, returning SubmitIO's code.     *)
(*    The NVRAM byte-access branch is compiled out:                        *)
(*    NVRAM_BYTE_ACCESS_DIRECT_EN is defined nowhere.                      *)
(*  - When the async call completes, CheckIoDoneStatus maps an I/O error   *)
(*    to MFS_IO_FAILED_DUE_TO_ERROR and deletes the context.               *)
(* A context is named by its caller and the number of its call.            *)
(***************************************************************************)
EXTENDS Integers, FiniteSets

CONSTANTS
    Callers, MaxCalls, ChunkSize, FileOf, NoFile, Requests,
    MaxStatusChanges, NoReq, NoCtx

VARIABLES
    call, rc, calls, isNormal, statusChanges, pend, err,   \* the API
    mode,       \* caller -> "sync" | "async": the kind of its pending call
    ctxOf,      \* caller -> the context of its pending async call, or NoCtx
    live,       \* contexts allocated and not deleted
    ret         \* caller -> what the file interface last returned to it

apiVars == <<call, rc, calls, isNormal, statusChanges, pend, err>>
vars == <<apiVars, mode, ctxOf, live, ret>>

API == INSTANCE MetaFsIoAbstract

\* The context AsyncIO allocates for caller r's next call.
NewCtx(r) == <<r, calls[r] + 1>>

\* _Read/_Write: the sync call; a rejection is mapped at once.
SyncFileIo(r) ==
    /\ API!Ready(r)
    /\ \E req \in Requests :
         \/ /\ API!Accept(r, req)
            /\ mode' = [mode EXCEPT ![r] = "sync"]
            /\ UNCHANGED ret
         \/ /\ API!Reject(r, req)
            /\ ret' = [ret EXCEPT ![r] = "MFS_FILE_IO_FAILED"]
            /\ UNCHANGED mode
    /\ UNCHANGED <<ctxOf, live>>

\* AsyncIO(ctx): new MetaFsAioCbCxt, then SubmitIO; its code is returned.
AsyncIO(r) ==
    /\ API!Ready(r)
    /\ live' = live \cup {NewCtx(r)}
    /\ \E req \in Requests :
         \/ /\ API!Accept(r, req)
            /\ mode' = [mode EXCEPT ![r] = "async"]
            /\ ctxOf' = [ctxOf EXCEPT ![r] = NewCtx(r)]
            /\ ret' = [ret EXCEPT ![r] = "SUCCESS"]
         \/ /\ API!Reject(r, req)
            /\ ret' = [ret EXCEPT ![r] = rc'[r]]
            /\ UNCHANGED <<mode, ctxOf>>

\* CheckIoDoneStatus(data): the error code, and delete asyncCtx.
CheckIoDoneStatus(r) ==
    /\ ret' = [ret EXCEPT ![r] =
                 IF err[r] THEN "MFS_IO_FAILED_DUE_TO_ERROR" ELSE "SUCCESS"]
    /\ live' = live \ {ctxOf[r]}
    /\ ctxOf' = [ctxOf EXCEPT ![r] = NoCtx]

\* The API completes the caller's call: the sync caller wakes and maps the
\* code, or the async context's done check runs.
Complete(r) ==
    /\ API!Return(r)
    /\ IF mode[r] = "async"
       THEN CheckIoDoneStatus(r)
       ELSE /\ ret' = [ret EXCEPT ![r] =
                         IF rc'[r] = "SUCCESS" THEN "SUCCESS" ELSE "MFS_FILE_IO_FAILED"]
            /\ UNCHANGED <<ctxOf, live>>
    /\ UNCHANGED mode

Init ==
    /\ API!Init
    /\ mode = [r \in Callers |-> "sync"]
    /\ ctxOf = [r \in Callers |-> NoCtx]
    /\ live = {}
    /\ ret = [r \in Callers |-> "SUCCESS"]

Next ==
    \/ \E r \in Callers : SyncFileIo(r) \/ AsyncIO(r) \/ Complete(r)
    \/ \E r \in Callers, ok \in BOOLEAN : \E p \in pend[r] :
         API!PageDone(r, p, ok) /\ UNCHANGED <<mode, ctxOf, live, ret>>
    \/ \E b \in BOOLEAN :
         API!SetStatus(b) /\ UNCHANGED <<mode, ctxOf, live, ret>>

Spec == Init /\ [][Next]_vars

(***************************************************************************)
(* Properties.                                                             *)
(***************************************************************************)

PendingAsync == {r \in Callers : call[r] # NoReq /\ mode[r] = "async"}

(***************************************************************************)
(* Every allocated context belongs to a pending async call: none outlives *)
(* its call, whether SubmitIO accepted it or not.                          *)
(***************************************************************************)
NoCtxLeak == live \subseteq {ctxOf[r] : r \in PendingAsync}
=============================================================================
