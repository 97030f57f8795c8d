-------------------------- MODULE MetaFsIoAbstract --------------------------
(***************************************************************************)
(* What the metadata I/O API promises its callers, with the scheduler and  *)
(* the workers hidden: a call is accepted exactly when the file system is  *)
(* mounted, the file exists and is active, and the range lies inside the   *)
(* file (in exact arithmetic); an accepted call owes one page I/O per meta  *)
(* page its range touches; each page completes once, successfully or not;  *)
(* once none is owed the call returns IO_FAILED if a page failed and       *)
(* SUCCESS otherwise. A rejected call returns at once, MODULE_NOT_READY    *)
(* exactly when the file system is not mounted.                            *)
(***************************************************************************)
EXTENDS Integers

CONSTANTS
    Callers, MaxCalls, ChunkSize, FileOf, NoFile, Requests,
    MaxStatusChanges, NoReq

VARIABLES
    call,       \* caller -> its pending request, or NoReq
    rc,         \* caller -> code its last call returned
    calls,      \* caller -> calls made so far
    isNormal,   \* mounted
    statusChanges,
    pend,       \* caller -> pages its pending call still owes
    err         \* caller -> a page of its pending call failed

vars == <<call, rc, calls, isNormal, statusChanges, pend, err>>

ErrorCodes == {"MODULE_NOT_READY", "FILE_NOT_FOUND", "INVALID_PARAMETER"}

\* The meta pages of the file the request's byte range touches.
PagesOf(req) ==
    LET base == FileOf[req.fd].base
    IN  (base + req.off \div ChunkSize)
          .. (base + (req.off + req.size - 1) \div ChunkSize)

Valid(req) ==
    LET file == FileOf[req.fd] IN
    /\ isNormal
    /\ file # NoFile
    /\ file.active
    /\ req.off < file.size
    /\ req.off + req.size <= file.size

Ready(r) == call[r] = NoReq /\ calls[r] < MaxCalls

Accept(r, req) ==
    /\ Ready(r)
    /\ req.r = r
    /\ Valid(req)
    /\ call' = [call EXCEPT ![r] = req]
    /\ calls' = [calls EXCEPT ![r] = @ + 1]
    /\ pend' = [pend EXCEPT ![r] = PagesOf(req)]
    /\ err' = [err EXCEPT ![r] = FALSE]
    /\ UNCHANGED <<rc, isNormal, statusChanges>>

Reject(r, req) ==
    /\ Ready(r)
    /\ req.r = r
    /\ ~Valid(req)
    /\ \E code \in ErrorCodes :
         /\ code = "MODULE_NOT_READY" <=> ~isNormal
         /\ rc' = [rc EXCEPT ![r] = code]
    /\ calls' = [calls EXCEPT ![r] = @ + 1]
    /\ UNCHANGED <<call, isNormal, statusChanges, pend, err>>

PageDone(r, p, ok) ==
    /\ p \in pend[r]
    /\ pend' = [pend EXCEPT ![r] = @ \ {p}]
    /\ err' = [err EXCEPT ![r] = @ \/ ~ok]
    /\ UNCHANGED <<call, rc, calls, isNormal, statusChanges>>

Return(r) ==
    /\ call[r] # NoReq
    /\ pend[r] = {}
    /\ call' = [call EXCEPT ![r] = NoReq]
    /\ rc' = [rc EXCEPT ![r] = IF err[r] THEN "IO_FAILED" ELSE "SUCCESS"]
    /\ UNCHANGED <<calls, isNormal, statusChanges, pend, err>>

SetStatus(b) ==
    /\ b # isNormal
    /\ statusChanges < MaxStatusChanges
    /\ isNormal' = b
    /\ statusChanges' = statusChanges + 1
    /\ UNCHANGED <<call, rc, calls, pend, err>>

Init ==
    /\ call = [r \in Callers |-> NoReq]
    /\ rc = [r \in Callers |-> "SUCCESS"]
    /\ calls = [r \in Callers |-> 0]
    /\ isNormal = FALSE
    /\ statusChanges = 0
    /\ pend = [r \in Callers |-> {}]
    /\ err = [r \in Callers |-> FALSE]

Next ==
    \/ \E r \in Callers :
         Ready(r) /\ \E req \in Requests : Accept(r, req) \/ Reject(r, req)
    \/ \E r \in Callers, ok \in BOOLEAN : \E p \in pend[r] : PageDone(r, p, ok)
    \/ \E r \in Callers : Return(r)
    \/ \E b \in BOOLEAN : SetStatus(b)

\* Every owed page is eventually done and every finished call returns.
Spec ==
    /\ Init /\ [][Next]_vars
    /\ \A r \in Callers :
         /\ WF_vars(\E ok \in BOOLEAN : \E p \in pend[r] : PageDone(r, p, ok))
         /\ WF_vars(Return(r))
=============================================================================
