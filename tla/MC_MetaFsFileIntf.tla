------------------------- MODULE MC_MetaFsFileIntf -------------------------
(***************************************************************************)
(* Instantiates MetaFsFileIntf: an active 4-byte file of two 2-byte pages  *)
(* and an fd with no file; requests inside the file, crossing its end and  *)
(* on the missing file.                                                    *)
(***************************************************************************)
EXTENDS MetaFsFileIntf, TLC

CONSTANTS f1, f2

MCFileOf == (f1 :> [size |-> 4, base |-> 0, active |-> TRUE]) @@ (f2 :> NoFile)

MCRequests ==
    {[r |-> r, fd |-> fd, off |-> o, size |-> s] :
        r \in Callers, fd \in {f1, f2}, o \in {0, 2}, s \in {2, 4}}
=============================================================================
