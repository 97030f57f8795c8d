---------------------------- MODULE MC_MetaFsIo ----------------------------
(***************************************************************************)
(* Instantiates MetaFsIo: two callers on a 4-byte file of two 2-byte       *)
(* chunks (pages 0 and 1), two workers, so the pages of a request go to    *)
(* different workers and two callers meet on the same page; a file that    *)
(* does not exist and one that is not activated exercise the rejections.   *)
(***************************************************************************)
EXTENDS MetaFsIo, TLC

CONSTANTS f1, f2, f3

MCFileOf ==
    (f1 :> [size |-> 4, base |-> 0, active |-> TRUE]) @@
    (f2 :> NoFile) @@
    (f3 :> [size |-> 4, base |-> 2, active |-> FALSE])

(***************************************************************************)
(* The fragmentation of IssueRequest on its own, over more inputs than the *)
(* pipeline runs: a 12-byte file, chunk sizes 1, 2, 4 and 8, base pages 0  *)
(* and 3, and W = 8, where no accepted request's sum wraps.                *)
(***************************************************************************)
Frag == INSTANCE MetaFsFragment WITH W <- 8

FragFileSize == 12

\* The requests of positive size _CheckFileIoBoundary accepts on that file,
\* for each layout. It also accepts size 0, for which IssueRequest does not
\* partition: one empty clone at an unaligned offset, none at an aligned one
\* (run zero_length), and at offset 0 an end page that wraps to U(-1) \div C.
FragInputs ==
    {<<b, c, o, s>> \in {0, 3} \X {1, 2, 4, 8} \X (0 .. FragFileSize - 1)
                       \X (1 .. FragFileSize) : o + s <= FragFileSize}

(***************************************************************************)
(* For every non-empty accepted range, the clones IssueRequest hands to    *)
(* the workers are exactly the chunk partition of [off, off + size),       *)
(* computed from the chunks the range touches: contiguous, disjoint,       *)
(* covering the range, one per page in page order; and the completion      *)
(* count set before the fan-out equals the number of clones, so the        *)
(* caller's single completion waits for every clone. It speaks of          *)
(* constants only; it is stated on the states before any call.             *)
(***************************************************************************)
FragmentationCorrect ==
    calls = [r \in Callers |-> 0] =>
        \A in \in FragInputs :
            LET cs == Frag!Clones(in[1], in[3], in[4], in[2])
            IN  /\ cs = Frag!ChunkPartition(in[1], in[3], in[4], in[2])
                /\ Frag!CallbackCount(in[1], in[3], in[4], in[2]) = Len(cs)
=============================================================================
