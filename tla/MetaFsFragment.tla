--------------------------- MODULE MetaFsFragment ---------------------------
(***************************************************************************)
(* The fragmentation step of the metadata I/O scheduler:                   *)
(* MetaFsIoScheduler::IssueRequest splits one file-relative request        *)
(* [byteOffsetInFile, byteOffsetInFile + byteSize) into one clone per      *)
(* chunk-sized logical page, sets the completion count to the number of    *)
(* clones and routes the clone of page idx to worker idx % workerCount.    *)
(*                                                                         *)
(* FileSizeType and MetaLpnType are unsigned 64-bit integers in the code;  *)
(* here they are W-bit integers, so that the wraparound of the code's      *)
(* arithmetic is kept.                                                     *)
(***************************************************************************)
EXTENDS Integers, Sequences, FiniteSets

CONSTANT W          \* bit width of FileSizeType / MetaLpnType

ASSUME W \in Nat \ {0}

\* Unsigned W-bit arithmetic: every sum and difference of the code wraps.
U(x) == x % (2 ^ W)

(***************************************************************************)
(* Page range of a request (lines 77-81).                                  *)
(***************************************************************************)
StartLpn(base, off, C) == U(base + off \div C)

EndLpn(base, off, size, C) == U(base + U(off + size - 1) \div C)

(***************************************************************************)
(* The value SetCallbackCount / requestCount receive before the fan-out   *)
(* (lines 83-91).                                                          *)
(***************************************************************************)
CallbackCountOffByOne(base, off, size, C) ==
    U(EndLpn(base, off, size, C) - StartLpn(base, off, C))

CallbackCount(base, off, size, C) ==
    U(EndLpn(base, off, size, C) - StartLpn(base, off, C) + 1)

(***************************************************************************)
(* Byte size of the clone for one page, given the bytes already handed to  *)
(* earlier clones: the first clone runs to the next chunk boundary, an     *)
(* interior one is a whole chunk, the last one takes the rest (101-127).   *)
(***************************************************************************)
CloneSizeUnaligned(off, size, C, isFirst, isLast, byteOffset) ==
    IF isFirst
    THEN IF C < U(size + off) THEN C - off ELSE size
    ELSE IF isLast THEN U(size - byteOffset) ELSE C

CloneSize(off, size, C, isFirst, isLast, byteOffset) ==
    IF isFirst
    THEN IF C < U(size + (off % C)) THEN C - (off % C) ELSE size
    ELSE IF isLast THEN U(size - byteOffset) ELSE C

\* The clone of page idx: its page, byte offset in the file and byte size.
Clone(base, off, size, C, idx, byteOffset) ==
    LET first == idx = StartLpn(base, off, C)
        last  == idx = EndLpn(base, off, size, C)
    IN  [lpn  |-> idx,
         off  |-> IF first THEN off ELSE U(off + byteOffset),
         size |-> CloneSize(off, size, C, first, last, byteOffset)]

(***************************************************************************)
(* The loop of IssueRequest (lines 93-133): the clones in the order they   *)
(* are handed to the workers, byteOffset advancing by each clone's size.   *)
(***************************************************************************)
RECURSIVE ClonesFrom(_, _, _, _, _, _)
ClonesFrom(base, off, size, C, idx, byteOffset) ==
    IF idx > EndLpn(base, off, size, C)
    THEN << >>
    ELSE LET c == Clone(base, off, size, C, idx, byteOffset)
         IN  <<c>> \o ClonesFrom(base, off, size, C, idx + 1,
                                 U(byteOffset + c.size))

Clones(base, off, size, C) ==
    ClonesFrom(base, off, size, C, StartLpn(base, off, C), 0)

\* The worker a page is routed to (line 132).
WorkerOf(idx, workerCnt) == idx % workerCnt

(***************************************************************************)
(* Reference definition: the chunk partition of [off, off + size) in exact *)
(* arithmetic. Its pages are the chunks that share a byte with the range,  *)
(* in ascending order, and each piece holds the bytes of its chunk that    *)
(* lie in the range; an empty range has no pieces.                         *)
(***************************************************************************)
MinOf(a, b) == IF a < b THEN a ELSE b
MaxOf(a, b) == IF a > b THEN a ELSE b

\* The chunks that share a byte with [off, off + size).
Touched(off, size, C) ==
    {p \in 0 .. (off + size) \div C : p * C < off + size /\ off < (p + 1) * C}

ChunkPartition(base, off, size, C) ==
    LET T == Touched(off, size, C)
        \* the i-th smallest touched chunk
        ps == [i \in 1 .. Cardinality(T) |->
                 CHOOSE p \in T : Cardinality({q \in T : q < p}) = i - 1]
        lo(p) == MaxOf(off, p * C)
        hi(p) == MinOf(off + size, (p + 1) * C)
    IN  [i \in 1 .. Len(ps) |-> [lpn  |-> base + ps[i],
                                 off  |-> lo(ps[i]),
                                 size |-> hi(ps[i]) - lo(ps[i])]]
=============================================================================
