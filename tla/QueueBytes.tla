----------------------------- MODULE QueueBytes -----------------------------
(***************************************************************************)
(* cQueueIndex, cQueueRead, cQueueRW and cQueueDyn: the growing queue of   *)
(* bytes below every memory stream.  A queue is a record:                  *)
(*   data    what is in the buffer below _nWriteIndex = Len(data)          *)
(*   read    _nReadIndex                                                   *)
(*   alloc   get_AllocQty()                                                *)
(*   commit  _nAutoReadCommit, 0 = never give up what was read             *)
(*   grow    _nGrowSizeChunk                                               *)
(*   max     _nGrowSizeMax                                                 *)
(* Each operator is what one call leaves behind.  The buffer's contents    *)
(* above the write index are never read and are not kept.                  *)
(***************************************************************************)
EXTENDS Integers, Sequences

CONSTANT ChunkMin       \* the smallest chunk, 64 in the code

(* cValT::Min and Max.                                                    *)
Lesser(a, b) == IF a <= b THEN a ELSE b
Greater(a, b) == IF a >= b THEN a ELSE b

\* The constructor: max = 0 stands for a queue that is not used.
NewQueue(nGrowSizeChunk, nGrowSizeMax) ==
    LET chunk == IF nGrowSizeMax = 0 THEN 0 ELSE Greater(nGrowSizeChunk, ChunkMin)
    IN  [data |-> <<>>, read |-> 0, alloc |-> chunk, commit |-> chunk \div 2,
         grow |-> chunk, max |-> Greater(nGrowSizeMax, chunk)]

WriteIndex(q) == Len(q.data)
IsNormal(q) ==
    /\ q.read \in 0..WriteIndex(q)
    /\ WriteIndex(q) <= q.alloc /\ q.alloc <= q.max
    /\ q.commit \in {0, q.grow \div 2}
ReadQty(q) == WriteIndex(q) - q.read
WriteSpaceQty(q) == q.alloc - WriteIndex(q)
SpanRead(q) == SubSeq(q.data, q.read + 1, WriteIndex(q))

\* Moves what is unread to the start of the buffer: nobody can seek back.
ReadCommitNow(q) == [q EXCEPT !.data = SpanRead(q), !.read = 0]

ReadCommitCheck(q) ==
    IF q.commit # 0 /\ q.read >= q.commit THEN ReadCommitNow(q) ELSE q

\* A new value other than 0 commits at once.
AutoReadCommit(q, n) ==
    IF q.commit = n
    THEN ReadCommitCheck(q)
    ELSE LET changed == [q EXCEPT !.commit = n]
         IN  IF n # 0 THEN ReadCommitNow(changed) ELSE changed

\* The base class clamps the index and reports a failure, which this class
\* does not pass on.
SeekQ(q, index) ==
    ReadCommitCheck([q EXCEPT !.read = Greater(0, Lesser(index, WriteIndex(q)))])

ReadSpanQ(q, n) == ReadCommitCheck([q EXCEPT !.read = @ + Lesser(n, ReadQty(q))])

\* Grows by whole chunks, up to the maximum; may leave less room than needed.
GetWritePrep(q, nNeed) ==
    LET nRoom   == WriteSpaceQty(q)
        nChunks == (q.alloc + nNeed - nRoom + q.grow - 1) \div q.grow
    IN  IF nNeed > nRoom /\ q.alloc < q.max
        THEN [q EXCEPT !.alloc = Lesser(nChunks * q.grow, q.max)]
        ELSE q

AdvanceWrite(q, bytes) == [q EXCEPT !.data = @ \o bytes]

\* How many of n bytes a write takes: all or nothing if atomic.
WriteQty(q, n, atomic) ==
    LET nRoom == WriteSpaceQty(GetWritePrep(q, n))
    IN  IF n <= nRoom THEN n ELSE IF atomic THEN 0 ELSE nRoom

WriteSpanQ(q, bytes, atomic) ==
    AdvanceWrite(GetWritePrep(q, Len(bytes)),
                 SubSeq(bytes, 1, WriteQty(q, Len(bytes), atomic)))
=============================================================================
