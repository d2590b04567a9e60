---------------------------- MODULE QueueChunked ----------------------------
(***************************************************************************)
(* cQueueChunked.h: a queue in a linked list of chunks of Chunk elements.  *)
(* q.chunks are the chunks from _pFirst to _pLast; nFirst and nLast are    *)
(* the indexes the first and the last chunk are said to begin at.  Fault   *)
(* is set where an assertion of the code would fail.                       *)
(***************************************************************************)
EXTENDS Integers, Sequences
CONSTANT Chunk            \* _CHUNKGROW

Unset == "unset"
NewChunk == [i \in 1..Chunk |-> Unset]
NoChunks == [chunks |-> <<>>, nRead |-> 0, nWrite |-> 0, nFirst |-> 0, nLast |-> 0, fault |-> FALSE]
isEmptyQ(q) == q.nRead = q.nWrite
get_FirstReadIndex(q) == q.nRead - q.nFirst
get_LastWriteIndex(q) == q.nWrite - q.nLast
GetReadChunkAvail(q) ==
  (IF q.nWrite - q.nFirst < Chunk THEN q.nWrite - q.nFirst ELSE Chunk) - get_FirstReadIndex(q)
get_WriteChunkAvail(q) == Chunk - get_LastWriteIndex(q)

(* GetWritePrep gives the place to write at: .at in the last chunk.         *)
GetWritePrep(q) ==
  IF q.chunks = <<>> THEN [q |-> [q EXCEPT !.chunks = <<NewChunk>>], at |-> 0]
  ELSE IF get_LastWriteIndex(q) >= Chunk
  THEN [q |-> [q EXCEPT !.chunks = Append(@, NewChunk), !.nLast = @ + Chunk,
                        !.fault = @ \/ get_LastWriteIndex(q) > Chunk], at |-> 0]
  ELSE [q |-> q, at |-> get_LastWriteIndex(q)]
AdvanceWrite(q, n) ==
  [q EXCEPT !.nWrite = @ + n,
            !.fault = @ \/ get_LastWriteIndex(q) < 0 \/ n > get_WriteChunkAvail(q)]
Store(q, at, vals) ==
  [q EXCEPT !.chunks[Len(q.chunks)] =
     [k \in 1..Chunk |-> IF k - 1 \in at..(at + Len(vals) - 1) THEN vals[k - at] ELSE @[k]]]
Write1(q, x) == LET prep == GetWritePrep(q) IN AdvanceWrite(Store(prep.q, prep.at, <<x>>), 1)
RECURSIVE WriteSpanQ(_, _)
WriteSpanQ(q, src) ==
  LET prep == GetWritePrep(q)
      avail == get_WriteChunkAvail(prep.q)
      n == IF avail < Len(src) THEN avail ELSE Len(src)
  IN IF src = <<>> THEN q
     ELSE WriteSpanQ(AdvanceWrite(Store(prep.q, prep.at, SubSeq(src, 1, n)), n), SubSeq(src, n + 1, Len(src)))

get_SpanRead(q) ==
  IF isEmptyQ(q) THEN <<>>
  ELSE SubSeq(Head(q.chunks), get_FirstReadIndex(q) + 1, get_FirstReadIndex(q) + GetReadChunkAvail(q))
(* A chunk is deleted when it has been read to its end.                     *)
RECURSIVE AdvanceRead(_, _)
AdvanceRead(q, n) ==
  LET first == get_FirstReadIndex(q)
      m == IF GetReadChunkAvail(q) < n THEN GetReadChunkAvail(q) ELSE n
      read == [q EXCEPT !.nRead = @ + m]
  IN IF n = 0 THEN q
     ELSE AdvanceRead(IF first + m >= Chunk
                      THEN [read EXCEPT !.chunks = Tail(@), !.nFirst = @ + Chunk] ELSE read, n - m)
Front1(q) == Head(q.chunks)[get_FirstReadIndex(q) + 1]      \* what Read1 answers
Read1(q) == AdvanceRead(q, 1)
RECURSIVE ReadSpanQ(_, _, _)
ReadSpanQ(q, n, got) ==
  IF n = 0 \/ isEmptyQ(q) THEN [q |-> q, got |-> got]
  ELSE ReadSpanQ(Read1(q), n - 1, Append(got, Front1(q)))
=============================================================================
