------------------------------- MODULE Readers --------------------------------
(***************************************************************************)
(* Reading and copying streams: cTextReaderStream, which finds lines in a   *)
(* buffer in front of a file; cStreamInput and cStreamOutput without one;   *)
(* cFileText on top of a FILE; where a parser is in its text; and how far a *)
(* nested task has come.  A file or stream is the sequence of its bytes,    *)
(* which does not change while it is read; a text ends at the sequence's    *)
(* end.                                                                     *)
(***************************************************************************)
EXTENDS QueueBytes
LOCAL INSTANCE FiniteSetsExt
LOCAL INSTANCE SequencesExt

NL == 10
CR == 13
Behind(s, n) == SubSeq(s, n + 1, Len(s))
Head_(s, n) == SubSeq(s, 1, Min({n, Len(s)}))
LineLen(s) == SelectInSeq(s, LAMBDA ch : ch = NL)     \* 0: no line ends here

-----------------------------------------------------------------------------
(* cTextReaderStream: the queue q, the position pos of the file behind it,  *)
(* and the number of the line, -1 where that is not known.                  *)
NewReader(max) ==
  [q |-> AutoReadCommit(NewQueue(Min({max \div 2, 8192}), max), max \div 2), pos |-> 0, line |-> 0]

ReadFill(file, t) ==
  LET grown == GetWritePrep(t.q, t.q.grow)
      bytes == Head_(Behind(file, t.pos), WriteSpaceQty(grown))
  IN [t EXCEPT !.q = AdvanceWrite(grown, bytes), !.pos = @ + Len(bytes)]

(* Read on until there is a line, or nothing more to read, or no more room. *)
RECURSIVE FillLine(_, _)
FillLine(file, t) ==
  LET filled == ReadFill(file, [t EXCEPT !.q = ReadCommitNow(@)])
  IN IF LineLen(SpanRead(t.q)) > 0 THEN t
     ELSE IF filled.pos = t.pos THEN filled ELSE FillLine(file, filled)

(* The caller's buffer has room for max characters and the 0; the rest of   *)
(* a longer line is gone.                                                   *)
ReadStringLine(file, t, max) ==
  LET filled == FillLine(file, t)
      data == SpanRead(filled.q)
      n == IF LineLen(data) > 0 THEN LineLen(data) ELSE Len(data)
  IN [t |-> [filled EXCEPT !.q.read = @ + n, !.line = @ + 1], text |-> Head_(data, Min({n, max}))]

SetEmptyQ(q) == [q EXCEPT !.data = <<>>, !.read = 0]
SeekCurOfFile(t, offset) ==
  IF offset \in -t.q.read..ReadQty(t.q) THEN [t EXCEPT !.q.read = @ + offset]
  ELSE [t EXCEPT !.q = SetEmptyQ(@), !.pos = @ + offset]
SeekCur(t, offset) ==
  IF offset \in -t.q.read..ReadQty(t.q) THEN [t EXCEPT !.q.read = @ + offset]
  ELSE [t EXCEPT !.q = SetEmptyQ(@), !.pos = @ + offset - ReadQty(t.q)]
(* Inside the buffer the index goes on by what lies behind the place sought.*)
SeekSet(t, offset) ==
  LET counted == [t EXCEPT !.line = IF offset = 0 THEN 0 ELSE -1]
  IN IF offset \in (t.pos - WriteIndex(t.q))..t.pos
     THEN [counted EXCEPT !.q.read = @ + t.pos - offset]
     ELSE [counted EXCEPT !.q = SetEmptyQ(@), !.pos = offset]
SeekEnd(file, t, offset) == SeekSet(t, Len(file) + offset)

-----------------------------------------------------------------------------
(* cStreamInput.  A result is res, the place pos where the stream is then,  *)
(* and what was read.  A failure leaves the stream where it stopped.        *)
Incomplete == -1
TooLong == -2
Corrupt == -3
ReadX(data, pos, n) ==
  LET got == Head_(Behind(data, pos), n) IN [res |-> Len(got), pos |-> pos + Len(got), got |-> got]
ReadSpan(data, pos, n) ==
  LET r == ReadX(data, pos, n) IN IF r.res = n THEN r ELSE [r EXCEPT !.res = Incomplete]
ReadPeek(data, pos, n) == [ReadX(data, pos, n) EXCEPT !.pos = pos]
ReadLineSlow(data, pos, max) ==
  LET rest == Behind(data, pos)
      n == LineLen(rest)
  IN IF n \in 1..max THEN ReadSpan(data, pos, n)
     ELSE IF Len(rest) < max THEN [res |-> Incomplete, pos |-> Len(data), got |-> rest]
     ELSE [res |-> TooLong, pos |-> pos + max, got |-> Head_(rest, max)]
(* ReadAll reads as much as the whole stream has, from where it is.         *)
ReadAll(data, pos, extra) ==
  LET r == ReadSpan(data, pos, Len(data))
  IN IF Len(data) + extra = 0 THEN [res |-> 0, pos |-> pos, got |-> <<>>]
     ELSE IF extra > 0 /\ r.res >= 0 THEN [r EXCEPT !.got = Append(@, 0)] ELSE r

(* Seven bits at a time, the lowest first.                                  *)
k_SIZE_MASK == 128
RECURSIVE WriteSize(_)
WriteSize(n) ==
  IF n >= k_SIZE_MASK THEN <<k_SIZE_MASK + (n % k_SIZE_MASK)>> \o WriteSize(n \div k_SIZE_MASK) ELSE <<n>>
RECURSIVE ReadSize(_, _)
ReadSize(data, pos) ==
  LET rest == ReadSize(data, pos + 1)
      byte == data[pos + 1]
  IN IF pos >= Len(data) THEN [res |-> Incomplete, pos |-> pos, got |-> 0]
     ELSE IF byte < k_SIZE_MASK THEN [res |-> 0, pos |-> pos + 1, got |-> byte]
     ELSE [rest EXCEPT !.got = @ * k_SIZE_MASK + (byte % k_SIZE_MASK)]
WriteBlob(bytes) == WriteSize(Len(bytes)) \o bytes
ReadBlob(data, pos, max) ==
  LET size == ReadSize(data, pos)
  IN IF size.res < 0 THEN [size EXCEPT !.got = <<>>]
     ELSE IF size.got > max THEN [res |-> Corrupt, pos |-> size.pos, got |-> <<>>]
     ELSE ReadSpan(data, size.pos, size.got)
(* Room for max characters, the last of which is kept for the 0.            *)
ReadBlobStr(data, pos, max) ==
  LET r == ReadBlob(data, pos, max)
  IN IF r.res < 0 \/ r.res >= max THEN r ELSE [r EXCEPT !.res = @ + 1]

(* WriteStream copies by blocks, until a write fails (after oks of them) or *)
(* the callback cancels (after calls).  out is what was written.            *)
RECURSIVE WriteStream(_, _, _, _, _, _)
WriteStream(data, pos, nSizeMax, block, oks, calls) ==
  LET r == ReadX(data, pos, Min({block, nSizeMax}))
      rest == WriteStream(data, r.pos, nSizeMax - r.res, block, oks - 1, calls - 1)
  IN IF nSizeMax = 0 \/ r.res = 0 THEN [res |-> "S_OK", pos |-> pos, out |-> <<>>]
     ELSE IF oks = 0 THEN [res |-> "WRITE_FAULT", pos |-> r.pos, out |-> <<>>]
     ELSE IF calls = 1 THEN [res |-> "CANCELED", pos |-> r.pos, out |-> r.got]
     ELSE [rest EXCEPT !.out = r.got \o @]

-----------------------------------------------------------------------------
(* cFileText: the FILE's position and end-of-file flag, and the line.       *)
NewFile == [pos |-> 0, eof |-> FALSE, line |-> 0]
(* fgets stops behind a line's end, at the file's end, or when it has max.  *)
Gets(file, f, max) ==
  LET rest == Behind(file, f.pos)
      n == IF LineLen(rest) \in 1..max THEN LineLen(rest) ELSE Min({max, Len(rest)})
      hitsEnd == Len(rest) < max /\ LineLen(rest) = 0
  IN [n |-> n, f |-> [f EXCEPT !.pos = @ + n, !.eof = hitsEnd]]
TextReadLine(file, f, max) ==
  LET r == Gets(file, f, max)
  IN IF f.eof THEN [n |-> 0, f |-> f]
     ELSE IF r.n = 0 \/ f.line < 0 THEN r ELSE [r EXCEPT !.f.line = @ + 1]
TextReadX(file, f, n) ==
  LET r == ReadX(file, f.pos, n)
  IN IF f.eof THEN f ELSE [f EXCEPT !.pos = r.pos, !.eof = r.res < n]
(* The number of the line stays what it was, but for the start.             *)
TextSeekSet(f, offset) ==
  [f EXCEPT !.pos = offset, !.eof = FALSE, !.line = IF offset = 0 THEN 0 ELSE @]
TextSeekCur(f, offset) == [pos |-> f.pos + offset, eof |-> FALSE, line |-> -1]
put_TextPos(f, offset, line) == IF line < 0 THEN f ELSE [TextSeekSet(f, offset) EXCEPT !.line = line]

-----------------------------------------------------------------------------
(* cTextReaderSpan: the cursor's offset, its line and its column, from 0.   *)
InitTop == [off |-> 0, line |-> 0, col |-> 0]
CursorChar(text, p) == IF p.off < Len(text) THEN text[p.off + 1] ELSE 0
IncToks(p, n) == [p EXCEPT !.off = @ + n, !.col = @ + n]
IncChar(p, bytes) == [p EXCEPT !.off = @ + bytes, !.col = @ + 1]
IncTab(p, size) ==
  [p EXCEPT !.off = @ + 1, !.col = IF size <= 0 THEN @ + 1 ELSE (@ \div size + 1) * size]
IncLine(p, n) == [off |-> p.off + n, line |-> p.line + 1, col |-> 0]
IncLineCR(text, p) ==
  LET q == IncLine(p, 1) IN IF CursorChar(text, q) = NL THEN [q EXCEPT !.off = @ + 1] ELSE q

-----------------------------------------------------------------------------
(* cStreamProgressChunk: p is the progress that the tasks share, in Whole   *)
(* parts instead of 1.0; a task keeps what it found (prev).                 *)
Whole == 36
InitPercent == [cur |-> 0, total |-> Whole]
BeginChunk(p, parts, parents) ==
  [p EXCEPT !.total = IF parts = 0 THEN 0 ELSE (parents * @) \div parts]
IncChunk(p, n) == [p EXCEPT !.cur = @ + n * p.total]
EndChunk(prev) == IF prev.total >= Whole THEN [cur |-> Whole, total |-> Whole] ELSE prev
=============================================================================
