---------------------------- MODULE SharedHeads ----------------------------
(***************************************************************************)
(* The reference counted blocks of cArrayT.h (cArrayHeadT) and the two     *)
(* classes that share them: cArrayT, whose writes are seen by all who      *)
(* share a block, and cStringT of cString.cpp, which copies a block before *)
(* it writes.  A heap h has heads[b], the block b, and ref[v], the block that *)
(* variable v points to (Nil: nullptr, or the empty string).  A string's   *)
(* data is its text without the terminator, which the block has room for.  *)
(***************************************************************************)
EXTENDS Integers, Sequences, FiniteSets
CONSTANTS Block, Var, Nil

Free == [data |-> <<>>, refs |-> 0, hash |-> <<>>]
Clear == <<>>                             \* k_HASHCODE_CLEAR
NoHeads == [heads |-> [b \in Block |-> Free], ref |-> [v \in Var |-> Nil]]
FreeBlocks(h) == {b \in Block : h.heads[b].refs = 0}
Data(h, v) == IF h.ref[v] = Nil THEN <<>> ELSE h.heads[h.ref[v]].data
RefCount(h, v) == h.heads[h.ref[v]].refs
Cut(s, n) == SubSeq(s, 1, IF n < Len(s) THEN n ELSE Len(s))
Resized(s, n, new) == [k \in 1..n |-> IF k <= Len(s) THEN s[k] ELSE new]

(* Counting: the last DecRefCount frees the block.                          *)
DecRefCount(h, b) ==
  IF b = Nil THEN h
  ELSE LET head == h.heads[b]
       IN [h EXCEPT !.heads[b] = IF head.refs = 1 THEN Free ELSE [head EXCEPT !.refs = head.refs - 1]]
IncRefCount(h, b) == IF b = Nil THEN h ELSE [h EXCEPT !.heads[b].refs = @ + 1]
Point(h, v, b) == [h EXCEPT !.ref[v] = b]
SetEmpty(h, v) == Point(DecRefCount(h, h.ref[v]), v, Nil)
put_Ptr(h, v, b) == IF h.ref[v] = b THEN h ELSE Point(IncRefCount(DecRefCount(h, h.ref[v]), b), v, b)

(* CreateHead, and ResizeHead (GrowHead, ShrinkHead) of a block in place.   *)
CreateHead(h, data) ==
  LET b == CHOOSE x \in FreeBlocks(h) : TRUE
  IN [b |-> b, h |-> [h EXCEPT !.heads[b] = [data |-> data, refs |-> 1, hash |-> Clear]]]
SetNew(h, v, data) == LET c == CreateHead(h, data) IN Point(DecRefCount(c.h, h.ref[v]), v, c.b)
ResizeHead(h, b, n, new) ==
  [h EXCEPT !.heads[b] = [@ EXCEPT !.data = Resized(h.heads[b].data, n, new), !.hash = Clear]]
Write(h, v, data) == [h EXCEPT !.heads[h.ref[v]].data = data]

-----------------------------------------------------------------------------
(* cArrayT.                                                                 *)
Fresh == 0                                \* what a constructor leaves
put_Count(h, v, n, new) ==
  LET old == Data(h, v)
  IN CASE h.ref[v] = Nil -> IF n = 0 THEN h ELSE SetNew(h, v, Resized(<<>>, n, new))
       [] h.ref[v] # Nil /\ n = Len(old) -> h
       [] h.ref[v] # Nil /\ n # Len(old) /\ n = 0 -> SetEmpty(h, v)
       [] OTHER -> IF RefCount(h, v) # 1 THEN SetNew(h, v, Resized(old, n, new))
                   ELSE ResizeHead(h, h.ref[v], n, new)
SetAtShared(h, v, i, x) == Write(h, v, [Data(h, v) EXCEPT ![i + 1] = x])
SetAtGrow(h, v, i, x) ==
  SetAtShared(IF i >= Len(Data(h, v)) THEN put_Count(h, v, i + 1, Fresh) ELSE h, v, i, x)
Add(h, v, x) == SetAtGrow(h, v, Len(Data(h, v)), x)
InsertAt(h, v, i, x) ==
  LET n == Len(Data(h, v))
  IN IF i >= n THEN SetAtShared(put_Count(h, v, i + 1, Fresh), v, i, x)
     ELSE LET grown == put_Count(h, v, n + 1, Fresh)
              d == Data(grown, v)
          IN Write(grown, v, [k \in 1..(n + 1) |-> IF k <= i THEN d[k] ELSE IF k = i + 1 THEN x ELSE d[k - 1]])
(* InsertArray asserts that it owns its block alone.                        *)
InsertArray(h, v, i, src) ==
  LET d == Data(h, v)
      at == IF i < 0 \/ i >= Len(d) THEN Len(d) ELSE i
      new == SubSeq(d, 1, at) \o src \o SubSeq(d, at + 1, Len(d))
  IN IF src = <<>> THEN h
     ELSE IF h.ref[v] = Nil THEN SetNew(h, v, src)
     ELSE [h EXCEPT !.heads[h.ref[v]] = [@ EXCEPT !.data = new, !.hash = Clear]]
RemoveAt(h, v, i, qty) ==
  LET d == Data(h, v)
  IN IF qty <= 0 \/ i < 0 \/ i >= Len(d) THEN h
     ELSE [h EXCEPT !.heads[h.ref[v]] =
             [@ EXCEPT !.data = SubSeq(d, 1, i) \o SubSeq(d, i + qty + 1, Len(d)), !.hash = Clear]]

-----------------------------------------------------------------------------
(* cStringT.  Junk is what a new block holds before it is written.          *)
Junk == -1
(* A mutant: a shared block is resized in place.                            *)
AllocBufferInPlace(h, v, n) ==
  IF n <= 0 THEN SetEmpty(h, v)
  ELSE IF h.ref[v] = Nil THEN SetNew(h, v, Resized(<<>>, n, Junk))
  ELSE IF Len(Data(h, v)) = n THEN h ELSE ResizeHead(h, h.ref[v], n, Junk)
AllocBuffer(h, v, n) ==
  LET old == Data(h, v)
  IN IF n <= 0 THEN SetEmpty(h, v)
     ELSE IF h.ref[v] = Nil \/ RefCount(h, v) > 1 THEN SetNew(h, v, Resized(old, n, Junk))
     ELSE IF Len(old) = n THEN h ELSE ResizeHead(h, h.ref[v], n, Junk)
CloneBeforeWrite(h, v) ==
  IF h.ref[v] # Nil /\ RefCount(h, v) > 1 THEN AllocBuffer(h, v, Len(Data(h, v))) ELSE h
Move(h, v, w) == [h EXCEPT !.ref = [@ EXCEPT ![w] = Nil, ![v] = h.ref[w]]]
AssignText(h, v, text) ==
  IF text = <<>> THEN SetEmpty(h, v) ELSE Write(AllocBuffer(h, v, Len(text)), v, text)
(* Assign of n characters of the variable's own text, from character i on:  *)
(* by way of another string.                                                *)
AssignPart(h, v, i, n) ==
  IF i = 0 /\ n >= Len(Data(h, v)) THEN h
  ELSE IF n = 0 THEN SetEmpty(h, v) ELSE SetNew(h, v, SubSeq(Data(h, v), i + 1, i + n))
GetBuffer(h, v, min) ==
  IF min > Len(Data(h, v)) THEN AllocBuffer(h, v, min) ELSE CloneBeforeWrite(h, v)
ReleaseBuffer(h, v, n) ==
  IF h.ref[v] = Nil THEN h
  ELSE IF n = 0 THEN SetEmpty(h, v)
  ELSE IF n # Len(Data(h, v)) THEN ResizeHead(h, h.ref[v], n, Junk) ELSE h
SetAtOwn(h, v, i, ch) == SetAtShared(CloneBeforeWrite(h, v), v, i, ch)
MakeUpper(h, v, Up) ==
  IF h.ref[v] = Nil THEN h
  ELSE Write(CloneBeforeWrite(h, v), v, [k \in DOMAIN Data(h, v) |-> Up[Data(h, v)[k]]])
InsertSpan(h, v, i, src) ==
  LET old == Data(h, v)
      at == IF i < 0 THEN 0 ELSE IF i > Len(old) THEN Len(old) ELSE i
  IN IF src = <<>> THEN h
     ELSE Write(AllocBuffer(h, v, Len(old) + Len(src)), v,
                SubSeq(old, 1, at) \o src \o SubSeq(old, at + 1, Len(old)))
(* Left and Right give the string itself when that is all of it; Mid and    *)
(* what is shorter is a new string.  v is the one constructed.              *)
Construct(h, v, w, part) ==
  IF part = Data(h, w) THEN put_Ptr(h, v, h.ref[w]) ELSE AssignText(h, v, part)
Left(text, n) == IF n >= Len(text) THEN text ELSE IF n <= 0 THEN <<>> ELSE Cut(text, n)
Right(text, n) == IF n >= Len(text) THEN text ELSE IF n <= 0 THEN <<>>
                  ELSE SubSeq(text, Len(text) - n + 1, Len(text))
Mid(text, first, n) == IF first >= Len(text) THEN <<>>
                       ELSE SubSeq(text, first + 1, IF first + n >= Len(text) THEN Len(text) ELSE first + n)
Find(text, ch, from) ==
  LET here == {k \in (from + 1)..Len(text) : text[k] = ch}
  IN IF here = {} THEN -1 ELSE (CHOOSE k \in here : \A j \in here : k <= j) - 1
(* get_HashCode keeps the code (here: the text it is the code of).          *)
get_HashCode(h, v) ==
  IF h.ref[v] = Nil THEN h
  ELSE [h EXCEPT !.heads[h.ref[v]].hash = IF @ = Clear THEN Data(h, v) ELSE @]
(* SerializeInput of the size n and what follows it; a read that fails      *)
(* leaves the string empty, as does a text that starts with its end, 0.     *)
SerializeInput(h, v, n, max, bytes) ==
  LET b == GetBuffer(h, v, n)
      kept == Find(bytes, 0, 0)
  IN IF n > max THEN h
     ELSE IF Len(bytes) < n THEN ReleaseBuffer(b, v, 0)
     ELSE LET read == IF n = 0 THEN b
                      ELSE Write(b, v, Cut(bytes, n) \o SubSeq(Data(b, v), n + 1, Len(Data(b, v))))
          IN ReleaseBuffer(read, v, IF kept >= 0 /\ kept < n THEN kept ELSE n)
=============================================================================
