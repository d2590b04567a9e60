------------------------------- MODULE Arrays -------------------------------
(***************************************************************************)
(* The arrays of cArray.h (cArrayImpl and its pointer arrays), cArrayRef.h *)
(* and cArrayString.h, over the element moves of cValSpan.h and cSpan.h.   *)
(* An array is its heap block mem, a sequence of slots, the number size of *)
(* slots in use, and alive, the constructors run less the destructors run. *)
(* Indexes count from 0, as in the code.  Each operator is what one call   *)
(* leaves behind.  Then the lists of cList.h and cList.cpp.                *)
(***************************************************************************)
EXTENDS Integers, Sequences, FiniteSets
CONSTANTS
  Chunk,                  \* growth: one spare slot per Chunk slots (16)
  Node, List              \* the nodes and the lists of cList

None == -1                \* k_ITERATE_BAD
Fresh == 0                \* what a constructor leaves in a slot
Raw == -1                  \* memory no constructor has run on
Empty == [mem |-> <<>>, size |-> 0, alive |-> 0]
GetHeapCountChunk(n) == n + n \div Chunk
Used(a) == SubSeq(a.mem, 1, a.size)
At(a, i) == a.mem[i + 1]
IsValidIndex(a, i) == i >= 0 /\ i < a.size

(* cMem::CopyOverlap, cHeap::ReAllocPtr, and cValSpan's constructors.       *)
CopyOverlap(mem, to, from, n) ==
  [k \in DOMAIN mem |-> IF k - 1 \in to..(to + n - 1) THEN mem[k - to + from] ELSE mem[k]]
ReAlloc(mem, n) == [k \in 1..n |-> IF k <= Len(mem) THEN mem[k] ELSE Raw]
Fill(mem, i, n, v) == [k \in DOMAIN mem |-> IF k - 1 \in i..(i + n - 1) THEN v ELSE mem[k]]
ConstructElements(a, i, n) ==
  [a EXCEPT !.mem = Fill(@, i, n, Fresh), !.alive = @ + n]
DestructElements(a, i, n) ==
  [a EXCEPT !.mem = Fill(@, i, n, Raw), !.alive = @ - n]
CopyQty(a, i, src) ==
  [a EXCEPT !.mem = [k \in DOMAIN @ |-> IF k - 1 \in i..(i + Len(src) - 1) THEN src[k - i] ELSE @[k]]]
ShiftElements(mem, from, to) ==
  LET moved == IF to > from THEN CopyOverlap(mem, from, from + 1, to - from)
               ELSE CopyOverlap(mem, to + 1, to, from - to)
  IN [moved EXCEPT ![to + 1] = mem[from + 1]]

SetAt(a, i, x) == [a EXCEPT !.mem[i + 1] = x]
ShrinkTo(a, n) == IF n < a.size THEN DestructElements(a, n, a.size - n) ELSE a
SetSize(a, n) ==
  IF n <= Len(a.mem)
  THEN [(IF n > a.size THEN ConstructElements(a, a.size, n - a.size) ELSE ShrinkTo(a, n))
          EXCEPT !.size = n]
  ELSE LET count == IF a.size # 0 THEN GetHeapCountChunk(n) ELSE n
       IN [ConstructElements([a EXCEPT !.mem = ReAlloc(@, count)], a.size, n - a.size)
             EXCEPT !.size = n]
RemoveAll(a) == IF a.mem = <<>> THEN a
                ELSE [mem |-> <<>>, size |-> 0, alive |-> DestructElements(a, 0, a.size).alive]
SetAtGrow(a, i, x) == SetAt(IF i >= a.size THEN SetSize(a, i + 1) ELSE a, i, x)
Add(a, x) == SetAtGrow(a, a.size, x)
InsertAt(a, i, x) ==
  IF i >= a.size THEN SetAt(SetSize(a, i + 1), i, x)
  ELSE LET grown == SetSize(a, a.size + 1)
       IN SetAt([grown EXCEPT !.mem = ShiftElements(@, a.size, i)], i, x)
InsertArray(a, i, src) ==
  IF src = <<>> THEN a
  ELSE LET n == Len(src)
           at == IF IsValidIndex(a, i) THEN i ELSE a.size
           mem == ReAlloc(a.mem, GetHeapCountChunk(a.size + n))
           moved == CopyOverlap(mem, at + n, at, a.size - at)
       IN CopyQty([ConstructElements([a EXCEPT !.mem = moved], at, n) EXCEPT !.size = @ + n], at, src)
RemoveQty(a, i, qty) ==
  IF qty <= 0 \/ ~IsValidIndex(a, i) THEN a
  ELSE LET n == IF i + qty > a.size THEN a.size - i ELSE qty
           d == DestructElements(a, i, n)
       IN [d EXCEPT !.mem = CopyOverlap(@, i, i + n, a.size - i - n), !.size = @ - n]
RemoveAt(a, i) == RemoveQty(a, i, 1)
SetCopy(a, b) == LET sized == SetSize(a, b.size) IN CopyQty(sized, 0, Used(b))
PopHead(a) == RemoveAt(a, 0)
PopTail(a) == RemoveAt(a, a.size - 1)
IsValidHeapSize(a) == IF a.mem = <<>> THEN a.size = 0 ELSE a.size <= Len(a.mem)

(* Searches of cSpanX run from the end.                                     *)
FindIFor3(a, x) ==
  LET here == {i \in 0..(a.size - 1) : At(a, i) = x}
  IN IF here = {} THEN None ELSE CHOOSE i \in here : \A j \in here : j <= i
RemoveArg(a, x) == RemoveAt(a, FindIFor3(a, x))
ReverseSpan(a) == [a EXCEPT !.mem = [k \in DOMAIN @ |-> IF k <= a.size THEN @[a.size + 1 - k] ELSE @[k]]]

(* AddUniqueMax: a list of the latest max different strings.  Same(x, y) is *)
(* a comparison without case, by the first matching index.                  *)
FindCmpI(a, x, fold) ==
  LET here == {i \in 0..(a.size - 1) : fold[At(a, i)] = fold[x]}
  IN IF here = {} THEN None ELSE CHOOSE i \in here : \A j \in here : i <= j
AddUniqueMax(a, x, max, fold) ==
  IF max < 1 \/ FindCmpI(a, x, fold) # None THEN a
  ELSE Add(RemoveQty(a, 0, a.size - max + 1), x)

-----------------------------------------------------------------------------
(* cArrayPtr::DeleteAll and cArrayRef::DisposeAll walk down from the end    *)
(* while the object that is deleted or disposed of may take others out of   *)
(* the array: takes[x] is what x takes out.  gone lists the calls made.     *)
Null == 0
TakeOut(s, out) == SelectSeq(s, LAMBDA x : x \notin out)
NextIndex(before, after, i) == IF after # before THEN after ELSE i
RECURSIVE DeleteFrom(_, _, _, _)
DeleteFrom(s, i, takes, gone) ==
  IF i < 0 THEN gone
  ELSE LET x == s[i + 1]
           t == IF x = Null THEN s ELSE TakeOut([s EXCEPT ![i + 1] = Null], takes[x])
       IN DeleteFrom(t, NextIndex(Len(s), Len(t), i) - 1, takes,
                     IF x = Null THEN gone ELSE Append(gone, x))
DeleteAll(s, takes) == DeleteFrom(s, Len(s) - 1, takes, <<>>)
RECURSIVE DisposeFrom(_, _, _, _)
DisposeFrom(s, i, takes, gone) ==
  IF i < 0 THEN gone
  ELSE LET t == TakeOut(s, takes[s[i + 1]])
       IN DisposeFrom(t, NextIndex(Len(s), Len(t), i) - 1, takes, Append(gone, s[i + 1]))
DisposeAll(s, takes) == DisposeFrom(s, Len(s) - 1, takes, <<>>)

-----------------------------------------------------------------------------
(* Lists that own no memory, linked through nodes that know the list they   *)
(* are in.  A state l has, per node, next, prev and parent, and per list,   *)
(* head, tail and count.                                                    *)
NoLinks == [next |-> [n \in Node |-> Null], prev |-> [n \in Node |-> Null],
            parent |-> [n \in Node |-> Null], head |-> [p \in List |-> Null],
            tail |-> [p \in List |-> Null], count |-> [p \in List |-> 0]]
IsMyChild(l, p, n) == n # Null /\ l.parent[n] = p

RemoveListNode(l, p, n) ==
  LET next == l.next[n]
      prev == l.prev[n]
      a == IF next # Null THEN [l EXCEPT !.prev[next] = prev] ELSE [l EXCEPT !.tail[p] = prev]
      b == IF prev # Null THEN [a EXCEPT !.next[prev] = next] ELSE [a EXCEPT !.head[p] = next]
  IN [b EXCEPT !.count[p] = @ - 1, !.next[n] = Null, !.prev[n] = Null, !.parent[n] = Null]
RemoveNothing(l, n) == l                                        \* (a mutant)
RemoveFromParent(l, n) == IF l.parent[n] = Null THEN l ELSE RemoveListNode(l, l.parent[n], n)

(* After node prev, or at the head; what is in the list already stays where *)
(* it is, what is in another one is taken out of it first.                  *)
InsertListNode(l, p, n, prev) ==
  LET free == RemoveFromParent(l, n)
      next == IF prev # Null THEN free.next[prev] ELSE free.head[p]
      a == IF prev # Null THEN [free EXCEPT !.next[prev] = n] ELSE [free EXCEPT !.head[p] = n]
      b == IF next # Null THEN [a EXCEPT !.prev[next] = n] ELSE [a EXCEPT !.tail[p] = n]
  IN IF IsMyChild(l, p, n) THEN l
     ELSE [b EXCEPT !.prev[n] = prev, !.next[n] = next, !.parent[n] = p, !.count[p] = @ + 1]
InsertBefore(l, p, n, next) == InsertListNode(l, p, n, IF next # Null THEN l.prev[next] ELSE l.tail[p])
InsertHead(l, p, n) == InsertListNode(l, p, n, Null)
InsertTail(l, p, n) == InsertListNode(l, p, n, l.tail[p])

(* The walk of MoveListNodes reads a node's next before the node is moved.  *)
RECURSIVE MoveFrom(_, _, _, _)
MoveFrom(l, p, n, prev) ==
  IF n = Null THEN l
  ELSE MoveFrom(InsertListNode(RemoveFromParent(l, n), p, n, prev), p, l.next[n], n)
MoveListNodes(l, p, src, prev) == IF src = p THEN l ELSE MoveFrom(l, p, l.head[src], prev)
RECURSIVE SetEmptyList(_, _)
SetEmptyList(l, p) ==
  IF l.head[p] = Null THEN [l EXCEPT !.tail[p] = Null, !.count[p] = 0]
  ELSE SetEmptyList(RemoveFromParent(l, l.head[p]), p)

(* GetAt walks the list; forward and backward are the lists as a walk in    *)
(* either direction finds them.                                             *)
GetAt(l, p, index) ==
  LET Nth[i \in 0..index] == IF i = 0 THEN l.head[p]
                             ELSE IF Nth[i - 1] = Null THEN Null ELSE l.next[Nth[i - 1]]
  IN IF index < 0 \/ index >= l.count[p] THEN Null ELSE Nth[index]
RECURSIVE Forward(_, _)
Forward(l, n) == IF n = Null THEN <<>> ELSE <<n>> \o Forward(l, l.next[n])
RECURSIVE Backward(_, _)
Backward(l, n) == IF n = Null THEN <<>> ELSE Backward(l, l.prev[n]) \o <<n>>
=============================================================================
