-------------------------------- MODULE Blobs --------------------------------
(***************************************************************************)
(* cBlob of cBlob.h and cBlob.cpp over cMemSpan.h and cHeap.cpp: a pointer *)
(* and a size whose upper byte says what kind of memory it is and, for the *)
(* heap, that the blob frees it; and cTempPool1, a ring of such blobs.  A  *)
(* world w has mem[p], the bytes at the block or static address p, allocs, *)
(* the count of cHeapStats, and blob[v].                                   *)
(***************************************************************************)
EXTENDS Integers, Sequences, FiniteSets
CONSTANTS Block,      \* what the heap can give out
          Static,     \* address of static memory -> its bytes
          Var         \* the blobs

Null == 0
Types == {"null", "const", "static", "temp", "heap"}     \* MEMTYPE_t
Freed == <<>>
Junk == -1
NullBlob == [p |-> Null, size |-> 0, type |-> "null"]
NoBlobs == [mem |-> [p \in Block \cup DOMAIN Static |-> IF p \in Block THEN Freed ELSE Static[p]],
            allocs |-> 0, blob |-> [v \in Var |-> NullBlob]]
Bytes(w, s) == IF s.p = Null THEN <<>> ELSE SubSeq(w.mem[s.p], 1, s.size)
Live(w) == {p \in Block : w.mem[p] # Freed}
isHeap(w, v) == w.blob[v].type = "heap"
isNull(w, v) == w.blob[v].p = Null

(* cHeap, and the setters of cMemSpan: a span of no size has no pointer.    *)
AllocPtr(w, n) == LET p == CHOOSE x \in Block \ Live(w) : TRUE
                  IN [p |-> p, w |-> [w EXCEPT !.mem[p] = [k \in 1..n |-> Junk], !.allocs = @ + 1]]
FreePtr(w, p) == [w EXCEPT !.mem[p] = Freed, !.allocs = @ - 1]
ReAllocPtr(w, p, n) ==
  [w EXCEPT !.mem[p] = [k \in 1..n |-> IF k <= Len(@) THEN @[k] ELSE Junk]]
SetSpan2(w, v, p, n, type) ==
  [w EXCEPT !.blob[v] = [p |-> IF n = 0 THEN Null ELSE p, size |-> n, type |-> type]]
SetCopySpan(w, v, bytes) ==
  LET n == IF Len(bytes) < w.blob[v].size THEN Len(bytes) ELSE w.blob[v].size
  IN IF isNull(w, v) THEN w
     ELSE [w EXCEPT !.mem[w.blob[v].p] = [k \in DOMAIN @ |-> IF k <= n THEN bytes[k] ELSE @[k]]]

FreeHeap(w, v) == IF isHeap(w, v) THEN FreePtr(w, w.blob[v].p) ELSE w
SetBlobNull(w, v) ==
  IF isNull(w, v) THEN w ELSE [FreeHeap(w, v) EXCEPT !.blob[v] = NullBlob]
DetachBlob(w, v) == [w EXCEPT !.blob[v] = NullBlob]
AllocSize(w, v, n) ==
  IF n = 0 THEN SetBlobNull(w, v)
  ELSE LET a == AllocPtr(FreeHeap(w, v), n) IN SetSpan2(a.w, v, a.p, n, "heap")
ReAllocSize(w, v, n) ==
  LET prev == Bytes(w, w.blob[v])
  IN IF n = 0 THEN SetBlobNull(w, v)
     ELSE IF isNull(w, v) THEN AllocSize(w, v, n)
     ELSE IF ~isHeap(w, v) THEN SetCopySpan(AllocSize(w, v, n), v, prev)
     ELSE IF n = w.blob[v].size THEN w
     ELSE SetSpan2(ReAllocPtr(w, w.blob[v].p, n), v, w.blob[v].p, n, "heap")

SetCopyAlloc(w, v, bytes) == SetCopySpan(AllocSize(w, v, Len(bytes)), v, bytes)
SetCopyReAlloc(w, v, bytes) == SetCopySpan(ReAllocSize(w, v, Len(bytes)), v, bytes)
IsSameSpan(w, v, s, type) ==
  w.blob[v].p = s.p /\ w.blob[v].size = s.size /\ w.blob[v].type = type
SetBlob(w, v, s, type) ==
  IF IsSameSpan(w, v, s, type) THEN w
  ELSE IF type = "heap"
  THEN IF isHeap(w, v) THEN SetCopyReAlloc(w, v, Bytes(w, s)) ELSE SetCopyAlloc(w, v, Bytes(w, s))
  ELSE IF s.size = 0 \/ s.p = Null THEN SetBlobNull(w, v)
  ELSE SetSpan2(FreeHeap(w, v), v, s.p, s.size, type)
SetBlobCopy(w, v, u) ==
  LET r == w.blob[u]
  IN SetBlob(w, v, [p |-> r.p, size |-> r.size], IF r.type = "temp" THEN "heap" ELSE r.type)
(* The move constructor; the move assignment does the same and so drops     *)
(* what v had.                                                              *)
MoveBlob(w, v, u) == DetachBlob([w EXCEPT !.blob[v] = w.blob[u]], u)
Destruct(w, v) == DetachBlob(FreeHeap(w, v), v)

-----------------------------------------------------------------------------
(* cTempPool1: the blobs 0..(max - 1) are reused in turn; cur is the one    *)
(* given out last, -1 before the first.                                     *)
GetMemSpan(t, max, n) ==
  LET cur == (t.cur + 1) % max
  IN [cur |-> cur, w |-> ReAllocSize(t.w, cur, n)]
GetT(t, max, bytes) ==
  LET s == GetMemSpan(t, max, Len(bytes) + 1)
  IN IF bytes = <<>> THEN t
     ELSE [s EXCEPT !.w = SetCopySpan(@, s.cur, bytes \o <<0>>)]
=============================================================================
