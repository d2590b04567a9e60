---------------------------- MODULE BoundedFifo ----------------------------
(***************************************************************************)
(* What a queue of cQueue.h promises: elements come out in the order they   *)
(* went in, each once, and no more than Capacity of them are inside.        *)
(***************************************************************************)
EXTENDS Integers, Sequences

CONSTANTS Values,
          Nothing,    \* no element was read yet
          Capacity

VARIABLES items,      \* what was written and not read
          got         \* the element that was read last

vars == <<items, got>>

Init == items = <<>> /\ got = Nothing

Put(v) ==
  /\ Len(items) < Capacity
  /\ items' = Append(items, v)
  /\ UNCHANGED got

Get ==
  /\ items # <<>>
  /\ got' = Head(items)
  /\ items' = Tail(items)

Discard(n) ==
  /\ n <= Len(items)
  /\ items' = SubSeq(items, n + 1, Len(items))
  /\ UNCHANGED got

Next ==
  \/ \E v \in Values : Put(v)
  \/ Get
  \/ \E n \in 1..Capacity : Discard(n)

Spec == Init /\ [][Next]_vars
=============================================================================
