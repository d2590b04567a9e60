--------------------------- MODULE ReentrantLock ---------------------------
(***************************************************************************)
(* What every lock of cThreadLock.h promises its callers: the calling       *)
(* thread may lock again what it has locked, each lock is undone by one     *)
(* unlock, and no two threads hold the lock at once.                        *)
(***************************************************************************)
EXTENDS Integers

CONSTANTS Threads,   \* the threads that use the lock
          MaxNest    \* BOUND: how deep one thread nests its locks

VARIABLE depth       \* depth[t]: locks that t holds and has not undone

Init == depth = [t \in Threads |-> 0]

Acquire(t) ==
  /\ \A u \in Threads \ {t} : depth[u] = 0
  /\ depth[t] < MaxNest
  /\ depth' = [depth EXCEPT ![t] = @ + 1]

Release(t) ==
  /\ depth[t] > 0
  /\ depth' = [depth EXCEPT ![t] = @ - 1]

(* The thread is hard terminated by the system: it holds nothing any more.  *)
Abandon(t) ==
  /\ depth[t] > 0
  /\ depth' = [depth EXCEPT ![t] = 0]

Next == \E t \in Threads : Acquire(t) \/ Release(t) \/ Abandon(t)

Spec == Init /\ [][Next]_depth

=============================================================================
