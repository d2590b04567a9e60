----------------------------- MODULE ThreadLock -----------------------------
(***************************************************************************)
(* cThreadLockableFast (cThreadLock.h, cThreadLock.cpp): a re-entrant spin  *)
(* lock made of an interlocked owner word and a plain counter.  The owner   *)
(* word is the only thing changed atomically.  The counter is changed with  *)
(* ++ and --, each a load and a store here, so that the claim of cLocker.h  *)
(* that it is "ONLY changed from within a lock" is checked, not assumed.    *)
(***************************************************************************)
EXTENDS Integers, FiniteSets

CONSTANTS Threads,      \* the threads that use the lock
          NoThread,     \* cThreadId::k_NULL
          Ids,          \* what may be written to the owner word
          MaxNest,      \* BOUND: how deep one thread nests its locks
          FiniteWaits,  \* what callers pass to LockTry as nWaitMS
          Terminable    \* threads the system may hard terminate

Infinite == -1          \* cTimeSys::k_INF
Waits == FiniteWaits \cup {Infinite}

ASSUME ThreadsAssumption ==
  /\ Threads \subseteq Ids
  /\ NoThread \notin Ids
  /\ Terminable \subseteq Threads
ASSUME BoundsAssumption ==
  /\ MaxNest \in Nat \ {0}
  /\ FiniteWaits \subseteq Nat

VARIABLES owner,   \* _ThreadLockOwner
          count,   \* _nLockCount
          pc,      \* where each thread is in LockThread or UnlockThread
          wait,    \* nWaitMS that is left to each thread in LockThread
          reg,     \* the counter value a ++ or a -- has loaded (0: none)
          held,    \* the cLockerT guards each thread has alive
          dead     \* the threads that were hard terminated

vars == <<owner, count, pc, wait, reg, held, dead>>

-----------------------------------------------------------------------------
Init ==
  /\ owner = NoThread
  /\ count = 0
  /\ pc    = [t \in Threads |-> "client"]
  /\ wait  = [t \in Threads |-> 0]
  /\ reg   = [t \in Threads |-> 0]
  /\ held  = [t \in Threads |-> 0]
  /\ dead  = {}

At(t, here)  == pc[t] = here
Goto(t, loc) == pc' = [pc EXCEPT ![t] = loc]

(* Lock() is LockTry(k_INF) without the answer: both enter LockThread.      *)
Call(t, nWaitMS) ==
  /\ At(t, "client")
  /\ held[t] < MaxNest
  /\ wait' = [wait EXCEPT ![t] = nWaitMS]
  /\ Goto(t, "cas")
  /\ UNCHANGED <<owner, count, reg, held, dead>>

(* Mutant: the owner word is written without being compared.                *)
CompareExchangeAnyOwner(t, nTid) ==
  /\ At(t, "cas")
  /\ owner' = nTid
  /\ Goto(t, "incLoad")
  /\ UNCHANGED <<count, wait, reg, held, dead>>

(* The CompareExchange finds the lock free, or already under this id.       *)
CompareExchange(t, nTid) ==
  /\ At(t, "cas")
  /\ owner \in {NoThread, nTid}
  /\ owner' = nTid
  /\ Goto(t, "incLoad")
  /\ UNCHANGED <<count, wait, reg, held, dead>>

(* Somebody else owns the lock and no time is left: LockThread gives up.    *)
GiveUp(t, nTid) ==
  /\ At(t, "cas")
  /\ owner \notin {NoThread, nTid}
  /\ wait[t] = 0
  /\ Goto(t, "client")
  /\ UNCHANGED <<owner, count, wait, reg, held, dead>>

(* Somebody else owns the lock: SleepCurrent, then one tick less to wait.   *)
Collide(t, nTid) ==
  /\ At(t, "cas")
  /\ owner \notin {NoThread, nTid}
  /\ wait[t] # 0
  /\ Goto(t, "sleep")
  /\ UNCHANGED <<owner, count, wait, reg, held, dead>>

(* Mutants: an infinite wait is counted down; a finite wait is not.         *)
WakeCountsInfinite(t) ==
  /\ At(t, "sleep")
  /\ wait' = [wait EXCEPT ![t] = @ - 1]
  /\ Goto(t, "cas")
  /\ UNCHANGED <<owner, count, reg, held, dead>>
WakeKeepsWait(t) ==
  /\ At(t, "sleep")
  /\ Goto(t, "cas")
  /\ UNCHANGED <<owner, count, wait, reg, held, dead>>

Wake(t) ==
  /\ At(t, "sleep")
  /\ wait' = [wait EXCEPT ![t] = IF @ = Infinite THEN @ ELSE @ - 1]
  /\ Goto(t, "cas")
  /\ UNCHANGED <<owner, count, reg, held, dead>>

(* IncLockCount, as a load and a store; LockThread then returns true.       *)
IncLoad(t) ==
  /\ At(t, "incLoad")
  /\ reg' = [reg EXCEPT ![t] = count]
  /\ Goto(t, "incStore")
  /\ UNCHANGED <<owner, count, wait, held, dead>>

IncStore(t) ==
  /\ At(t, "incStore")
  /\ count' = reg[t] + 1
  /\ reg'   = [reg EXCEPT ![t] = 0]
  /\ held'  = [held EXCEPT ![t] = @ + 1]
  /\ Goto(t, "client")
  /\ UNCHANGED <<owner, wait, dead>>

(* The destructor of a valid cLockerT calls Unlock, once.                   *)
Unlock(t) ==
  /\ At(t, "client")
  /\ held[t] > 0
  /\ held' = [held EXCEPT ![t] = @ - 1]
  /\ Goto(t, "decLoad")
  /\ UNCHANGED <<owner, count, wait, reg, dead>>

DecLoad(t) ==
  /\ At(t, "decLoad")
  /\ reg' = [reg EXCEPT ![t] = count]
  /\ Goto(t, "decStore")
  /\ UNCHANGED <<owner, count, wait, held, dead>>

(* Mutants: UnlockThread tests nothing, the count before the --, or <= 1.   *)
DecStoreThen(t, loc) ==
  /\ At(t, "decStore")
  /\ count' = reg[t] - 1
  /\ reg'   = [reg EXCEPT ![t] = 0]
  /\ Goto(t, loc)
  /\ UNCHANGED <<owner, wait, held, dead>>
DecStoreAlwaysClears(t) == DecStoreThen(t, "clear")
DecStoreTestsOldCount(t) == DecStoreThen(t, IF reg[t] = 0 THEN "clear" ELSE "client")
DecStoreOffByOne(t) == DecStoreThen(t, IF reg[t] - 1 <= 1 THEN "clear" ELSE "client")

(* DecLockCount, then the test of UnlockThread on what it returned.         *)
DecStore(t) ==
  /\ At(t, "decStore")
  /\ count' = reg[t] - 1
  /\ reg'   = [reg EXCEPT ![t] = 0]
  /\ Goto(t, IF reg[t] - 1 = 0 THEN "clear" ELSE "client")
  /\ UNCHANGED <<owner, wait, held, dead>>

(* Mutant: the Exchange is forgotten.                                       *)
ClearNothing(t) ==
  /\ At(t, "clear")
  /\ Goto(t, "client")
  /\ UNCHANGED <<owner, count, wait, reg, held, dead>>

ClearThreadLockOwner(t) ==
  /\ At(t, "clear")
  /\ owner' = NoThread
  /\ Goto(t, "client")
  /\ UNCHANGED <<count, wait, reg, held, dead>>

-----------------------------------------------------------------------------
(* The system hard terminates a thread, at any point of its code.           *)
Terminate(t) ==
  /\ t \in Terminable \ dead
  /\ dead' = dead \cup {t}
  /\ held' = [held EXCEPT ![t] = 0]
  /\ Goto(t, "dead")
  /\ UNCHANGED <<owner, count, wait, reg>>

(* ClearThreadLockOwner(nThreadId), which another thread calls for it.      *)
RecoverOwner(nThreadId) ==
  /\ nThreadId \in dead
  /\ \E u \in Threads \ dead : At(u, "client")
  /\ owner = nThreadId
  /\ owner' = NoThread
  /\ UNCHANGED <<count, pc, wait, reg, held, dead>>

-----------------------------------------------------------------------------
(* One step of LockThread(nTid) or of UnlockThread in thread t.             *)
LockStep(t, nTid) ==
  \/ CompareExchange(t, nTid)
  \/ GiveUp(t, nTid)
  \/ Collide(t, nTid)
  \/ Wake(t)
  \/ IncLoad(t)
  \/ IncStore(t)
UnlockStep(t) == DecLoad(t) \/ DecStore(t) \/ ClearThreadLockOwner(t)

Next ==
  \E t \in Threads :
    \/ \E nWaitMS \in Waits : Call(t, nWaitMS)
    \/ LockStep(t, t)
    \/ Unlock(t)
    \/ UnlockStep(t)
    \/ Terminate(t)
    \/ RecoverOwner(t)

Spec == Init /\ [][Next]_vars

(* A live thread keeps running, and a guard's scope ends.                   *)
Fairness ==
  \A t \in Threads :
    /\ WF_vars(LockStep(t, t))
    /\ WF_vars(UnlockStep(t))
    /\ WF_vars(Unlock(t))

FairSpec == Spec /\ Fairness

-----------------------------------------------------------------------------
TypeOK ==
  /\ owner \in Threads \cup {NoThread}
  /\ count \in Int
  /\ pc \in [Threads -> {"client", "cas", "sleep", "incLoad", "incStore",
                         "decLoad", "decStore", "clear", "dead"}]
  /\ wait \in [Threads -> Nat \cup {Infinite}]
  /\ reg \in [Threads -> Int]
  /\ held \in [Threads -> 0..MaxNest]
  /\ dead \subseteq Terminable

(* t is between a won CompareExchange and the Exchange that frees the lock. *)
Inside(t) ==
  \/ held[t] > 0
  \/ pc[t] \in {"incLoad", "incStore", "decLoad", "decStore", "clear"}

(* No two threads are inside the lock at once, whatever the interleaving of *)
(* their CompareExchange, counter and Exchange steps, and although a thread *)
(* may be hard terminated inside (cThreadLock.cpp LockThread).              *)
MutualExclusion ==
  \A t, u \in Threads : Inside(t) /\ Inside(u) => t = u

(* The guards of t, and the one whose Unlock has not stored its -- yet.     *)
Counted(t) == held[t] + (IF pc[t] \in {"decLoad", "decStore"} THEN 1 ELSE 0)

(* While nobody was hard terminated the unprotected counter is exactly the  *)
(* number of guards of the owner: no ++ or -- of two threads overlaps       *)
(* (cLocker.h "ONLY changed from within a lock").                           *)
CountIsExact ==
  dead = {} => count = IF owner = NoThread THEN 0 ELSE Counted(owner)

(* A guard that is alive owns the lock, and the counter covers it.          *)
NeverFreedUnderGuard ==
  \A t \in Threads : held[t] > 0 => owner = t /\ count >= held[t]

(* "The thread that has the lock" (cThreadLock.h:30): when the owner word   *)
(* names a thread that lives, that thread is inside the lock, so a lock     *)
(* that all guards have left is free for everybody.                         *)
OwnerHasTheLock ==
  owner \in Threads \ dead => Inside(owner)

(* The same while ClearThreadLockOwner(nThreadId) has had nothing to do.    *)
FreeWhenLeft == dead = {} => OwnerHasTheLock

(* UnlockThread frees the lock exactly when the last guard leaves: not      *)
(* before, hard terminations included, so that the owner can lock again     *)
(* without waiting for itself (cThreadLock.h "multi locks on a single       *)
(* thread are allowed and counted"), and not later, so that a lock that all *)
(* have left is not lost.                                                   *)
FreedExactlyWhenLeft == NeverFreedUnderGuard /\ FreeWhenLeft

(* The detailed lock implements the abstract one, the guards being its      *)
(* depth: Acquire is the end of LockThread, Release the start of Unlock.    *)
Abstract == INSTANCE ReentrantLock WITH depth <- held
ImplementsReentrantLock == Abstract!Spec

(* LockTry with a finite nWaitMS answers, whoever holds the lock and        *)
(* however long: it tries at most nWaitMS + 1 times.                        *)
LockTryReturns ==
  \A t \in Threads :
    At(t, "cas") /\ wait[t] # Infinite ~> pc[t] \in {"client", "dead"}

(* What LockTry asserts once LockThread has counted (cThreadLock.cpp:70).   *)
(* It is not so (nothing here checks it): a thread that has the lock may    *)
(* try it again, which cThreadLock.h allows and counts, and after the owner *)
(* was recovered from a dead thread the counter starts from what that left. *)
LockTryCountsOne ==
  \A t \in Threads : At(t, "incStore") /\ wait[t] # Infinite => reg[t] = 0

(* While nobody is hard terminated, threads that spin in Lock() never all   *)
(* wait for ever: some LockThread wins its CompareExchange.                 *)
SomebodyGetsIn ==
  (\E t \in Threads : pc[t] \in {"cas", "sleep"} /\ wait[t] = Infinite)
    ~> (dead # {} \/ \E t \in Threads : At(t, "incLoad"))
=============================================================================
