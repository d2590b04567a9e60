---------------------------- MODULE ThreadLockRW ----------------------------
(***************************************************************************)
(* cThreadLockRW (cThreadLockRW.h): a cThreadLockableFast that all readers  *)
(* own together under one reader id.  Their LockThread and UnlockThread are *)
(* serialised by _ReaderLock, because a thread id no longer names a thread. *)
(* The lock itself is the detailed ThreadLock; _ReaderLock is the abstract  *)
(* ReentrantLock that ThreadLock implements.                                *)
(***************************************************************************)
EXTENDS Integers, FiniteSets

CONSTANTS Threads,
          NoThread,      \* cThreadId::k_NULL
          ReaderId,      \* kReaderThreadId
          MaxNest        \* BOUND: guards that one thread has alive at once

ASSUME IdsAssumption == NoThread \notin Threads \cup {ReaderId} /\ ReaderId \notin Threads
ASSUME BoundsAssumption == IsFiniteSet(Threads) /\ MaxNest \in Nat \ {0}

VARIABLES owner, count, pc, reg,   \* of the lock, as in ThreadLock
          held,                    \* guards of either kind each thread has alive
          reads,                   \* those of them that are cThreadGuardRead
          readerLock,              \* _ReaderLock: who is inside it
          op                       \* the cThreadLockRW call each thread is in

vars == <<owner, count, pc, reg, held, reads, readerLock, op>>
baseVars == <<owner, count, pc, reg, held>>

L == INSTANCE ThreadLock WITH Ids <- Threads \cup {ReaderId}, Terminable <- {},
       FiniteWaits <- {}, wait <- [t \in Threads |-> -1], dead <- {}
R == INSTANCE ReentrantLock WITH depth <- readerLock, MaxNest <- 1

Init ==
  /\ owner = NoThread
  /\ count = 0
  /\ pc   = [t \in Threads |-> "client"]
  /\ reg  = [t \in Threads |-> 0]
  /\ held = [t \in Threads |-> 0]
  /\ R!Init
  /\ reads = [t \in Threads |-> 0]
  /\ op = [t \in Threads |-> "client"]

Idle(t) == op[t] = "client"
Begin(t, what) == op' = [op EXCEPT ![t] = what]

-----------------------------------------------------------------------------
(* Mutants: the downgrade takes any owner for its own; it counts nothing.   *)
LockReadOwnAnyOwner(t) ==
  /\ Idle(t) /\ owner # NoThread /\ held[t] < MaxNest
  /\ pc' = [pc EXCEPT ![t] = "incLoad"]
  /\ Begin(t, "readOwn")
  /\ UNCHANGED <<owner, count, reg, held, reads, readerLock>>
(* LockRead by the thread that has the lock for writing: only one more ++.  *)
LockReadOwn(t) ==
  /\ Idle(t) /\ owner = t /\ held[t] < MaxNest
  /\ pc' = [pc EXCEPT ![t] = "incLoad"]
  /\ Begin(t, "readOwn")
  /\ UNCHANGED <<owner, count, reg, held, reads, readerLock>>

(* LockRead by any other thread: first it takes _ReaderLock ...             *)
LockRead(t) ==
  /\ Idle(t) /\ owner # t /\ held[t] < MaxNest
  /\ Begin(t, "readEnter")
  /\ UNCHANGED <<baseVars, reads, readerLock>>

(* ... and keeps it while LockThread(kReaderThreadId) waits for a writer,   *)
LockReadThread(t) ==
  /\ op[t] = "readEnter"
  /\ R!Acquire(t)
  /\ L!Call(t, -1)
  /\ Begin(t, "readLock")
  /\ UNCHANGED reads

(* Mutant: the guard of _ReaderLock is never destructed.                    *)
ReaderUnlockNever(t) ==
  /\ op[t] \in {"readLock", "unreadDec"} /\ pc[t] = "client"
  /\ Begin(t, "client")
  /\ UNCHANGED <<baseVars, reads, readerLock>>

(* until the guard's scope ends.                                            *)
ReaderUnlock(t) ==
  /\ op[t] \in {"readLock", "unreadDec"} /\ pc[t] = "client"
  /\ R!Release(t)
  /\ Begin(t, "client")
  /\ UNCHANGED <<baseVars, reads>>

(* UnlockRead by the thread that has the lock for writing.                  *)
UnlockReadOwn(t) ==
  /\ Idle(t) /\ owner = t /\ reads[t] > 0
  /\ L!Unlock(t)
  /\ reads' = [reads EXCEPT ![t] = @ - 1]
  /\ Begin(t, "unreadOwn")
  /\ UNCHANGED readerLock

(* UnlockRead by any other thread: _ReaderLock, then UnlockThread.          *)
UnlockRead(t) ==
  /\ Idle(t) /\ owner # t /\ reads[t] > 0
  /\ Begin(t, "unreadEnter")
  /\ UNCHANGED <<baseVars, reads, readerLock>>

(* Mutant: UnlockRead does not take _ReaderLock.                            *)
UnlockReadUnserialised(t) ==
  /\ op[t] = "unreadEnter"
  /\ L!Unlock(t)
  /\ reads' = [reads EXCEPT ![t] = @ - 1]
  /\ Begin(t, "unreadOwn")
  /\ UNCHANGED readerLock

UnlockReadThread(t) ==
  /\ op[t] = "unreadEnter"
  /\ R!Acquire(t)
  /\ L!Unlock(t)
  /\ reads' = [reads EXCEPT ![t] = @ - 1]
  /\ Begin(t, "unreadDec")

(* Write lock: Lock() and Unlock() of the base class.  Its caller has no    *)
(* read guard but under a write lock of its own (the guard's comment: "NOT  *)
(* upgradeable on the same thread to Write").                               *)
Lock(t) ==
  /\ Idle(t) /\ held[t] < MaxNest
  /\ reads[t] = 0 \/ owner = t
  /\ L!Call(t, -1)
  /\ Begin(t, "write")
  /\ UNCHANGED <<reads, readerLock>>

Unlock(t) ==
  /\ Idle(t) /\ held[t] > reads[t]
  /\ L!Unlock(t)
  /\ Begin(t, "unwrite")
  /\ UNCHANGED <<reads, readerLock>>

(* A step of the base class in whichever call the thread is in.             *)
BaseStep(t) ==
  /\ \/ op[t] = "readLock" /\ L!LockStep(t, ReaderId)
     \/ op[t] \in {"write", "readOwn"} /\ L!LockStep(t, t)
     \/ op[t] \in {"unreadDec", "unreadOwn", "unwrite"} /\ L!UnlockStep(t)
  /\ reads' = IF op[t] \in {"readLock", "readOwn"} /\ L!IncStore(t)
              THEN [reads EXCEPT ![t] = @ + 1] ELSE reads
  /\ op' = IF op[t] \in {"write", "readOwn", "unreadOwn", "unwrite"} /\ pc'[t] = "client"
           THEN [op EXCEPT ![t] = "client"] ELSE op
  /\ UNCHANGED readerLock

-----------------------------------------------------------------------------
(* The calls a thread makes, and what it does inside them.                  *)
Client(t) ==
  \/ LockReadOwn(t) \/ LockRead(t) \/ UnlockReadOwn(t) \/ UnlockRead(t)
  \/ Lock(t) \/ Unlock(t)
Work(t) ==
  LockReadThread(t) \/ UnlockReadThread(t) \/ ReaderUnlock(t) \/ BaseStep(t)

Next == \E t \in Threads : Client(t) \/ Work(t)

Spec == Init /\ [][Next]_vars

(* Threads run, and every guard's scope ends.                               *)
Fairness ==
  \A t \in Threads :
    /\ WF_vars(Work(t))
    /\ WF_vars(UnlockReadOwn(t) \/ UnlockRead(t) \/ Unlock(t))

FairSpec == Spec /\ Fairness

-----------------------------------------------------------------------------
TypeOK ==
  /\ owner \in Threads \cup {ReaderId, NoThread}
  /\ count \in Nat
  /\ reg \in [Threads -> Nat]
  /\ held \in [Threads -> 0..MaxNest]
  /\ \A t \in Threads : reads[t] \in 0..held[t]
  /\ readerLock \in [Threads -> {0, 1}]
  /\ op \in [Threads -> {"client", "readEnter", "readLock", "readOwn", "unreadEnter",
                         "unreadDec", "unreadOwn", "write", "unwrite"}]

writes == [t \in Threads |-> held[t] - reads[t]]

(* The guards that are alive, of all threads and either kind.               *)
Guards == {g \in Threads \X (1..MaxNest) : g[2] <= held[g[1]]}

(* Whenever no call is under way the shared counter is exactly the guards   *)
(* that are alive, of all threads and either kind, and the lock is free     *)
(* when there are none: the plain ++ and -- lose no update although every   *)
(* reader makes them under the same id (cThreadLockRW.h "Since this is      *)
(* shared ..."), in whatever order the guards go.                           *)
CountIsExact ==
  /\ TypeOK
  /\ (\A t \in Threads : op[t] = "client") =>
       /\ count = Cardinality(Guards)
       /\ owner = NoThread <=> count = 0

(* "Prevent writer from breaking me": no guard is alive beside a write      *)
(* guard of another thread.                                                 *)
ReadersExcludeWriters ==
  \A t, u \in Threads : writes[t] > 0 /\ held[u] > 0 => t = u

(* The read/write lock implements the abstract one.                         *)
Abstract == INSTANCE SharedLock WITH reading <- reads, writing <- writes
ImplementsSharedLock == Abstract!Spec

(* Waiting for a writer while holding _ReaderLock gridlocks nobody: if a    *)
(* thread waits, some thread gets in or out of the lock.                    *)
SomebodyMoves ==
  (\E t \in Threads : op[t] \in {"readEnter", "readLock", "unreadEnter", "write"})
    ~> \E t \in Threads : pc[t] \in {"incStore", "decStore"}
=============================================================================
