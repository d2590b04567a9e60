------------------------- MODULE ThreadLockRW_proofs -------------------------
(***************************************************************************)
(* Machine-checked proofs about ThreadLockRW, for every finite set of       *)
(* threads and every number of guards that each of them has alive.          *)
(***************************************************************************)
EXTENDS ThreadLockRW, FiniteSetTheorems, TLAPS

Reading == {"readLock", "unreadDec"}              \* the calls under the reader id
Owning  == {"readOwn", "write", "unreadOwn", "unwrite"}   \* and under the thread's

Types ==
  /\ TypeOK
  /\ count \in Int
  /\ pc \in [Threads -> {"client", "cas", "sleep", "incLoad", "incStore",
                         "decLoad", "decStore", "clear"}]
  /\ reads \in [Threads -> Nat]

(* Where a thread is in the base class in each call of cThreadLockRW.       *)
Places ==
  \A t \in Threads :
    /\ op[t] \in {"client", "readEnter", "unreadEnter"} => pc[t] = "client"
    /\ op[t] = "readLock" => pc[t] \in {"cas", "sleep", "incLoad", "incStore", "client"}
    /\ op[t] = "write" => pc[t] \in {"cas", "sleep", "incLoad", "incStore"}
    /\ op[t] = "readOwn" => pc[t] \in {"incLoad", "incStore"}
    /\ op[t] = "unreadDec" => pc[t] \in {"decLoad", "decStore", "clear", "client"}
    /\ op[t] \in {"unreadOwn", "unwrite"} => pc[t] \in {"decLoad", "decStore", "clear"}
    /\ op[t] = "readEnter" \/ pc[t] \in {"cas", "sleep", "incLoad", "incStore"} => held[t] < MaxNest
    /\ op[t] = "unreadEnter" => reads[t] > 0

(* _ReaderLock is held from LockThread or UnlockThread to the guard's end.  *)
ReadersAreSerial ==
  \A t \in Threads :
    /\ readerLock[t] = 1 <=> op[t] \in Reading
    /\ op[t] \in Reading => \A u \in Threads : op[u] \in Reading => u = t

(* Between a won CompareExchange and the end of the call.                   *)
Busy(t) == pc[t] \in {"incLoad", "incStore", "decLoad", "decStore", "clear"}

(* What the owner word means: no guards and nobody at work when it is free; *)
(* only the owner's when it is a thread; no write guards, and only calls    *)
(* that have _ReaderLock, when it is the reader id.                         *)
OwnerMeans ==
  \A t \in Threads :
    /\ owner = NoThread => held[t] = 0 /\ ~Busy(t)
    /\ owner \in Threads => (held[t] > 0 \/ Busy(t) => owner = t)
    /\ owner = ReaderId => held[t] = reads[t] /\ (Busy(t) => op[t] \in Reading)
    /\ op[t] \in {"readEnter", "unreadEnter"} \cup Reading => owner # t
    /\ op[t] \in Owning /\ Busy(t) => owner = t

LoadedIsFresh ==
  \A t \in Threads : pc[t] \in {"incStore", "decStore"} => reg[t] = count

(* The counter: the guards alive, and the one whose -- is under way.        *)
Leaving == {t \in Threads : pc[t] \in {"decLoad", "decStore"}}

CountCovers ==
  /\ count = Cardinality(Guards) + (IF Leaving = {} THEN 0 ELSE 1)
  /\ \A t \in Threads : pc[t] = "clear" => count = 0
  /\ owner # NoThread => count > 0 \/ \E t \in Threads : Busy(t)

IInv ==
  /\ Types
  /\ Places
  /\ ReadersAreSerial
  /\ OwnerMeans
  /\ LoadedIsFresh
  /\ CountCovers

-----------------------------------------------------------------------------
(* One guard more or less in the set of all guards.                         *)
LEMMA GuardsAreFinite ==
  ASSUME Types
  PROVE  /\ IsFiniteSet(Guards) /\ Cardinality(Guards) \in Nat
         /\ Cardinality(Guards) = 0 <=> \A t \in Threads : held[t] = 0
<1>1. IsFiniteSet(Threads \X (1..MaxNest))
  <2>1. IsFiniteSet(1..MaxNest)
    BY BoundsAssumption, FS_Interval
  <2> QED BY <2>1, BoundsAssumption, FS_Product
<1>2. Guards \in SUBSET (Threads \X (1..MaxNest))
  BY DEF Guards
<1>3. IsFiniteSet(Guards)
  BY <1>1, <1>2, FS_Subset
<1>4. Guards = {} <=> \A t \in Threads : held[t] = 0
  <2>1. ASSUME NEW t \in Threads, held[t] # 0
        PROVE  <<t, 1>> \in Guards
    BY <2>1, BoundsAssumption DEF Types, TypeOK, Guards
  <2>2. ASSUME \A t \in Threads : held[t] = 0
        PROVE  Guards = {}
    BY <2>2 DEF Guards
  <2> QED BY <2>1, <2>2
<1> QED BY <1>3, <1>4, FS_EmptySet, FS_CardinalityType

LEMMA GuardBegins ==
  ASSUME Types, NEW t \in Threads, held[t] < MaxNest, held' = [held EXCEPT ![t] = @ + 1]
  PROVE  Cardinality(Guards') = Cardinality(Guards) + 1
<1> DEFINE g == <<t, held[t] + 1>>
<1>1. /\ held \in [Threads -> 0..MaxNest] /\ MaxNest \in Nat /\ held[t] \in Nat
      /\ held'[t] = held[t] + 1
      /\ \A u \in Threads : u # t => held'[u] = held[u]
  BY BoundsAssumption DEF Types, TypeOK
<1>2. g \notin Guards
  BY <1>1 DEF Guards
<1>3. Guards' = Guards \cup {g}
  <2>1. ASSUME NEW u \in Threads, NEW k \in 1..MaxNest
        PROVE  k <= held'[u] <=> k <= held[u] \/ <<u, k>> = g
    BY <1>1
  <2> QED BY <1>1, <2>1 DEF Guards
<1> QED BY <1>2, <1>3, GuardsAreFinite, FS_AddElement

LEMMA GuardEnds ==
  ASSUME Types, NEW t \in Threads, held[t] > 0, held' = [held EXCEPT ![t] = @ - 1]
  PROVE  Cardinality(Guards') = Cardinality(Guards) - 1
<1> DEFINE g == <<t, held[t]>>
<1>1. /\ held \in [Threads -> 0..MaxNest] /\ MaxNest \in Nat /\ held[t] \in 1..MaxNest
      /\ held'[t] = held[t] - 1
      /\ \A u \in Threads : u # t => held'[u] = held[u]
  BY BoundsAssumption DEF Types, TypeOK
<1>2. g \in Guards
  BY <1>1 DEF Guards
<1>3. Guards' = Guards \ {g}
  <2>1. ASSUME NEW u \in Threads, NEW k \in 1..MaxNest
        PROVE  k <= held'[u] <=> k <= held[u] /\ <<u, k>> # g
    BY <1>1
  <2> QED BY <1>1, <2>1 DEF Guards
<1> QED BY <1>2, <1>3, GuardsAreFinite, FS_RemoveElement

-----------------------------------------------------------------------------
LEMMA OneIsBusy ==
  ASSUME IInv, NEW t \in Threads, NEW u \in Threads, Busy(t), Busy(u)
  PROVE  t = u
BY DEF IInv, OwnerMeans, ReadersAreSerial, Types, TypeOK

LEMMA InitIInv == Init => IInv
<1> SUFFICES ASSUME Init PROVE IInv
  OBVIOUS
<1> USE IdsAssumption, BoundsAssumption DEF Init, R!Init
<1>1. Types
  BY DEF Types, TypeOK
<1>2. Places /\ ReadersAreSerial /\ OwnerMeans /\ LoadedIsFresh
  BY DEF Places, ReadersAreSerial, OwnerMeans, LoadedIsFresh, Busy, Reading, Owning
<1>3. Leaving = {}
  BY DEF Leaving
<1>4. CountCovers
  BY <1>1, <1>3, GuardsAreFinite DEF CountCovers
<1> QED BY <1>1, <1>2, <1>4 DEF IInv

(* The steps before LockThread and after UnlockThread: guards and counter   *)
(* stay as they are.                                                        *)
LEMMA StepCall ==
  ASSUME IInv, NEW t \in Threads,
         LockReadOwn(t) \/ LockRead(t) \/ UnlockRead(t) \/ LockReadThread(t)
           \/ ReaderUnlock(t) \/ Lock(t)
  PROVE  IInv'
<1> USE IdsAssumption, BoundsAssumption DEF Idle, Begin, baseVars
<1>1. UNCHANGED <<owner, count, reg, held, reads>>
  BY DEF LockReadOwn, LockRead, UnlockRead, LockReadThread, ReaderUnlock, Lock, L!Call, L!Goto
<1>2. /\ pc[t] = "client" /\ pc'[t] \in {"client", "cas", "incLoad"}
      /\ pc'[t] = "incLoad" => owner = t
      /\ \A u \in Threads : u # t => pc'[u] = pc[u] /\ op'[u] = op[u] /\ readerLock'[u] = readerLock[u]
  BY DEF IInv, Types, TypeOK, Places, LockReadOwn, LockRead, UnlockRead, LockReadThread,
         ReaderUnlock, Lock, L!Call, L!Goto, L!At, R!Acquire, R!Release
<1>3. Types'
  BY <1>1 DEF IInv, Types, TypeOK, LockReadOwn, LockRead, UnlockRead, LockReadThread,
         ReaderUnlock, Lock, L!Call, L!Goto, R!Acquire, R!Release
<1>4. Places'
  BY <1>1, <1>2 DEF IInv, Types, TypeOK, Places, LockReadOwn, LockRead, UnlockRead, LockReadThread,
         ReaderUnlock, Lock, L!Call, L!Goto, L!At, R!Acquire, R!Release
<1>5. ReadersAreSerial'
  BY <1>1, <1>2 DEF IInv, Types, TypeOK, ReadersAreSerial, Reading, LockReadOwn, LockRead, UnlockRead,
         LockReadThread, ReaderUnlock, Lock, L!Call, L!Goto, R!Acquire, R!Release
<1>6. OwnerMeans'
  BY <1>1, <1>2 DEF IInv, Types, TypeOK, Places, OwnerMeans, Busy, Reading, Owning, LockReadOwn, LockRead,
         UnlockRead, LockReadThread, ReaderUnlock, Lock, L!Call, L!Goto
<1>7. LoadedIsFresh'
  BY <1>1, <1>2 DEF IInv, LoadedIsFresh
<1>8. CountCovers'
  <2>1. Leaving' = Leaving /\ Guards' = Guards
    BY <1>1, <1>2 DEF Leaving, Guards
  <2>2. \A u \in Threads : Busy(u) => Busy(u)'
    BY <1>2 DEF Busy
  <2> QED BY <1>1, <1>2, <2>1, <2>2 DEF IInv, CountCovers
<1> QED BY <1>3, <1>4, <1>5, <1>6, <1>7, <1>8 DEF IInv

(* The start of an unlock: a guard is gone, the counter has it yet.         *)
LEMMA StepLeave ==
  ASSUME IInv, NEW t \in Threads, UnlockReadOwn(t) \/ UnlockReadThread(t) \/ Unlock(t)
  PROVE  IInv'
<1> USE IdsAssumption, BoundsAssumption DEF Idle, Begin
<1>1. /\ pc[t] = "client" /\ held[t] > 0 /\ UNCHANGED <<owner, count, reg>>
      /\ held' = [held EXCEPT ![t] = @ - 1] /\ pc' = [pc EXCEPT ![t] = "decLoad"]
  BY DEF UnlockReadOwn, UnlockReadThread, Unlock, L!Unlock, L!At, L!Goto
<1>2. \/ /\ owner = t /\ reads[t] > 0 /\ op' = [op EXCEPT ![t] = "unreadOwn"] /\ op[t] = "client"
         /\ reads' = [reads EXCEPT ![t] = @ - 1] /\ UNCHANGED readerLock
      \/ /\ op[t] = "unreadEnter" /\ op' = [op EXCEPT ![t] = "unreadDec"]
         /\ reads' = [reads EXCEPT ![t] = @ - 1] /\ R!Acquire(t)
      \/ /\ held[t] > reads[t] /\ op' = [op EXCEPT ![t] = "unwrite"] /\ op[t] = "client"
         /\ UNCHANGED <<reads, readerLock>>
  BY DEF UnlockReadOwn, UnlockReadThread, Unlock
<1>3. reads[t] > 0 \/ held[t] > reads[t]
  BY <1>2 DEF IInv, Places
<1>4. owner = t \/ (owner = ReaderId /\ op[t] = "unreadEnter" /\ R!Acquire(t))
  BY <1>1, <1>2 DEF IInv, Types, TypeOK, OwnerMeans
<1>5. \A u \in Threads : ~Busy(u)
  <2>1. CASE owner = t
    BY <1>1, <2>1 DEF IInv, OwnerMeans, Busy
  <2>2. CASE owner = ReaderId /\ R!Acquire(t)
    BY <1>1, <2>2 DEF IInv, Types, TypeOK, OwnerMeans, Busy, ReadersAreSerial, Reading, R!Acquire
  <2> QED BY <1>4, <2>1, <2>2
<1>6. Types'
  BY <1>1, <1>2 DEF IInv, Types, TypeOK, Places, R!Acquire
<1>7. Places'
  BY <1>1, <1>2 DEF IInv, Types, TypeOK, Places
<1>8. ReadersAreSerial'
  <2>1. CASE op[t] = "client" /\ UNCHANGED readerLock
    <3>1. \A u \in Threads : op'[u] \in Reading <=> op[u] \in Reading
      BY <1>2, <2>1 DEF IInv, Types, TypeOK, Reading
    <3> QED BY <2>1, <3>1 DEF IInv, ReadersAreSerial
  <2>2. CASE op' = [op EXCEPT ![t] = "unreadDec"] /\ R!Acquire(t)
    <3>1. \A u \in Threads : u # t => op[u] \notin Reading /\ readerLock[u] = 0
      BY <2>2 DEF IInv, ReadersAreSerial, R!Acquire
    <3>2. readerLock' = [readerLock EXCEPT ![t] = @ + 1] /\ readerLock[t] < 1
      BY <2>2 DEF R!Acquire
    <3>3. readerLock[t] \in {0, 1} /\ readerLock'[t] = 1 /\ op'[t] \in Reading
      BY <2>2, <3>2 DEF IInv, Types, TypeOK, Reading
    <3>4. \A u \in Threads : u # t => op'[u] \notin Reading /\ readerLock'[u] = 0
      BY <2>2, <3>1, <3>2 DEF IInv, Types, TypeOK
    <3> QED BY <3>3, <3>4 DEF ReadersAreSerial
  <2> QED BY <1>2, <2>1, <2>2
<1>9. OwnerMeans'
  BY <1>1, <1>2, <1>4, <1>5 DEF IInv, Types, TypeOK, OwnerMeans, Busy, Reading, Owning
<1>10. LoadedIsFresh'
  BY <1>1 DEF IInv, Types, LoadedIsFresh
<1>11. CountCovers'
  <2>1. Leaving = {} /\ Leaving' = {t} /\ Busy(t)'
    BY <1>1, <1>5 DEF IInv, Types, Leaving, Busy
  <2>2. Cardinality(Guards') = Cardinality(Guards) - 1 /\ Cardinality(Guards) \in Nat
    BY <1>1, GuardEnds, GuardsAreFinite DEF IInv
  <2>3. \A u \in Threads : pc'[u] # "clear"
    BY <1>1, <1>5 DEF IInv, Types, Busy
  <2> QED BY <1>1, <2>1, <2>2, <2>3 DEF IInv, CountCovers
<1> QED BY <1>6, <1>7, <1>8, <1>9, <1>10, <1>11 DEF IInv

(* The CompareExchange and the waiting for it.                              *)
LEMMA StepEnter ==
  ASSUME IInv, NEW t \in Threads, NEW id \in {ReaderId, t},
         id = ReaderId => op[t] = "readLock", id = t => op[t] \in {"write", "readOwn"},
         L!CompareExchange(t, id) \/ L!GiveUp(t, id) \/ L!Collide(t, id) \/ L!Wake(t),
         UNCHANGED <<reads, op, readerLock>>
  PROVE  IInv'
<1> USE IdsAssumption, BoundsAssumption
<1>1. /\ pc[t] \in {"cas", "sleep"} /\ UNCHANGED <<count, reg, held>>
      /\ \/ /\ owner \in {NoThread, id} /\ owner' = id /\ pc' = [pc EXCEPT ![t] = "incLoad"]
         \/ owner' = owner /\ pc' = [pc EXCEPT ![t] = "sleep"]
         \/ owner' = owner /\ pc' = [pc EXCEPT ![t] = "cas"]
  BY DEF L!CompareExchange, L!GiveUp, L!Collide, L!Wake, L!At, L!Goto
<1>2. Types'
  BY <1>1 DEF IInv, Types, TypeOK
<1>3. Places' /\ ReadersAreSerial' /\ LoadedIsFresh'
  BY <1>1 DEF IInv, Types, Places, ReadersAreSerial, LoadedIsFresh
<1>4. OwnerMeans'
  BY <1>1 DEF IInv, Types, TypeOK, Places, OwnerMeans, Busy, Reading, Owning
<1>5. CountCovers'
  <2>1. Leaving' = Leaving /\ Guards' = Guards
    BY <1>1 DEF IInv, Types, Leaving, Guards
  <2>2. \A u \in Threads : (Busy(u) => Busy(u)') /\ (pc'[u] = "clear" => pc[u] = "clear")
    BY <1>1 DEF IInv, Types, Busy
  <2>3. owner' # NoThread => owner # NoThread \/ Busy(t)'
    BY <1>1 DEF IInv, Types, Busy
  <2> QED BY <1>1, <2>1, <2>2, <2>3 DEF IInv, CountCovers
<1> QED BY <1>2, <1>3, <1>4, <1>5 DEF IInv

(* The counter is loaded.                                                   *)
LEMMA StepLoad ==
  ASSUME IInv, NEW t \in Threads, L!IncLoad(t) \/ L!DecLoad(t),
         UNCHANGED <<reads, op, readerLock>>
  PROVE  IInv'
<1>1. /\ UNCHANGED <<owner, count, held>> /\ reg' = [reg EXCEPT ![t] = count]
      /\ \/ pc[t] = "incLoad" /\ pc' = [pc EXCEPT ![t] = "incStore"]
         \/ pc[t] = "decLoad" /\ pc' = [pc EXCEPT ![t] = "decStore"]
  BY DEF L!IncLoad, L!DecLoad, L!At, L!Goto
<1>2. \A u \in Threads :
        /\ Busy(u)' <=> Busy(u)
        /\ (pc'[u] = "clear" <=> pc[u] = "clear")
        /\ (pc'[u] \in {"decLoad", "decStore"} <=> pc[u] \in {"decLoad", "decStore"})
  BY <1>1 DEF IInv, Types, Busy
<1>3. Types'
  BY <1>1, GuardsAreFinite DEF IInv, Types, TypeOK, CountCovers
<1>4. Places' /\ ReadersAreSerial' /\ LoadedIsFresh'
  BY <1>1 DEF IInv, Types, TypeOK, Places, ReadersAreSerial, LoadedIsFresh
<1>5. OwnerMeans'
  BY <1>1, <1>2 DEF IInv, OwnerMeans
<1>6. CountCovers'
  <2>1. Leaving' = Leaving /\ Guards' = Guards
    BY <1>1, <1>2 DEF Leaving, Guards
  <2> QED BY <1>1, <1>2, <2>1 DEF IInv, CountCovers
<1> QED BY <1>3, <1>4, <1>5, <1>6 DEF IInv

(* The ++ is stored: a guard more.                                          *)
LEMMA StepIncStore ==
  ASSUME IInv, NEW t \in Threads, L!IncStore(t), UNCHANGED readerLock,
         op[t] \in {"readLock", "readOwn", "write"},
         reads' = IF op[t] \in {"readLock", "readOwn"} THEN [reads EXCEPT ![t] = @ + 1] ELSE reads,
         op' = IF op[t] \in {"write", "readOwn"} THEN [op EXCEPT ![t] = "client"] ELSE op
  PROVE  IInv'
<1>1. /\ pc[t] = "incStore" /\ UNCHANGED owner /\ count' = reg[t] + 1
      /\ reg' = [reg EXCEPT ![t] = 0] /\ held' = [held EXCEPT ![t] = @ + 1]
      /\ pc' = [pc EXCEPT ![t] = "client"]
  BY DEF L!IncStore, L!At, L!Goto
<1>2. reg[t] = count /\ held[t] < MaxNest /\ Busy(t)
  BY <1>1 DEF IInv, LoadedIsFresh, Places, Busy
<1>3. \A u \in Threads : u # t => ~Busy(u)
  BY <1>2, OneIsBusy
<1>4. Cardinality(Guards') = Cardinality(Guards) + 1 /\ Cardinality(Guards) \in Nat
  BY <1>1, <1>2, GuardBegins, GuardsAreFinite DEF IInv
<1>5. Leaving = {} /\ Leaving' = {}
  BY <1>1, <1>3 DEF IInv, Types, Leaving, Busy
<1>6. CountCovers'
  <2>1. \A u \in Threads : pc'[u] # "clear"
    BY <1>1, <1>3 DEF IInv, Types, Busy
  <2> QED BY <1>1, <1>2, <1>4, <1>5, <2>1 DEF IInv, CountCovers
<1>7. Types'
  <2>1. count \in Nat /\ count' \in Nat
    BY <1>1, <1>2, <1>4, <1>5 DEF IInv, CountCovers
  <2> QED BY <1>1, <1>2, <2>1, BoundsAssumption DEF IInv, Types, TypeOK
<1>8. Places' /\ ReadersAreSerial'
  BY <1>1 DEF IInv, Types, TypeOK, Places, ReadersAreSerial, Reading
<1>9. LoadedIsFresh'
  BY <1>1, <1>3 DEF IInv, Types, LoadedIsFresh, Busy
<1>10. OwnerMeans'
  BY <1>1, <1>2, <1>3, IdsAssumption DEF IInv, Types, TypeOK, OwnerMeans, Busy, Reading, Owning
<1> QED BY <1>6, <1>7, <1>8, <1>9, <1>10 DEF IInv

(* The -- is stored, and tested.                                            *)
LEMMA StepDecStore ==
  ASSUME IInv, NEW t \in Threads, L!DecStore(t), UNCHANGED <<reads, readerLock>>,
         op[t] \in {"unreadDec", "unreadOwn", "unwrite"},
         op' = IF op[t] \in {"unreadOwn", "unwrite"} /\ pc'[t] = "client"
               THEN [op EXCEPT ![t] = "client"] ELSE op
  PROVE  IInv'
<1>1. /\ pc[t] = "decStore" /\ UNCHANGED <<owner, held>> /\ count' = reg[t] - 1
      /\ reg' = [reg EXCEPT ![t] = 0]
      /\ pc' = [pc EXCEPT ![t] = IF reg[t] - 1 = 0 THEN "clear" ELSE "client"]
  BY DEF L!DecStore, L!At, L!Goto
<1>2. reg[t] = count /\ Busy(t)
  BY <1>1 DEF IInv, LoadedIsFresh, Busy
<1>3. \A u \in Threads : u # t => ~Busy(u)
  BY <1>2, OneIsBusy
<1>4. Leaving # {} /\ Leaving' = {}
  BY <1>1, <1>3 DEF IInv, Types, Leaving, Busy
<1>5. Guards' = Guards /\ Cardinality(Guards) \in Nat /\ count' = Cardinality(Guards)
  BY <1>1, <1>2, <1>4, GuardsAreFinite DEF IInv, CountCovers, Guards
<1>6. CountCovers'
  <2>1. \A u \in Threads : pc'[u] = "clear" => count' = 0
    BY <1>1, <1>2, <1>3 DEF IInv, Types, Busy
  <2>2. count' > 0 \/ Busy(t)'
    BY <1>1, <1>2, <1>5 DEF IInv, Types, Busy
  <2> QED BY <1>4, <1>5, <2>1, <2>2 DEF CountCovers
<1>7. Types'
  BY <1>1, <1>5 DEF IInv, Types, TypeOK
<1>8. Places' /\ ReadersAreSerial'
  BY <1>1 DEF IInv, Types, TypeOK, Places, ReadersAreSerial, Reading
<1>9. LoadedIsFresh'
  BY <1>1, <1>3 DEF IInv, Types, LoadedIsFresh, Busy
<1>10. OwnerMeans'
  BY <1>1, <1>2, <1>3, IdsAssumption DEF IInv, Types, TypeOK, OwnerMeans, Busy, Reading, Owning
<1> QED BY <1>6, <1>7, <1>8, <1>9, <1>10 DEF IInv

(* The Exchange that frees the lock: nobody has a guard.                    *)
LEMMA StepClear ==
  ASSUME IInv, NEW t \in Threads, L!ClearThreadLockOwner(t), UNCHANGED <<reads, readerLock>>,
         op[t] \in {"unreadDec", "unreadOwn", "unwrite"},
         op' = IF op[t] \in {"unreadOwn", "unwrite"} THEN [op EXCEPT ![t] = "client"] ELSE op
  PROVE  IInv'
<1>1. /\ pc[t] = "clear" /\ owner' = NoThread /\ UNCHANGED <<count, held, reg>>
      /\ pc' = [pc EXCEPT ![t] = "client"]
  BY DEF L!ClearThreadLockOwner, L!At, L!Goto
<1>2. Busy(t)
  BY <1>1 DEF Busy
<1>3. \A u \in Threads : u # t => ~Busy(u)
  BY <1>2, OneIsBusy
<1>4. Leaving = {} /\ Leaving' = {}
  BY <1>1, <1>3 DEF IInv, Types, Leaving, Busy
<1>5. count = 0 /\ Guards' = Guards /\ Cardinality(Guards) = 0
  BY <1>1, <1>4, GuardsAreFinite DEF IInv, CountCovers, Guards
<1>6. \A u \in Threads : held[u] = 0
  BY <1>5, GuardsAreFinite DEF IInv
<1>7. CountCovers'
  BY <1>1, <1>4, <1>5 DEF CountCovers
<1>8. Types'
  BY <1>1 DEF IInv, Types, TypeOK
<1>9. Places' /\ ReadersAreSerial'
  BY <1>1 DEF IInv, Types, TypeOK, Places, ReadersAreSerial, Reading
<1>10. LoadedIsFresh'
  BY <1>1, <1>3 DEF IInv, Types, LoadedIsFresh, Busy
<1>11. OwnerMeans'
  BY <1>1, <1>3, <1>6, IdsAssumption DEF IInv, Types, TypeOK, OwnerMeans, Busy, Reading, Owning
<1> QED BY <1>7, <1>8, <1>9, <1>10, <1>11 DEF IInv

(* A step inside the base class is one of these, by the place it is at.     *)
LEMMA StepBase ==
  ASSUME IInv, NEW t \in Threads, BaseStep(t)
  PROVE  IInv'
<1>1. UNCHANGED readerLock /\ op[t] \in {"readLock", "write", "readOwn", "unreadDec", "unreadOwn", "unwrite"}
  BY DEF BaseStep
<1>2. CASE L!IncStore(t)
  <2>1. pc[t] = "incStore" /\ pc'[t] = "client"
    BY <1>2 DEF L!IncStore, L!At, L!Goto, IInv, Types
  <2>2. op[t] \in {"readLock", "readOwn", "write"}
    BY <1>1, <2>1 DEF IInv, Places
  <2>3. /\ reads' = IF op[t] \in {"readLock", "readOwn"} THEN [reads EXCEPT ![t] = @ + 1] ELSE reads
        /\ op' = IF op[t] \in {"write", "readOwn"} THEN [op EXCEPT ![t] = "client"] ELSE op
    BY <1>2, <2>1, <2>2 DEF BaseStep
  <2> QED BY <1>1, <1>2, <2>2, <2>3, StepIncStore
<1>3. ASSUME ~L!IncStore(t)
      PROVE  reads' = reads
  BY <1>3 DEF BaseStep
<1>4. CASE op[t] \in {"readLock", "write", "readOwn"} /\ ~L!IncStore(t)
  <2> DEFINE id == IF op[t] = "readLock" THEN ReaderId ELSE t
  <2>1. L!LockStep(t, id)
    BY <1>4 DEF BaseStep
  <2>2. CASE L!IncLoad(t)
    <3>1. pc'[t] # "client"
      BY <2>2 DEF L!IncLoad, L!Goto, IInv, Types
    <3>2. op' = op
      BY <3>1 DEF BaseStep
    <3> QED BY <1>1, <1>3, <1>4, <2>2, <3>2, StepLoad
  <2>3. CASE ~L!IncLoad(t)
    <3>1. L!CompareExchange(t, id) \/ L!GiveUp(t, id) \/ L!Collide(t, id) \/ L!Wake(t)
      BY <1>4, <2>1, <2>3 DEF L!LockStep
    <3>2. pc'[t] # "client"
      BY <3>1 DEF L!CompareExchange, L!GiveUp, L!Collide, L!Wake, L!Goto, IInv, Types
    <3>3. op' = op
      BY <3>2 DEF BaseStep
    <3>4. id \in {ReaderId, t} /\ (id = ReaderId => op[t] = "readLock")
            /\ (id = t => op[t] \in {"write", "readOwn"})
      BY <1>4, IdsAssumption
    <3> HIDE DEF id
    <3> QED BY <1>1, <1>3, <1>4, <3>1, <3>3, <3>4, StepEnter
  <2> QED BY <2>2, <2>3
<1>5. CASE op[t] \in {"unreadDec", "unreadOwn", "unwrite"} /\ ~L!IncStore(t)
  <2>1. L!UnlockStep(t)
    BY <1>5 DEF BaseStep
  <2>2. CASE L!DecLoad(t)
    <3>1. pc'[t] # "client"
      BY <2>2 DEF L!DecLoad, L!Goto, IInv, Types
    <3>2. op' = op
      BY <3>1 DEF BaseStep
    <3> QED BY <1>1, <1>3, <1>5, <2>2, <3>2, StepLoad
  <2>3. CASE L!DecStore(t)
    <3>1. op' = IF op[t] \in {"unreadOwn", "unwrite"} /\ pc'[t] = "client"
                THEN [op EXCEPT ![t] = "client"] ELSE op
      BY <1>5 DEF BaseStep
    <3> QED BY <1>1, <1>3, <1>5, <2>3, <3>1, StepDecStore
  <2>4. CASE L!ClearThreadLockOwner(t)
    <3>1. pc'[t] = "client"
      BY <2>4 DEF L!ClearThreadLockOwner, L!Goto, IInv, Types
    <3>2. op' = IF op[t] \in {"unreadOwn", "unwrite"} THEN [op EXCEPT ![t] = "client"] ELSE op
      BY <1>5, <3>1 DEF BaseStep
    <3> QED BY <1>1, <1>3, <1>5, <2>4, <3>2, StepClear
  <2> QED BY <2>1, <2>2, <2>3, <2>4 DEF L!UnlockStep
<1> QED BY <1>1, <1>2, <1>4, <1>5

LEMMA StepIInv == IInv /\ [Next]_vars => IInv'
<1> SUFFICES ASSUME IInv, [Next]_vars PROVE IInv'
  OBVIOUS
<1>1. ASSUME NEW t \in Threads, Client(t) \/ Work(t)
      PROVE  IInv'
  BY <1>1, StepCall, StepLeave, StepBase DEF Client, Work
<1>2. CASE UNCHANGED vars
  BY <1>2 DEF vars, IInv, Types, TypeOK, Places, ReadersAreSerial, OwnerMeans, Busy,
              LoadedIsFresh, Leaving, Guards, CountCovers
<1> QED BY <1>1, <1>2 DEF Next

(* The counter, the owner word, _ReaderLock and the place of every call     *)
(* agree, whatever the interleaving: the strengthening the rest uses.       *)
THEOREM Inductive == Spec => []IInv
<1>1. IInv /\ [Next]_vars => IInv'
  BY StepIInv
<1> QED BY InitIInv, <1>1, PTL DEF Spec

-----------------------------------------------------------------------------
(* The shared counter is exactly the guards alive whenever no call is under *)
(* way, and then the lock is free exactly when there are none.              *)
THEOREM CountExact == Spec => []CountIsExact
<1>1. ASSUME IInv PROVE CountIsExact
  <2>1. TypeOK
    BY <1>1 DEF IInv, Types
  <2>2. ASSUME \A t \in Threads : op[t] = "client"
        PROVE  count = Cardinality(Guards) /\ (owner = NoThread <=> count = 0)
    <3>1. Leaving = {} /\ \A t \in Threads : ~Busy(t)
      BY <1>1, <2>2 DEF IInv, Places, Leaving, Busy
    <3>2. Cardinality(Guards) \in Nat /\ (Cardinality(Guards) = 0 <=> \A t \in Threads : held[t] = 0)
      BY <1>1, GuardsAreFinite DEF IInv
    <3>3. count = Cardinality(Guards)
      BY <1>1, <3>1, <3>2 DEF IInv, CountCovers
    <3>4. owner = NoThread => \A t \in Threads : held[t] = 0
      BY <1>1 DEF IInv, OwnerMeans
    <3>5. owner # NoThread => count > 0
      BY <1>1, <3>1 DEF IInv, CountCovers
    <3> QED BY <3>2, <3>3, <3>4, <3>5
  <2> QED BY <2>1, <2>2 DEF CountIsExact
<1> QED BY <1>1, Inductive, PTL

(* A write guard is alone but for the guards of its own thread.             *)
THEOREM ReadersExclude == Spec => []ReadersExcludeWriters
<1>1. ASSUME IInv PROVE ReadersExcludeWriters
  <2> SUFFICES ASSUME NEW t \in Threads, NEW u \in Threads, writes[t] > 0, held[u] > 0
               PROVE  t = u
    BY DEF ReadersExcludeWriters
  <2>1. held[t] \in Nat /\ reads[t] \in 0..held[t] /\ writes[t] = held[t] - reads[t]
          /\ owner \in Threads \cup {ReaderId, NoThread}
    BY <1>1, BoundsAssumption DEF IInv, Types, TypeOK, writes
  <2>2. owner \in Threads
    BY <1>1, <2>1 DEF IInv, OwnerMeans
  <2> QED BY <1>1, <2>1, <2>2 DEF IInv, OwnerMeans
<1> QED BY <1>1, Inductive, PTL

-----------------------------------------------------------------------------
(* Nobody else has a guard when a guard begins.                             *)
LEMMA StoreIsAlone ==
  ASSUME IInv, NEW t \in Threads, pc[t] = "incStore"
  PROVE  /\ Abstract!NoOther(t, writes)
         /\ op[t] # "readLock" => Abstract!NoOther(t, reads)
<1>1. Busy(t) /\ op[t] \in {"readLock", "readOwn", "write"}
  BY DEF Busy, IInv, Places, Types, TypeOK
<1>2. CASE owner = t
  <2>1. \A u \in Threads \ {t} : held[u] = 0
    BY <1>2, BoundsAssumption DEF IInv, Types, TypeOK, OwnerMeans
  <2>2. \A u \in Threads \ {t} : reads[u] = 0 /\ writes[u] = 0
    BY <2>1 DEF IInv, Types, TypeOK, writes
  <2> QED BY <2>2 DEF Abstract!NoOther
<1>3. CASE owner = ReaderId
  <2>1. \A u \in Threads : held[u] = reads[u] /\ held[u] \in Nat
    BY <1>3, BoundsAssumption DEF IInv, Types, TypeOK, OwnerMeans
  <2>2. \A u \in Threads : writes[u] = 0
    BY <2>1 DEF writes
  <2>3. op[t] = "readLock"
    BY <1>1, <1>3 DEF IInv, OwnerMeans, Reading
  <2> QED BY <2>2, <2>3 DEF Abstract!NoOther
<1> QED BY <1>1, <1>2, <1>3, IdsAssumption DEF IInv, Types, TypeOK, OwnerMeans

(* A guard begins where the ++ is stored and ends where its unlock starts:  *)
(* each such step is a step of SharedLock, every other step is none.        *)
LEMMA StepRefines ==
  ASSUME IInv, Next
  PROVE  Abstract!Next \/ UNCHANGED <<reads, writes>>
<1>1. PICK t \in Threads : Client(t) \/ Work(t)
  BY DEF Next
<1>2. /\ reads \in [Threads -> Nat] /\ held \in [Threads -> Nat]
      /\ writes \in [Threads -> Nat]
      /\ \A u \in Threads : writes[u] = held[u] - reads[u] /\ reads[u] <= held[u]
  BY BoundsAssumption DEF IInv, Types, TypeOK, writes
<1>3. CASE UNCHANGED <<held, reads>>
  BY <1>3 DEF writes
<1>4. CASE held' = [held EXCEPT ![t] = @ - 1] /\ reads' = [reads EXCEPT ![t] = @ - 1] /\ reads[t] > 0
  <2>1. writes' = writes
    BY <1>2, <1>4 DEF writes
  <2>2. Abstract!EndRead(t)
    BY <1>4, <2>1 DEF Abstract!EndRead
  <2> QED BY <2>2 DEF Abstract!Next
<1>5. CASE held' = [held EXCEPT ![t] = @ - 1] /\ reads' = reads /\ held[t] > reads[t]
  <2>1. writes' = [writes EXCEPT ![t] = @ - 1] /\ writes[t] > 0
    <3>1. \A u \in Threads : held'[u] - reads[u] = IF u = t THEN writes[u] - 1 ELSE writes[u]
      BY <1>2, <1>5
    <3>2. writes' = [u \in Threads |-> held'[u] - reads[u]]
      BY <1>5 DEF writes
    <3>3. writes' = [writes EXCEPT ![t] = @ - 1]
      BY <1>2, <3>1, <3>2
    <3> QED BY <1>2, <1>5, <3>3
  <2>2. Abstract!EndWrite(t)
    BY <1>5, <2>1 DEF Abstract!EndWrite
  <2> QED BY <2>2 DEF Abstract!Next
<1>6. CASE L!IncStore(t) /\ BaseStep(t)
  <2>1. pc[t] = "incStore" /\ held' = [held EXCEPT ![t] = @ + 1]
    BY <1>6 DEF L!IncStore, L!At
  <2>2. op[t] \in {"readLock", "readOwn", "write"}
    BY <2>1 DEF IInv, Places, Types, TypeOK
  <2>3. CASE op[t] \in {"readLock", "readOwn"}
    <3>1. reads' = [reads EXCEPT ![t] = @ + 1]
      BY <1>6, <2>3 DEF BaseStep
    <3>2. writes' = writes
      BY <1>2, <2>1, <3>1 DEF writes
    <3>3. Abstract!BeginRead(t)
      BY <2>1, <3>1, <3>2, StoreIsAlone DEF Abstract!BeginRead
    <3> QED BY <3>3 DEF Abstract!Next
  <2>4. CASE op[t] = "write"
    <3>1. reads' = reads
      BY <1>6, <2>4 DEF BaseStep
    <3>2. \A u \in Threads : held'[u] - reads[u] = IF u = t THEN writes[u] + 1 ELSE writes[u]
      BY <1>2, <2>1
    <3>3. writes' = [u \in Threads |-> held'[u] - reads[u]]
      BY <3>1 DEF writes
    <3>4. writes' = [writes EXCEPT ![t] = @ + 1]
      BY <1>2, <3>2, <3>3
    <3>5. Abstract!BeginWrite(t)
      BY <2>1, <2>4, <3>1, <3>4, StoreIsAlone DEF Abstract!BeginWrite
    <3> QED BY <3>5 DEF Abstract!Next
  <2> QED BY <2>2, <2>3, <2>4
<1>7. \/ UNCHANGED <<held, reads>>
      \/ held' = [held EXCEPT ![t] = @ - 1] /\ reads' = [reads EXCEPT ![t] = @ - 1] /\ reads[t] > 0
      \/ held' = [held EXCEPT ![t] = @ - 1] /\ reads' = reads /\ held[t] > reads[t]
      \/ L!IncStore(t) /\ BaseStep(t)
  <2>1. CASE LockReadOwn(t) \/ LockRead(t) \/ UnlockRead(t) \/ LockReadThread(t)
               \/ ReaderUnlock(t) \/ Lock(t)
    BY <2>1 DEF LockReadOwn, LockRead, UnlockRead, LockReadThread, ReaderUnlock, Lock, L!Call, baseVars
  <2>2. CASE UnlockReadOwn(t) \/ UnlockReadThread(t) \/ Unlock(t)
    BY <2>2 DEF UnlockReadOwn, UnlockReadThread, Unlock, L!Unlock, IInv, Places
  <2>3. CASE BaseStep(t) /\ ~L!IncStore(t)
    BY <2>3 DEF BaseStep, L!LockStep, L!UnlockStep, L!CompareExchange, L!GiveUp, L!Collide,
                L!Wake, L!IncLoad, L!DecLoad, L!DecStore, L!ClearThreadLockOwner
  <2> QED BY <1>1, <2>1, <2>2, <2>3 DEF Client, Work
<1> QED BY <1>3, <1>4, <1>5, <1>6, <1>7

(* cThreadLockRW implements the reader/writer lock SharedLock: initial      *)
(* states map to initial states, every step to a step or a stutter.         *)
THEOREM Implements == Spec => ImplementsSharedLock
<1>1. Init => Abstract!Init
  BY DEF Init, Abstract!Init, writes
<1>2. IInv /\ [Next]_vars => [Abstract!Next]_<<reads, writes>>
  <2>1. UNCHANGED vars => UNCHANGED <<reads, writes>>
    BY DEF vars, writes
  <2> QED BY <2>1, StepRefines
<1>3. Abstract!vars = <<reads, writes>>
  BY DEF Abstract!vars
<1> QED BY Inductive, <1>1, <1>2, PTL DEF Spec, ImplementsSharedLock, Abstract!Spec, Abstract!vars
=============================================================================
