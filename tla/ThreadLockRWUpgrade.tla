------------------------ MODULE ThreadLockRWUpgrade ------------------------
(***************************************************************************)
(* cThreadGuardRead::Upgrade (cThreadLockRW.h): UnlockRead, then Lock().    *)
(* The guard keeps its pointer, so its destructor, at the end of the same   *)
(* scope, calls UnlockRead once more.                                       *)
(***************************************************************************)
EXTENDS ThreadLockRW

VARIABLE upgrade   \* upgrade[t]: how far an upgraded guard of t has come

varsUpgrade == <<vars, upgrade>>

InitUpgrade == Init /\ upgrade = [t \in Threads |-> "none"]

Mark(t, stage) == upgrade' = [upgrade EXCEPT ![t] = stage]

(* Upgrade() releases the read ...                                          *)
UpgradeUnlockRead(t) ==
  /\ upgrade[t] = "none" /\ reads[t] = held[t]
  /\ UnlockRead(t)
  /\ Mark(t, "unlocking")

(* ... and locks for write.                                                 *)
UpgradeLock(t) ==
  /\ upgrade[t] = "unlocking"
  /\ Lock(t)
  /\ Mark(t, "upgraded")

(* The guard's destructor, after the locker that Upgrade() returned.        *)
GuardDestructor(t) ==
  /\ upgrade[t] = "upgraded" /\ Idle(t) /\ held[t] = 0
  /\ Begin(t, "unreadEnter")
  /\ Mark(t, "destructing")
  /\ UNCHANGED <<baseVars, reads, readerLock>>

(* UnlockRead on what the guard no longer holds: no guard is given up.      *)
DestructorUnlockRead(t) ==
  /\ upgrade[t] = "destructing" /\ op[t] = "unreadEnter"
  /\ R!Acquire(t)
  /\ pc' = [pc EXCEPT ![t] = "decLoad"]
  /\ Begin(t, "unreadDec")
  /\ Mark(t, "none")
  /\ UNCHANGED <<owner, count, reg, held, reads>>

NextUpgrade ==
  \E t \in Threads :
    \/ upgrade[t] \in {"none", "upgraded"} /\ Client(t) /\ UNCHANGED upgrade
    \/ upgrade[t] # "destructing" /\ Work(t) /\ UNCHANGED upgrade
    \/ UpgradeUnlockRead(t) \/ UpgradeLock(t)
    \/ GuardDestructor(t) \/ DestructorUnlockRead(t)

SpecUpgrade == InitUpgrade /\ [][NextUpgrade]_varsUpgrade
=============================================================================
