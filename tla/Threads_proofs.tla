--------------------------- MODULE Threads_proofs ----------------------------
(***************************************************************************)
(* Machine-checked proofs about the components of threads: the lock of      *)
(* ThreadLock, for every set of threads, every nesting depth and every set  *)
(* of threads that may be hard terminated; the thread object of ThreadRef,  *)
(* for every set of clients and any number of threads that it runs one      *)
(* after the other; and the application of AppMain, for any threads beside  *)
(* main()'s, modules, tables of commands and command lines: whoever calls   *)
(* exit(), the process ends by main's exit or by AbortApp, and every        *)
(* argument is accounted for once.                                          *)
(***************************************************************************)
EXTENDS ThreadLock, ThreadRef, AppMain, TLAPS

(* Why the lock works: whoever is past the CompareExchange is named by the  *)
(* owner word, and only that thread touches the counter, so what it loaded  *)
(* is still there when it stores.                                           *)
OwnerIsInside == \A t \in Threads : Inside(t) => owner = t

LoadedIsFresh ==
  \A t \in Threads : pc[t] \in {"incStore", "decStore"} => reg[t] = count

NestingLeft ==
  \A t \in Threads :
    pc[t] \in {"cas", "sleep", "incLoad", "incStore"} => held[t] < MaxNest

ClearedIsEmpty ==
  \A t \in Threads : At(t, "clear") => held[t] = 0 /\ count = 0

DeadIsOut ==
  \A t \in Threads : (t \in dead <=> At(t, "dead")) /\ (t \in dead => held[t] = 0)

CountCovers ==
  count >= 0 /\ \A t \in Threads : Inside(t) => count >= Counted(t)

IInv ==
  /\ TypeOK
  /\ OwnerIsInside
  /\ LoadedIsFresh
  /\ NestingLeft
  /\ ClearedIsEmpty
  /\ DeadIsOut
  /\ CountCovers
  /\ CountIsExact
  /\ FreeWhenLeft

-----------------------------------------------------------------------------
LEMMA InitIInv == Init => IInv
BY ThreadsAssumption, BoundsAssumption
   DEF Init, IInv, TypeOK, OwnerIsInside, LoadedIsFresh, NestingLeft, Inside, At,
       ClearedIsEmpty, DeadIsOut, CountCovers, CountIsExact, FreeWhenLeft,
       OwnerHasTheLock, Counted, Infinite

(* Entering LockThread and waiting in it: nothing shared changes but the    *)
(* owner word, which goes from free to the caller.                          *)
LEMMA StepLock ==
  ASSUME IInv, NEW t \in Threads,
         (\E w \in Waits : Call(t, w)) \/ LockStep(t, t)
  PROVE  IInv'
<1> USE ThreadsAssumption, BoundsAssumption
    DEF IInv, TypeOK, OwnerIsInside, LoadedIsFresh, NestingLeft, Inside, At, Goto,
        ClearedIsEmpty, DeadIsOut, CountCovers, CountIsExact, FreeWhenLeft,
        OwnerHasTheLock, Counted, Infinite
<1>1. CASE \E w \in Waits : Call(t, w)
  BY <1>1 DEF Call, Waits
<1>2. CASE CompareExchange(t, t)
  BY <1>2 DEF CompareExchange
<1>3. CASE GiveUp(t, t)
  BY <1>3 DEF GiveUp
<1>4. CASE Collide(t, t)
  BY <1>4 DEF Collide
<1>5. CASE Wake(t)
  BY <1>5 DEF Wake
<1>6. CASE IncLoad(t)
  BY <1>6 DEF IncLoad
<1>7. CASE IncStore(t)
  BY <1>7 DEF IncStore
<1> QED BY <1>1, <1>2, <1>3, <1>4, <1>5, <1>6, <1>7 DEF LockStep

LEMMA StepUnlock ==
  ASSUME IInv, NEW t \in Threads, Unlock(t) \/ UnlockStep(t)
  PROVE  IInv'
<1> USE ThreadsAssumption, BoundsAssumption
    DEF IInv, TypeOK, OwnerIsInside, LoadedIsFresh, NestingLeft, Inside, At, Goto,
        ClearedIsEmpty, DeadIsOut, CountCovers, CountIsExact, FreeWhenLeft,
        OwnerHasTheLock, Counted, Infinite
<1>1. CASE Unlock(t)
  BY <1>1 DEF Unlock
<1>2. CASE DecLoad(t)
  BY <1>2 DEF DecLoad
<1>3. CASE DecStore(t)
  BY <1>3 DEF DecStore
<1>4. CASE ClearThreadLockOwner(t)
  BY <1>4 DEF ClearThreadLockOwner
<1> QED BY <1>1, <1>2, <1>3, <1>4 DEF UnlockStep

LEMMA StepTerminate ==
  ASSUME IInv, NEW t \in Threads, Terminate(t) \/ RecoverOwner(t)
  PROVE  IInv'
<1> USE ThreadsAssumption, BoundsAssumption
    DEF IInv, TypeOK, OwnerIsInside, LoadedIsFresh, NestingLeft, Inside, At, Goto,
        ClearedIsEmpty, DeadIsOut, CountCovers, CountIsExact, FreeWhenLeft,
        OwnerHasTheLock, Counted, Infinite
<1>1. CASE Terminate(t)
  BY <1>1 DEF Terminate
<1>2. CASE RecoverOwner(t)
  BY <1>2 DEF RecoverOwner
<1> QED BY <1>1, <1>2

LEMMA StutterIInv == IInv /\ UNCHANGED vars => IInv'
BY DEF vars, IInv, TypeOK, OwnerIsInside, LoadedIsFresh, NestingLeft, Inside, At,
       ClearedIsEmpty, DeadIsOut, CountCovers, CountIsExact, FreeWhenLeft,
       OwnerHasTheLock, Counted, Infinite

(* The strengthened invariant holds in every state of every behaviour.      *)
THEOREM Inductive == Spec => []IInv
<1>1. IInv /\ [Next]_vars => IInv'
  BY StepLock, StepUnlock, StepTerminate, StutterIInv DEF Next
<1> QED BY InitIInv, <1>1, PTL DEF Spec

-----------------------------------------------------------------------------
(* Every variable of the lock keeps its type: in particular no counter      *)
(* value ever loaded is anything but an integer, and nesting stays bounded. *)
THEOREM TypeCorrect == Spec => []TypeOK
BY Inductive, PTL DEF IInv

(* LockThread and UnlockThread let no two threads inside at once.           *)
THEOREM MutuallyExclusive == Spec => []MutualExclusion
<1>1. IInv => MutualExclusion
  BY DEF IInv, OwnerIsInside, MutualExclusion
<1> QED BY <1>1, Inductive, PTL

(* The plain ++ and -- of _nLockCount lose no update.                       *)
THEOREM CountExact == Spec => []CountIsExact
BY Inductive, PTL DEF IInv

(* No guard outlives its ownership, hard terminations included, and a lock  *)
(* that all its guards have left is free, if nobody was terminated.         *)
THEOREM FreedByLastGuard == Spec => []FreedExactlyWhenLeft
<1>1. IInv => NeverFreedUnderGuard
  BY DEF IInv, TypeOK, OwnerIsInside, CountCovers, NeverFreedUnderGuard, Inside, Counted
<1>2. IInv => FreedExactlyWhenLeft
  BY <1>1 DEF IInv, FreedExactlyWhenLeft
<1> QED BY <1>2, Inductive, PTL

-----------------------------------------------------------------------------
(* Every step of the detailed lock is a step of the abstract one, or leaves *)
(* the guards as they are.                                                  *)
LEMMA StepImplements ==
  IInv /\ [Next]_vars => [Abstract!Next]_held
<1> SUFFICES ASSUME IInv, [Next]_vars PROVE [Abstract!Next]_held
  OBVIOUS
<1> USE DEF IInv, TypeOK, At, Goto
<1>1. ASSUME NEW t \in Threads, IncStore(t) PROVE Abstract!Acquire(t)
  <2>1. \A u \in Threads \ {t} : held[u] = 0
    BY <1>1 DEF IncStore, OwnerIsInside, Inside
  <2>2. held[t] < MaxNest
    BY <1>1 DEF IncStore, NestingLeft
  <2> QED BY <1>1, <2>1, <2>2 DEF IncStore, Abstract!Acquire
<1>2. ASSUME NEW t \in Threads, Unlock(t) PROVE Abstract!Release(t)
  BY <1>2 DEF Unlock, Abstract!Release
<1>3. ASSUME NEW t \in Threads, Terminate(t) PROVE Abstract!Abandon(t) \/ UNCHANGED held
  BY <1>3 DEF Terminate, Abstract!Abandon
<1>4. ASSUME NEW t \in Threads,
             \/ \E w \in Waits : Call(t, w)
             \/ CompareExchange(t, t) \/ GiveUp(t, t) \/ Collide(t, t)
             \/ Wake(t) \/ IncLoad(t) \/ UnlockStep(t) \/ RecoverOwner(t)
      PROVE  UNCHANGED held
  BY <1>4 DEF Call, CompareExchange, GiveUp, Collide, Wake, IncLoad, UnlockStep,
              DecLoad, DecStore, ClearThreadLockOwner, RecoverOwner
<1>5. CASE UNCHANGED vars
  BY <1>5 DEF vars
<1> QED BY <1>1, <1>2, <1>3, <1>4, <1>5 DEF Next, LockStep, Abstract!Next

(* cThreadLockableFast implements the re-entrant lock that all its callers  *)
(* rely on, for any number of threads.                                      *)
THEOREM Implements == Spec => ImplementsReentrantLock
<1>1. Init => Abstract!Init
  BY DEF Init, Abstract!Init
<1> QED BY <1>1, StepImplements, Inductive, PTL DEF Spec, ImplementsReentrantLock, Abstract!Spec

-----------------------------------------------------------------------------
(* A created thread up to its last store: RunDirectly to ClearRunning.  One *)
(* whose object was deleted under it never gets there.                      *)
Busy(r) ==
  wpc[r] \in {"entry", "create", "run", "exitCode", "exitStop", "exitRunning", "undefined"}
Creating == cpc[Owner] \in {"reset", "spawn"}

(* Only the owner is inside CreateThread.                                   *)
OwnerCreates == \A c \in Clients \ {Owner} : cpc[c] \in {"client", "wait"}

(* The bound on the threads created, which CreateThread tests, is there yet *)
(* when it creates one.                                                     *)
RunsAreLeft == Creating => started < MaxRuns

(* The id of the thread before is forgotten until the new one is stored.    *)
IdIsReset == cpc[Owner] \in {"spawn", "storeId"} => threadId = 0

(* One thread at a time: those before the last one created are over, and so *)
(* is the last one while the owner creates another.                         *)
OneAtATime ==
  \A r \in Runs :
    /\ wpc[r] = "none" <=> r > started
    /\ r < started => Ended(r)
    /\ r = started /\ Creating => Ended(r)

(* The flag that WaitForThreadExit polls is up from before the thread is    *)
(* there until after its last store.                                        *)
RunningCovers == (Creating \/ \E r \in Runs : Busy(r)) => running

(* The last thread's exit code stays.                                       *)
CodeIsStored ==
  \A r \in Runs :
    r = started /\ (Ended(r) \/ wpc[r] \in {"exitStop", "exitRunning"}) => exitCode = r

WaitedIsOver == \A c \in Clients : waited[c] # 0 => Ended(waited[c])

(* Who keeps the object: the owner while it is in CreateThread, the thread  *)
(* from its own reference on, and nobody in between.                        *)
OwnerHolds == cpc[Owner] \in {"reset", "spawn", "storeId"} => Owner \in holders
ThreadHolds ==
  \A r \in Runs :
    (Busy(r) /\ wpc[r] \notin {"entry", "undefined"}) \/ wpc[r] = "release" => r \in holders

(* What StopsWhenAsked rests on: nothing takes back the request to a thread *)
(* that is not over.                                                        *)
RequestIsKept == \A r \in asked : Ended(r) \/ (r = started /\ Busy(r) /\ stopping)

ThreadInv ==
  /\ ThreadTypeOK
  /\ OwnerCreates
  /\ RunsAreLeft
  /\ IdIsReset
  /\ OneAtATime
  /\ RunningCovers
  /\ CodeIsStored
  /\ WaitedIsOver
  /\ OwnerHolds
  /\ ThreadHolds
  /\ RequestIsKept

-----------------------------------------------------------------------------
LEMMA ThreadInitInv == ThreadInit => ThreadInv
<1> SUFFICES ASSUME ThreadInit PROVE ThreadInv
  OBVIOUS
<1> USE ClientsAssumption, RunsAssumption DEF ThreadInit, Runs
<1>1. ThreadTypeOK
  <2>1. started \in 0..MaxRuns /\ waited \in [Clients -> 0..started]
    OBVIOUS
  <2>2. cpc \in [Clients -> {"client", "reset", "spawn", "storeId", "wait"}]
    OBVIOUS
  <2> QED BY <2>1, <2>2 DEF ThreadTypeOK
<1>2. OwnerCreates /\ RunsAreLeft /\ IdIsReset /\ WaitedIsOver /\ RequestIsKept
  BY DEF OwnerCreates, RunsAreLeft, Creating, IdIsReset, WaitedIsOver, RequestIsKept
<1>3. OneAtATime /\ CodeIsStored
  BY DEF OneAtATime, CodeIsStored, Creating, Ended
<1>4. RunningCovers /\ OwnerHolds /\ ThreadHolds
  BY DEF RunningCovers, OwnerHolds, ThreadHolds, Busy, Creating
<1> QED BY <1>1, <1>2, <1>3, <1>4 DEF ThreadInv

(* The steps of CreateThread.                                               *)
LEMMA StepCreate ==
  ASSUME ThreadInv, CreateThread \/ CreateStep
  PROVE  ThreadInv'
<1> USE ClientsAssumption, RunsAssumption
    DEF ThreadInv, ThreadTypeOK, OwnerCreates, RunsAreLeft,
        IdIsReset, OneAtATime, RunningCovers, CodeIsStored, WaitedIsOver, OwnerHolds,
        ThreadHolds, RequestIsKept, Busy, Creating, Ended, Runs,
        Place, shared, ghosts
<1>1. CASE CreateThread
  BY <1>1 DEF CreateThread
<1>2. CASE ResetStopping
  BY <1>2 DEF ResetStopping
<1>3. CASE Spawn
  <2>1. started + 1 \in Runs /\ started' = started + 1 /\ wpc[started + 1] = "none"
    BY <1>3 DEF Spawn
  <2>2. /\ wpc'[started + 1] = "entry"
        /\ \A r \in Runs : r # started + 1 => wpc'[r] = wpc[r]
    <3>1. DOMAIN wpc = Runs
      OBVIOUS
    <3>2. wpc' = [wpc EXCEPT ![started + 1] = "entry"]
      BY <1>3 DEF Spawn
    <3> HIDE DEF ThreadInv, ThreadTypeOK, Runs
    <3> QED BY <2>1, <3>1, <3>2
  <2>3. /\ cpc'[Owner] = "storeId"
        /\ \A c \in Clients : c # Owner => cpc'[c] = cpc[c]
    BY <1>3 DEF Spawn
  <2>4. ThreadTypeOK'
    BY <1>3, <2>1 DEF Spawn
  <2>5. OneAtATime'
    BY <1>3, <2>1, <2>2, <2>3 DEF Spawn
  <2>6. (OwnerCreates /\ RunsAreLeft /\ IdIsReset /\ RunningCovers /\ CodeIsStored)'
    BY <1>3, <2>1, <2>2, <2>3 DEF Spawn
  <2>7. (WaitedIsOver /\ OwnerHolds /\ ThreadHolds /\ RequestIsKept)'
    BY <1>3, <2>1, <2>2, <2>3 DEF Spawn
  <2> QED BY <2>4, <2>5, <2>6, <2>7
<1>4. CASE SpawnFails
  <2>1. \A r \in Runs : ~Busy(r)
    BY <1>4, SMTT(30) DEF SpawnFails
  <2> QED BY <1>4, <2>1 DEF SpawnFails
<1>5. CASE StoreThreadId
  BY <1>5 DEF StoreThreadId
<1> QED BY <1>1, <1>2, <1>3, <1>4, <1>5 DEF CreateStep

(* The other calls of the clients.                                          *)
LEMMA StepClient ==
  ASSUME ThreadInv, NEW c \in Clients,
         \/ RequestStopThread(c) \/ WaitForThreadExit(c) \/ WaitReturns(c)
         \/ WaitTimesOut(c) \/ ReleasePtr(c)
  PROVE  ThreadInv'
<1> USE ClientsAssumption, RunsAssumption
    DEF ThreadInv, ThreadTypeOK, OwnerCreates, RunsAreLeft,
        IdIsReset, OneAtATime, RunningCovers, CodeIsStored, WaitedIsOver, OwnerHolds,
        ThreadHolds, RequestIsKept, Busy, Creating, Ended, Runs,
        Place, shared, ghosts
<1>1. CASE RequestStopThread(c)
  BY <1>1, ZenonT(60) DEF RequestStopThread
<1>2. CASE WaitForThreadExit(c)
  BY <1>2 DEF WaitForThreadExit
<1>3. CASE WaitReturns(c)
  BY <1>3 DEF WaitReturns
<1>4. CASE WaitTimesOut(c)
  BY <1>4 DEF WaitTimesOut
<1>5. CASE ReleasePtr(c)
  BY <1>5 DEF ReleasePtr
<1> QED BY <1>1, <1>2, <1>3, <1>4, <1>5

(* The steps of a created thread.                                           *)
LEMMA StepThread ==
  ASSUME ThreadInv, NEW r \in Runs, ThreadStep(r) \/ RunReturns(r)
  PROVE  ThreadInv'
<1> USE ClientsAssumption, RunsAssumption
    DEF ThreadInv, ThreadTypeOK, OwnerCreates, RunsAreLeft,
        IdIsReset, OneAtATime, RunningCovers, CodeIsStored, WaitedIsOver, OwnerHolds,
        ThreadHolds, RequestIsKept, Busy, Creating, Ended, Runs,
        Step, shared, ghosts
<1>1. CASE RunDirectly(r)
  BY <1>1 DEF RunDirectly
<1>9. CASE RunOrphaned(r)
  BY <1>9 DEF RunOrphaned
<1>2. CASE OnThreadCreate(r)
  BY <1>2 DEF OnThreadCreate
<1>3. CASE ThreadTick(r)
  BY <1>3 DEF ThreadTick
<1>4. CASE RunReturns(r)
  BY <1>4 DEF RunReturns
<1>5. CASE StoreExitCode(r)
  BY <1>5 DEF StoreExitCode
<1>6. CASE StoreStopping(r)
  BY <1>6 DEF StoreStopping
<1>7. CASE ClearRunning(r)
  <2>1. r = started /\ ~Creating /\ wpc'[r] = "release"
    BY <1>7 DEF ClearRunning
  <2>2. ASSUME NEW s \in Runs, s # r
        PROVE  ~Busy(s) /\ wpc'[s] = wpc[s]
    <3>1. s > started \/ s < started
      BY <2>1, <2>2
    <3>2. wpc[s] = "none" \/ Ended(s)
      BY <3>1
    <3>3. ~Busy(s)
      BY <3>2
    <3>4. wpc'[s] = wpc[s]
      BY <1>7, <2>2 DEF ClearRunning
    <3> QED BY <3>3, <3>4
  <2>3. (RunningCovers /\ OneAtATime /\ CodeIsStored)'
    BY <1>7, <2>1, <2>2 DEF ClearRunning
  <2>4. (ThreadTypeOK /\ OwnerCreates /\ RunsAreLeft /\ IdIsReset)'
    BY <1>7 DEF ClearRunning
  <2>5. (OwnerHolds /\ ThreadHolds)'
    BY <1>7, <2>1, <2>2 DEF ClearRunning
  <2>6. (WaitedIsOver /\ RequestIsKept)'
    BY <1>7, <2>1, <2>2 DEF ClearRunning
  <2> QED BY <2>3, <2>4, <2>5, <2>6
<1>8. CASE ThreadEnds(r)
  BY <1>8 DEF ThreadEnds
<1> QED BY <1>1, <1>2, <1>3, <1>4, <1>5, <1>6, <1>7, <1>8, <1>9 DEF ThreadStep

LEMMA ThreadStutters == ThreadInv /\ UNCHANGED threadVars => ThreadInv'
BY DEF threadVars, shared, ghosts, ThreadInv, ThreadTypeOK, OwnerCreates, RunsAreLeft,
       IdIsReset, OneAtATime, RunningCovers, CodeIsStored, WaitedIsOver, OwnerHolds,
       ThreadHolds, RequestIsKept, Busy, Creating, Ended, Runs

(* The strengthened invariant holds in every state of every behaviour.      *)
THEOREM ThreadInductive == ThreadSpec => []ThreadInv
<1>1. ThreadInv /\ [ThreadNext]_threadVars => ThreadInv'
  BY StepCreate, StepClient, StepThread, ThreadStutters DEF ThreadNext
<1> QED BY ThreadInitInv, <1>1, PTL DEF ThreadSpec

-----------------------------------------------------------------------------
(* A cThreadRef outlives CreateThread, and its thread from the reference    *)
(* that RunDirectly takes on, whichever of its clients drops its cRefPtr    *)
(* when.                                                                    *)
THEOREM ObjectOutlives == ThreadSpec => []ObjectOutlivesThread
<1>1. ThreadInv => ObjectOutlivesThread
  <2> SUFFICES ASSUME ThreadInv,
                  \/ cpc[Owner] \in {"reset", "spawn", "storeId"}
                  \/ \E r \in Runs : wpc[r] \notin {"none", "entry", "gone", "undefined"}
           PROVE  holders # {}
    BY DEF ThreadInv, ObjectOutlivesThread, Alive
  <2>1. CASE cpc[Owner] \in {"reset", "spawn", "storeId"}
    BY <2>1 DEF ThreadInv, OwnerHolds
  <2>2. CASE \E r \in Runs : wpc[r] \notin {"none", "entry", "gone", "undefined"}
    BY <2>2 DEF ThreadInv, ThreadTypeOK, ThreadHolds, Busy
  <2> QED BY <2>1, <2>2
<1> QED BY <1>1, ThreadInductive, PTL

(* A WaitForThreadExit that returned true waited long enough.               *)
THEOREM WaitedMeansOver == ThreadSpec => []WaitMeansExited
<1>1. ThreadInv => WaitMeansExited
  <2> SUFFICES ASSUME ThreadInv PROVE WaitMeansExited
    OBVIOUS
  <2>1. ASSUME NEW c \in Clients, waited[c] # 0
        PROVE  Ended(waited[c]) /\ (started = waited[c] => exitCode = waited[c])
    <3>1. waited[c] \in Runs
      BY <2>1, RunsAssumption DEF ThreadInv, ThreadTypeOK, Runs
    <3> QED BY <2>1, <3>1 DEF ThreadInv, WaitedIsOver, CodeIsStored
  <2>2. ASSUME NEW r \in Runs, wpc[r] # "none", ~Ended(r)
        PROVE  r = started
    BY <2>2, RunsAssumption DEF ThreadInv, ThreadTypeOK, OneAtATime, Runs
  <2> QED BY <2>1, <2>2 DEF WaitMeansExited
<1> QED BY <1>1, ThreadInductive, PTL

(* A request to stop is neither lost nor taken back before the thread ends: *)
(* CreateThread resets the flag before there is anybody to ask.             *)
THEOREM RequestsAreKept == ThreadSpec => []RequestIsKept
BY ThreadInductive, PTL DEF ThreadInv

-----------------------------------------------------------------------------
-----------------------------------------------------------------------------
(* The state says _Exit only when main() is on its way out or somebody gave *)
(* the process up; so nobody else gets past the catcher.                    *)
Ending == mainPc \in {"leave", "left", "abort", "passed"} \/ GivenUp
ExitInv ==
  /\ at \in [OtherThreads -> {"idle", "exit", "abort", "redirected", "blocked"}]
  /\ state = "Exit" => Ending
  /\ gone => Ending

(* Who has given the process up stays so, whatever main() does.             *)
LEMMA EndingStays ==
  ASSUME ExitInv, Ending, [AppNext]_appVars
  PROVE  Ending'
<1> USE AppAssumption DEF ExitInv, Ending, GivenUp
<1>1. CASE MainNext
  BY <1>1 DEF MainNext, BeginMain, RunInit, InitInstance, RunCommandAhead, RunCommandInside, StartCommand,
    Start, SkipArgument, DoCommand, EndCommand, ReportInvalid, EndRun, RunExit, ExitInstance, EndMain,
    LeaveMain, AbortInside, ExitOfMain, GoTo, app, commands, history
<1>2. CASE \E m \in Modules : LoadModule(m) \/ UnloadModule(m)
  BY <1>2 DEF LoadModule, UnloadModule, main
<1>3. ASSUME NEW t \in OtherThreads, SignalClose(t) \/ CallExit(t) \/ (t \in Aborters /\ AbortApp(t)) \/ ExitCatch(t)
      PROVE  Ending'
  <2>1. CASE SignalClose(t)
    BY <2>1 DEF SignalClose, others, main
  <2>2. CASE CallExit(t)
    BY <2>2 DEF CallExit, Idle, others, main
  <2>3. CASE AbortApp(t)
    BY <2>3 DEF AbortApp, Idle, main
  <2>4. CASE ExitCatch(t)
    BY <2>4 DEF ExitCatch, others, main
  <2> QED BY <1>3, <2>1, <2>2, <2>3, <2>4
<1>4. CASE UNCHANGED appVars
  BY <1>4 DEF appVars, main
<1> QED BY <1>1, <1>2, <1>3, <1>4 DEF AppNext

LEMMA ExitInvStep ==
  ASSUME ExitInv, [AppNext]_appVars
  PROVE  ExitInv'
<1> SUFFICES /\ at' \in [OtherThreads -> {"idle", "exit", "abort", "redirected", "blocked"}]
             /\ state' = "Exit" => state = "Exit" \/ Ending'
             /\ gone' => gone \/ state = "Exit" \/ Ending'
  BY EndingStays DEF ExitInv
<1> USE AppAssumption DEF ExitInv
<1>1. CASE MainNext
  <2>1. at' = at
    BY <1>1 DEF MainNext, BeginMain, RunInit, InitInstance, RunCommandAhead, RunCommandInside, StartCommand,
      Start, SkipArgument, DoCommand, EndCommand, ReportInvalid, EndRun, RunExit, ExitInstance, EndMain,
      LeaveMain, AbortInside, ExitOfMain
  <2>2. state' = "Exit" => state = "Exit" \/ Ending'
    BY <1>1 DEF Ending, MainNext, BeginMain, RunInit, InitInstance, RunCommandAhead, RunCommandInside, StartCommand,
      Start, SkipArgument, DoCommand, EndCommand, ReportInvalid, EndRun, RunExit, ExitInstance, EndMain,
      LeaveMain, AbortInside, ExitOfMain, GoTo, app, put_AppState
  <2>3. gone' => gone \/ state = "Exit"
    BY <1>1 DEF MainNext, BeginMain, RunInit, InitInstance, RunCommandAhead, RunCommandInside, StartCommand,
      Start, SkipArgument, DoCommand, EndCommand, ReportInvalid, EndRun, RunExit, ExitInstance, EndMain,
      LeaveMain, AbortInside, ExitOfMain, Legit
  <2> QED BY <2>1, <2>2, <2>3
<1>2. CASE \E m \in Modules : LoadModule(m) \/ UnloadModule(m)
  BY <1>2 DEF LoadModule, UnloadModule, app
<1>3. ASSUME NEW t \in OtherThreads, SignalClose(t) \/ CallExit(t) \/ (t \in Aborters /\ AbortApp(t)) \/ ExitCatch(t)
      PROVE  /\ at' \in [OtherThreads -> {"idle", "exit", "abort", "redirected", "blocked"}]
             /\ state' = "Exit" => state = "Exit" \/ Ending'
             /\ gone' => gone \/ state = "Exit"
  <2>1. CASE SignalClose(t)
    BY <2>1 DEF SignalClose, others, app
  <2>2. CASE CallExit(t)
    BY <2>2 DEF CallExit, others, app
  <2>3. CASE t \in Aborters /\ AbortApp(t)
    BY <2>3 DEF AbortApp, Ending, GivenUp
  <2>4. CASE ExitCatch(t)
    BY <2>4 DEF ExitCatch, others, app, Legit
  <2> QED BY <1>3, <2>1, <2>2, <2>3, <2>4
<1>4. CASE UNCHANGED appVars
  BY <1>4 DEF appVars, app
<1> QED BY <1>1, <1>2, <1>3, <1>4 DEF AppNext

(* Whoever calls exit(), the process ends only once main() has been through *)
(* its own exit or somebody gave it up (cAppExitCatcher::ExitCatch).        *)
THEOREM StrayExitsAreBlocked == AppSpec => []StrayExitIsBlocked
<1>1. AppInit => ExitInv
  BY DEF AppInit, ExitInv
<1>2. ExitInv /\ [AppNext]_appVars => ExitInv'
  BY ExitInvStep
<1>3. ExitInv => StrayExitIsBlocked
  BY DEF ExitInv, Ending, StrayExitIsBlocked
<1> QED BY <1>1, <1>2, <1>3, PTL DEF AppSpec

-----------------------------------------------------------------------------
(* The commands that run now, and what becomes of the others: an argument's *)
(* bit is set exactly while its command runs or once it is done with.       *)
IsRunning == {calls[k].arg : k \in DOMAIN calls}
HistoryOK == args \in Lines /\ ran \in [1..MaxArgs -> Nat]
CallsOK == (\E S : calls \in Seq(S)) /\ IsRunning \subseteq DOMAIN args
RunningOnce == \A j, k \in DOMAIN calls : calls[j].arg = calls[k].arg => j = k
RunningIsNew == \A i \in IsRunning : ran[i] = 0 /\ i \notin failed
RanOnce == \A i \in DOMAIN args : ran[i] <= 1
ValidMeansDone == \A i \in DOMAIN args : i \in valid <=> Done(i) \/ i \in IsRunning
ToldAtTheEnd ==
  told # {} => /\ told = {{i \in DOMAIN args : ~Done(i)}}
               /\ calls = <<>> /\ mainPc \notin {"init", "commands", "static", "main"}
ArgsInv ==
  /\ HistoryOK /\ CallsOK /\ RunningOnce /\ RunningIsNew /\ RanOnce /\ ValidMeansDone
  /\ ToldAtTheEnd

LEMMA MaxArgsIsMax == MaxArgs \in Nat /\ \A line \in Lines : DOMAIN line = 1..Len(line) /\ DOMAIN line \subseteq 1..MaxArgs
<1>1. PICK longest \in Lines : \A line \in Lines : Len(line) <= Len(longest)
  BY LinesAssumption
<1>2. MaxArgs \in {Len(line) : line \in Lines} /\ \A line \in Lines : Len(line) <= MaxArgs
  BY <1>1, Zenon DEF MaxArgs
<1> QED BY <1>2, LinesAssumption

LEMMA StartKeeps ==
  ASSUME ArgsInv, NEW i \in DOMAIN args, Start(i), mainPc \in {"init", "commands"} \/ calls # <<>>
  PROVE  ArgsInv'
<1> DEFINE f == [arg |-> i, cmd |-> CHOOSE cmd \in FindCommand(table, args[i]) : TRUE]
<1>1. /\ i \notin valid /\ valid' = valid \cup {i} /\ calls' = Append(calls, f)
      /\ UNCHANGED <<args, ran, taken, failed, told, mainPc>>
  BY DEF Start, Passes, Blocked, history
<1>2. PICK S : calls \in Seq(S)
  BY DEF ArgsInv, CallsOK
<1>3. calls' \in Seq(S \cup {f}) /\ f.arg = i
  BY <1>1, <1>2
<1> HIDE DEF f
<1>4. /\ DOMAIN calls = 1..Len(calls) /\ DOMAIN calls' = 1..(Len(calls) + 1) /\ Len(calls) \in Nat
      /\ \A k \in DOMAIN calls : calls'[k] = calls[k]
      /\ calls'[Len(calls) + 1] = f
  BY <1>1, <1>2
<1>5. IsRunning' = IsRunning \cup {i}
  BY <1>3, <1>4 DEF IsRunning
<1>6. i \notin IsRunning /\ ~Done(i)
  BY <1>1 DEF ArgsInv, ValidMeansDone
<1>7. HistoryOK' /\ RanOnce'
  BY <1>1 DEF ArgsInv, HistoryOK, RanOnce
<1>8. CallsOK'
  BY <1>1, <1>3, <1>5 DEF ArgsInv, CallsOK
<1>9. RunningOnce'
  BY <1>3, <1>4, <1>6 DEF ArgsInv, RunningOnce, IsRunning
<1>10. RunningIsNew'
  <2>1. ran[i] \in Nat
    BY MaxArgsIsMax DEF ArgsInv, HistoryOK
  <2> QED BY <2>1, <1>1, <1>5, <1>6 DEF ArgsInv, RunningIsNew, Done
<1>11. ValidMeansDone'
  BY <1>1, <1>5 DEF ArgsInv, ValidMeansDone, Done
<1>12. ToldAtTheEnd'
  BY <1>1 DEF ArgsInv, ToldAtTheEnd
<1> QED BY <1>7, <1>8, <1>9, <1>10, <1>11, <1>12 DEF ArgsInv

LEMMA EndKeeps ==
  ASSUME ArgsInv, DoCommand
  PROVE  ArgsInv'
<1> DEFINE f == calls[Len(calls)]
<1>1. PICK res \in Outcomes(f.cmd) : EndCommand(f, res)
  BY DEF DoCommand
<1> DEFINE extra == (f.arg + 1)..(f.arg + res)
<1>2. /\ calls # <<>> /\ calls' = SubSeq(calls, 1, Len(calls) - 1)
      /\ valid' = IF res = PutsOff THEN valid \ {f.arg} ELSE valid \cup extra
      /\ ran' = IF res >= 0 THEN [ran EXCEPT ![f.arg] = @ + 1] ELSE ran
      /\ taken' = IF res = PutsOff THEN taken \ {f.arg} ELSE taken \cup extra
      /\ failed' = IF res = Fails THEN failed \cup {f.arg} ELSE failed
      /\ UNCHANGED <<args, told>>
  BY <1>1 DEF EndCommand
<1>3. res \in Nat \/ res = Fails \/ res = PutsOff
  <2>1. res \in {0} \/ res \in {Fails} \/ res \in 0..MaxExtra \cup {Fails, PutsOff}
    <3> DEFINE cmd == f.cmd
    <3>1. res \in Outcomes(cmd)
      OBVIOUS
    <3> HIDE DEF cmd
    <3> QED BY <3>1 DEF Outcomes
  <2> QED BY <2>1, AppAssumption
<1>4. PICK S : calls \in Seq(S)
  BY DEF ArgsInv, CallsOK
<1>5. /\ Len(calls) \in Nat \ {0} /\ DOMAIN calls = 1..Len(calls)
      /\ calls' \in Seq(S) /\ DOMAIN calls' = 1..(Len(calls) - 1)
      /\ \A k \in DOMAIN calls' : k \in DOMAIN calls /\ calls'[k] = calls[k]
  BY <1>2, <1>4
<1>6. f.arg \in IsRunning /\ f.arg \in DOMAIN args /\ f.arg \in 1..MaxArgs /\ f.arg \in Nat
  <2>1. f.arg \in IsRunning
    BY <1>5 DEF IsRunning
  <2>2. f.arg \in DOMAIN args /\ args \in Lines
    BY <2>1 DEF ArgsInv, CallsOK, HistoryOK
  <2>3. f.arg \in 1..MaxArgs
    BY <2>2, MaxArgsIsMax
  <2> HIDE DEF f
  <2> QED BY <2>1, <2>2, <2>3, MaxArgsIsMax
<1>7. IsRunning' = IsRunning \ {f.arg}
  BY <1>5 DEF IsRunning, ArgsInv, RunningOnce
<1>8. ran[f.arg] = 0 /\ f.arg \notin failed
  BY <1>6 DEF ArgsInv, RunningIsNew
<1>9. res = Fails => extra = {}
  BY <1>6 DEF Fails
<1> HIDE DEF f
<1>10. HistoryOK'
  BY <1>2, <1>3, <1>6 DEF ArgsInv, HistoryOK
<1>11. \A i \in DOMAIN args : i \in 1..MaxArgs /\ ran[i] \in Nat
  BY MaxArgsIsMax DEF ArgsInv, HistoryOK
<1>12. \A i \in DOMAIN args \ {f.arg} : ran'[i] = ran[i]
  BY <1>2, <1>11 DEF ArgsInv, HistoryOK
<1>13. ran'[f.arg] = IF res >= 0 THEN 1 ELSE 0
  BY <1>2, <1>6, <1>8 DEF ArgsInv, HistoryOK
<1>14. RanOnce'
  BY <1>2, <1>12, <1>13 DEF ArgsInv, RanOnce
<1>15. CallsOK' /\ RunningOnce'
  BY <1>2, <1>5, <1>7, ZenonT(60) DEF ArgsInv, CallsOK, RunningOnce
<1>16. RunningIsNew'
  BY <1>2, <1>7, <1>12 DEF ArgsInv, RunningIsNew, CallsOK
<1>17. ValidMeansDone'
  <2> SUFFICES ASSUME NEW i \in DOMAIN args
               PROVE  i \in valid' <=> ran'[i] > 0 \/ i \in taken' \cup failed' \/ i \in IsRunning'
    BY <1>2 DEF ValidMeansDone, Done
  <2>1. i \in valid <=> ran[i] > 0 \/ i \in taken \cup failed \/ i \in IsRunning
    BY DEF ArgsInv, ValidMeansDone, Done
  <2>2. CASE res = PutsOff
    BY <2>1, <2>2, <1>2, <1>7, <1>8, <1>12, <1>13 DEF PutsOff, Fails
  <2>3. CASE res = Fails
    BY <2>1, <2>3, <1>2, <1>6, <1>7, <1>9, <1>12, <1>13 DEF PutsOff, Fails
  <2>4. CASE res \in Nat
    BY <2>1, <2>4, <1>2, <1>6, <1>7, <1>12, <1>13 DEF PutsOff, Fails
  <2> QED BY <1>3, <2>2, <2>3, <2>4
<1>18. ToldAtTheEnd'
  BY <1>2 DEF ArgsInv, ToldAtTheEnd
<1> QED BY <1>10, <1>14, <1>15, <1>16, <1>17, <1>18 DEF ArgsInv

(* Everything else leaves the arguments and the calls alone.                *)
LEMMA ArgsInvStep ==
  ASSUME ArgsInv, [AppNext]_appVars
  PROVE  ArgsInv'
<1>1. CASE RunCommandAhead
  BY <1>1, StartKeeps DEF RunCommandAhead
<1>2. CASE RunCommandInside
  BY <1>2, StartKeeps DEF RunCommandInside
<1>3. CASE StartCommand
  BY <1>3, StartKeeps DEF StartCommand
<1>4. CASE DoCommand
  BY <1>4, EndKeeps
<1>5. CASE ReportInvalid
  <2>1. /\ calls = <<>> /\ calls' = calls /\ told' = {{i \in DOMAIN args : i \notin valid}} /\ mainPc' = "tick"
        /\ UNCHANGED <<args, ran, taken, failed, valid>>
    BY <1>5 DEF ReportInvalid, GoTo, get_InvalidArgs, history
  <2>2. IsRunning = {}
    BY <2>1 DEF IsRunning
  <2>3. \A i \in DOMAIN args : i \notin valid <=> ~Done(i)
    BY <2>2 DEF ArgsInv, ValidMeansDone
  <2>4. ToldAtTheEnd'
    BY <2>1, <2>3 DEF ToldAtTheEnd, Done
  <2> QED BY <2>1, <2>4 DEF ArgsInv, HistoryOK, CallsOK, IsRunning, RunningOnce, RunningIsNew, RanOnce, ValidMeansDone, Done
<1>6. ASSUME /\ UNCHANGED <<args, ran, taken, failed, valid, told, calls>>
             /\ told # {} /\ mainPc \notin {"init", "commands", "static", "main"} => mainPc' \notin {"init", "commands", "static", "main"}
      PROVE  ArgsInv'
  BY <1>6 DEF ArgsInv, HistoryOK, CallsOK, IsRunning, RunningOnce, RunningIsNew, RanOnce, ValidMeansDone, Done, ToldAtTheEnd
<1>7. CASE \/ BeginMain \/ RunInit \/ InitInstance \/ SkipArgument \/ EndRun \/ RunExit
           \/ ExitInstance \/ EndMain \/ LeaveMain \/ AbortInside \/ ExitOfMain
  BY <1>6, <1>7 DEF BeginMain, RunInit, InitInstance, SkipArgument, EndRun, RunExit,
    ExitInstance, EndMain, LeaveMain, AbortInside, ExitOfMain, GoTo, history
<1>8. CASE \E m \in Modules : LoadModule(m) \/ UnloadModule(m)
  BY <1>6, <1>8 DEF LoadModule, UnloadModule, main, history
<1>9. CASE \E t \in OtherThreads : SignalClose(t) \/ CallExit(t) \/ (t \in Aborters /\ AbortApp(t)) \/ ExitCatch(t)
  BY <1>6, <1>9 DEF SignalClose, CallExit, AbortApp, ExitCatch, others, main, history
<1>10. CASE UNCHANGED appVars
  BY <1>6, <1>10 DEF appVars, main, history
<1> QED BY <1>1, <1>2, <1>3, <1>4, <1>5, <1>7, <1>8, <1>9, <1>10 DEF AppNext, MainNext

(* Every argument's command runs at most once, not inside itself either,    *)
(* and the user is told of exactly those that nobody has done, taken or     *)
(* failed at (cAppImpl::RunCommandN, get_InvalidArgs).                      *)
THEOREM ArgsAccountedFor == AppSpec => []ArgsAreAccounted
<1>1. AppInit => ArgsInv
  <2> SUFFICES ASSUME AppInit PROVE ArgsInv
    OBVIOUS
  <2>1. IsRunning = {} /\ calls \in Seq({})
    BY DEF AppInit, IsRunning
  <2>2. \A i \in DOMAIN args : i \in 1..MaxArgs
    BY MaxArgsIsMax DEF AppInit
  <2> QED BY <2>1, <2>2 DEF AppInit, ArgsInv, HistoryOK, CallsOK, RunningOnce, RunningIsNew, RanOnce, ValidMeansDone, Done, ToldAtTheEnd
<1>2. ArgsInv /\ [AppNext]_appVars => ArgsInv'
  BY ArgsInvStep
<1>3. ArgsInv => ArgsAreAccounted
  BY DEF ArgsInv, RanOnce, RunningOnce, ToldAtTheEnd, ArgsAreAccounted
<1> QED BY <1>1, <1>2, <1>3, PTL DEF AppSpec
=============================================================================
