------------------------------ MODULE ThreadRef ------------------------------
(***************************************************************************)
(* cThreadRef (cThreadBase.h, cThreadBase.cpp), the Linux build: a          *)
(* reference counted object that runs a system thread.  Its flags are read  *)
(* and written by the new thread and by its clients with no lock, so every  *)
(* store is a step of its own.  The references are the set of cRefPtrs.     *)
(***************************************************************************)
EXTENDS Naturals

CONSTANTS Clients,    \* threads that hold a cRefPtr to the object
          Owner,      \* the client that calls CreateThread
          MaxRuns,    \* BOUND: how often the object's thread is created
          Running,    \* THREAD_EXITCODE_RUNNING
          Ok          \* THREAD_EXITCODE_OK, the initial exit code

Runs == 1..MaxRuns    \* the threads created, each of which returns its number

ASSUME ClientsAssumption == Owner \in Clients /\ Clients \cap Runs = {}
ASSUME RunsAssumption == MaxRuns \in Nat

VARIABLES running, stopping,  \* _isThreadRunning, _isThreadStopping
          threadId, exitCode, \* _nThreadId (0 = k_NULL), _nExitCode
          holders,            \* the clients and threads that hold a cRefPtr
          cpc,                \* where each client is
          wpc,                \* where each created thread is
          started,            \* how many threads were created
          waited,             \* the last thread whose end each client waited for
          asked               \* the threads that were asked to stop

shared == <<running, stopping, threadId, exitCode>>
ghosts == <<started, waited, asked>>
threadVars == <<shared, holders, cpc, wpc, ghosts>>

ThreadInit ==
  /\ running = FALSE /\ stopping = FALSE
  /\ threadId = 0 /\ exitCode = Ok
  /\ holders = Clients
  /\ cpc = [c \in Clients |-> "client"]
  /\ wpc = [r \in Runs |-> "none"]
  /\ started = 0 /\ waited = [c \in Clients |-> 0] /\ asked = {}

Place(c, loc) == cpc' = [cpc EXCEPT ![c] = loc]
Step(r, from, to) == wpc[r] = from /\ wpc' = [wpc EXCEPT ![r] = to]

(* The object is deleted when the last cRefPtr goes.                        *)
Alive == holders # {}
Ended(r) == wpc[r] \in {"release", "gone"}

-----------------------------------------------------------------------------
(* CreateThread: two flags and the id first ("assume success").  The caller *)
(* has waited for the previous thread, if there was one.                    *)
CreateThread ==
  /\ cpc[Owner] = "client" /\ Owner \in holders
  /\ started < MaxRuns /\ waited[Owner] = started
  /\ running' = TRUE
  /\ Place(Owner, "reset")
  /\ UNCHANGED <<stopping, threadId, exitCode, holders, wpc, ghosts>>

ResetStopping ==
  /\ cpc[Owner] = "reset"
  /\ stopping' = FALSE /\ threadId' = 0
  /\ Place(Owner, "spawn")
  /\ UNCHANGED <<running, exitCode, holders, wpc, ghosts>>

(* pthread_create: the new thread may be ahead of the rest of CreateThread. *)
Spawn ==
  /\ cpc[Owner] = "spawn"
  /\ started' = started + 1
  /\ wpc' = [wpc EXCEPT ![started + 1] = "entry"]
  /\ Place(Owner, "storeId")
  /\ UNCHANGED <<shared, holders, waited, asked>>

SpawnFails ==
  /\ cpc[Owner] = "spawn"
  /\ running' = FALSE
  /\ Place(Owner, "client")
  /\ UNCHANGED <<stopping, threadId, exitCode, holders, wpc, ghosts>>

StoreThreadId ==
  /\ cpc[Owner] = "storeId"
  /\ threadId' = started
  /\ Place(Owner, "client")
  /\ UNCHANGED <<running, stopping, exitCode, holders, wpc, ghosts>>

-----------------------------------------------------------------------------
RequestStopThread(c) ==
  /\ cpc[c] = "client" /\ c \in holders
  /\ stopping' = TRUE
  /\ asked' = asked \cup {r \in Runs : r = started /\ ~Ended(r)}
  /\ UNCHANGED <<running, threadId, exitCode, holders, cpc, wpc, started, waited>>

(* WaitForThreadExit polls _isThreadRunning, until it is false or too late. *)
WaitForThreadExit(c) ==
  /\ cpc[c] = "client" /\ c \in holders
  /\ Place(c, "wait")
  /\ UNCHANGED <<shared, holders, wpc, ghosts>>

WaitReturns(c) ==
  /\ cpc[c] = "wait" /\ ~running
  /\ waited' = [waited EXCEPT ![c] = started]
  /\ Place(c, "client")
  /\ UNCHANGED <<shared, holders, wpc, started, asked>>

WaitTimesOut(c) ==
  /\ cpc[c] = "wait" /\ running
  /\ Place(c, "client")
  /\ UNCHANGED <<shared, holders, wpc, ghosts>>

(* A client lets go whenever it likes: "Fire and forget".                   *)
ReleasePtr(c) ==
  /\ cpc[c] = "client" /\ c \in holders
  /\ holders' = holders \ {c}
  /\ UNCHANGED <<shared, cpc, wpc, ghosts>>

-----------------------------------------------------------------------------
(* Mutant: RunDirectly takes no reference of its own.                       *)
RunDirectlyUnreferenced(r) ==
  /\ Step(r, "entry", "create")
  /\ UNCHANGED <<shared, holders, cpc, ghosts>>

(* EntryProc, RunDirectly: a cRefPtr on the thread's own stack.             *)
RunDirectly(r) ==
  /\ Alive /\ Step(r, "entry", "create")
  /\ holders' = holders \cup {r}
  /\ UNCHANGED <<shared, cpc, ghosts>>

(* CreateThread takes no cRefPtr for the new thread.  When the clients have *)
(* all let go before it takes its own, it runs in a deleted object: that is *)
(* undefined behaviour, and the model follows the thread no further.        *)
RunOrphaned(r) ==
  /\ ~Alive /\ Step(r, "entry", "undefined")
  /\ UNCHANGED <<shared, holders, cpc, ghosts>>

(* Mutant: the new thread, not CreateThread, resets the stop request.       *)
OnThreadCreateResets(r) ==
  /\ Step(r, "create", "run")
  /\ exitCode' = Running /\ stopping' = FALSE
  /\ UNCHANGED <<running, threadId, holders, cpc, ghosts>>

OnThreadCreate(r) ==
  /\ Step(r, "create", "run")
  /\ exitCode' = Running
  /\ UNCHANGED <<running, stopping, threadId, holders, cpc, ghosts>>

(* Run: ThreadTick returns false once it sees the request ...               *)
ThreadTick(r) ==
  /\ stopping
  /\ Step(r, "run", "exitCode")
  /\ UNCHANGED <<shared, holders, cpc, ghosts>>

(* ... or an override of Run or ThreadTick is done with its work.           *)
RunReturns(r) ==
  /\ Step(r, "run", "exitCode")
  /\ UNCHANGED <<shared, holders, cpc, ghosts>>

(* Mutant: onThreadExit clears _isThreadRunning before it stores the code.  *)
StoreExitCodeLate(r) ==
  /\ Step(r, "exitCode", "exitStop")
  /\ running' = FALSE /\ exitCode' = r
  /\ UNCHANGED <<stopping, threadId, holders, cpc, ghosts>>

(* onThreadExit: three stores.                                              *)
StoreExitCode(r) ==
  /\ Step(r, "exitCode", "exitStop")
  /\ exitCode' = r
  /\ UNCHANGED <<running, stopping, threadId, holders, cpc, ghosts>>

StoreStopping(r) ==
  /\ Step(r, "exitStop", "exitRunning")
  /\ stopping' = TRUE
  /\ UNCHANGED <<running, threadId, exitCode, holders, cpc, ghosts>>

ClearRunning(r) ==
  /\ Step(r, "exitRunning", "release")
  /\ running' = FALSE
  /\ UNCHANGED <<stopping, threadId, exitCode, holders, cpc, ghosts>>

(* The cRefPtr of RunDirectly goes: "prevent destruct ... in onThreadExit". *)
ThreadEnds(r) ==
  /\ Step(r, "release", "gone")
  /\ holders' = holders \ {r}
  /\ UNCHANGED <<shared, cpc, ghosts>>

-----------------------------------------------------------------------------
ThreadStep(r) ==
  \/ RunDirectly(r) \/ RunOrphaned(r) \/ OnThreadCreate(r) \/ ThreadTick(r)
  \/ StoreExitCode(r) \/ StoreStopping(r) \/ ClearRunning(r) \/ ThreadEnds(r)
CreateStep == ResetStopping \/ Spawn \/ SpawnFails \/ StoreThreadId

ThreadNext ==
  \/ CreateThread \/ CreateStep
  \/ \E c \in Clients :
       RequestStopThread(c) \/ WaitForThreadExit(c) \/ WaitReturns(c) \/ WaitTimesOut(c)
         \/ ReleasePtr(c)
  \/ \E r \in Runs : ThreadStep(r) \/ RunReturns(r)

ThreadSpec == ThreadInit /\ [][ThreadNext]_threadVars

(* A created thread runs.  (Run overrides need not return by themselves.)   *)
FairThreadSpec == ThreadSpec /\ \A r \in Runs : WF_threadVars(ThreadStep(r))

-----------------------------------------------------------------------------
ThreadTypeOK ==
  /\ running \in BOOLEAN /\ stopping \in BOOLEAN
  /\ threadId \in {0, started}
  /\ exitCode \in {Running, Ok} \cup Runs
  /\ holders \subseteq Clients \cup Runs
  /\ cpc \in [Clients -> {"client", "reset", "spawn", "storeId", "wait"}]
  /\ wpc \in [Runs -> {"none", "entry", "create", "run", "exitCode", "exitStop",
                       "exitRunning", "release", "gone", "undefined"}]
  /\ started \in 0..MaxRuns /\ waited \in [Clients -> 0..started] /\ asked \subseteq Runs

(* The object outlives the code that uses it: CreateThread up to its store  *)
(* of the id, and the thread from the reference that RunDirectly takes to   *)
(* the end of onThreadExit, whoever lets go of it when.                     *)
ObjectOutlivesThread ==
  /\ ThreadTypeOK
  /\ (\/ cpc[Owner] \in {"reset", "spawn", "storeId"}
      \/ \E r \in Runs : wpc[r] \notin {"none", "entry", "gone", "undefined"}) => Alive

(* NOT invariants, see the README: "Fire and forget" (a client may let go   *)
(* once CreateThread has returned), and "GetThreadId() is set already in    *)
(* CreateThread", which onThreadCreate, ThreadTick and onThreadExit assert. *)
FireAndForget == \A r \in Runs : wpc[r] # "undefined"
ThreadIdIsSet == \A r \in Runs : wpc[r] \in {"create", "run", "exitCode"} => threadId = r

(* When WaitForThreadExit has returned true, the thread it waited for has   *)
(* made its last store: its exit code is there, and neither can the next    *)
(* thread that CreateThread starts run beside it.                           *)
WaitMeansExited ==
  /\ \A c \in Clients : LET r == waited[c] IN
       r # 0 => Ended(r) /\ (started = r => exitCode = r)
  /\ \A r, s \in Runs : ~(wpc[r] = "none" \/ Ended(r)) /\ ~(wpc[s] = "none" \/ Ended(s)) => r = s

(* A thread that was asked to stop stops: the request is not lost between   *)
(* CreateThread, which resets it, and the first ThreadTick.  (Or its object *)
(* was deleted before it began to run in it.)                               *)
StopsWhenAsked == \A r \in Runs : r \in asked ~> wpc[r] \in {"gone", "undefined"}
=============================================================================
