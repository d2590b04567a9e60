------------------------------ MODULE Singleton ------------------------------
(***************************************************************************)
(* Lazily created singletons (cSingleton.h) and the ordered destruction of  *)
(* them when a module unloads or the process exits (cDependRegister.cpp).   *)
(* get_Single() is a double-checked lock: the first check takes no lock.    *)
(* Constructors and destructors call get_Single() of other types, so each   *)
(* thread has a stack of calls; sm_LockAll is the abstract ReentrantLock    *)
(* that ThreadLock implements.                                              *)
(***************************************************************************)
EXTENDS Integers, FiniteSets, SequencesExt

CONSTANTS Threads,
          Main,           \* the thread that runs main() and the C exit code
          Types,          \* singleton types
          Uses,           \* Uses[y]: types whose get_Single() y's constructor calls
          DtorUses,       \* DtorUses[y]: the same for y's destructor
          Referenced,     \* types whose isReferenced() is true
          Modules,        \* loadable modules (HMODULE) that may unload
          Program,        \* the module that never does
          ModuleOf,       \* ModuleOf[y]: _hModuleLoaded
          Maps,           \* Maps[m]: modules the system has mapped as long as m is loaded
          AllModules,     \* HMODULE_NULL
          MaxNest         \* BOUND: nesting of sm_LockAll

ASSUME SingletonAssumption ==
  /\ Main \in Threads /\ MaxNest \in Nat
  /\ Uses \in [Types -> Seq(Types)]
  /\ DtorUses \in [Types -> Seq(Types)]
  /\ ModuleOf \in [Types -> Modules \cup {Program}]
  /\ Program \notin Modules /\ AllModules \notin Modules
  /\ Referenced \subseteq Types

(* What a type's constructor and destructor need: its module is linked to   *)
(* where that is.                                                           *)
Needs(y) == Range(Uses[y]) \cup Range(DtorUses[y])
ASSUME MapsAssumption ==
  \A y \in Types : \A z \in Needs(y) \cup {y} : ModuleOf[z] \in Maps[ModuleOf[y]]

(* No type needs, by way of others, itself: its constructor would not       *)
(* return, and its destructor would make again what uses the object that    *)
(* is being deleted.                                                        *)
ASSUME OrderAssumption ==
  /\ IsFiniteSet(Types)
  /\ \E rank \in [Types -> 1..Cardinality(Types)] :
       \A y \in Types : \A z \in Needs(y) : rank[z] < rank[y]

VARIABLES pThe,       \* pThe[y]: sm_pThe of y is not nullptr
          life,       \* what has become of the object of type y
          registry,   \* cDependMgr::_aSingletons
          mgr,        \* cDependMgr::isSingleCreated()
          lockAll,    \* sm_LockAll
          inExit,     \* cAppState::isInCExit()
          unloaded,   \* modules that were told to unload
          calls       \* calls[t]: stack of the calls that t is in, innermost last

vars == <<pThe, life, registry, mgr, lockAll, inExit, unloaded, calls>>

R == INSTANCE ReentrantLock WITH depth <- lockAll

Init ==
  /\ pThe = [y \in Types |-> FALSE]
  /\ life = [y \in Types |-> "none"]
  /\ registry = <<>>
  /\ mgr = FALSE
  /\ R!Init
  /\ inExit = FALSE
  /\ unloaded = {}
  /\ calls = [t \in Threads |-> <<>>]

-----------------------------------------------------------------------------
(* A call is at a place in the code, on behalf of a type (get_Single, and   *)
(* the destructor) or a module (ReleaseModule), with a loop index.  Inside  *)
(* are the places where sm_LockAll is held.                                 *)
OnType   == {"check", "lock", "recheck", "ctor", "register", "unlock", "return", "dtor"}
OnModule == {"rmLock", "rmLoop", "rmRestart"}
Inside   == {"recheck", "ctor", "register", "unlock", "rmLoop", "rmRestart"}
Frames   == [at : OnType \cup OnModule, of : Types \cup Modules \cup {AllModules}, i : Nat]

Frame(at, of, i) == [at |-> at, of |-> of, i |-> i]
In(t, at)        == calls[t] # <<>> /\ Last(calls[t]).at = at
Top(t)           == Last(calls[t])
Become(t, frame) == calls' = [calls EXCEPT ![t] = Append(Front(@), frame)]
Move(t, at)      == Become(t, [Top(t) EXCEPT !.at = at])
Return(t)        == calls' = [calls EXCEPT ![t] = Front(@)]
CallFrom(t, frame, callee) ==
  calls' = [calls EXCEPT ![t] = Append(Append(Front(@), frame), callee)]
GetSingle(y)     == Frame("check", y, 1)

Mapped(gone) == UNION {Maps[m] : m \in (Modules \cup {Program}) \ gone}

(* A thread calls get_Single() of a type whose code is there.               *)
Call(t, y) ==
  /\ calls[t] = <<>>
  /\ ModuleOf[y] \in Mapped(unloaded)
  /\ calls' = [calls EXCEPT ![t] = <<GetSingle(y)>>]
  /\ UNCHANGED <<pThe, life, registry, mgr, lockAll, inExit, unloaded>>

(* if (!isSingleCreated()), without the lock.                               *)
Check(t) ==
  /\ In(t, "check")
  /\ Move(t, IF pThe[Top(t).of] THEN "return" ELSE "lock")
  /\ UNCHANGED <<pThe, life, registry, mgr, lockAll, inExit, unloaded>>

LockAll(t) ==
  /\ In(t, "lock")
  /\ R!Acquire(t)
  /\ Move(t, "recheck")
  /\ UNCHANGED <<pThe, life, registry, mgr, inExit, unloaded>>

(* Mutant: no second check.                                                 *)
RecheckNothing(t) ==
  /\ In(t, "recheck")
  /\ pThe' = [pThe EXCEPT ![Top(t).of] = TRUE]
  /\ life' = [life EXCEPT ![Top(t).of] = "building"]
  /\ Move(t, "ctor")
  /\ UNCHANGED <<registry, mgr, lockAll, inExit, unloaded>>
(* The second check, with the lock, and new TYPE(): the constructor of the  *)
(* base class cSingletonType publishes sm_pThe first of all.                *)
Recheck(t) ==
  /\ In(t, "recheck")
  /\ LET y == Top(t).of
     IN  IF pThe[y]
         THEN /\ Move(t, "unlock")
              /\ UNCHANGED <<pThe, life>>
         ELSE /\ pThe' = [pThe EXCEPT ![y] = TRUE]
              /\ life' = [life EXCEPT ![y] = "building"]
              /\ Move(t, "ctor")
  /\ UNCHANGED <<registry, mgr, lockAll, inExit, unloaded>>

(* The body of the constructor calls get_Single() of what it uses.          *)
Construct(t) ==
  /\ In(t, "ctor")
  /\ LET f == Top(t)
     IN  IF f.i <= Len(Uses[f.of])
         THEN /\ CallFrom(t, [f EXCEPT !.i = @ + 1], GetSingle(Uses[f.of][f.i]))
              /\ UNCHANGED life
         ELSE /\ life' = [life EXCEPT ![f.of] = "ready"]
              /\ Move(t, "register")
  /\ UNCHANGED <<pThe, registry, mgr, lockAll, inExit, unloaded>>

(* Mutant: a singleton is registered before the ones it was built upon.     *)
RegisterFirst(t) ==
  /\ In(t, "register")
  /\ registry' = IF inExit THEN registry ELSE <<Top(t).of>> \o registry
  /\ mgr' = (mgr \/ ~ inExit)
  /\ Move(t, "unlock")
  /\ UNCHANGED <<pThe, life, lockAll, inExit, unloaded>>

(* RegisterSingleton: its own GetLockAll is nested, so it is free here.     *)
RegisterSingleton(t) ==
  /\ In(t, "register")
  /\ IF inExit
     THEN UNCHANGED <<registry, mgr>>
     ELSE /\ registry' = IF Contains(registry, Top(t).of) THEN registry
                         ELSE Append(registry, Top(t).of)
          /\ mgr' = TRUE
  /\ Move(t, "unlock")
  /\ UNCHANGED <<pThe, life, lockAll, inExit, unloaded>>

UnlockAll(t) ==
  /\ In(t, "unlock")
  /\ R!Release(t)
  /\ Move(t, "return")
  /\ UNCHANGED <<pThe, life, registry, mgr, inExit, unloaded>>

(* return cSingletonType<TYPE>::get_Single(): sm_pThe is read once more.    *)
ReturnSingle(t) ==
  /\ In(t, "return")
  /\ Return(t)
  /\ UNCHANGED <<pThe, life, registry, mgr, lockAll, inExit, unloaded>>

-----------------------------------------------------------------------------
(* cOSModDyn::Unload releases the singletons of the module, and only then   *)
(* gives up its count of it: another module that is linked to this one may  *)
(* use them, and keep it mapped, so that they can be made again.  It is not *)
(* called while code that goes away runs (UnRegisterModule said it is safe).*)
UnloadModule(t, hMod) ==
  /\ calls[t] = <<>> /\ ~ inExit
  /\ hMod \notin unloaded
  /\ \A u \in Threads : \A k \in 1..Len(calls[u]) :
       calls[u][k].of \in Types => ModuleOf[calls[u][k].of] \in Mapped(unloaded \cup {hMod})
  /\ unloaded' = unloaded \cup {hMod}
  /\ calls' = IF mgr THEN [calls EXCEPT ![t] = <<Frame("rmLock", hMod, 0)>>] ELSE calls
  /\ UNCHANGED <<pThe, life, registry, mgr, lockAll, inExit>>

(* main() has returned.                                                     *)
BeginExit ==
  /\ ~ inExit
  /\ calls[Main] = <<>>
  /\ inExit' = TRUE
  /\ UNCHANGED <<pThe, life, registry, mgr, lockAll, unloaded, calls>>

(* The C runtime destroys the static cDependMgr, if it was ever made.       *)
DestructMgr ==
  /\ inExit /\ mgr
  /\ calls[Main] = <<>>
  /\ calls' = [calls EXCEPT ![Main] = <<Frame("rmLock", AllModules, 0)>>]
  /\ UNCHANGED <<pThe, life, registry, mgr, lockAll, inExit, unloaded>>

ReleaseModule(t) ==
  /\ In(t, "rmLock")
  /\ R!Acquire(t)
  /\ Become(t, Frame("rmLoop", Top(t).of, Len(registry)))
  /\ UNCHANGED <<pThe, life, registry, mgr, inExit, unloaded>>

(* Mutant: the loop does not pass by.                                       *)
ReleaseSkipNothing(t) ==
  /\ In(t, "rmLoop") /\ Top(t).i > 0
  /\ Top(t).of # AllModules /\ ModuleOf[registry[Top(t).i]] # Top(t).of
  /\ Move(t, "rmRestart")
  /\ UNCHANGED <<pThe, life, registry, mgr, lockAll, inExit, unloaded>>

(* The loop runs backwards.  Entries of other modules are passed by: what   *)
(* their ReleaseModuleChildren(hMod) does is to what the entry itself keeps *)
(* (no singleton of the library but cAppState and the factories keeps any). *)
ReleaseSkip(t) ==
  /\ In(t, "rmLoop")
  /\ LET f == Top(t)
     IN  /\ f.i > 0
         /\ f.of # AllModules /\ ModuleOf[registry[f.i]] # f.of
         /\ Become(t, [f EXCEPT !.i = @ - 1])
  /\ UNCHANGED <<pThe, life, registry, mgr, lockAll, inExit, unloaded>>

(* Mutant: the entry is left to ~cDependRegister to remove.                 *)
ReleaseOneKeepsEntry(t) ==
  /\ In(t, "rmLoop") /\ Top(t).i > 0
  /\ LET f == Top(t)
         y == registry[f.i]
     IN  /\ f.of = AllModules \/ ModuleOf[y] = f.of
         /\ CallFrom(t, [f EXCEPT !.at = "rmRestart"], Frame("dtor", y, 1))
         /\ life' = [life EXCEPT ![y] = "dying"]
  /\ UNCHANGED <<pThe, registry, mgr, lockAll, inExit, unloaded>>

(* The others are removed, deleted if nobody has a reference, and the loop  *)
(* starts over at the end, which a destructor may have moved.               *)
ReleaseOne(t) ==
  /\ In(t, "rmLoop")
  /\ LET f == Top(t)
         y == registry[f.i]
     IN  /\ f.i > 0
         /\ f.of = AllModules \/ ModuleOf[y] = f.of
         /\ registry' = RemoveAt(registry, f.i)
         /\ IF y \in Referenced
            THEN Move(t, "rmRestart") /\ UNCHANGED life
            ELSE /\ CallFrom(t, [f EXCEPT !.at = "rmRestart"], Frame("dtor", y, 1))
                 /\ life' = [life EXCEPT ![y] = "dying"]
  /\ UNCHANGED <<pThe, mgr, lockAll, inExit, unloaded>>

(* Mutant: the loop goes on downwards after a deletion.                     *)
ReleaseGoOn(t) ==
  /\ In(t, "rmRestart")
  /\ Become(t, Frame("rmLoop", Top(t).of, Top(t).i - 1))
  /\ UNCHANGED <<pThe, life, registry, mgr, lockAll, inExit, unloaded>>

(* The list may be longer than it was when the loop (re)started: of a       *)
(* destructor that makes two singletons the assertion of :67 is false.      *)
ReleaseRestart(t) ==
  /\ In(t, "rmRestart")
  /\ Become(t, Frame("rmLoop", Top(t).of, Len(registry)))
  /\ UNCHANGED <<pThe, life, registry, mgr, lockAll, inExit, unloaded>>

ReleaseDone(t) ==
  /\ In(t, "rmLoop") /\ Top(t).i = 0
  /\ R!Release(t)
  /\ mgr' = (mgr /\ Top(t).of # AllModules)
  /\ Return(t)
  /\ UNCHANGED <<pThe, life, registry, inExit, unloaded>>

(* delete: the derived destructor, which may call get_Single(), then        *)
(* ~cDependRegister, which removes the entry again, then ~cSingletonType.   *)
Destruct(t) ==
  /\ In(t, "dtor")
  /\ LET f == Top(t)
     IN  IF f.i <= Len(DtorUses[f.of])
         THEN /\ CallFrom(t, [f EXCEPT !.i = @ + 1], GetSingle(DtorUses[f.of][f.i]))
              /\ UNCHANGED <<pThe, life, registry>>
         ELSE /\ registry' = RemoveFirst(registry, f.of)
              /\ pThe' = [pThe EXCEPT ![f.of] = FALSE]
              /\ life' = [life EXCEPT ![f.of] = "none"]
              /\ Return(t)
  /\ UNCHANGED <<mgr, lockAll, inExit, unloaded>>

-----------------------------------------------------------------------------
Step(t) ==
  \/ Check(t) \/ LockAll(t) \/ Recheck(t) \/ Construct(t)
  \/ RegisterSingleton(t) \/ UnlockAll(t) \/ ReturnSingle(t)
  \/ ReleaseModule(t) \/ ReleaseSkip(t) \/ ReleaseOne(t)
  \/ ReleaseRestart(t) \/ ReleaseDone(t) \/ Destruct(t)

Next ==
  \/ \E t \in Threads : \/ \E y \in Types : Call(t, y)
                        \/ \E hMod \in Modules : UnloadModule(t, hMod)
                        \/ Step(t)
  \/ BeginExit
  \/ DestructMgr

Spec == Init /\ [][Next]_vars

(* Threads run: nothing they do blocks them but sm_LockAll.                 *)
FairSpec == Spec /\ \A t \in Threads : WF_vars(Step(t))

-----------------------------------------------------------------------------
(* Types, and: sm_LockAll is held once for each call that is inside it.     *)
TypeOK ==
  /\ pThe \in [Types -> BOOLEAN]
  /\ life \in [Types -> {"none", "building", "ready", "dying"}]
  /\ registry \in Seq(Types) /\ IsInjective(registry)
  /\ mgr \in BOOLEAN /\ inExit \in BOOLEAN
  /\ lockAll \in [Threads -> 0..MaxNest]
  /\ \A t \in Threads : lockAll[t] = Cardinality({k \in 1..Len(calls[t]) :
       calls[t][k].at \in Inside})
  /\ unloaded \subseteq Modules
  /\ calls \in [Threads -> Seq(Frames)]

(* The double-checked lock never constructs a second object of a type that  *)
(* has one, nor while the old one is still being destroyed.                 *)
OneObjectPerType ==
  [][\A y \in Types : life[y] # "building" /\ life'[y] = "building" => life[y] = "none"]_vars

(* "Register only when fully constructed TYPE", and forget before deletion: *)
(* what ReleaseModule finds in its list it may delete.                      *)
RegisteredIsReady ==
  TypeOK /\ \A k \in 1..Len(registry) : life[registry[k]] = "ready" /\ pThe[registry[k]]

(* The module of what y's constructor used was told to unload before y's.   *)
Orphaned(y, z) == ModuleOf[z] # ModuleOf[y] /\ ModuleOf[z] \in unloaded

(* "destroyed in proper order": as long as a registered object lives, what  *)
(* its constructor used lives too, although destructors create singletons   *)
(* again and other threads go on: at exit, and when its own module unloads. *)
(* Only the unloading of another module takes it away.                      *)
UsedOutlivesUser ==
  \A k \in 1..Len(registry) : \A j \in 1..Len(Uses[registry[k]]) :
    LET y == registry[k]
        z == Uses[y][j]
    IN life[z] = "ready" \/ Orphaned(y, z)

(* Without that exception it is not so (nothing here checks it), although   *)
(* the module that is told to unload is still mapped, and used.             *)
UsedByAnyModuleLives ==
  \A k \in 1..Len(registry) : \A j \in 1..Len(Uses[registry[k]]) :
    life[Uses[registry[k]][j]] = "ready"

(* When ReleaseModule returns, no entry of the module is left, though its   *)
(* loop deletes from the list and destructors append to it.                 *)
NothingLeftOfModule ==
  \A t \in Threads : In(t, "rmLoop") /\ Top(t).i = 0 =>
    \A k \in 1..Len(registry) :
      Top(t).of # AllModules /\ ModuleOf[registry[k]] # Top(t).of

(* ReleaseModule, once it has the lock, returns.                            *)
ReleaseReturns ==
  \A t \in Threads : In(t, "rmLoop") ~> calls[t] = <<>>

(* "Thread safe" (cSingleton.h:147): get_Single() returns an object that is *)
(* constructed, unless it was called by the constructor itself.             *)
HandedOutIsReady ==
  \A t \in Threads : In(t, "return") =>
    \/ life[Top(t).of] = "ready"
    \/ \E k \in 1..(Len(calls[t]) - 1) : calls[t][k].of = Top(t).of
=============================================================================
