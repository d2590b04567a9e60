------------------------------ MODULE AtomTable ------------------------------
(***************************************************************************)
(* cAtomManager and cAtomRef (cAtom.h, cAtomManager.h, cAtom.cpp): one      *)
(* shared, reference counted object per name, found by name or by hash code *)
(* in two tables that have a reference each.  The tables are changed under  *)
(* _Lock, so that each call under it is one step; the reference counts are  *)
(* interlocked, and read and changed by handles outside the lock.           *)
(***************************************************************************)
EXTENDS Naturals, FiniteSets

CONSTANTS Threads,
          Names,        \* the names of atoms
          Code,         \* Code[n]: get_HashCode() of the name n
          Objects,      \* BOUND: the objects that exist at once
          Nobody,       \* no object, no name
          MaxHandles    \* BOUND: cAtomRefs each thread has to one object

ASSUME NobodyAssumption == Nobody \notin Objects \cup Names
ASSUME FiniteAssumption ==
  IsFiniteSet(Threads) /\ IsFiniteSet(Names) /\ MaxHandles \in Nat \ {0}

kRefsBase == 3          \* the references of the two tables and of one cAtomRef
Codes == {Code[n] : n \in Names}

VARIABLES nameOf,    \* the name of each object that is alive
          refCount,  \* _nRefCount of each object
          aNames,    \* _aNames: the object under each name
          aHashes,   \* _aHashes: the object under each code
          aStatics,  \* _aStatics: the objects in it, by the thread that inserted them
          adding,    \* the object whose place in _aStatics a thread has searched
          handles,   \* how many cAtomRefs each thread has to each object
          strings,   \* how many cStringAs share each object
          drop       \* the SetEmptyA each thread is in

tables == <<aNames, aHashes, aStatics>>
vars == <<nameOf, refCount, tables, adding, handles, strings, drop>>

(* others is a ghost: the users that the object of a RemoveAtom had beside  *)
(* the handle being dropped when SetEmptyA read the count.                  *)
NoDrop == [pc |-> "none", obj |-> Nobody, others |-> 0]

Init ==
  /\ nameOf = [o \in Objects |-> Nobody]
  /\ refCount = [o \in Objects |-> 0]
  /\ aNames = [n \in Names |-> Nobody]
  /\ aHashes = [c \in Codes |-> Nobody]
  /\ aStatics = [t \in Threads |-> {}]
  /\ adding = [t \in Threads |-> Nobody]
  /\ handles = [t \in Threads |-> [o \in Objects |-> 0]]
  /\ strings = [o \in Objects |-> 0]
  /\ drop = [t \in Threads |-> NoDrop]

Free(t) == drop[t].pc = "none" /\ adding[t] = Nobody
HasRoom(t, o) == handles[t][o] < MaxHandles
CodeOf(o) == Code[nameOf[o]]

(* t gets one more cAtomRef to o; its count becomes n (0: o is deleted).    *)
NewHandle(t, o) == handles' = [handles EXCEPT ![t][o] = @ + 1]
Count(count, o, n) == [count EXCEPT ![o] = n]
Deleted(count) == [o \in Objects |-> IF count[o] = 0 THEN Nobody ELSE nameOf[o]]

(* The references to o: entries of the tables, handles, handles being       *)
(* dropped.  Its users are all but the two tables that RemoveAtom clears.   *)
InNames(o) == {n \in Names : aNames[n] = o}
InHashes(o) == {c \in Codes : aHashes[c] = o}
InStatics(o) == {t \in Threads : o \in aStatics[t]}
HandlesTo(o) == {h \in Threads \X (1..MaxHandles) : h[2] <= handles[h[1]][o]}
Dropping(o) == {t \in Threads : drop[t].obj = o}
Users(o) ==
  Cardinality(InStatics(o)) + Cardinality(HandlesTo(o)) + strings[o] + Cardinality(Dropping(o))

-----------------------------------------------------------------------------
(* FindorCreateAtom: the name is there.                                     *)
FindAtom(t, n) ==
  /\ Free(t)
  /\ LET o == aNames[n] IN
       /\ o # Nobody /\ HasRoom(t, o)
       /\ NewHandle(t, o)
       /\ refCount' = Count(refCount, o, refCount[o] + 1)
  /\ UNCHANGED <<nameOf, tables, adding, strings, drop>>

(* FindAtomStr: the same with a local cAtomRef, whose own SetEmptyA takes   *)
(* the atom out of _aNames if it has lost its entry in _aHashes.            *)
FindAtomStr(t, n) ==
  /\ Free(t)
  /\ LET o == aNames[n]
         last == refCount[o] + 2 <= kRefsBase
     IN /\ o # Nobody /\ HasRoom(t, o)
        /\ NewHandle(t, o)
        /\ aNames' = [aNames EXCEPT ![n] = IF last THEN Nobody ELSE @]
        /\ refCount' = Count(refCount, o, refCount[o] + (IF last THEN 0 ELSE 1))
  /\ UNCHANGED <<nameOf, aHashes, aStatics, adding, strings, drop>>

FindAtomHashCode(t, c) ==
  /\ Free(t)
  /\ LET o == aHashes[c] IN
       /\ o # Nobody /\ HasRoom(t, o)
       /\ NewHandle(t, o)
       /\ refCount' = Count(refCount, o, refCount[o] + 1)
  /\ UNCHANGED <<nameOf, tables, adding, strings, drop>>

(* A new object for n, of which the caller already has s references.        *)
CreateFor(t, n, s, o, replaced) ==
  /\ nameOf' = [nameOf EXCEPT ![o] = n]
  /\ aNames' = [aNames EXCEPT ![n] = o]
  /\ aHashes' = [aHashes EXCEPT ![Code[n]] = o]
  /\ refCount' = [p \in Objects |->
       IF p = o THEN kRefsBase + s
       ELSE IF p = replaced THEN refCount[p] - 1 ELSE refCount[p]]
  /\ strings' = [strings EXCEPT ![o] = s]
  /\ NewHandle(t, o)
  /\ UNCHANGED <<aStatics, adding, drop>>

(* Mutant: the entry that is replaced is not released.                      *)
CreateAtomKeepsRef(t, n, s) ==
  /\ Free(t) /\ aNames[n] = Nobody
  /\ \E o \in Objects : nameOf[o] = Nobody /\ CreateFor(t, n, s, o, Nobody)

(* FindorCreateAtom: the name is not there.  From a cStringA (s = 1) the    *)
(* atom shares the string's object.  _aHashes.Add replaces an entry that    *)
(* has the same code and releases it ("Hash collision?!").                  *)
CreateAtom(t, n, s) ==
  /\ Free(t) /\ aNames[n] = Nobody
  /\ \E o \in Objects : nameOf[o] = Nobody /\ CreateFor(t, n, s, o, aHashes[Code[n]])

-----------------------------------------------------------------------------
(* The copy constructor, from a cAtomRef that any thread has.               *)
CopyHandle(t, o) ==
  /\ Free(t) /\ HasRoom(t, o)
  /\ \E u \in Threads : handles[u][o] > 0
  /\ NewHandle(t, o)
  /\ refCount' = Count(refCount, o, refCount[o] + 1)
  /\ UNCHANGED <<nameOf, tables, adding, strings, drop>>

(* get_StrA: a cStringA that shares the object (one of them per object).    *)
GetStrA(t, o) ==
  /\ Free(t) /\ handles[t][o] > 0 /\ strings[o] = 0
  /\ strings' = [strings EXCEPT ![o] = 1]
  /\ refCount' = Count(refCount, o, refCount[o] + 1)
  /\ UNCHANGED <<nameOf, tables, adding, handles, drop>>

StringGoes(o) ==
  /\ strings[o] > 0
  /\ strings' = [strings EXCEPT ![o] = @ - 1]
  /\ refCount' = Count(refCount, o, refCount[o] - 1)
  /\ nameOf' = Deleted(refCount')
  /\ UNCHANGED <<tables, adding, handles, drop>>

(* SetAtomStatic takes no lock, so AddSort(pDef, 2) is two steps: the       *)
(* search, which keeps an entry that has the same code, and the insertion   *)
(* at the place it found.  (What two insertions at once leave of the array  *)
(* itself is undefined: here both entries get in.)                          *)
SearchStatic(t, o) ==
  /\ Free(t) /\ handles[t][o] > 0
  /\ \A u \in Threads : \A q \in aStatics[u] : CodeOf(q) # CodeOf(o)
  /\ adding' = [adding EXCEPT ![t] = o]
  /\ UNCHANGED <<nameOf, refCount, tables, handles, strings, drop>>

InsertStatic(t) ==
  /\ adding[t] # Nobody
  /\ LET o == adding[t]
     IN /\ aStatics' = [aStatics EXCEPT ![t] = @ \cup {o}]
        /\ refCount' = Count(refCount, o, refCount[o] + 1)
  /\ adding' = [adding EXCEPT ![t] = Nobody]
  /\ UNCHANGED <<nameOf, aNames, aHashes, handles, strings, drop>>

-----------------------------------------------------------------------------
SetEmptyWhen(t, o, last) ==
  /\ Free(t) /\ handles[t][o] > 0
  /\ handles' = [handles EXCEPT ![t][o] = @ - 1]
  /\ drop' = [drop EXCEPT ![t] =
       [pc |-> IF last THEN "remove" ELSE "release", obj |-> o,
        others |-> IF last THEN Users(o) - 1 ELSE 0]]
  /\ UNCHANGED <<nameOf, refCount, tables, adding, strings>>

(* Mutant: the number of references that a table entry needs is one off.    *)
SetEmptyAOffByOne(t, o) == SetEmptyWhen(t, o, refCount[o] <= kRefsBase + 1)

(* SetEmptyA reads the count, outside of the lock.                          *)
SetEmptyA(t, o) == SetEmptyWhen(t, o, refCount[o] <= kRefsBase)

(* RemoveAtom: each table deletes its entry if it is this object.           *)
RemoveAtom(t) ==
  /\ drop[t].pc = "remove"
  /\ LET o == drop[t].obj
         inHash == aHashes[CodeOf(o)] = o
         inNames == aNames[nameOf[o]] = o
     IN /\ aHashes' = [aHashes EXCEPT ![CodeOf(o)] = IF inHash THEN Nobody ELSE @]
        /\ aNames' = [aNames EXCEPT ![nameOf[o]] = IF inNames THEN Nobody ELSE @]
        /\ refCount' = Count(refCount, o,
             refCount[o] - (IF inHash THEN 1 ELSE 0) - (IF inNames THEN 1 ELSE 0))
  /\ drop' = [drop EXCEPT ![t].pc = "release"]
  /\ UNCHANGED <<nameOf, aStatics, adding, handles, strings>>

(* put_Ptr(nullptr): the reference itself goes.                             *)
ReleasePtr(t) ==
  /\ drop[t].pc = "release"
  /\ LET o == drop[t].obj IN refCount' = Count(refCount, o, refCount[o] - 1)
  /\ nameOf' = Deleted(refCount')
  /\ drop' = [drop EXCEPT ![t] = NoDrop]
  /\ UNCHANGED <<tables, adding, handles, strings>>

-----------------------------------------------------------------------------
Next ==
  \/ \E t \in Threads :
       \/ \E n \in Names :
            FindAtom(t, n) \/ FindAtomStr(t, n) \/ \E s \in {0, 1} : CreateAtom(t, n, s)
       \/ \E c \in Codes : FindAtomHashCode(t, c)
       \/ \E o \in Objects :
            CopyHandle(t, o) \/ GetStrA(t, o) \/ SearchStatic(t, o) \/ SetEmptyA(t, o)
       \/ InsertStatic(t) \/ RemoveAtom(t) \/ ReleasePtr(t)
  \/ \E o \in Objects : StringGoes(o)

Spec == Init /\ [][Next]_vars

-----------------------------------------------------------------------------
MaybeObject == Objects \cup {Nobody}

TypeOK ==
  /\ nameOf \in [Objects -> Names \cup {Nobody}]
  /\ refCount \in [Objects -> Nat]
  /\ \A o \in Objects : nameOf[o] = Nobody <=> refCount[o] = 0
  /\ aNames \in [Names -> MaybeObject]
  /\ aHashes \in [Codes -> MaybeObject] /\ aStatics \in [Threads -> SUBSET Objects]
  /\ adding \in [Threads -> MaybeObject]
  /\ handles \in [Threads -> [Objects -> 0..MaxHandles]]
  /\ strings \in [Objects -> 0..1]
  /\ \A t \in Threads : drop[t].pc \in {"none", "remove", "release"}

(* Every reference to an object is counted and nothing else is: the         *)
(* entries of the three tables, the handles, the strings, and the handles   *)
(* that are being dropped.  So no table ever has a deleted object, although *)
(* RemoveAtom and the replacement of an entry work from stale knowledge.    *)
RefsAreExact ==
  TypeOK /\ \A o \in Objects :
    refCount[o] = Cardinality(InNames(o)) + Cardinality(InHashes(o)) + Users(o)

IsFound(o) == nameOf[o] # Nobody /\ aNames[nameOf[o]] = o
HasTwin(n) == \E m \in Names \ {n} : Code[m] = Code[n]

(* t's RemoveAtom takes out an object that had no other user when SetEmptyA *)
(* read its count; one more if another name took its entry in _aHashes, as  *)
(* kRefsBase counts that entry.                                             *)
LastOneTakesOut(t, o) ==
  /\ drop[t].pc = "remove" /\ drop[t].obj = o /\ drop'[t].pc = "release"
  /\ drop[t].others = 0 \/ (drop[t].others = 1 /\ HasTwin(nameOf[o]))

(* "A single string name shared by all" (cAtom.h:21): once the lookup of a  *)
(* name finds an object, it finds that object until a SetEmptyA that had    *)
(* read a count without other users takes it out, or a FindAtomStr that     *)
(* meets an object of no user, left behind without its entry in _aHashes.   *)
(* No creation, other drop or static entry ever takes the name from it.     *)
AtomStaysFound ==
  [][\A o \in Objects : IsFound(o) =>
       \/ IsFound(o)'
       \/ \E t \in Threads : LastOneTakesOut(t, o)
       \/ Users(o) = 0 /\ HasTwin(nameOf[o])]_vars

(* What the comments and assertions of the code say, and what is not so     *)
(* (nothing here checks it).  An atom in use, or static, is the one found:  *)
(* a lookup between SetEmptyA's reading and its RemoveAtom, or a name with  *)
(* the same hash code, takes it out of the tables under its users.          *)
AtomIsShared ==
  \A o \in Objects :
    (\E t \in Threads : handles[t][o] > 0) \/ InStatics(o) # {} => IsFound(o)

(* RemoveAtom's assertions: both tables have the object, and its count      *)
(* comes to 1.  The same two cases break them.                              *)
RemoveAtomAsserts ==
  \A t \in Threads : drop[t].pc = "remove" =>
    LET o == drop[t].obj
    IN IsFound(o) /\ aHashes[CodeOf(o)] = o /\ refCount[o] = kRefsBase

(* "Remove the cAtomRef from the tables if last use" (cAtom.cpp:115): two   *)
(* drops that both read a count of 4, or a cStringA that goes after the     *)
(* last handle, leave an atom without a user in the tables.                 *)
UnusedIsRemoved == \A o \in Objects : nameOf[o] # Nobody => Users(o) > 0
=============================================================================
