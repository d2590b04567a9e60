------------------------------- MODULE Pointers -------------------------------
(***************************************************************************)
(* The smart pointers over cPtrFacade.h: cUniquePtr and cUniquePtr2, whose *)
(* objects have one owner, and cIUnkPtr (cIUnkPtr.h), whose objects are    *)
(* counted; cRefPtr assigns and releases as cIUnkPtr does.  Each object has *)
(* one smart pointer as a member.  A heap h has ptr[s], what pointer s      *)
(* points to, where s is a variable or the object whose member it is;       *)
(* refs[o], the references to o (1 if it has an owner that is not counted,  *)
(* 0: there is no o); and val[o], what else o holds.  The counts of objects *)
(* that threads share are words of cInterlockedVal, at the end.             *)
(***************************************************************************)
EXTENDS Integers, FiniteSets
CONSTANTS Obj, Var, Null

NoObjects == [ptr |-> [s \in Var \cup Obj |-> Null], refs |-> [o \in Obj |-> 0], val |-> [o \in Obj |-> 0]]
(* new: the caller has the first reference.                                 *)
NewObject(h, o, v) == [h EXCEPT !.refs[o] = 1, !.val[o] = v]

isValidPtr(h, s) == h.ptr[s] # Null
IsEqual(h, s, o) == h.ptr[s] = o
AttachPtr(h, s, o) == [h EXCEPT !.ptr[s] = o]
ClearPtr(h, s) == [h EXCEPT !.ptr[s] = Null]
(* The caller of DetachPtr has the reference now.                           *)
DetachPtr(h, s) == ClearPtr(h, s)
AddRef(h, o) == [h EXCEPT !.refs[o] = @ + 1]

(* Release, and delete of what is not counted: the last one destructs the   *)
(* object, whose member releases what it points to, and so on.  A step does *)
(* it to one object, next.                                                  *)
ReleaseStep(s) ==
  LET p == s.next
      less == [s.h EXCEPT !.refs[p] = @ - 1]
  IN IF p = Null THEN s
     ELSE IF less.refs[p] > 0 THEN [h |-> less, next |-> Null]
     ELSE [h |-> ClearPtr([less EXCEPT !.val[p] = 0], p), next |-> s.h.ptr[p]]
ReleaseSteps(h, o) ==
  LET Step[n \in 0..Cardinality(Obj)] ==
        IF n = 0 THEN [h |-> h, next |-> o] ELSE ReleaseStep(Step[n - 1])
  IN Step
Release(h, o) == ReleaseSteps(h, o)[Cardinality(Obj)].h
(* The pointer is cleared first, so that a destructor does not see it.      *)
ReleasePtr(h, s) == IF isValidPtr(h, s) THEN Release(ClearPtr(h, s), h.ptr[s]) ELSE h

-----------------------------------------------------------------------------
(* cUniquePtr.  The assignment of another one takes its object over, if     *)
(* that pointer is still there once the old object is gone.                 *)
AssignPtr(h, s, o) == IF IsEqual(h, s, o) THEN h ELSE AttachPtr(ReleasePtr(h, s), s, o)
MovePtr(h, s, t) ==
  IF IsEqual(h, s, h.ptr[t]) THEN h
  ELSE LET gone == ReleasePtr(h, s) IN ClearPtr(AttachPtr(gone, s, gone.ptr[t]), t)
(* cUniquePtr2 copies the object, here to new; that object's own copy       *)
(* constructor does the same to its member, which is taken to be empty.     *)
Dupe(h, t, new) == IF ~isValidPtr(h, t) THEN h ELSE NewObject(h, new, h.val[h.ptr[t]])
AssignDupe(h, s, t, new) ==
  AssignPtr(Dupe(h, t, new), s, IF isValidPtr(h, t) THEN new ELSE Null)

-----------------------------------------------------------------------------
(* cIUnkPtr.  The old object is released before the new one is counted.     *)
IncRefFirst(h, s) == IF isValidPtr(h, s) THEN AddRef(h, h.ptr[s]) ELSE h
put_Ptr(h, s, o) ==
  IF IsEqual(h, s, o) THEN h ELSE IncRefFirst(AttachPtr(ReleasePtr(h, s), s, o), s)
(* QueryInterface counts what it gives, or fails.                           *)
SetQI(h, s, o, has) ==
  LET gone == ReleasePtr(h, s)
  IN IF o = Null \/ ~has THEN gone ELSE AttachPtr(AddRef(gone, o), s, o)
(* A callee fills the pointer in with an object it has counted.             *)
get_PPtr(h, s) == ReleasePtr(h, s)
get_RefCount(h, s) == IF isValidPtr(h, s) THEN AddRef(h, h.ptr[s]).refs[h.ptr[s]] - 1 ELSE 0

-----------------------------------------------------------------------------
(* cInterlockedVal: a word that threads change without a lock.  32 bits are *)
(* added to by one instruction; for the rest the word is loaded, and stored *)
(* by a compare-and-swap that is tried until nobody came between.  A cell c *)
(* has val and the call that each thread is in.                             *)
NoCall == [pc |-> "none", op |-> "none", arg |-> 0, comp |-> 0, said |-> 0]
NewCell(threads, val) == [val |-> val, call |-> [t \in threads |-> NoCall]]
Stored(op, old, arg, w) ==
  CASE op = "Increment" -> (old + 1) % 2^w [] op = "Decrement" -> (old - 1) % 2^w
    [] op = "ExchangeAdd" -> (old + arg) % 2^w [] op = "Exchange" -> arg
Answer(op, old, w) == IF op \in {"Increment", "Decrement"} THEN Stored(op, old, 0, w) ELSE old
Returned(said) == [NoCall EXCEPT !.said = said]

CompareExchange(val, new, comp) == [prev |-> val, val |-> IF val = comp THEN new ELSE val]
CallInterlocked(c, t, op, arg) == [c EXCEPT !.call[t] = [@ EXCEPT !.pc = "load", !.op = op, !.arg = arg, !.said = 0]]
LoadValue(c, t) == [c EXCEPT !.call[t] = [@ EXCEPT !.pc = "swap", !.comp = c.val]]
SwapValue(c, t, w) ==
  LET call == c.call[t]
      swap == CompareExchange(c.val, Stored(call.op, call.comp, call.arg, w), call.comp)
  IN IF swap.prev = call.comp THEN [c EXCEPT !.val = swap.val, !.call[t] = Returned(Answer(call.op, swap.prev, w))]
     ELSE [c EXCEPT !.call[t].pc = "load"]
AddInstruction(c, t, op, w) ==
  [c EXCEPT !.val = Stored(op, @, 0, w), !.call[t] = Returned(Answer(op, c.val, w))]
CallCompareExchange(c, t, new, comp) ==
  LET swap == CompareExchange(c.val, new, comp)
  IN [c EXCEPT !.val = swap.val, !.call[t] = Returned(swap.prev)]
=============================================================================
