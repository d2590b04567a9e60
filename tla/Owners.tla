-------------------------------- MODULE Owners --------------------------------
(***************************************************************************)
(* Who owns what: shared heads (SharedHeads), blobs and temporary blocks    *)
(* (Blobs), smart pointers and the words that threads share (Pointers) under *)
(* any calls.  A behaviour picks a kind of store.  x is the store as the    *)
(* code keeps it, r is what its callers have asked it to hold.              *)
(***************************************************************************)
EXTENDS Integers, Sequences, FiniteSets
CONSTANTS Item, Short,              \* elements; stores have at most so many
          Users, Heads, Nil,        \* variables, and the blocks they share
          Character, Upper,         \* of texts
          Plain, Loaded,            \* bounds: characters of hashed texts, variables that are read
          Blob, Memory, Static,     \* blobs, blocks, static memory
          Turns,                    \* temporary blocks of a thread
          SmartVar, ObjectCount,    \* smart pointers and objects
          Thread, Bits              \* of an interlocked word
VARIABLES kind, x, r
vars == <<kind, x, r>>
Do(k, store, asked) == kind = k /\ x' = store /\ r' = asked /\ UNCHANGED kind
Start(k, store, asked) == kind = k /\ x = store /\ r = asked

SeqsTo(S, n) == UNION {[1..k -> S] : k \in 0..n}
Least(m, n) == IF m < n THEN m ELSE n
Before(s, i) == SubSeq(s, 1, Least(i, Len(s)))  \* the first i
After(s, i) == SubSeq(s, i + 1, Len(s))         \* all but the first i
Padded(s, n, new) == [k \in 1..n |-> IF k <= Len(s) THEN s[k] ELSE new]
Without(s, i, qty) == Before(s, i) \o After(s, i + qty)
Inserted(s, i, t) == Before(s, i) \o t \o After(s, i)

-----------------------------------------------------------------------------
(* Variables that share the heads of cArrayT.  The heap does not run out.   *)
ASSUME HeadsAssumption ==
  /\ Item \subseteq Int /\ Character \subseteq Int /\ Upper \in [Character -> Character]
  /\ Short \in Nat /\ Loaded \subseteq Users
  /\ IsFiniteSet(Users) /\ IsFiniteSet(Heads) /\ Cardinality(Users) < Cardinality(Heads)
  /\ Nil \notin Heads
SH == INSTANCE SharedHeads WITH Block <- Heads, Var <- Users
Room(v, n) == Len(r[v]) + n <= Short
InitShared == Start("shared", SH!NoHeads, [v \in Users |-> <<>>])
Own(v, s) == [r EXCEPT ![v] = s]
Alone(v) == \A w \in Users \ {v} : x.ref[w] # x.ref[v]
Seen(v, s) == [w \in Users |-> IF w = v \/ (x.ref[v] # Nil /\ x.ref[w] = x.ref[v]) THEN s ELSE r[w]]
put_Count == \E v \in Users, n \in 0..Short :
  Do("shared", SH!put_Count(x, v, n, SH!Fresh), Own(v, Padded(r[v], n, SH!Fresh)))
SetAtShared == \E v \in Users, e \in Item :
  /\ kind = "shared"
  /\ \E i \in DOMAIN r[v] : Do("shared", SH!SetAtShared(x, v, i - 1, e), Seen(v, [r[v] EXCEPT ![i] = e]))
AddShared == \E v \in Users, e \in Item :
  kind = "shared" /\ Room(v, 1) /\ Do("shared", SH!Add(x, v, e), Own(v, Append(r[v], e)))
SetAtGrowShared == \E v \in Users, i \in 0..(Short - 1), e \in Item :
  /\ kind = "shared"
  /\ Do("shared", SH!SetAtGrow(x, v, i, e),
        IF i < Len(r[v]) THEN Seen(v, [r[v] EXCEPT ![i + 1] = e])
        ELSE Own(v, [Padded(r[v], i + 1, SH!Fresh) EXCEPT ![i + 1] = e]))
InsertAtShared == \E v \in Users, i \in 0..(Short - 1), e \in Item :
  /\ kind = "shared" /\ Room(v, 1)
  /\ Do("shared", SH!InsertAt(x, v, i, e),
        Own(v, Inserted(Padded(r[v], IF i > Len(r[v]) THEN i ELSE Len(r[v]), SH!Fresh), i, <<e>>)))
(* It asserts that the head is not shared.                                  *)
InsertArrayShared == \E v \in Users, i \in 0..Short, src \in SeqsTo(Item, Short) :
  /\ kind = "shared" /\ Room(v, Len(src)) /\ (x.ref[v] = Nil \/ Alone(v))
  /\ Do("shared", SH!InsertArray(x, v, i, src),
        Own(v, Inserted(r[v], Least(i, Len(r[v])), src)))
RemoveAtShared == \E v \in Users, i \in 0..Short, qty \in 0..Short :
  kind = "shared" /\ Do("shared", SH!RemoveAt(x, v, i, qty), Seen(v, Without(r[v], i, qty)))
Share == \E v, w \in Users :
  \E k \in {"shared", "text", "hashed"} : kind = k /\ Do(k, SH!put_Ptr(x, v, x.ref[w]), Own(v, r[w]))
SetEmptyHead == \E v \in Users :
  \E k \in {"shared", "text", "hashed"} : kind = k /\ Do(k, SH!SetEmpty(x, v), Own(v, <<>>))

(* Each head is counted for exactly the variables that point to it, and     *)
(* freed with the last of them; each variable has what it should.           *)
HeadsAgree ==
  /\ \A v \in Users : SH!Data(x, v) = r[v]
  /\ \A b \in Heads :
       /\ x.heads[b].refs = Cardinality({v \in Users : x.ref[v] = b})
       /\ x.heads[b].refs = 0 => x.heads[b] = SH!Free

-----------------------------------------------------------------------------
(* Strings share heads too, but a write to one is not seen through another. *)
(* Strings of the kind "hashed" are asked for their hash codes, and never   *)
(* rewritten in place: the code that is kept would be that of the old text. *)
(* These texts differ by their lengths.                                     *)
Words == SeqsTo(Character, Short)
InitTexts == \E k \in {"text", "hashed"} : Start(k, SH!NoHeads, [v \in Users |-> <<>>])
Text(v, h, t) == \/ Do("text", h, Own(v, t))
                 \/ /\ kind = "hashed" /\ Len(t) # Len(r[v]) /\ \A k \in DOMAIN t : t[k] \in Plain
                    /\ Do("hashed", h, Own(v, t))
IsText == kind \in {"text", "hashed"}
Rename == \E v, w \in Users :
  /\ kind = "text" /\ v # w /\ x.ref[v] = Nil
  /\ Do("text", SH!Move(x, v, w), [r EXCEPT ![v] = r[w], ![w] = <<>>])
AssignText == \E v \in Users, t \in Words : IsText /\ Text(v, SH!AssignText(x, v, t), t)
AssignPart == \E v \in Users, i, n \in 0..Short :
  /\ IsText /\ i + n <= Len(r[v])
  /\ Text(v, SH!AssignPart(x, v, i, n), SubSeq(r[v], i + 1, i + n))
EditBuffer == \E v \in Users, t \in Words, min \in 0..Short :
  /\ IsText /\ min >= Len(t) /\ (min > 0 \/ x.ref[v] # Nil)
  /\ LET b == SH!GetBuffer(x, v, min)
         w == IF t = <<>> THEN b ELSE SH!Write(b, v, t \o After(SH!Data(b, v), Len(t)))
     IN Text(v, SH!ReleaseBuffer(w, v, Len(t)), t)
SetAtOwn == \E v \in Users, ch \in Character :
  /\ kind = "text"
  /\ \E i \in DOMAIN r[v] : Text(v, SH!SetAtOwn(x, v, i - 1, ch), [r[v] EXCEPT ![i] = ch])
MakeUpper == \E v \in Users :
  kind = "text" /\ Text(v, SH!MakeUpper(x, v, Upper), [k \in DOMAIN r[v] |-> Upper[r[v][k]]])
InsertSpan == \E v \in Users, i \in -1..(Short + 1), t \in Words :
  /\ IsText /\ Room(v, Len(t))
  /\ Text(v, SH!InsertSpan(x, v, i, t),
          Inserted(r[v], IF i < 0 THEN 0 ELSE Least(i, Len(r[v])), t))
Part == \E v, w \in Users, i, n \in 0..Short :
  /\ IsText /\ x.ref[v] = Nil
  /\ \/ Text(v, SH!Construct(x, v, w, SH!Left(r[w], n)), Before(r[w], n))
     \/ Text(v, SH!Construct(x, v, w, SH!Right(r[w], n)), After(r[w], IF n < Len(r[w]) THEN Len(r[w]) - n ELSE 0))
     \/ Text(v, SH!Construct(x, v, w, SH!Mid(r[w], i, n)), SubSeq(r[w], i + 1, Least(i + n, Len(r[w]))))
(* A text of n characters is read back, of which bytes are there.           *)
SerializeInput == \E v \in Loaded, n \in 0..(Short + 1), bytes \in SeqsTo(Character \cup {0}, Short) :
  /\ IsText /\ (n > 0 \/ x.ref[v] # Nil)
  /\ LET end == SH!Find(bytes, 0, 0)
     IN Text(v, SH!SerializeInput(x, v, n, Short, bytes),
             IF n > Short THEN r[v] ELSE IF Len(bytes) < n THEN <<>>
             ELSE Before(bytes, IF end >= 0 /\ end < n THEN end ELSE n))
get_HashCode == \E v \in Users : kind = "hashed" /\ Do("hashed", SH!get_HashCode(x, v), r)
TextsAgree == /\ HeadsAgree
              /\ \A v \in Users : x.ref[v] # Nil => /\ r[v] # <<>>
                                                    /\ kind = "hashed" => x.heads[x.ref[v]].hash \in {SH!Clear, r[v]}

-----------------------------------------------------------------------------
(* Blobs.  A blob that is not empty is only moved into an empty one.        *)
ASSUME BlobsAssumption ==
  /\ Turns \in Nat \ {0} /\ IsFiniteSet(Blob) /\ IsFiniteSet(Memory)
  /\ Cardinality(Blob \cup 0..(Turns - 1)) <= Cardinality(Memory)
  /\ 0 \notin Memory \cup DOMAIN Static /\ Memory \cap DOMAIN Static = {}
  /\ \A p \in DOMAIN Static : Static[p] \in Seq(Int)
AllBlobs == Blob \cup 0..(Turns - 1)  \* the pool's among them
BL == INSTANCE Blobs WITH Block <- Memory, Var <- AllBlobs
InitBlobs == Start("blobs", BL!NoBlobs, [v \in Blob |-> <<>>])
Holds(v, h, bytes) == Do("blobs", h, [r EXCEPT ![v] = bytes])
AllocSize == \E v \in Blob, n \in 0..Short :
  kind = "blobs" /\ Holds(v, BL!AllocSize(x, v, n), Padded(<<>>, n, BL!Junk))
ReAllocSize == \E v \in Blob, n \in 0..(Short + 1) :
  kind = "blobs" /\ Holds(v, BL!ReAllocSize(x, v, n), Padded(r[v], n, BL!Junk))
SetCopyAlloc == \E v \in Blob, t \in SeqsTo(Item, Short) :
  kind = "blobs" /\ Holds(v, BL!SetCopyAlloc(x, v, t), t)
SetCopyReAlloc == \E v \in Blob, t \in SeqsTo(Item, Short) :
  kind = "blobs" /\ Holds(v, BL!SetCopyReAlloc(x, v, t), t)
SetBlob == \E v \in Blob, p \in DOMAIN Static, type \in BL!Types \ {"null"} :
  /\ kind = "blobs"
  /\ \E n \in 0..Len(Static[p]) :
       Holds(v, BL!SetBlob(x, v, [p |-> p, size |-> n], type), Before(Static[p], n))
SetBlobCopy == \E v, u \in Blob : kind = "blobs" /\ v # u /\ Holds(v, BL!SetBlobCopy(x, v, u), r[u])
MoveBlob == \E v, u \in Blob :
  /\ kind = "blobs" /\ v # u /\ BL!isNull(x, v)
  /\ Do("blobs", BL!MoveBlob(x, v, u), [r EXCEPT ![v] = r[u], ![u] = <<>>])
SetBlobNull == \E v \in Blob : kind = "blobs" /\ Holds(v, BL!SetBlobNull(x, v), <<>>)
Destruct == \E v \in Blob : kind = "blobs" /\ Holds(v, BL!Destruct(x, v), <<>>)

(* Each block that is not free belongs to one blob, which will free it; the *)
(* heap's count is right; blobs have what they should, statics what they had.*)
OneOwner(w) ==
  /\ \A p \in BL!Live(w) : \E v \in AllBlobs : {u \in AllBlobs : w.blob[u].p = p /\ BL!isHeap(w, u)} = {v}
  /\ \A v \in AllBlobs : BL!isHeap(w, v) => w.blob[v].p \in BL!Live(w)
  /\ w.allocs = Cardinality(BL!Live(w))
  /\ \A p \in DOMAIN Static : w.mem[p] = Static[p]
BlobsAgree == /\ OneOwner(x)
              /\ \A v \in Blob : BL!Bytes(x, x.blob[v]) = r[v]

(* The temporary blocks of a thread: the Turns latest are not reused.       *)
InitPool == Start("pool", [cur |-> -1, w |-> BL!NoBlobs], <<>>)
GetT == \E t \in SeqsTo(Item, Short) :
  /\ kind = "pool" /\ t # <<>>
  /\ Do("pool", BL!GetT(x, Turns, t), Before(<<t>> \o r, Turns))
PoolAgrees == /\ OneOwner(x.w)
              /\ \A k \in DOMAIN r :
                   BL!Bytes(x.w, x.w.blob[(x.cur + 1 - k + Turns) % Turns]) = r[k] \o <<0>>

-----------------------------------------------------------------------------
(* Smart pointers: variables, and the member of each object.  hand[o] is    *)
(* what a caller holds without one.  A member points to a later object, so  *)
(* that there are no circles.                                               *)
ASSUME PointersAssumption == /\ ObjectCount \in Nat /\ IsFiniteSet(SmartVar)
                             /\ SmartVar \cap (0..ObjectCount) = {} /\ Bits \in Nat
Objects == 1..ObjectCount
PT == INSTANCE Pointers WITH Obj <- Objects, Var <- SmartVar, Null <- 0
InitPointers == \E k \in {"owned", "counted"} :
  Start(k, PT!NoObjects, [to |-> [s \in SmartVar \cup Objects |-> 0], hand |-> [o \in Objects |-> 0], val |-> [o \in Objects |-> 0]])
IsPointer == kind \in {"owned", "counted"}
(* What is reached from the variables and from what a caller holds: what is *)
(* in every set that has these and what its own objects point to.           *)
Roots(a) == {o \in Objects : a.hand[o] > 0 \/ \E v \in SmartVar : a.to[v] = o}
Closed(a, T) == Roots(a) \subseteq T /\ \A o \in T : a.to[o] \in T \cup {0}
Reach(a) == {o \in Objects : \A T \in SUBSET Objects : Closed(a, T) => o \in T}
Swept(a) == [a EXCEPT !.to = [s \in DOMAIN @ |-> IF s \in Objects \ Reach(a) THEN 0 ELSE @[s]],
                      !.val = [o \in Objects |-> IF o \in Reach(a) THEN @[o] ELSE 0]]
Points(h, a) == Do(kind, h, Swept(a))
Slot == SmartVar \cup Reach(r)
To(s, o) == [r EXCEPT !.to[s] = o]
MayPoint(s, o) == o = 0 \/ s \in SmartVar \/ s < o
(* What is still there once pointer s lets go.                              *)
Keeps(s, o) == o = 0 \/ o \in Reach(To(s, 0))
NewObject == IsPointer /\ \E o \in Objects \ Reach(r), e \in Item :
  Points(PT!NewObject(x, o, e), [r EXCEPT !.hand[o] = 1, !.val[o] = e])
LetGo == \E o \in Objects :
  IsPointer /\ r.hand[o] > 0 /\ Points(PT!Release(x, o), [r EXCEPT !.hand[o] = @ - 1])
ReleasePtr == IsPointer /\ \E s \in Slot : Points(PT!ReleasePtr(x, s), To(s, 0))
DetachPtr == IsPointer /\ \E s \in Slot :
  LET o == r.to[s]
  IN /\ o # 0 /\ r.hand[o] = 0
     /\ Points(PT!DetachPtr(x, s), [To(s, 0) EXCEPT !.hand[o] = @ + 1])
AssignPtr == kind = "owned" /\ \E s \in Slot, o \in Objects \cup {0} :
  /\ o # 0 => r.hand[o] > 0 /\ MayPoint(s, o)
  /\ Points(PT!AssignPtr(x, s, o), IF o = 0 THEN To(s, 0) ELSE [To(s, o) EXCEPT !.hand[o] = 0])
(* Neither pointer is a part of what the other one's assignment destructs.  *)
MovePtr == kind = "owned" /\ \E s, t \in Slot :
  /\ MayPoint(s, r.to[t]) /\ (t \in Objects => Keeps(s, t))
  /\ Points(PT!MovePtr(x, s, t),
            IF s = t THEN r ELSE [r EXCEPT !.to = [@ EXCEPT ![t] = 0, ![s] = r.to[t]]])
AssignDupe == kind = "owned" /\ \E s, t \in Slot, new \in Objects \ Reach(r) :
  /\ r.to[t] # 0 => r.to[r.to[t]] = 0 /\ MayPoint(s, new)
  /\ Points(PT!AssignDupe(x, s, t, new),
            IF r.to[t] = 0 THEN To(s, 0) ELSE [To(s, new) EXCEPT !.val[new] = r.val[r.to[t]]])
put_Ptr == kind = "counted" /\ \E s \in Slot, o \in Objects \cup {0} :
  /\ o \in Reach(r) \cup {0} /\ MayPoint(s, o) /\ (o = r.to[s] \/ Keeps(s, o))
  /\ Points(PT!put_Ptr(x, s, o), To(s, o))
SetQI == kind = "counted" /\ \E s \in Slot, o \in Objects \cup {0}, has \in BOOLEAN :
  /\ Keeps(s, o) /\ MayPoint(s, o)
  /\ Points(PT!SetQI(x, s, o, has), To(s, IF has THEN o ELSE 0))
FillPPtr == kind = "counted" /\ \E s \in Slot, o \in Objects :
  /\ o \notin Reach(To(s, 0)) /\ MayPoint(s, o)
  /\ LET gone == PT!get_PPtr(x, s)
     IN gone.refs[o] = 0 /\ Points(PT!AttachPtr(PT!NewObject(gone, o, 1), s, o),
                                     [Swept(To(s, 0)) EXCEPT !.to[s] = o, !.val[o] = 1])
(* An object is there while something leads to it and no longer, unchanged, *)
(* and is counted once for each pointer to it.                              *)
PointersAgree ==
  LET there == Reach(r)
      Pointing(o) == {s \in SmartVar \cup there : r.to[s] = o}
  IN /\ x.ptr = r.to /\ x.val = r.val
     /\ \A o \in Objects : /\ x.refs[o] > 0 <=> o \in there
                           /\ x.refs[o] = Cardinality(Pointing(o)) + r.hand[o]
     /\ kind = "owned" => \A o \in Objects : x.refs[o] <= 1
     /\ kind = "counted" => \A s \in SmartVar : PT!get_RefCount(x, s) = IF r.to[s] = 0 THEN 0 ELSE x.refs[r.to[s]]

-----------------------------------------------------------------------------
(* A word that threads change.  r has the word as it would be if each call  *)
(* were made at once, when it ends, and what it would answer.               *)
Values == 0..(2^Bits - 1)
InitInterlocked == Start("interlocked", PT!NewCell(Thread, 0), [val |-> 0, said |-> [t \in Thread |-> 0]])
Silent(t) == [r EXCEPT !.said[t] = 0]
AtOnce(t, new, said) == [val |-> new, said |-> [r.said EXCEPT ![t] = said]]
Wrap(n) == n % 2^Bits
Made(t, op, arg) ==
  CASE op = "Increment" -> AtOnce(t, Wrap(r.val + 1), Wrap(r.val + 1))
    [] op = "Decrement" -> AtOnce(t, Wrap(r.val - 1), Wrap(r.val - 1))
    [] op = "ExchangeAdd" -> AtOnce(t, Wrap(r.val + arg), r.val)
    [] op = "Exchange" -> AtOnce(t, arg, r.val)
CallInterlocked == \E t \in Thread, op \in {"Increment", "Decrement", "ExchangeAdd", "Exchange"}, arg \in Values :
  /\ kind = "interlocked" /\ x.call[t].pc = "none"
  /\ Do("interlocked", PT!CallInterlocked(x, t, op, arg), Silent(t))
LoadValue == \E t \in Thread :
  kind = "interlocked" /\ x.call[t].pc = "load" /\ Do("interlocked", PT!LoadValue(x, t), r)
SwapValue == \E t \in Thread :
  /\ kind = "interlocked" /\ x.call[t].pc = "swap"
  /\ LET after == PT!SwapValue(x, t, Bits)
     IN Do("interlocked", after,
           IF after.call[t].pc = "load" THEN r ELSE Made(t, x.call[t].op, x.call[t].arg))
AddInstruction == \E t \in Thread, op \in {"Increment", "Decrement"} :
  /\ kind = "interlocked" /\ x.call[t].pc = "none"
  /\ Do("interlocked", PT!AddInstruction(x, t, op, Bits), Made(t, op, 0))
CompareExchange == \E t \in Thread, new, comp \in Values :
  /\ kind = "interlocked" /\ x.call[t].pc = "none"
  /\ Do("interlocked", PT!CallCompareExchange(x, t, new, comp), AtOnce(t, IF r.val = comp THEN new ELSE r.val, r.val))
(* No change is lost, and each call answers what was there when it changed. *)
InterlockedAgrees == /\ x.val = r.val
                     /\ \A t \in Thread : x.call[t].said = r.said[t]

-----------------------------------------------------------------------------
InitOwners == InitShared \/ InitTexts \/ InitBlobs \/ InitPool \/ InitPointers \/ InitInterlocked
NextHeads == \/ put_Count \/ SetAtShared \/ AddShared \/ SetAtGrowShared \/ InsertAtShared
             \/ InsertArrayShared \/ RemoveAtShared \/ Share \/ SetEmptyHead
             \/ Rename \/ AssignText \/ AssignPart \/ EditBuffer \/ SetAtOwn \/ MakeUpper
             \/ InsertSpan \/ Part \/ SerializeInput \/ get_HashCode
NextBlobs == \/ AllocSize \/ ReAllocSize \/ SetCopyAlloc \/ SetCopyReAlloc \/ SetBlob
             \/ SetBlobCopy \/ MoveBlob \/ SetBlobNull \/ Destruct
NextPointers == \/ NewObject \/ LetGo \/ ReleasePtr \/ DetachPtr \/ AssignPtr \/ MovePtr \/ AssignDupe
                \/ put_Ptr \/ SetQI \/ FillPPtr
NextWord == CallInterlocked \/ LoadValue \/ SwapValue \/ AddInstruction \/ CompareExchange
NextOwners == NextHeads \/ NextBlobs \/ GetT \/ NextPointers \/ NextWord
SpecOwners == InitOwners /\ [][NextOwners]_vars

(* INVARIANT (cArrayT.h, cString.cpp, cBlob.cpp, cTempPool.cpp, cIUnkPtr.h, *)
(* cUniquePtr.h, cInterlockedVal.h): what is shared is freed with its last  *)
(* user and written for those who share it and for no other; what is owned  *)
(* has one owner; a word that threads share loses no change.                *)
OwnersAgree == /\ kind = "shared" => HeadsAgree
               /\ IsText => TextsAgree
               /\ kind = "blobs" => BlobsAgree
               /\ kind = "pool" => PoolAgrees
               /\ IsPointer => PointersAgree
               /\ kind = "interlocked" => InterlockedAgrees
=============================================================================
