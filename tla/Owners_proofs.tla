---------------------------- MODULE Owners_proofs ----------------------------
(***************************************************************************)
(* The proofs about Owners, part two: blobs and temporary blocks, smart     *)
(* pointers and words that threads change, each with what a store keeps     *)
(* (its invariant), lemmas on what the operations of its module do to that, *)
(* and a lemma for each action.  The theorem OwnersSafe puts them together. *)
(***************************************************************************)
EXTENDS Heads_proofs

-----------------------------------------------------------------------------
Address == Memory \cup DOMAIN Static
BlobT == [p : Address \cup {0}, size : Nat, type : BL!Types]
World == [mem : [Address -> Seq(Value)], allocs : Int, blob : [AllBlobs -> BlobT]]
Owns(w, v, p) == w.blob[v].type = "heap" /\ w.blob[v].p = p
Fits(mem, b) == /\ b.p # 0 /\ b.size \in 1..Len(mem[b.p])
                /\ b.type = "heap" => b.p \in Memory /\ b.size = Len(mem[b.p])
                /\ b.type # "heap" => b.p \in DOMAIN Static
Good(w) == /\ w \in World
           /\ \A p \in DOMAIN Static : w.mem[p] = Static[p]
           /\ \A v \in AllBlobs : w.blob[v] = BL!NullBlob \/ Fits(w.mem, w.blob[v])
           /\ \A v, u \in AllBlobs, p \in Memory : Owns(w, v, p) /\ Owns(w, u, p) => u = v
           /\ \A p \in BL!Live(w) : \E v \in AllBlobs : Owns(w, v, p)
           /\ w.allocs = Cardinality(BL!Live(w))
BytesOf(w, v) == BL!Bytes(w, w.blob[v])
OthersKeep(w, g, v) == \A u \in AllBlobs \ {v} : BytesOf(g, u) = BytesOf(w, u)
OtherOwns(w, v, p) == \E u \in AllBlobs \ {v} : Owns(w, u, p)
(* g is w without the block of v.                                           *)
Loose(w, g, v) == /\ g \in World /\ g.blob = w.blob
                  /\ \A p \in DOMAIN Static : g.mem[p] = w.mem[p]
                  /\ \A p \in Memory : g.mem[p] = IF OtherOwns(w, v, p) THEN w.mem[p] ELSE <<>>
                  /\ g.allocs = Cardinality(BL!Live(g))
Makes(w, g, v, s) == Good(g) /\ OthersKeep(w, g, v) /\ BytesOf(g, v) = s

LEMMA NotNothing ==
  ASSUME NEW E, NEW s \in Seq(E)
  PROVE  (s # <<>> <=> Len(s) > 0) /\ Len(s) \in Nat
  BY EmptySeq, LenProperties

LEMMA NullBlobIs ==
  /\ BL!NullBlob.p = 0 /\ BL!NullBlob.type = "null" /\ BL!NullBlob.size = 0
  /\ BL!NullBlob \in BlobT /\ 0 \notin Address
  BY BlobsAssumption DEF BL!NullBlob, BL!Null, BlobT, BL!Types, Address

LEMMA LiveIs ==
  ASSUME NEW w
  PROVE  /\ BL!Live(w) = {p \in Memory : w.mem[p] # <<>>}
         /\ IsFiniteSet(BL!Live(w)) /\ Cardinality(BL!Live(w)) \in Nat
<1>1. BL!Live(w) = {p \in Memory : w.mem[p] # <<>>}
  BY DEF BL!Live, BL!Freed
<1> QED BY <1>1, BlobsAssumption, FS_Subset, FS_CardinalityType

LEMMA OwnerHas ==
  ASSUME NEW w, Good(w), NEW v \in AllBlobs, w.blob[v].type = "heap"
  PROVE  LET p == w.blob[v].p
         IN /\ Owns(w, v, p) /\ p \in Memory /\ p \in BL!Live(w) /\ p # 0
            /\ w.blob[v].size = Len(w.mem[p]) /\ w.mem[p] \in Seq(Value)
            /\ ~OtherOwns(w, v, p)
<1> DEFINE p == w.blob[v].p
<1>1. w.blob[v] # BL!NullBlob
  BY NullBlobIs
<1>2. Fits(w.mem, w.blob[v])
  BY <1>1 DEF Good
<1>3. p \in Memory /\ w.blob[v].size = Len(w.mem[p]) /\ w.blob[v].size \in 1..Len(w.mem[p]) /\ p # 0
  BY <1>2 DEF Fits
<1>4. w.mem[p] \in Seq(Value)
  BY <1>3 DEF Good, World, Address
<1>5. w.mem[p] # <<>>
  BY <1>3, <1>4, NotNothing
<1>6. Owns(w, v, p)
  BY DEF Owns
<1>7. ~OtherOwns(w, v, p)
  BY <1>3, <1>6 DEF Good, OtherOwns
<1> QED BY <1>3, <1>4, <1>5, <1>6, <1>7, LiveIs

LEMMA FreeIs ==
  ASSUME NEW w, Good(w), NEW v \in AllBlobs
  PROVE  Loose(w, BL!FreeHeap(w, v), v)
<1> DEFINE g == BL!FreeHeap(w, v)
           q == w.blob[v].p
<1>0. w \in World /\ <<>> \in Seq(Value)
  BY EmptySeq DEF Good
<1>1. ASSUME NEW p \in Memory, ~OtherOwns(w, v, p), ~Owns(w, v, p) PROVE w.mem[p] = <<>>
  <2>1. p \notin BL!Live(w)
    BY <1>1 DEF Good, OtherOwns
  <2> QED BY <2>1, LiveIs
<1>2. CASE w.blob[v].type = "heap"
  <2>1. g = [w EXCEPT !.mem = [@ EXCEPT ![q] = <<>>], !.allocs = @ - 1]
    BY <1>2 DEF BL!FreeHeap, BL!isHeap, BL!FreePtr, BL!Freed
  <2>2. q \in Memory /\ q \in BL!Live(w) /\ ~OtherOwns(w, v, q)
    BY <1>2, OwnerHas
  <2>3. q \in Address /\ q \notin DOMAIN Static
    BY <2>2, BlobsAssumption DEF Address
  <2> HIDE DEF g, q
  <2>4. g.blob = w.blob /\ g.mem = [w.mem EXCEPT ![q] = <<>>] /\ g.allocs = w.allocs - 1 /\ g \in World
    <3> DEFINE m == [w.mem EXCEPT ![q] = <<>>]
               n == w.allocs - 1
    <3>1. m \in [Address -> Seq(Value)] /\ n \in Int
      BY <1>0, <2>3 DEF World
    <3>2. g = [w EXCEPT !.mem = m, !.allocs = n]
      BY <2>1
    <3> HIDE DEF m, n
    <3>3. g.blob = w.blob /\ g.mem = m /\ g.allocs = n /\ g \in World
      BY <3>1, <3>2, <1>0 DEF World
    <3> QED BY <3>3 DEF m, n
  <2>6. w.mem \in [Address -> Seq(Value)] /\ Memory \subseteq Address /\ DOMAIN Static \subseteq Address
    BY <1>0 DEF World, Address
  <2>7. g.mem[q] = <<>> /\ \A p \in Address \ {q} : g.mem[p] = w.mem[p]
    BY <2>4, <2>6, <2>3
  <2>8. \A p \in Memory \ {q} : ~Owns(w, v, p)
    BY DEF Owns, q
  <2>9. BL!Live(g) = BL!Live(w) \ {q}
    BY <2>7, <2>6, LiveIs
  <2>10. g.allocs = Cardinality(BL!Live(g))
    <3>0. IsFiniteSet(BL!Live(w)) /\ q \in BL!Live(w)
      BY <2>2, LiveIs
    <3>1. Cardinality(BL!Live(w) \ {q}) = Cardinality(BL!Live(w)) - 1
      BY <3>0, FS_RemoveElement
    <3> QED BY <3>1, <2>9, <2>4 DEF Good
  <2>11. \A p \in Memory : g.mem[p] = IF OtherOwns(w, v, p) THEN w.mem[p] ELSE <<>>
    BY <2>7, <2>8, <1>1, <2>2, <2>6
  <2>12. \A p \in DOMAIN Static : g.mem[p] = w.mem[p]
    BY <2>7, <2>6, <2>3
  <2>13. Loose(w, g, v)
    BY <2>4, <2>12, <2>10, <2>11 DEF Loose
  <2> QED BY <2>13 DEF g
<1>3. CASE w.blob[v].type # "heap"
  <2>1. g = w
    BY <1>3 DEF BL!FreeHeap, BL!isHeap
  <2>2. \A p \in Memory : ~Owns(w, v, p)
    BY <1>3 DEF Owns
  <2>3. \A p \in Memory : w.mem[p] = IF OtherOwns(w, v, p) THEN w.mem[p] ELSE <<>>
    BY <1>1, <2>2
  <2> QED BY <2>1, <2>3, <1>0 DEF Loose, Good
<1> QED BY <1>2, <1>3

(* One blob turns to other memory: what it had is gone.                     *)
Turned(w, f, g, v, b) ==
  /\ Loose(w, f, v) /\ g \in World
  /\ g.blob[v] = b /\ (\A u \in AllBlobs \ {v} : g.blob[u] = w.blob[u])
  /\ b = BL!NullBlob \/ Fits(g.mem, b)
  /\ \A p \in Address : g.mem[p] = f.mem[p] \/ (b.type = "heap" /\ p = b.p)
  /\ b.type = "heap" => ~OtherOwns(w, v, b.p)
  /\ g.allocs = Cardinality(BL!Live(g))

LEMMA OthersFit ==
  ASSUME NEW w, Good(w), NEW v \in AllBlobs, NEW f, NEW g, NEW b, Turned(w, f, g, v, b),
         NEW u \in AllBlobs \ {v}
  PROVE  /\ BytesOf(g, u) = BytesOf(w, u)
         /\ g.blob[u] = BL!NullBlob \/ Fits(g.mem, g.blob[u])
<1>1. g.blob[u] = w.blob[u]
  BY DEF Turned
<1>2. CASE w.blob[u] = BL!NullBlob
  <2>1. BytesOf(g, u) = <<>> /\ BytesOf(w, u) = <<>>
    BY <1>1, <1>2, NullBlobIs DEF BytesOf, BL!Bytes, BL!Null
  <2> QED BY <2>1, <1>1, <1>2
<1>3. CASE w.blob[u] # BL!NullBlob
  <2>1. Fits(w.mem, w.blob[u])
    BY <1>3 DEF Good
  <2> DEFINE q == w.blob[u].p
  <2>2. g.mem[q] = w.mem[q]
    <3>1. CASE w.blob[u].type = "heap"
      <4>1. q \in Memory /\ Owns(w, u, q)
        BY <2>1, <3>1 DEF Fits, Owns
      <4>2. OtherOwns(w, v, q)
        BY <4>1 DEF OtherOwns
      <4>3. f.mem[q] = w.mem[q]
        BY <4>1, <4>2 DEF Turned, Loose
      <4> QED BY <4>1, <4>2, <4>3 DEF Turned, Address
    <3>2. CASE w.blob[u].type # "heap"
      <4>1. q \in DOMAIN Static
        BY <2>1, <3>2 DEF Fits
      <4>2. f.mem[q] = w.mem[q]
        BY <4>1 DEF Turned, Loose
      <4>3. b.type = "heap" => b.p \in Memory
        BY NullBlobIs DEF Turned, Fits
      <4> QED BY <4>1, <4>2, <4>3, BlobsAssumption DEF Turned, Address
    <3> QED BY <3>1, <3>2
  <2>3. Fits(g.mem, g.blob[u])
    BY <2>1, <2>2, <1>1 DEF Fits
  <2>4. BytesOf(g, u) = BytesOf(w, u)
    BY <2>2, <1>1 DEF BytesOf, BL!Bytes
  <2> QED BY <2>3, <2>4
<1> QED BY <1>2, <1>3

LEMMA TurnedIsGood ==
  ASSUME NEW w, Good(w), NEW v \in AllBlobs, NEW f, NEW g, NEW b, Turned(w, f, g, v, b)
  PROVE  Good(g) /\ OthersKeep(w, g, v)
<1>1. OthersKeep(w, g, v)
  BY OthersFit DEF OthersKeep
<1>2. \A u \in AllBlobs : g.blob[u] = BL!NullBlob \/ Fits(g.mem, g.blob[u])
  BY OthersFit DEF Turned
<1>3. \A p \in DOMAIN Static : g.mem[p] = Static[p]
  <2> TAKE p \in DOMAIN Static
  <2>1. b.type = "heap" => b.p \in Memory
    BY NullBlobIs DEF Turned, Fits
  <2>2. g.mem[p] = f.mem[p]
    BY <2>1, BlobsAssumption DEF Turned, Address
  <2> QED BY <2>2 DEF Turned, Loose, Good
<1>4. \A u \in AllBlobs \ {v} : \A p : Owns(g, u, p) <=> Owns(w, u, p)
  BY DEF Turned, Owns
<1>5. \A p : Owns(g, v, p) <=> b.type = "heap" /\ b.p = p
  BY DEF Turned, Owns
<1>6. \A u1, u2 \in AllBlobs, p \in Memory : Owns(g, u1, p) /\ Owns(g, u2, p) => u2 = u1
  <2> TAKE u1 \in AllBlobs, u2 \in AllBlobs, p \in Memory
  <2>1. b.type = "heap" /\ b.p = p => \A u \in AllBlobs \ {v} : ~Owns(w, u, p)
    BY DEF Turned, OtherOwns
  <2>2. Owns(w, u1, p) /\ Owns(w, u2, p) => u2 = u1
    BY DEF Good
  <2> QED BY <1>4, <1>5, <2>1, <2>2
<1>7. ASSUME NEW p \in BL!Live(g) PROVE \E u \in AllBlobs : Owns(g, u, p)
  <2>1. p \in Memory /\ g.mem[p] # <<>>
    BY LiveIs
  <2>2. CASE b.type = "heap" /\ p = b.p
    BY <2>2, <1>5
  <2>3. CASE ~(b.type = "heap" /\ p = b.p)
    <3>1. f.mem[p] # <<>>
      BY <2>1, <2>3 DEF Turned, Address
    <3>2. OtherOwns(w, v, p)
      BY <3>1, <2>1 DEF Turned, Loose
    <3> QED BY <3>2, <1>4 DEF OtherOwns
  <2> QED BY <2>2, <2>3
<1>8. g \in World /\ g.allocs = Cardinality(BL!Live(g))
  BY DEF Turned
<1> QED BY <1>1, <1>2, <1>3, <1>6, <1>7, <1>8 DEF Good

-----------------------------------------------------------------------------
LEMMA MemoryHasRoom ==
  ASSUME NEW w, Good(w), NEW v \in AllBlobs
  PROVE  \E p \in Memory : ~OtherOwns(w, v, p)
<1>1. SUFFICES ASSUME \A p \in Memory : OtherOwns(w, v, p) PROVE FALSE
  OBVIOUS
<1> DEFINE f == [p \in Memory |-> CHOOSE u \in AllBlobs \ {v} : Owns(w, u, p)]
<1>2. \A p \in Memory : f[p] \in AllBlobs \ {v} /\ Owns(w, f[p], p)
  BY <1>1 DEF OtherOwns
<1>3. f \in [Memory -> AllBlobs \ {v}]
  BY <1>2
<1> HIDE DEF f
<1>4. f \in Injection(Memory, AllBlobs \ {v})
  BY <1>2, <1>3 DEF Injection, IsInjective, Owns
<1>5. IsFiniteSet(AllBlobs)
  <2>1. IsFiniteSet(0..(Turns - 1))
    BY BlobsAssumption, FS_Interval
  <2> QED BY <2>1, BlobsAssumption, FS_Union DEF AllBlobs
<1>6. IsFiniteSet(AllBlobs \ {v}) /\ Cardinality(AllBlobs \ {v}) = Cardinality(AllBlobs) - 1
  BY <1>5, FS_RemoveElement
<1>7. Cardinality(Memory) <= Cardinality(AllBlobs \ {v})
  <2>1. Injection(Memory, AllBlobs \ {v}) # {}
    BY <1>4
  <2> QED BY <2>1, <1>6, BlobsAssumption, FS_Injection
<1>8. Cardinality(Memory) \in Nat /\ Cardinality(AllBlobs) \in Nat
  BY <1>5, BlobsAssumption, FS_CardinalityType
<1> QED BY <1>6, <1>7, <1>8, BlobsAssumption DEF AllBlobs

TurnTo(f, v, b) == [f EXCEPT !.blob[v] = b]

LEMMA WithBlob ==
  ASSUME NEW f \in World, NEW v \in AllBlobs, NEW b \in BlobT
  PROVE  LET g == TurnTo(f, v, b)
         IN /\ g \in World /\ g.mem = f.mem /\ g.allocs = f.allocs
            /\ g.blob[v] = b /\ \A u \in AllBlobs \ {v} : g.blob[u] = f.blob[u]
<1> DEFINE t == [f.blob EXCEPT ![v] = b]
           g == [f EXCEPT !.blob = t]
<1>1. f.blob \in [AllBlobs -> BlobT]
  BY DEF World
<1> HIDE DEF World
<1>2. t \in [AllBlobs -> BlobT] /\ t[v] = b /\ \A u \in AllBlobs \ {v} : t[u] = f.blob[u]
  BY <1>1
<1>3. TurnTo(f, v, b) = g
  BY DEF TurnTo
<1> HIDE DEF t
<1>4. g \in World /\ g.mem = f.mem /\ g.allocs = f.allocs /\ g.blob = t
  BY <1>2 DEF World
<1> HIDE DEF g
<1> QED BY <1>2, <1>3, <1>4

(* v gets nothing.                                                          *)
LEMMA DroppedIs ==
  ASSUME NEW w, Good(w), NEW v \in AllBlobs, NEW g, g = [BL!FreeHeap(w, v) EXCEPT !.blob[v] = BL!NullBlob]
  PROVE  Makes(w, g, v, <<>>)
<1> DEFINE f == BL!FreeHeap(w, v)
<1>1. Loose(w, f, v)
  BY FreeIs
<1> HIDE DEF f
<1>2. g = [f EXCEPT !.blob[v] = BL!NullBlob]
  BY DEF f
<1>3. /\ g \in World /\ g.mem = f.mem /\ g.allocs = f.allocs
      /\ g.blob[v] = BL!NullBlob /\ \A u \in AllBlobs \ {v} : g.blob[u] = w.blob[u]
  <2>1. f \in World /\ f.blob = w.blob
    BY <1>1 DEF Loose
  <2>2. BL!NullBlob \in BlobT
    BY NullBlobIs
  <2>3. g = TurnTo(f, v, BL!NullBlob)
    BY <1>2 DEF TurnTo
  <2> DEFINE t == TurnTo(f, v, BL!NullBlob)
  <2>4. /\ t \in World /\ t.mem = f.mem /\ t.allocs = f.allocs
        /\ t.blob[v] = BL!NullBlob /\ \A u \in AllBlobs \ {v} : t.blob[u] = f.blob[u]
    BY <2>1, <2>2, WithBlob
  <2> HIDE DEF t
  <2>5. g = t
    BY <2>3 DEF t
  <2> QED BY <2>4, <2>1, <2>5
<1>4. BL!Live(g) = BL!Live(f)
  BY <1>3, LiveIs
<1>5. Turned(w, f, g, v, BL!NullBlob)
  BY <1>1, <1>3, <1>4, NullBlobIs DEF Turned, Loose
<1>6. BytesOf(g, v) = <<>>
  BY <1>3, NullBlobIs DEF BytesOf, BL!Bytes, BL!Null
<1> QED BY <1>5, <1>6, TurnedIsGood DEF Makes

HeapBlob(p, n) == [p |-> p, size |-> n, type |-> "heap"]

LEMMA HeapBlobIs ==
  ASSUME NEW p \in Memory, NEW n \in Nat
  PROVE  LET b == HeapBlob(p, n)
         IN b \in BlobT /\ b.p = p /\ b.size = n /\ b.type = "heap" /\ p # 0 /\ p \in Address
<1>1. p # 0
  BY BlobsAssumption
<1> QED BY <1>1 DEF HeapBlob, BlobT, Address, BL!Types

LEMMA WholePart ==
  ASSUME NEW E, NEW s \in Seq(E)
  PROVE  SubSeq(s, 1, Len(s)) = s
<1>1. Len(s) \in Nat
  BY LenProperties
<1>2. Before(s, Len(s)) = s /\ Least(Len(s), Len(s)) = Len(s)
  BY <1>1, BeforeAfter DEF Least
<1> QED BY <1>2 DEF Before

(* v gets the block p with the bytes s.                                     *)
Placed(w, f, g, v, p, s) ==
  /\ Loose(w, f, v) /\ ~OtherOwns(w, v, p)
  /\ g \in World /\ g.mem[p] = s /\ \A q \in Address \ {p} : g.mem[q] = f.mem[q]
  /\ g.blob[v] = HeapBlob(p, Len(s)) /\ \A u \in AllBlobs \ {v} : g.blob[u] = w.blob[u]
  /\ g.allocs = Cardinality(BL!Live(g))

LEMMA PlacedIs ==
  ASSUME NEW w, Good(w), NEW v \in AllBlobs, NEW f, NEW p \in Memory,
         NEW s \in Seq(Value), Len(s) > 0, NEW g, Placed(w, f, g, v, p, s)
  PROVE  Makes(w, g, v, s) /\ g.blob[v] = HeapBlob(p, Len(s))
<1> DEFINE b == HeapBlob(p, Len(s))
<1>0. Len(s) \in Nat
  BY LenProperties
<1>1. b.p = p /\ b.size = Len(s) /\ b.type = "heap" /\ p # 0 /\ p \in Address
  BY HeapBlobIs, <1>0
<1> HIDE DEF b
<1>2. g.blob[v] = b
  BY DEF b, Placed
<1>3. Fits(g.mem, b)
  BY <1>0, <1>1 DEF Fits, Placed
<1>4. Turned(w, f, g, v, b)
  BY <1>1, <1>2, <1>3 DEF Turned, Placed
<1>5. BytesOf(g, v) = s
  BY <1>1, <1>2, WholePart DEF BytesOf, BL!Bytes, BL!Null, Placed
<1> QED BY <1>4, <1>5, TurnedIsGood DEF Makes, Placed

(* A block that is free, or v's own.                                        *)
LEMMA NewBlockIs ==
  ASSUME NEW w, Good(w), NEW v \in AllBlobs, NEW f, Loose(w, f, v),
         NEW p \in Memory, f.mem[p] = <<>>, NEW s \in Seq(Value), Len(s) > 0,
         NEW g \in World, g.mem = [f.mem EXCEPT ![p] = s], g.allocs = f.allocs + 1,
         g.blob[v] = HeapBlob(p, Len(s)), \A u \in AllBlobs \ {v} : g.blob[u] = w.blob[u]
  PROVE  Makes(w, g, v, s)
<1>1. ~OtherOwns(w, v, p)
  <2>1. SUFFICES ASSUME NEW u \in AllBlobs \ {v}, Owns(w, u, p) PROVE FALSE
    BY DEF OtherOwns
  <2>2. f.mem[p] = w.mem[p]
    BY <2>1 DEF Loose, OtherOwns
  <2>3. p \in BL!Live(w)
    BY <2>1, OwnerHas DEF Owns
  <2> QED BY <2>2, <2>3, LiveIs
<1>2. f.mem \in [Address -> Seq(Value)] /\ p \in Address /\ Memory \subseteq Address
  BY DEF Loose, World, Address
<1>3. g.mem[p] = s /\ \A q \in Address \ {p} : g.mem[q] = f.mem[q]
  BY <1>2
<1>4. s # <<>>
  BY NotNothing
<1>5. BL!Live(g) = BL!Live(f) \cup {p} /\ p \notin BL!Live(f)
  BY <1>2, <1>3, <1>4, LiveIs
<1>6. g.allocs = Cardinality(BL!Live(g))
  <2>1. IsFiniteSet(BL!Live(f)) /\ f.allocs = Cardinality(BL!Live(f))
    BY LiveIs DEF Loose
  <2>2. Cardinality(BL!Live(f) \cup {p}) = Cardinality(BL!Live(f)) + 1
    BY <2>1, <1>5, FS_AddElement
  <2> QED BY <2>1, <2>2, <1>5
<1>7. Placed(w, f, g, v, p, s)
  BY <1>1, <1>3, <1>6 DEF Placed
<1> QED BY <1>7, PlacedIs

LEMMA OwnBlockIs ==
  ASSUME NEW w, Good(w), NEW v \in AllBlobs, w.blob[v].type = "heap", NEW s \in Seq(Value), Len(s) > 0,
         NEW g \in World, g.mem = [w.mem EXCEPT ![w.blob[v].p] = s], g.allocs = w.allocs,
         g.blob[v] = HeapBlob(w.blob[v].p, Len(s)), \A u \in AllBlobs \ {v} : g.blob[u] = w.blob[u]
  PROVE  Makes(w, g, v, s)
<1> DEFINE p == w.blob[v].p
           f == BL!FreeHeap(w, v)
<1>1. p \in Memory /\ p \in BL!Live(w) /\ ~OtherOwns(w, v, p)
  BY OwnerHas
<1>2. w.mem \in [Address -> Seq(Value)] /\ p \in Address /\ Memory \subseteq Address
  BY <1>1 DEF Good, World, Address
<1>3. g.mem[p] = s /\ \A q \in Address \ {p} : g.mem[q] = w.mem[q]
  BY <1>2
<1>4. Loose(w, f, v)
  BY FreeIs
<1>5. \A q \in Address \ {p} : g.mem[q] = f.mem[q]
  <2> TAKE q \in Address \ {p}
  <2>1. CASE q \in DOMAIN Static
    BY <2>1, <1>3, <1>4 DEF Loose
  <2>2. CASE q \in Memory
    <3>1. CASE OtherOwns(w, v, q)
      BY <2>2, <3>1, <1>3, <1>4 DEF Loose
    <3>2. CASE ~OtherOwns(w, v, q)
      <4>1. ~Owns(w, v, q)
        BY DEF Owns
      <4>2. q \notin BL!Live(w)
        BY <4>1, <3>2 DEF Good, OtherOwns
      <4>3. w.mem[q] = <<>>
        BY <4>2, <2>2, LiveIs
      <4> QED BY <4>3, <2>2, <3>2, <1>3, <1>4 DEF Loose
    <3> QED BY <3>1, <3>2
  <2> QED BY <2>1, <2>2 DEF Address
<1>6. s # <<>>
  BY NotNothing
<1>7. BL!Live(g) = BL!Live(w)
  <2>1. w.mem[p] # <<>>
    BY <1>1, LiveIs
  <2>2. \A q \in Memory \ {p} : g.mem[q] = w.mem[q]
    BY <1>2, <1>3
  <2>3. ASSUME NEW q PROVE q \in BL!Live(g) <=> q \in BL!Live(w)
    <3>0. (q \in BL!Live(g) <=> q \in Memory /\ g.mem[q] # <<>>) /\ (q \in BL!Live(w) <=> q \in Memory /\ w.mem[q] # <<>>)
      <4>1. BL!Live(g) = {y \in Memory : g.mem[y] # <<>>}
        BY LiveIs
      <4>2. BL!Live(w) = {y \in Memory : w.mem[y] # <<>>}
        BY LiveIs
      <4> QED BY <4>1, <4>2
    <3>1. CASE q = p
      <4>1. g.mem[p] = s /\ p \in Memory
        BY <1>1, <1>3
      <4>2. g.mem[p] # <<>> /\ w.mem[p] # <<>>
        BY <4>1, <1>6, <2>1
      <4> QED BY <3>0, <3>1, <4>1, <4>2, Zenon
    <3>2. CASE q # p
      BY <2>2, <3>0, <3>2
    <3> QED BY <3>1, <3>2
  <2> QED BY <2>3
<1>8. g.allocs = Cardinality(BL!Live(g))
  BY <1>7 DEF Good
<1> HIDE DEF p, f
<1>9. g.blob[v] = HeapBlob(p, Len(s))
  BY DEF p
<1>10. Placed(w, f, g, v, p, s)
  BY <1>1, <1>3, <1>4, <1>5, <1>8, <1>9 DEF Placed
<1> QED BY <1>1, <1>10, PlacedIs

TypeOf(w, v) == w.blob[v].type
Overlay(old, bytes) ==
  [k \in DOMAIN old |-> IF k <= (IF Len(bytes) < Len(old) THEN Len(bytes) ELSE Len(old)) THEN bytes[k] ELSE old[k]]

LEMMA OverlayIs ==
  ASSUME NEW E, NEW old \in Seq(E), NEW bytes \in Seq(E)
  PROVE  /\ Overlay(old, bytes) \in Seq(E) /\ Len(Overlay(old, bytes)) = Len(old)
         /\ Len(bytes) = Len(old) => Overlay(old, bytes) = bytes
<1>1. /\ Len(old) \in Nat /\ DOMAIN old = 1..Len(old) /\ old \in [1..Len(old) -> E]
      /\ Len(bytes) \in Nat /\ DOMAIN bytes = 1..Len(bytes) /\ bytes \in [1..Len(bytes) -> E]
  BY LenProperties
<1>2. Overlay(old, bytes) \in [1..Len(old) -> E]
  BY <1>1 DEF Overlay
<1>3. Overlay(old, bytes) \in Seq(E) /\ Len(Overlay(old, bytes)) = Len(old)
  BY <1>1, <1>2, SeqOf
<1>4. ASSUME Len(bytes) = Len(old) PROVE Overlay(old, bytes) = bytes
  BY <1>1, <1>4 DEF Overlay
<1> QED BY <1>3, <1>4

LEMMA OverlayPadded ==
  ASSUME NEW E, NEW s \in Seq(E), NEW n \in Nat, NEW new \in E
  PROVE  Overlay(Padded(<<>>, n, new), s) = Padded(s, n, new)
<1> DEFINE old == Padded(<<>>, n, new)
<1>0. Len(s) \in Nat
  BY LenProperties
<1>1. DOMAIN old = 1..n /\ \A k \in 1..n : old[k] = new
  BY EmptySeq DEF Padded
<1>2. old \in Seq(E) /\ Len(old) = n
  <2>1. <<>> \in Seq(E)
    BY EmptySeq, ZenonT(60)
  <2> QED BY <2>1, PaddedSeq, ZenonT(60)
<1> HIDE DEF old
<1>3. Overlay(old, s) = Padded(s, n, new)
  BY <1>0, <1>1, <1>2 DEF Overlay, Padded
<1> QED BY <1>3 DEF old

LEMMA MakesAfter ==
  ASSUME NEW w, NEW g, NEW h, NEW v, NEW s, NEW t, Makes(w, g, v, s), Makes(g, h, v, t)
  PROVE  Makes(w, h, v, t)
  BY DEF Makes, OthersKeep

LEMMA MakesSame ==
  ASSUME NEW w, Good(w), NEW v
  PROVE  Makes(w, w, v, BytesOf(w, v))
  BY DEF Makes, OthersKeep

LEMMA NullIs ==
  ASSUME NEW w, Good(w), NEW v \in AllBlobs
  PROVE  /\ BL!isNull(w, v) <=> w.blob[v] = BL!NullBlob
         /\ BL!isNull(w, v) => BytesOf(w, v) = <<>> /\ TypeOf(w, v) = "null"
         /\ ~BL!isNull(w, v) => Fits(w.mem, w.blob[v])
  BY NullBlobIs DEF BL!isNull, BytesOf, BL!Bytes, BL!Null, Good, Fits, TypeOf

LEMMA BytesAre ==
  ASSUME NEW w, Good(w), NEW v \in AllBlobs
  PROVE  /\ BytesOf(w, v) \in Seq(Value) /\ Len(BytesOf(w, v)) = w.blob[v].size
         /\ w.blob[v].size \in Nat
         /\ TypeOf(w, v) = "heap" => BytesOf(w, v) = w.mem[w.blob[v].p]
         /\ ~BL!isNull(w, v) => w.blob[v].size > 0
<1>1. CASE BL!isNull(w, v)
  <2>1. w.blob[v] = BL!NullBlob /\ BytesOf(w, v) = <<>> /\ TypeOf(w, v) = "null"
    BY <1>1, NullIs
  <2>2. <<>> \in Seq(Value) /\ Len(<<>>) = 0
    BY EmptySeq
  <2> QED BY <1>1, <2>1, <2>2, NullBlobIs
<1>2. CASE ~BL!isNull(w, v)
  <2> DEFINE m == w.mem[w.blob[v].p]
             n == w.blob[v].size
  <2>1. Fits(w.mem, w.blob[v])
    BY <1>2, NullIs
  <2>2. m \in Seq(Value) /\ Len(m) \in Nat
    BY <2>1, LenProperties DEF Good, World, Fits, Address
  <2>3. n \in 1..Len(m) /\ (TypeOf(w, v) = "heap" => n = Len(m))
    BY <2>1 DEF Fits, TypeOf
  <2>4. BytesOf(w, v) = SubSeq(m, 1, n)
    BY <1>2 DEF BytesOf, BL!Bytes, BL!isNull
  <2> HIDE DEF m, n
  <2>5. SubSeq(m, 1, n) \in Seq(Value) /\ Len(SubSeq(m, 1, n)) = n
    <3>1. SubSeq(m, 1, n) = Before(m, n) /\ Least(n, Len(m)) = n /\ n \in Nat
      BY <2>2, <2>3 DEF Before, Least
    <3> QED BY <2>2, <3>1, BeforeAfter
  <2>6. n = Len(m) => SubSeq(m, 1, n) = m
    BY <2>2, WholePart
  <2>7. n \in Nat /\ n > 0
    BY <2>2, <2>3
  <2>8. /\ BytesOf(w, v) \in Seq(Value) /\ Len(BytesOf(w, v)) = n
        /\ TypeOf(w, v) = "heap" => BytesOf(w, v) = m
    BY <2>3, <2>4, <2>5, <2>6
  <2> QED BY <2>7, <2>8 DEF m, n
<1> QED BY <1>1, <1>2

LEMMA SetBlobNullIs ==
  ASSUME NEW w, Good(w), NEW v \in AllBlobs
  PROVE  Makes(w, BL!SetBlobNull(w, v), v, <<>>)
<1>1. CASE BL!isNull(w, v)
  <2>1. BL!SetBlobNull(w, v) = w
    BY <1>1 DEF BL!SetBlobNull
  <2>2. BytesOf(w, v) = <<>>
    BY <1>1, NullIs
  <2> QED BY <2>1, <2>2, MakesSame
<1>2. CASE ~BL!isNull(w, v)
  <2>1. BL!SetBlobNull(w, v) = [BL!FreeHeap(w, v) EXCEPT !.blob[v] = BL!NullBlob]
    BY <1>2 DEF BL!SetBlobNull
  <2> QED BY <2>1, DroppedIs
<1> QED BY <1>1, <1>2

Blank(n) == Padded(<<>>, n, BL!Junk)

LEMMA BlankIs ==
  ASSUME NEW n \in Nat
  PROVE  Blank(n) \in Seq(Value) /\ Len(Blank(n)) = n
<1>1. Blank(n) = [k \in 1..n |-> BL!Junk]
  BY EmptySeq DEF Padded, Blank
<1>2. Blank(n) \in [1..n -> Value]
  BY <1>1 DEF BL!Junk, Value
<1> QED BY <1>2, SeqOf

LEMMA BlankNone ==
  Blank(0) = <<>>
  BY EmptySeq, BlankIs

LEMMA AllocatedNone ==
  ASSUME NEW w, Good(w), NEW v \in AllBlobs
  PROVE  Makes(w, BL!AllocSize(w, v, 0), v, <<>>)
<1>1. BL!AllocSize(w, v, 0) = BL!SetBlobNull(w, v)
  BY DEF BL!AllocSize
<1> QED BY <1>1, SetBlobNullIs

LEMMA AllocatedSome ==
  ASSUME NEW w, Good(w), NEW v \in AllBlobs, NEW n \in Nat \ {0}, NEW g, g = BL!AllocSize(w, v, n)
  PROVE  Makes(w, g, v, Blank(n)) /\ TypeOf(g, v) = "heap"
<1> DEFINE s == Blank(n)
           f == BL!FreeHeap(w, v)
           p == CHOOSE q \in Memory \ BL!Live(f) : TRUE
           m == [f.mem EXCEPT ![p] = s]
           t == [f.blob EXCEPT ![v] = HeapBlob(p, n)]
<1>1. s \in Seq(Value) /\ Len(s) = n
  BY BlankIs
<1>2. Loose(w, f, v)
  BY FreeIs
<1>3. g = [f EXCEPT !.mem = m, !.allocs = @ + 1, !.blob = t]
  <2>1. s = [k \in 1..n |-> BL!Junk]
    BY EmptySeq DEF Padded, Blank
  <2>2. BL!AllocPtr(f, n) = [p |-> p, w |-> [f EXCEPT !.mem = m, !.allocs = @ + 1]]
    BY <2>1 DEF BL!AllocPtr
  <2>3. g = BL!SetSpan2([f EXCEPT !.mem = m, !.allocs = @ + 1], v, p, n, "heap")
    BY <2>2 DEF BL!AllocSize
  <2> QED BY <2>3, <1>2 DEF BL!SetSpan2, HeapBlob, Loose, World
<1> HIDE DEF f, s
<1>4. p \in Memory /\ f.mem[p] = <<>>
  <2>1. PICK q \in Memory : ~OtherOwns(w, v, q)
    BY MemoryHasRoom
  <2>2. f.mem[q] = <<>>
    BY <2>1, <1>2 DEF Loose
  <2>3. q \in Memory \ BL!Live(f)
    BY <2>2, LiveIs
  <2>4. p \in Memory \ BL!Live(f)
    BY <2>3
  <2> QED BY <2>4, LiveIs
<1> HIDE DEF p
<1>5. HeapBlob(p, n) \in BlobT /\ HeapBlob(p, n).type = "heap" /\ p \in Address
  BY <1>4, HeapBlobIs
<1>6. f \in World /\ f.blob = w.blob
  BY <1>2 DEF Loose
<1>7. m \in [Address -> Seq(Value)]
  BY <1>1, <1>5, <1>6 DEF World
<1>8. t \in [AllBlobs -> BlobT] /\ t[v] = HeapBlob(p, n) /\ \A u \in AllBlobs \ {v} : t[u] = w.blob[u]
  BY <1>5, <1>6 DEF World
<1>9. m = [f.mem EXCEPT ![p] = s]
  OBVIOUS
<1> HIDE DEF m, t
<1>10. g \in World /\ g.mem = m /\ g.blob = t /\ g.allocs = f.allocs + 1
  <2> DEFINE k == f.allocs + 1
  <2>1. k \in Int
    BY <1>6 DEF World
  <2>2. g = [f EXCEPT !.mem = m, !.allocs = k, !.blob = t]
    BY <1>3
  <2> HIDE DEF k
  <2>3. g \in World /\ g.mem = m /\ g.blob = t /\ g.allocs = k
    BY <2>1, <2>2, <1>6, <1>7, <1>8 DEF World
  <2> QED BY <2>3 DEF k
<1>11. Makes(w, g, v, s)
  <2>1. g.blob[v] = HeapBlob(p, Len(s)) /\ Len(s) > 0 /\ \A u \in AllBlobs \ {v} : g.blob[u] = w.blob[u]
    BY <1>1, <1>8, <1>10
  <2>2. g.mem = [f.mem EXCEPT ![p] = s]
    BY <1>9, <1>10
  <2> QED BY <1>1, <1>2, <1>4, <1>10, <2>1, <2>2, NewBlockIs
<1>12. TypeOf(g, v) = "heap"
  BY <1>5, <1>8, <1>10 DEF TypeOf
<1> QED BY <1>11, <1>12 DEF s

(* Bytes are copied into the block that v has.                              *)
LEMMA CopiedIs ==
  ASSUME NEW w, Good(w), NEW v \in AllBlobs, TypeOf(w, v) = "heap", NEW bytes \in Seq(Value)
  PROVE  LET g == BL!SetCopySpan(w, v, bytes)
         IN Makes(w, g, v, Overlay(BytesOf(w, v), bytes)) /\ TypeOf(g, v) = "heap"
<1> DEFINE g == BL!SetCopySpan(w, v, bytes)
           p == w.blob[v].p
           old == w.mem[p]
           s == Overlay(old, bytes)
           m == [w.mem EXCEPT ![p] = s]
<1>1. /\ p \in Memory /\ p # 0 /\ w.blob[v].size = Len(old) /\ old \in Seq(Value) /\ p \in BL!Live(w)
  BY OwnerHas DEF TypeOf
<1>2. s \in Seq(Value) /\ Len(s) = Len(old) /\ Len(old) > 0
  <2>1. old # <<>>
    BY <1>1, LiveIs
  <2>2. Len(old) > 0
    BY <1>1, <2>1, NotNothing
  <2>3. s \in Seq(Value) /\ Len(s) = Len(old)
    BY <1>1, OverlayIs
  <2> QED BY <2>2, <2>3
<1>3. g = [w EXCEPT !.mem = m]
  <2>1. ~BL!isNull(w, v)
    BY <1>1 DEF BL!isNull, BL!Null
  <2>2. g = [w EXCEPT !.mem[p] = s]
    BY <1>1, <2>1 DEF BL!SetCopySpan, Overlay
  <2> QED BY <2>2
<1> HIDE DEF g, s
<1>4. w.mem \in [Address -> Seq(Value)] /\ p \in Address /\ w \in World
  BY <1>1 DEF Good, World, Address
<1> HIDE DEF old
<1>5. m \in [Address -> Seq(Value)] /\ m = [w.mem EXCEPT ![w.blob[v].p] = s]
  BY <1>2, <1>4
<1> HIDE DEF m
<1>6. g \in World /\ g.mem = m /\ g.blob = w.blob /\ g.allocs = w.allocs
  BY <1>3, <1>4, <1>5 DEF World
<1>7. w.blob[v] = HeapBlob(p, Len(s))
  BY <1>1, <1>2 DEF HeapBlob, TypeOf, Good, World, BlobT
<1> HIDE DEF p
<1>8. g.blob[v] = HeapBlob(w.blob[v].p, Len(s)) /\ g.mem = [w.mem EXCEPT ![w.blob[v].p] = s]
  BY <1>5, <1>6, <1>7 DEF p
<1>9. Makes(w, g, v, s)
  BY <1>2, <1>6, <1>8, OwnBlockIs DEF TypeOf
<1>10. BytesOf(w, v) = old
  BY BytesAre DEF old, p
<1>11. TypeOf(g, v) = "heap"
  BY <1>6 DEF TypeOf
<1> QED BY <1>9, <1>10, <1>11 DEF g, s

LEMMA NotCopied ==
  ASSUME NEW w, NEW v, BL!isNull(w, v), NEW bytes
  PROVE  BL!SetCopySpan(w, v, bytes) = w
  BY DEF BL!SetCopySpan

LEMMA CopiedInto ==
  ASSUME NEW w, NEW g, NEW v \in AllBlobs, NEW old \in Seq(Value), Makes(w, g, v, old),
         TypeOf(g, v) = "heap", NEW bytes \in Seq(Value)
  PROVE  Makes(w, BL!SetCopySpan(g, v, bytes), v, Overlay(old, bytes)) /\ TypeOf(BL!SetCopySpan(g, v, bytes), v) = "heap"
<1>1. Good(g) /\ BytesOf(g, v) = old
  BY DEF Makes
<1>2. Makes(g, BL!SetCopySpan(g, v, bytes), v, Overlay(old, bytes)) /\ TypeOf(BL!SetCopySpan(g, v, bytes), v) = "heap"
  BY <1>1, CopiedIs
<1> QED BY <1>2, MakesAfter

LEMMA NothingCopied ==
  ASSUME NEW w, NEW g, NEW v \in AllBlobs, Makes(w, g, v, <<>>), NEW bytes
  PROVE  Makes(w, BL!SetCopySpan(g, v, bytes), v, <<>>)
<1>1. Good(g) /\ BytesOf(g, v) = <<>>
  BY DEF Makes
<1>2. BL!isNull(g, v)
  <2>1. g.blob[v].size = 0
    BY <1>1, BytesAre, EmptySeq
  <2> QED BY <1>1, <2>1, BytesAre
<1> QED BY <1>2, NotCopied

LEMMA SetCopyAllocIs ==
  ASSUME NEW w, Good(w), NEW v \in AllBlobs, NEW bytes \in Seq(Value)
  PROVE  Makes(w, BL!SetCopyAlloc(w, v, bytes), v, bytes)
<1> DEFINE n == Len(bytes)
           g == BL!AllocSize(w, v, n)
           old == Blank(n)
<1>1. n \in Nat /\ old \in Seq(Value) /\ Len(old) = n
  BY LenProperties, BlankIs
<1>2. BL!SetCopyAlloc(w, v, bytes) = BL!SetCopySpan(g, v, bytes)
  BY DEF BL!SetCopyAlloc
<1>3. CASE n = 0
  <2>1. bytes = <<>>
    BY <1>3, EmptySeq
  <2>2. Makes(w, BL!AllocSize(w, v, 0), v, <<>>)
    BY AllocatedNone
  <2>3. Makes(w, BL!SetCopySpan(BL!AllocSize(w, v, 0), v, bytes), v, <<>>)
    BY <2>2, NothingCopied
  <2> QED BY <2>1, <2>3, <1>2, <1>3
<1>4. CASE n # 0
  <2>1. Makes(w, g, v, old) /\ TypeOf(g, v) = "heap"
    BY <1>1, <1>4, AllocatedSome
  <2> HIDE DEF g, old
  <2>2. Overlay(old, bytes) = bytes
    BY <1>1, OverlayIs
  <2>3. Makes(w, BL!SetCopySpan(g, v, bytes), v, Overlay(old, bytes))
    BY <1>1, <2>1, CopiedInto
  <2> QED BY <2>2, <2>3, <1>2
<1> QED BY <1>3, <1>4

LEMMA OwnResized ==
  ASSUME NEW w, Good(w), NEW v \in AllBlobs, TypeOf(w, v) = "heap", NEW n \in Nat \ {0},
         NEW g, g = BL!SetSpan2(BL!ReAllocPtr(w, w.blob[v].p, n), v, w.blob[v].p, n, "heap")
  PROVE  Makes(w, g, v, Padded(BytesOf(w, v), n, BL!Junk)) /\ TypeOf(g, v) = "heap"
<1> DEFINE p == w.blob[v].p
           old == w.mem[p]
           s == Padded(old, n, BL!Junk)
           m == [w.mem EXCEPT ![p] = s]
           t == [w.blob EXCEPT ![v] = HeapBlob(p, n)]
<1>1. p \in Memory /\ old \in Seq(Value)
  BY OwnerHas DEF TypeOf
<1>2. BytesOf(w, v) = old
  BY BytesAre
<1>3. BL!Junk \in Value
  BY DEF BL!Junk, Value
<1>4. s \in Seq(Value) /\ Len(s) = n
  <2>1. n \in Nat
    OBVIOUS
  <2> HIDE DEF old
  <2> QED BY <2>1, <1>1, <1>3, PaddedSeq
<1>5. g = [w EXCEPT !.mem = m, !.blob = t]
  BY DEF BL!SetSpan2, BL!ReAllocPtr, HeapBlob, Padded
<1> HIDE DEF s, old
<1>6. HeapBlob(p, n) \in BlobT /\ HeapBlob(p, n).type = "heap" /\ p \in Address
  BY <1>1, HeapBlobIs
<1>7. w \in World
  BY DEF Good
<1>8. m \in [Address -> Seq(Value)] /\ m = [w.mem EXCEPT ![w.blob[v].p] = s]
  BY <1>4, <1>6, <1>7 DEF World
<1>9. /\ t \in [AllBlobs -> BlobT] /\ t[v] = HeapBlob(w.blob[v].p, Len(s))
      /\ t[v].type = "heap" /\ \A u \in AllBlobs \ {v} : t[u] = w.blob[u]
  BY <1>4, <1>6, <1>7 DEF World
<1> HIDE DEF m, t, p
<1>10. g \in World /\ g.mem = m /\ g.blob = t /\ g.allocs = w.allocs
  BY <1>5, <1>7, <1>8, <1>9 DEF World
<1>11. Makes(w, g, v, s)
  <2>1. g.mem = [w.mem EXCEPT ![w.blob[v].p] = s] /\ Len(s) > 0
    BY <1>4, <1>8, <1>10
  <2>2. g.blob[v] = HeapBlob(w.blob[v].p, Len(s)) /\ \A u \in AllBlobs \ {v} : g.blob[u] = w.blob[u]
    BY <1>9, <1>10
  <2> QED BY <2>1, <2>2, <1>4, <1>10, OwnBlockIs DEF TypeOf
<1>12. TypeOf(g, v) = "heap"
  BY <1>9, <1>10 DEF TypeOf
<1> QED BY <1>2, <1>11, <1>12 DEF s

LEMMA ReAllocNone ==
  ASSUME NEW w, Good(w), NEW v \in AllBlobs
  PROVE  Makes(w, BL!ReAllocSize(w, v, 0), v, <<>>)
<1>1. BL!ReAllocSize(w, v, 0) = BL!SetBlobNull(w, v)
  BY DEF BL!ReAllocSize
<1> QED BY <1>1, SetBlobNullIs

LEMMA ReAllocSome ==
  ASSUME NEW w, Good(w), NEW v \in AllBlobs, NEW n \in Nat \ {0}, NEW g, g = BL!ReAllocSize(w, v, n)
  PROVE  Makes(w, g, v, Padded(BytesOf(w, v), n, BL!Junk)) /\ TypeOf(g, v) = "heap"
<1> DEFINE prev == BytesOf(w, v)
           a == BL!AllocSize(w, v, n)
<1>1. prev \in Seq(Value) /\ BL!Junk \in Value
  BY BytesAre DEF BL!Junk, Value
<1>2. Makes(w, a, v, Blank(n)) /\ TypeOf(a, v) = "heap"
  BY AllocatedSome
<1> HIDE DEF a
<1>3. CASE BL!isNull(w, v)
  <2>1. prev = <<>>
    BY <1>3, NullIs
  <2>2. g = a
    BY <1>3 DEF BL!ReAllocSize, a
  <2>3. Blank(n) = Padded(prev, n, BL!Junk)
    BY <2>1 DEF Blank
  <2> QED BY <2>2, <2>3, <1>2
<1>4. CASE ~BL!isNull(w, v) /\ TypeOf(w, v) # "heap"
  <2>1. g = BL!SetCopySpan(a, v, prev)
    BY <1>4 DEF BL!ReAllocSize, BL!isHeap, TypeOf, BytesOf, a
  <2> HIDE DEF prev
  <2>2. Blank(n) \in Seq(Value)
    BY BlankIs
  <2>3. Makes(w, g, v, Overlay(Blank(n), prev)) /\ TypeOf(g, v) = "heap"
    BY <2>1, <2>2, <1>1, <1>2, CopiedInto
  <2>4. Overlay(Blank(n), prev) = Padded(prev, n, BL!Junk)
    BY <1>1, OverlayPadded DEF Blank
  <2> QED BY <2>3, <2>4 DEF prev
<1>5. CASE ~BL!isNull(w, v) /\ TypeOf(w, v) = "heap" /\ n = w.blob[v].size
  <2>1. g = w
    BY <1>5 DEF BL!ReAllocSize, BL!isHeap, TypeOf
  <2>2. Len(prev) = n
    BY <1>5, BytesAre
  <2> HIDE DEF prev
  <2>3. Padded(prev, n, BL!Junk) = prev
    BY <2>2, <1>1, PaddedIs
  <2>4. Makes(w, w, v, prev)
    BY MakesSame DEF prev
  <2> QED BY <2>1, <2>3, <2>4, <1>5 DEF prev
<1>6. CASE ~BL!isNull(w, v) /\ TypeOf(w, v) = "heap" /\ n # w.blob[v].size
  <2>1. g = BL!SetSpan2(BL!ReAllocPtr(w, w.blob[v].p, n), v, w.blob[v].p, n, "heap")
    BY <1>6 DEF BL!ReAllocSize, BL!isHeap, TypeOf
  <2> QED BY <2>1, <1>6, OwnResized
<1> HIDE DEF prev
<1> QED BY <1>3, <1>4, <1>5, <1>6

LEMMA SetCopyReAllocIs ==
  ASSUME NEW w, Good(w), NEW v \in AllBlobs, NEW bytes \in Seq(Value)
  PROVE  Makes(w, BL!SetCopyReAlloc(w, v, bytes), v, bytes)
<1> DEFINE n == Len(bytes)
           g == BL!ReAllocSize(w, v, n)
           old == Padded(BytesOf(w, v), n, BL!Junk)
<1>1. n \in Nat
  BY LenProperties
<1>2. BL!SetCopyReAlloc(w, v, bytes) = BL!SetCopySpan(g, v, bytes)
  BY DEF BL!SetCopyReAlloc
<1>3. CASE n = 0
  <2>1. bytes = <<>>
    BY <1>3, EmptySeq
  <2>2. Makes(w, BL!ReAllocSize(w, v, 0), v, <<>>)
    BY ReAllocNone
  <2>3. Makes(w, BL!SetCopySpan(BL!ReAllocSize(w, v, 0), v, bytes), v, <<>>)
    BY <2>2, NothingCopied
  <2> QED BY <2>1, <2>3, <1>2, <1>3
<1>4. CASE n # 0
  <2>1. Makes(w, g, v, old) /\ TypeOf(g, v) = "heap"
    BY <1>1, <1>4, ReAllocSome
  <2>2. old \in Seq(Value) /\ Len(old) = n
    <3>1. BytesOf(w, v) \in Seq(Value) /\ BL!Junk \in Value
      BY BytesAre DEF BL!Junk, Value
    <3> QED BY <3>1, <1>1, PaddedSeq
  <2> HIDE DEF g, old
  <2>3. Overlay(old, bytes) = bytes
    BY <2>2, OverlayIs
  <2>4. Makes(w, BL!SetCopySpan(g, v, bytes), v, Overlay(old, bytes))
    BY <2>1, <2>2, CopiedInto
  <2> QED BY <2>3, <2>4, <1>2
<1> QED BY <1>3, <1>4

LEMMA PointedAtIs ==
  ASSUME NEW w, Good(w), NEW v \in AllBlobs, NEW p \in DOMAIN Static, NEW n \in 1..Len(Static[p]),
         NEW type \in BL!Types \ {"heap"}, NEW g, g = BL!SetSpan2(BL!FreeHeap(w, v), v, p, n, type)
  PROVE  Makes(w, g, v, SubSeq(Static[p], 1, n))
<1> DEFINE f == BL!FreeHeap(w, v)
           b == [p |-> p, size |-> n, type |-> type]
           t == TurnTo(f, v, b)
<1>1. Len(Static[p]) \in Nat /\ n \in Nat /\ n # 0
  BY BlobsAssumption, LenProperties
<1>2. p # 0 /\ p \in Address /\ p \notin Memory
  BY BlobsAssumption DEF Address
<1>3. b \in BlobT /\ b.p = p /\ b.size = n /\ b.type = type
  BY <1>1, <1>2 DEF BlobT
<1>4. Loose(w, f, v)
  BY FreeIs
<1>5. g = t
  BY <1>1 DEF BL!SetSpan2, TurnTo
<1> HIDE DEF f, b
<1>6. f \in World /\ f.blob = w.blob /\ f.allocs = Cardinality(BL!Live(f)) /\ f.mem[p] = Static[p]
  BY <1>4 DEF Loose, Good
<1>7. /\ t \in World /\ t.mem = f.mem /\ t.allocs = f.allocs
      /\ t.blob[v] = b /\ \A u \in AllBlobs \ {v} : t.blob[u] = f.blob[u]
  BY <1>3, <1>6, WithBlob
<1> HIDE DEF t
<1>8. BL!Live(t) = BL!Live(f)
  BY <1>7, LiveIs
<1>9. Fits(t.mem, b)
  BY <1>1, <1>2, <1>3, <1>6, <1>7 DEF Fits
<1>10. Turned(w, f, t, v, b)
  BY <1>3, <1>4, <1>6, <1>7, <1>8, <1>9 DEF Turned
<1>11. BytesOf(t, v) = SubSeq(Static[p], 1, n)
  BY <1>2, <1>3, <1>6, <1>7 DEF BytesOf, BL!Bytes, BL!Null
<1> QED BY <1>5, <1>10, <1>11, TurnedIsGood DEF Makes

(* What may be given to SetBlob: other than for the heap, a static span.    *)
LEMMA SetBlobIs ==
  ASSUME NEW w, Good(w), NEW v \in AllBlobs, NEW s, NEW type \in BL!Types, BL!Bytes(w, s) \in Seq(Value),
         type # "heap" => s.p = 0 \/ (s.p \in DOMAIN Static /\ s.size \in 0..Len(Static[s.p]))
  PROVE  Makes(w, BL!SetBlob(w, v, s, type), v, BL!Bytes(w, s))
<1> DEFINE bytes == BL!Bytes(w, s)
           g == BL!SetBlob(w, v, s, type)
<1>1. CASE BL!IsSameSpan(w, v, s, type)
  <2>1. g = w
    BY <1>1 DEF BL!SetBlob
  <2>2. BytesOf(w, v) = bytes
    BY <1>1 DEF BL!IsSameSpan, BytesOf, BL!Bytes
  <2> QED BY <2>1, <2>2, MakesSame
<1>2. CASE ~BL!IsSameSpan(w, v, s, type) /\ type = "heap"
  <2>1. g = IF BL!isHeap(w, v) THEN BL!SetCopyReAlloc(w, v, bytes) ELSE BL!SetCopyAlloc(w, v, bytes)
    BY <1>2 DEF BL!SetBlob
  <2> HIDE DEF g
  <2>2. Makes(w, g, v, bytes)
    BY <2>1, SetCopyReAllocIs, SetCopyAllocIs
  <2> QED BY <2>2 DEF g
<1>3. CASE ~BL!IsSameSpan(w, v, s, type) /\ type # "heap" /\ (s.size = 0 \/ s.p = 0)
  <2>1. g = BL!SetBlobNull(w, v)
    BY <1>3 DEF BL!SetBlob, BL!Null
  <2>2. bytes = <<>>
    <3>1. CASE s.p = 0
      BY <3>1 DEF BL!Bytes, BL!Null
    <3>2. CASE s.p # 0
      <4>1. s.size = 0 /\ s.p \in DOMAIN Static
        BY <1>3, <3>2
      <4> DEFINE m == Static[s.p]
      <4>2. w.mem[s.p] = m /\ m \in Seq(Value)
        BY <4>1, BlobsAssumption DEF Good, Value
      <4>3. bytes = SubSeq(m, 1, 0)
        BY <4>1, <4>2, <3>2 DEF BL!Bytes, BL!Null
      <4>4. SubSeq(m, 1, 0) = Before(m, 0)
        <5> HIDE DEF m
        <5>1. Len(m) \in Nat
          BY <4>2, LenProperties
        <5> QED BY <5>1 DEF Before, Least
      <4>5. Before(m, 0) = <<>>
        BY <4>2, NothingBeforeAfter
      <4> QED BY <4>3, <4>4, <4>5
    <3> QED BY <3>1, <3>2
  <2> QED BY <2>1, <2>2, SetBlobNullIs
<1>4. CASE ~BL!IsSameSpan(w, v, s, type) /\ type # "heap" /\ s.size # 0 /\ s.p # 0
  <2>1. g = BL!SetSpan2(BL!FreeHeap(w, v), v, s.p, s.size, type)
    BY <1>4 DEF BL!SetBlob, BL!Null
  <2>2. s.p \in DOMAIN Static /\ s.size \in 1..Len(Static[s.p])
    <3>1. s.p \in DOMAIN Static /\ s.size \in 0..Len(Static[s.p]) /\ s.size # 0
      BY <1>4
    <3>2. Len(Static[s.p]) \in Nat
      BY <3>1, BlobsAssumption, LenProperties
    <3> QED BY <3>1, <3>2
  <2>3. bytes = SubSeq(Static[s.p], 1, s.size)
    BY <2>2, <1>4 DEF BL!Bytes, BL!Null, Good
  <2> QED BY <2>1, <2>2, <2>3, <1>4, PointedAtIs
<1> QED BY <1>1, <1>2, <1>3, <1>4

BlobsInv(w, a) == Good(w) /\ a \in [Blob -> Seq(Value)] /\ \A v \in Blob : BytesOf(w, v) = a[v]

LEMMA MovedIs ==
  ASSUME NEW w, Good(w), NEW v \in AllBlobs, NEW u \in AllBlobs, v # u, BL!isNull(w, v)
  PROVE  LET g == BL!MoveBlob(w, v, u)
         IN /\ Good(g) /\ BytesOf(g, v) = BytesOf(w, u) /\ BytesOf(g, u) = <<>>
            /\ \A y \in AllBlobs \ {u, v} : BytesOf(g, y) = BytesOf(w, y)
<1> DEFINE t == TurnTo(w, v, w.blob[u])
           g == TurnTo(t, u, BL!NullBlob)
<1>1. BL!MoveBlob(w, v, u) = g
  BY DEF BL!MoveBlob, BL!DetachBlob, TurnTo
<1>2. w \in World /\ w.blob[u] \in BlobT /\ w.blob[v] = BL!NullBlob
  BY NullIs DEF Good, World
<1>3. /\ t \in World /\ t.mem = w.mem /\ t.allocs = w.allocs
      /\ t.blob[v] = w.blob[u] /\ \A y \in AllBlobs \ {v} : t.blob[y] = w.blob[y]
  BY <1>2, WithBlob
<1> HIDE DEF t
<1>4. /\ g \in World /\ g.mem = t.mem /\ g.allocs = t.allocs
      /\ g.blob[u] = BL!NullBlob /\ \A y \in AllBlobs \ {u} : g.blob[y] = t.blob[y]
  BY <1>3, NullBlobIs, WithBlob
<1> HIDE DEF g
<1>5. /\ g.mem = w.mem /\ g.allocs = w.allocs /\ g.blob[u] = BL!NullBlob /\ g.blob[v] = w.blob[u]
      /\ \A y \in AllBlobs \ {u, v} : g.blob[y] = w.blob[y]
  BY <1>3, <1>4
<1>6. BL!Live(g) = BL!Live(w)
  BY <1>5, LiveIs
<1>7. \A p : /\ ~Owns(g, u, p) /\ ~Owns(w, v, p)
             /\ Owns(g, v, p) <=> Owns(w, u, p)
             /\ \A y \in AllBlobs \ {u, v} : Owns(g, y, p) <=> Owns(w, y, p)
  BY <1>2, <1>5, NullBlobIs DEF Owns
<1>8. \A y, z \in AllBlobs, p \in Memory : Owns(g, y, p) /\ Owns(g, z, p) => z = y
  BY <1>7 DEF Good
<1>9. \A p \in BL!Live(g) : \E y \in AllBlobs : Owns(g, y, p)
  <2> TAKE p \in BL!Live(g)
  <2>1. PICK y \in AllBlobs : Owns(w, y, p)
    BY <1>6 DEF Good
  <2> QED BY <2>1, <1>7
<1>10. \A y \in AllBlobs : g.blob[y] = BL!NullBlob \/ Fits(g.mem, g.blob[y])
  BY <1>5 DEF Good
<1>11. Good(g)
  BY <1>4, <1>5, <1>6, <1>8, <1>9, <1>10 DEF Good
<1>12. BytesOf(g, u) = <<>>
  BY <1>5, NullBlobIs DEF BytesOf, BL!Bytes, BL!Null
<1>13. BytesOf(g, v) = BytesOf(w, u) /\ \A y \in AllBlobs \ {u, v} : BytesOf(g, y) = BytesOf(w, y)
  BY <1>5 DEF BytesOf, BL!Bytes
<1> QED BY <1>1, <1>11, <1>12, <1>13

LEMMA BlobsMake ==
  ASSUME NEW w, NEW a, BlobsInv(w, a), NEW v \in Blob, NEW g, NEW s, Makes(w, g, v, s)
  PROVE  BlobsInv(g, [a EXCEPT ![v] = s])
<1>1. v \in AllBlobs /\ Blob \subseteq AllBlobs
  BY DEF AllBlobs
<1>2. s \in Seq(Value)
  BY <1>1, BytesAre DEF Makes
<1>3. a \in [Blob -> Seq(Value)]
  BY DEF BlobsInv
<1>4. \A y \in Blob : BytesOf(g, y) = [a EXCEPT ![v] = s][y]
  BY <1>1, <1>3 DEF Makes, OthersKeep, BlobsInv
<1>5. [a EXCEPT ![v] = s] \in [Blob -> Seq(Value)]
  BY <1>2, <1>3
<1> QED BY <1>4, <1>5 DEF BlobsInv, Makes

-----------------------------------------------------------------------------
ItemsAre == SeqsTo(Item, Short) \subseteq Seq(Value)

LEMMA ItemsAreBytes == ItemsAre
<1>1. Item \subseteq Value /\ Short \in Nat
  BY HeadsAssumption DEF Value
<1> HIDE DEF Value
<1>2. ASSUME NEW k \in 0..Short, NEW s \in [1..k -> Item] PROVE s \in Seq(Value)
  <2>1. s \in [1..k -> Value] /\ k \in Nat
    BY <1>1, <1>2
  <2> QED BY <2>1, SeqOf
<1> QED BY <1>2 DEF ItemsAre, SeqsTo

LEMMA BlobSizesStep ==
  ASSUME BlobsInv(x, r), AllocSize \/ ReAllocSize
  PROVE  BlobsInv(x', r') /\ kind' = kind
<1>0. Good(x) /\ (\A v \in Blob : v \in AllBlobs /\ BytesOf(x, v) = r[v])
  BY DEF BlobsInv, AllBlobs
<1>1. CASE AllocSize
  <2>1. PICK v \in Blob : \E n \in 0..Short : Holds(v, BL!AllocSize(x, v, n), Blank(n))
    BY <1>1 DEF AllocSize, Blank
  <2>2. PICK n \in 0..Short : Holds(v, BL!AllocSize(x, v, n), Blank(n))
    BY <2>1
  <2>3. n \in Nat
    BY HeadsAssumption
  <2>4. Makes(x, BL!AllocSize(x, v, n), v, Blank(n))
    <3>1. CASE n = 0
      BY <3>1, <1>0, AllocatedNone, BlankNone
    <3>2. CASE n # 0
      BY <3>2, <2>3, <1>0, AllocatedSome
    <3> QED BY <3>1, <3>2
  <2>5. BlobsInv(BL!AllocSize(x, v, n), [r EXCEPT ![v] = Blank(n)])
    BY <2>4, BlobsMake
  <2> QED BY <2>2, <2>5 DEF Holds, Do
<1>2. CASE ReAllocSize
  <2>1. PICK v \in Blob : \E n \in 0..(Short + 1) : Holds(v, BL!ReAllocSize(x, v, n), Padded(r[v], n, BL!Junk))
    BY <1>2 DEF ReAllocSize
  <2>2. PICK n \in 0..(Short + 1) : Holds(v, BL!ReAllocSize(x, v, n), Padded(r[v], n, BL!Junk))
    BY <2>1
  <2>3. n \in Nat
    BY HeadsAssumption
  <2>4. Makes(x, BL!ReAllocSize(x, v, n), v, Padded(r[v], n, BL!Junk))
    <3>1. CASE n = 0
      <4>1. Padded(r[v], n, BL!Junk) = <<>>
        <5> DEFINE s == r[v]
                   j == BL!Junk
        <5>1. s \in Seq(Value) /\ j \in Value
          BY DEF BlobsInv, BL!Junk, Value
        <5> HIDE DEF s, j
        <5>2. Padded(s, n, j) \in Seq(Value) /\ Len(Padded(s, n, j)) = n
          BY <2>3, <5>1, PaddedSeq
        <5>3. Padded(s, n, j) = <<>>
          BY <5>2, <3>1, EmptySeq
        <5> QED BY <5>3 DEF s, j
      <4>2. Makes(x, BL!ReAllocSize(x, v, 0), v, <<>>)
        BY <1>0, ReAllocNone
      <4> QED BY <4>1, <4>2, <3>1
    <3>2. CASE n # 0
      BY <3>2, <2>3, <1>0, ReAllocSome
    <3> QED BY <3>1, <3>2
  <2>5. BlobsInv(BL!ReAllocSize(x, v, n), [r EXCEPT ![v] = Padded(r[v], n, BL!Junk)])
    BY <2>4, BlobsMake
  <2> QED BY <2>2, <2>5 DEF Holds, Do
<1> QED BY <1>1, <1>2

LEMMA BlobCopiesStep ==
  ASSUME BlobsInv(x, r), SetCopyAlloc \/ SetCopyReAlloc \/ SetBlobNull \/ Destruct
  PROVE  BlobsInv(x', r') /\ kind' = kind
<1>0. Good(x) /\ (\A v \in Blob : v \in AllBlobs)
  BY DEF BlobsInv, AllBlobs
<1>1. CASE SetCopyAlloc
  <2>1. PICK v \in Blob, t \in SeqsTo(Item, Short) : Holds(v, BL!SetCopyAlloc(x, v, t), t)
    BY <1>1 DEF SetCopyAlloc
  <2>2. Makes(x, BL!SetCopyAlloc(x, v, t), v, t)
    BY <1>0, SetCopyAllocIs, ItemsAreBytes DEF ItemsAre
  <2>3. BlobsInv(BL!SetCopyAlloc(x, v, t), [r EXCEPT ![v] = t])
    BY <2>2, BlobsMake
  <2> QED BY <2>1, <2>3 DEF Holds, Do
<1>2. CASE SetCopyReAlloc
  <2>1. PICK v \in Blob, t \in SeqsTo(Item, Short) : Holds(v, BL!SetCopyReAlloc(x, v, t), t)
    BY <1>2 DEF SetCopyReAlloc
  <2>2. Makes(x, BL!SetCopyReAlloc(x, v, t), v, t)
    BY <1>0, SetCopyReAllocIs, ItemsAreBytes DEF ItemsAre
  <2>3. BlobsInv(BL!SetCopyReAlloc(x, v, t), [r EXCEPT ![v] = t])
    BY <2>2, BlobsMake
  <2> QED BY <2>1, <2>3 DEF Holds, Do
<1>3. CASE SetBlobNull
  <2>1. PICK v \in Blob : Holds(v, BL!SetBlobNull(x, v), <<>>)
    BY <1>3 DEF SetBlobNull
  <2>2. BlobsInv(BL!SetBlobNull(x, v), [r EXCEPT ![v] = <<>>])
    BY <1>0, SetBlobNullIs, BlobsMake
  <2> QED BY <2>1, <2>2 DEF Holds, Do
<1>4. CASE Destruct
  <2>1. PICK v \in Blob : Holds(v, BL!Destruct(x, v), <<>>)
    BY <1>4 DEF Destruct
  <2>2. BL!Destruct(x, v) = [BL!FreeHeap(x, v) EXCEPT !.blob[v] = BL!NullBlob]
    BY DEF BL!Destruct, BL!DetachBlob
  <2>3. Makes(x, BL!Destruct(x, v), v, <<>>)
    BY <2>2, <1>0, DroppedIs
  <2>4. BlobsInv(BL!Destruct(x, v), [r EXCEPT ![v] = <<>>])
    BY <2>3, BlobsMake
  <2> QED BY <2>1, <2>4 DEF Holds, Do
<1> QED BY <1>1, <1>2, <1>3, <1>4

LEMMA SetBlobStep ==
  ASSUME BlobsInv(x, r), SetBlob
  PROVE  BlobsInv(x', r') /\ kind' = kind
<1>0. Good(x) /\ (\A v \in Blob : v \in AllBlobs)
  BY DEF BlobsInv, AllBlobs
<1>1. PICK v \in Blob, p \in DOMAIN Static, type \in BL!Types \ {"null"} :
        \E n \in 0..Len(Static[p]) : Holds(v, BL!SetBlob(x, v, [p |-> p, size |-> n], type), Before(Static[p], n))
  BY DEF SetBlob
<1>2. PICK n \in 0..Len(Static[p]) : Holds(v, BL!SetBlob(x, v, [p |-> p, size |-> n], type), Before(Static[p], n))
  BY <1>1
<1> DEFINE m == Static[p]
           s == [p |-> p, size |-> n]
<1>3. m \in Seq(Value) /\ x.mem[p] = m /\ p # 0
  BY <1>0, BlobsAssumption DEF Good, Value
<1>4. Len(m) \in Nat /\ n \in 0..Len(m)
  BY <1>3, LenProperties
<1>5. s.p = p /\ s.size = n
  OBVIOUS
<1> HIDE DEF m
<1>6. BL!Bytes(x, s) = Before(m, n) /\ Before(m, n) \in Seq(Value)
  <2>1. BL!Bytes(x, s) = SubSeq(m, 1, n)
    BY <1>3, <1>5 DEF BL!Bytes, BL!Null
  <2>2. SubSeq(m, 1, n) = Before(m, n)
    BY <1>4 DEF Before, Least
  <2>3. Before(m, n) \in Seq(Value)
    BY <1>3, <1>4, BeforeAfter
  <2> QED BY <2>1, <2>2, <2>3
<1>7. n \in 0..Len(Static[p])
  BY <1>2
<1> HIDE DEF s
<1>8. Makes(x, BL!SetBlob(x, v, s, type), v, BL!Bytes(x, s))
  <2>1. s.p \in DOMAIN Static /\ s.size \in 0..Len(Static[s.p])
    BY <1>5, <1>7
  <2> QED BY <2>1, <1>0, <1>6, SetBlobIs
<1>9. BlobsInv(BL!SetBlob(x, v, s, type), [r EXCEPT ![v] = BL!Bytes(x, s)])
  BY <1>8, BlobsMake
<1>10. Holds(v, BL!SetBlob(x, v, s, type), BL!Bytes(x, s))
  BY <1>2, <1>6 DEF s, m
<1> QED BY <1>9, <1>10 DEF Holds, Do

LEMMA SetBlobCopyStep ==
  ASSUME BlobsInv(x, r), SetBlobCopy
  PROVE  BlobsInv(x', r') /\ kind' = kind
<1>1. PICK v \in Blob, u \in Blob : v # u /\ Holds(v, BL!SetBlobCopy(x, v, u), r[u])
  BY DEF SetBlobCopy
<1>2. Good(x) /\ v \in AllBlobs /\ u \in AllBlobs /\ r[u] = BytesOf(x, u)
  BY DEF BlobsInv, AllBlobs
<1> DEFINE b == x.blob[u]
           s == [p |-> b.p, size |-> b.size]
           type == IF b.type = "temp" THEN "heap" ELSE b.type
<1>3. BL!SetBlobCopy(x, v, u) = BL!SetBlob(x, v, s, type)
  BY DEF BL!SetBlobCopy
<1>4. b \in BlobT /\ type \in BL!Types /\ s.p = b.p /\ s.size = b.size
  BY <1>2 DEF Good, World, BlobT, BL!Types
<1>5. BL!Bytes(x, s) = BytesOf(x, u) /\ BytesOf(x, u) \in Seq(Value)
  BY <1>2, <1>4, BytesAre DEF BytesOf, BL!Bytes
<1>6. type # "heap" => s.p = 0 \/ (s.p \in DOMAIN Static /\ s.size \in 0..Len(Static[s.p]))
  <2>1. SUFFICES ASSUME type # "heap", s.p # 0 PROVE s.p \in DOMAIN Static /\ s.size \in 0..Len(Static[s.p])
    OBVIOUS
  <2>2. Fits(x.mem, b)
    BY <2>1, <1>2, <1>4, NullBlobIs DEF Good
  <2>3. b.p \in DOMAIN Static /\ b.size \in 1..Len(x.mem[b.p])
    BY <2>1, <2>2 DEF Fits
  <2>4. x.mem[b.p] = Static[b.p]
    BY <2>3, <1>2 DEF Good
  <2>5. Len(Static[b.p]) \in Nat
    BY <2>3, BlobsAssumption, LenProperties
  <2> QED BY <2>3, <2>4, <2>5, <1>4
<1> HIDE DEF s, type, b
<1>7. Makes(x, BL!SetBlob(x, v, s, type), v, BL!Bytes(x, s))
  BY <1>2, <1>4, <1>5, <1>6, SetBlobIs
<1>8. BlobsInv(BL!SetBlob(x, v, s, type), [r EXCEPT ![v] = BL!Bytes(x, s)])
  BY <1>7, BlobsMake
<1>9. Holds(v, BL!SetBlob(x, v, s, type), BL!Bytes(x, s))
  BY <1>1, <1>2, <1>3, <1>5
<1> QED BY <1>8, <1>9 DEF Holds, Do

LEMMA MoveBlobStep ==
  ASSUME BlobsInv(x, r), MoveBlob
  PROVE  BlobsInv(x', r') /\ kind' = kind
<1>1. PICK v \in Blob, u \in Blob : /\ v # u /\ BL!isNull(x, v) /\ kind = "blobs"
                                    /\ Do("blobs", BL!MoveBlob(x, v, u), [r EXCEPT ![v] = r[u], ![u] = <<>>])
  BY DEF MoveBlob
<1> DEFINE g == BL!MoveBlob(x, v, u)
           t == [r EXCEPT ![v] = r[u], ![u] = <<>>]
<1>2. Good(x) /\ v \in AllBlobs /\ u \in AllBlobs /\ Blob \subseteq AllBlobs
  BY DEF BlobsInv, AllBlobs
<1>3. /\ Good(g) /\ BytesOf(g, v) = BytesOf(x, u) /\ BytesOf(g, u) = <<>>
      /\ \A y \in AllBlobs \ {u, v} : BytesOf(g, y) = BytesOf(x, y)
  BY <1>1, <1>2, MovedIs
<1> HIDE DEF g
<1>4. r \in [Blob -> Seq(Value)] /\ \A y \in Blob : BytesOf(x, y) = r[y]
  BY DEF BlobsInv
<1>5. t[v] = r[u] /\ t[u] = <<>> /\ \A y \in Blob \ {u, v} : t[y] = r[y]
  BY <1>1, <1>4
<1>6. t \in [Blob -> Seq(Value)]
  BY <1>4, EmptySeq
<1> HIDE DEF t
<1>7. \A y \in Blob : BytesOf(g, y) = t[y]
  BY <1>2, <1>3, <1>4, <1>5
<1>8. BlobsInv(g, t)
  BY <1>3, <1>6, <1>7 DEF BlobsInv
<1>9. Do("blobs", g, t) /\ kind = "blobs"
  BY <1>1 DEF g, t
<1> QED BY <1>8, <1>9 DEF Do

LEMMA BlobsStep ==
  ASSUME BlobsInv(x, r), NextBlobs
  PROVE  BlobsInv(x', r') /\ kind' = kind
  BY BlobSizesStep, BlobCopiesStep, SetBlobStep, SetBlobCopyStep, MoveBlobStep DEF NextBlobs

-----------------------------------------------------------------------------
LEMMA GoodHasOneOwner ==
  ASSUME NEW w, Good(w)
  PROVE  OneOwner(w)
<1>1. \A p \in BL!Live(w) : \E v \in AllBlobs : {u \in AllBlobs : w.blob[u].p = p /\ BL!isHeap(w, u)} = {v}
  <2> TAKE p \in BL!Live(w)
  <2>1. PICK v \in AllBlobs : Owns(w, v, p)
    BY DEF Good
  <2>2. p \in Memory
    BY LiveIs
  <2>3. \A u \in AllBlobs : Owns(w, u, p) <=> u = v
    BY <2>1, <2>2 DEF Good
  <2> QED BY <2>3 DEF Owns, BL!isHeap
<1>2. \A v \in AllBlobs : BL!isHeap(w, v) => w.blob[v].p \in BL!Live(w)
  BY OwnerHas DEF BL!isHeap
<1> QED BY <1>1, <1>2 DEF OneOwner, Good

LEMMA BlobsAgreeIs ==
  ASSUME BlobsInv(x, r)
  PROVE  BlobsAgree
  BY GoodHasOneOwner DEF BlobsInv, BlobsAgree, BytesOf

LEMMA NoBlobsAreGood ==
  /\ Good(BL!NoBlobs) /\ (\A v \in AllBlobs : BL!NoBlobs.blob[v] = BL!NullBlob)
  /\ BlobsInv(BL!NoBlobs, [v \in Blob |-> <<>>])
<1> DEFINE w == BL!NoBlobs
<1>0. <<>> \in Seq(Value) /\ \A p \in DOMAIN Static : Static[p] \in Seq(Value)
  BY EmptySeq, BlobsAssumption DEF Value
<1>1. /\ w \in World /\ w.allocs = 0
      /\ (\A p \in Memory : w.mem[p] = <<>>) /\ (\A p \in DOMAIN Static : w.mem[p] = Static[p])
      /\ (\A v \in AllBlobs : w.blob[v] = BL!NullBlob)
  <2> DEFINE m == [p \in Memory \cup DOMAIN Static |-> IF p \in Memory THEN <<>> ELSE Static[p]]
             t == [v \in AllBlobs |-> BL!NullBlob]
  <2>1. w = [mem |-> m, allocs |-> 0, blob |-> t]
    BY DEF BL!NoBlobs, BL!Freed
  <2>2. m \in [Address -> Seq(Value)]
    BY <1>0 DEF Address
  <2>3. (\A p \in Memory : m[p] = <<>>) /\ (\A p \in DOMAIN Static : m[p] = Static[p])
    BY BlobsAssumption
  <2>4. t \in [AllBlobs -> BlobT] /\ \A v \in AllBlobs : t[v] = BL!NullBlob
    BY NullBlobIs
  <2> HIDE DEF m, t, w
  <2> QED BY <2>1, <2>2, <2>3, <2>4 DEF World
<1> HIDE DEF w
<1>2. BL!Live(w) = {}
  BY <1>1, LiveIs
<1>3. \A v \in AllBlobs : \A p : ~Owns(w, v, p)
  BY <1>1, NullBlobIs DEF Owns
<1>4. Good(w)
  BY <1>1, <1>2, <1>3, FS_EmptySet DEF Good
<1>5. \A v \in AllBlobs : BytesOf(w, v) = <<>>
  BY <1>1, NullBlobIs DEF BytesOf, BL!Bytes, BL!Null
<1>6. BlobsInv(w, [v \in Blob |-> <<>>])
  BY <1>0, <1>4, <1>5 DEF BlobsInv, AllBlobs
<1> QED BY <1>1, <1>4, <1>6 DEF w

(* The slot of the k'th latest text, when cur is the latest's.              *)
Turn(cur, k) == (cur + 1 - k + Turns) % Turns

LEMMA Modulo ==
  ASSUME NEW n \in Nat \ {0}, NEW i \in 0..(n - 1)
  PROVE  i % n = i /\ (i + n) % n = i
<1>1. i % n = i
  OBVIOUS
<1>2. (i + n) % n = i
  OBVIOUS
<1> QED BY <1>1, <1>2

LEMMA TurnIs ==
  ASSUME NEW cur \in -1..(Turns - 1), NEW k \in 1..Turns
  PROVE  /\ Turn(cur, k) = IF cur + 1 - k >= 0 THEN cur + 1 - k ELSE cur + 1 - k + Turns
         /\ (cur + 1) % Turns = IF cur + 1 < Turns THEN cur + 1 ELSE 0
<1>0. Turns \in Nat \ {0}
  BY BlobsAssumption
<1>1. Turn(cur, k) = IF cur + 1 - k >= 0 THEN cur + 1 - k ELSE cur + 1 - k + Turns
  <2> DEFINE i == IF cur + 1 - k >= 0 THEN cur + 1 - k ELSE cur + 1 - k + Turns
  <2>1. i \in 0..(Turns - 1)
    BY <1>0
  <2>2. cur + 1 - k + Turns = i \/ cur + 1 - k + Turns = i + Turns
    BY <1>0
  <2> HIDE DEF i
  <2>3. i % Turns = i /\ (i + Turns) % Turns = i
    BY <1>0, <2>1, Modulo
  <2>4. Turn(cur, k) = i
    BY <2>2, <2>3 DEF Turn
  <2> QED BY <2>4 DEF i
<1>2. (cur + 1) % Turns = IF cur + 1 < Turns THEN cur + 1 ELSE 0
  <2>1. CASE cur + 1 < Turns
    <3>1. cur + 1 \in 0..(Turns - 1)
      BY <1>0, <2>1
    <3> QED BY <1>0, <3>1, <2>1, Modulo
  <2>2. CASE ~(cur + 1 < Turns)
    <3>1. cur + 1 = 0 + Turns /\ 0 \in 0..(Turns - 1)
      BY <1>0, <2>2
    <3>2. (0 + Turns) % Turns = 0
      BY <1>0, <3>1, Modulo
    <3> QED BY <3>1, <3>2, <2>2
  <2> QED BY <2>1, <2>2
<1> QED BY <1>1, <1>2

PoolInv(p, a) ==
  /\ p = [cur |-> p.cur, w |-> p.w] /\ Good(p.w) /\ p.cur \in -1..(Turns - 1)
  /\ a \in Seq(Seq(Value)) /\ Len(a) <= Turns /\ (p.cur = -1 => Len(a) = 0)
  /\ \A k \in 1..Len(a) : BytesOf(p.w, Turn(p.cur, k)) = a[k] \o <<0>>

LEMMA SlotIsBlob ==
  ASSUME NEW cur \in -1..(Turns - 1), NEW k \in 1..Turns
  PROVE  Turn(cur, k) \in AllBlobs /\ (cur + 1) % Turns \in AllBlobs
<1>1. Turns \in Nat \ {0}
  BY BlobsAssumption
<1>2. Turn(cur, k) \in 0..(Turns - 1) /\ (cur + 1) % Turns \in 0..(Turns - 1)
  BY <1>1, TurnIs
<1> QED BY <1>2 DEF AllBlobs

(* The next turn: what was the k'th latest is one older, and no other slot  *)
(* than the oldest's is taken.                                              *)
LEMMA NextTurn ==
  ASSUME NEW cur \in -1..(Turns - 1), NEW next, next = (cur + 1) % Turns
  PROVE  /\ next \in 0..(Turns - 1) /\ Turn(next, 1) = next
         /\ \A k \in 2..Turns : cur # -1 => Turn(next, k) = Turn(cur, k - 1) /\ Turn(next, k) # next
<1>1. Turns \in Nat \ {0}
  BY BlobsAssumption
<1>2. 1 \in 1..Turns
  BY <1>1
<1>3. next = IF cur + 1 < Turns THEN cur + 1 ELSE 0
  BY <1>2, TurnIs
<1>4. next \in 0..(Turns - 1)
  BY <1>1, <1>3
<1>5. Turn(next, 1) = next
  BY <1>1, <1>2, <1>4, TurnIs
<1>6. ASSUME NEW k \in 2..Turns, cur # -1
      PROVE  Turn(next, k) = Turn(cur, k - 1) /\ Turn(next, k) # next
  <2>1. k \in 1..Turns /\ k - 1 \in 1..Turns /\ next \in -1..(Turns - 1)
    BY <1>1, <1>4
  <2>2. Turn(next, k) = IF next + 1 - k >= 0 THEN next + 1 - k ELSE next + 1 - k + Turns
    BY <2>1, TurnIs
  <2>3. Turn(cur, k - 1) = IF cur + 1 - (k - 1) >= 0 THEN cur + 1 - (k - 1) ELSE cur + 1 - (k - 1) + Turns
    BY <2>1, TurnIs
  <2> QED BY <1>1, <1>3, <1>6, <2>2, <2>3
<1> QED BY <1>4, <1>5, <1>6

LEMMA LatestFirst ==
  ASSUME NEW E, NEW a \in Seq(E), NEW t \in E, NEW n \in Nat \ {0}, Len(a) <= n,
         NEW b, b = Before(<<t>> \o a, n)
  PROVE  /\ b \in Seq(E) /\ Len(b) = IF Len(a) < n THEN Len(a) + 1 ELSE n
         /\ b[1] = t /\ \A k \in 2..Len(b) : b[k] = a[k - 1]
<1> DEFINE c == <<t>> \o a
<1>1. Len(a) \in Nat
  BY LenProperties
<1>2. c \in Seq(E) /\ Len(c) = Len(a) + 1
  <2>1. <<t>> \in Seq(E) /\ Len(<<t>>) = 1
    BY OneElement
  <2> QED BY <2>1, ConcatProperties
<1>3. c[1] = t /\ \A k \in 2..(Len(a) + 1) : c[k] = a[k - 1]
  <2>1. <<t>> \in Seq(E) /\ Len(<<t>>) = 1 /\ <<t>>[1] = t
    BY OneElement
  <2>2. \A k \in 1..(1 + Len(a)) : c[k] = IF k <= 1 THEN <<t>>[k] ELSE a[k - 1]
    BY <2>1, ConcatProperties
  <2> HIDE DEF c
  <2> QED BY <1>1, <2>1, <2>2
<1>8. b = Before(c, n)
  OBVIOUS
<1> HIDE DEF c
<1>4. b \in Seq(E) /\ Len(b) = Least(n, Len(c))
  BY <1>2, <1>8, BeforeAfter
<1>5. \A k \in 1..Least(n, Len(c)) : b[k] = c[k]
  <2>1. \A k \in 1..Least(n, Len(c)) : Before(c, n)[k] = c[k]
    BY <1>2, BeforeAfter
  <2> QED BY <2>1, <1>8
<1>6. Len(b) = IF Len(a) < n THEN Len(a) + 1 ELSE n
  BY <1>1, <1>2, <1>4 DEF Least
<1>7. b[1] = t /\ \A k \in 2..Len(b) : b[k] = a[k - 1]
  BY <1>1, <1>2, <1>3, <1>4, <1>5, <1>6
<1> QED BY <1>4, <1>6, <1>7

Ended(t) == t \o <<0>>

LEMMA EndedIs ==
  ASSUME NEW t \in Seq(Value)
  PROVE  Ended(t) \in Seq(Value) /\ Len(Ended(t)) = Len(t) + 1
<1>1. 0 \in Value
  BY DEF Value
<1>2. <<0>> \in Seq(Value) /\ Len(<<0>>) = 1
  BY <1>1, OneElement
<1> QED BY <1>2, ConcatProperties DEF Ended

LEMMA GetTIs ==
  ASSUME NEW p, p = [cur |-> p.cur, w |-> p.w], NEW t \in Seq(Value), t # <<>>,
         NEW next, next = (p.cur + 1) % Turns
  PROVE  BL!GetT(p, Turns, t) = [cur |-> next, w |-> BL!SetCopyReAlloc(p.w, next, Ended(t))]
<1> DEFINE n == Len(t) + 1
           g == BL!ReAllocSize(p.w, next, n)
<1>1. BL!GetMemSpan(p, Turns, n) = [cur |-> next, w |-> g]
  BY DEF BL!GetMemSpan
<1>2. BL!SetCopyReAlloc(p.w, next, Ended(t)) = BL!SetCopySpan(g, next, Ended(t))
  BY EndedIs DEF BL!SetCopyReAlloc
<1> HIDE DEF g
<1>3. BL!GetT(p, Turns, t) = [cur |-> next, w |-> BL!SetCopySpan(g, next, t \o <<0>>)]
  BY <1>1 DEF BL!GetT
<1> QED BY <1>2, <1>3 DEF Ended

LEMMA PoolMakes ==
  ASSUME NEW p, NEW a, PoolInv(p, a), NEW t \in Seq(Value),
         NEW next, next = (p.cur + 1) % Turns, NEW g, Makes(p.w, g, next, Ended(t))
  PROVE  PoolInv([cur |-> next, w |-> g], Before(<<t>> \o a, Turns))
<1> DEFINE b == Before(<<t>> \o a, Turns)
           q == [cur |-> next, w |-> g]
<1>0. Turns \in Nat \ {0} /\ p.cur \in -1..(Turns - 1) /\ Len(a) \in Nat /\ a \in Seq(Seq(Value)) /\ Len(a) <= Turns
  BY BlobsAssumption, LenProperties DEF PoolInv
<1> HIDE DEF q
<1>1. /\ b \in Seq(Seq(Value)) /\ Len(b) = IF Len(a) < Turns THEN Len(a) + 1 ELSE Turns
      /\ b[1] = t /\ \A k \in 2..Len(b) : b[k] = a[k - 1]
  <2> DEFINE E == Seq(Value)
  <2>1. a \in Seq(E) /\ t \in E /\ Turns \in Nat \ {0} /\ Len(a) <= Turns
    BY <1>0
  <2> HIDE DEF E, b
  <2>2. b = Before(<<t>> \o a, Turns)
    BY DEF b
  <2>3. /\ b \in Seq(E) /\ Len(b) = IF Len(a) < Turns THEN Len(a) + 1 ELSE Turns
        /\ b[1] = t /\ \A k \in 2..Len(b) : b[k] = a[k - 1]
    BY <2>1, <2>2, LatestFirst
  <2> QED BY <2>3 DEF E
<1>2. /\ next \in 0..(Turns - 1) /\ Turn(next, 1) = next
      /\ \A k \in 2..Turns : p.cur # -1 => Turn(next, k) = Turn(p.cur, k - 1) /\ Turn(next, k) # next
  BY <1>0, NextTurn
<1> HIDE DEF b
<1>3. q.cur = next /\ q.w = g /\ q = [cur |-> q.cur, w |-> q.w]
  BY DEF q
<1>8. Len(b) = (IF Len(a) < Turns THEN Len(a) + 1 ELSE Turns) /\ Len(b) \in 1..Turns
  <2>1. Len(b) = IF Len(a) < Turns THEN Len(a) + 1 ELSE Turns
    BY <1>1
  <2>2. Len(a) \in Nat /\ Turns \in Nat \ {0} /\ Len(a) <= Turns
    BY <1>0
  <2> QED BY <2>1, <2>2
<1>4. ASSUME NEW k \in 1..Len(b) PROVE BytesOf(g, Turn(next, k)) = b[k] \o <<0>>
  <2>1. CASE k = 1
    BY <2>1, <1>1, <1>2 DEF Makes, Ended
  <2>2. CASE k # 1
    <3>1. k \in 2..Turns /\ k \in 2..Len(b) /\ k - 1 \in 1..Len(a) /\ k - 1 \in 1..Turns
      <4>1. k \in 1..Len(b) /\ Len(a) \in Nat /\ Turns \in Nat \ {0} /\ Len(a) <= Turns
        BY <1>0, <1>4
      <4> QED BY <4>1, <1>8, <2>2
    <3>2. p.cur # -1
      BY <3>1, <1>0 DEF PoolInv
    <3>3. Turn(next, k) = Turn(p.cur, k - 1) /\ Turn(next, k) # next
      BY <3>1, <3>2, <1>2
    <3>4. Turn(p.cur, k - 1) \in AllBlobs
      BY <3>1, <1>0, SlotIsBlob
    <3>5. BytesOf(g, Turn(next, k)) = BytesOf(p.w, Turn(p.cur, k - 1))
      BY <3>3, <3>4 DEF Makes, OthersKeep
    <3>6. BytesOf(p.w, Turn(p.cur, k - 1)) = a[k - 1] \o <<0>>
      BY <3>1 DEF PoolInv
    <3> QED BY <3>1, <3>5, <3>6, <1>1
  <2> QED BY <2>1, <2>2
<1>5. Len(b) <= Turns /\ next \in -1..(Turns - 1) /\ next # -1
  BY <1>0, <1>8, <1>2
<1>6. Good(g)
  BY DEF Makes
<1>7. PoolInv(q, b)
  BY <1>1, <1>3, <1>4, <1>5, <1>6 DEF PoolInv
<1> QED BY <1>7 DEF q, b

LEMMA GetTStep ==
  ASSUME PoolInv(x, r), GetT
  PROVE  PoolInv(x', r') /\ kind' = kind
<1>1. PICK t \in SeqsTo(Item, Short) :
        kind = "pool" /\ t # <<>> /\ Do("pool", BL!GetT(x, Turns, t), Before(<<t>> \o r, Turns))
  BY DEF GetT
<1>2. t \in Seq(Value)
  BY ItemsAreBytes DEF ItemsAre
<1> DEFINE next == (x.cur + 1) % Turns
<1>3. x = [cur |-> x.cur, w |-> x.w] /\ x.cur \in -1..(Turns - 1) /\ Good(x.w)
  BY DEF PoolInv
<1>4. next \in AllBlobs
  <2>1. 1 \in 1..Turns
    BY BlobsAssumption
  <2> QED BY <2>1, <1>3, SlotIsBlob
<1> DEFINE g == BL!SetCopyReAlloc(x.w, next, Ended(t))
<1>5. BL!GetT(x, Turns, t) = [cur |-> next, w |-> g]
  BY <1>1, <1>2, <1>3, GetTIs
<1>6. Makes(x.w, g, next, Ended(t))
  BY <1>2, <1>3, <1>4, EndedIs, SetCopyReAllocIs
<1> HIDE DEF g
<1>7. PoolInv([cur |-> next, w |-> g], Before(<<t>> \o r, Turns))
  BY <1>2, <1>6, PoolMakes
<1> QED BY <1>1, <1>5, <1>7 DEF Do

LEMMA PoolAgreesIs ==
  ASSUME PoolInv(x, r)
  PROVE  PoolAgrees
<1>1. OneOwner(x.w)
  BY GoodHasOneOwner DEF PoolInv
<1>2. DOMAIN r = 1..Len(r)
  BY LenProperties DEF PoolInv
<1> QED BY <1>1, <1>2 DEF PoolInv, PoolAgrees, BytesOf, Turn

LEMMA PoolInit ==
  PoolInv([cur |-> -1, w |-> BL!NoBlobs], <<>>)
<1> DEFINE p == [cur |-> -1, w |-> BL!NoBlobs]
<1>1. p.cur = -1 /\ p.w = BL!NoBlobs /\ p = [cur |-> p.cur, w |-> p.w]
  OBVIOUS
<1>2. Turns \in Nat \ {0} /\ -1 \in -1..(Turns - 1)
  BY BlobsAssumption
<1>3. <<>> \in Seq(Seq(Value)) /\ Len(<<>>) = 0
  BY EmptySeq
<1>4. Good(BL!NoBlobs)
  BY NoBlobsAreGood
<1> HIDE DEF p
<1>5. PoolInv(p, <<>>)
  BY <1>1, <1>2, <1>3, <1>4 DEF PoolInv
<1> QED BY <1>5 DEF p

-----------------------------------------------------------------------------
LEMMA SameCardinality ==
  PT!Cardinality(Objects) = Cardinality(Objects)
  BY DEF PT!Cardinality, Cardinality

LEMMA ReleaseStepsAre ==
  ASSUME NEW h, NEW o, NEW m, m = Cardinality(Objects), m \in Nat
  PROVE  /\ PT!ReleaseSteps(h, o)[0] = [h |-> h, next |-> o]
         /\ \A n \in 1..m : PT!ReleaseSteps(h, o)[n] = PT!ReleaseStep(PT!ReleaseSteps(h, o)[n - 1])
         /\ PT!Release(h, o) = PT!ReleaseSteps(h, o)[m].h
<1> DEFINE Is(f, k) == f = [n \in 0..k |-> IF n = 0 THEN [h |-> h, next |-> o] ELSE PT!ReleaseStep(f[n - 1])]
           T == {k \in Nat : \E f : Is(f, k)}
<1>1. 0 \in T
  <2>1. Is([n \in 0..0 |-> [h |-> h, next |-> o]], 0)
    OBVIOUS
  <2> QED BY <2>1
<1>2. ASSUME NEW k \in Nat, k \in T PROVE k + 1 \in T
  <2>1. PICK f : Is(f, k)
    BY <1>2
  <2> DEFINE g == [n \in 0..(k + 1) |-> IF n = k + 1 THEN PT!ReleaseStep(f[k]) ELSE f[n]]
  <2>2. Is(g, k + 1)
    BY <2>1
  <2>3. \E f2 : Is(f2, k + 1)
    <3> HIDE DEF g, Is
    <3> QED BY <2>2
  <2> QED BY <2>3
<1> HIDE DEF T
<1>3. m \in T
  BY <1>1, <1>2, SetInduction
<1>4. \E f : f = [n \in 0..m |-> IF n = 0 THEN [h |-> h, next |-> o] ELSE PT!ReleaseStep(f[n - 1])]
  BY <1>3 DEF T
<1>5. \E f : f = [n \in 0..PT!Cardinality(Objects) |-> IF n = 0 THEN [h |-> h, next |-> o] ELSE PT!ReleaseStep(f[n - 1])]
  BY <1>4, SameCardinality
<1>6. PT!ReleaseSteps(h, o) = [n \in 0..PT!Cardinality(Objects) |->
        IF n = 0 THEN [h |-> h, next |-> o] ELSE PT!ReleaseStep(PT!ReleaseSteps(h, o)[n - 1])]
  BY <1>5 DEF PT!ReleaseSteps
<1>7. PT!Release(h, o) = PT!ReleaseSteps(h, o)[PT!Cardinality(Objects)].h
  BY DEF PT!Release
<1> DEFINE s == PT!ReleaseSteps(h, o)
<1>8. s = [n \in 0..m |-> IF n = 0 THEN [h |-> h, next |-> o] ELSE PT!ReleaseStep(s[n - 1])]
  BY <1>6, SameCardinality
<1>10. PT!Release(h, o) = s[m].h
  BY <1>7, SameCardinality
<1> HIDE DEF s
<1>9. s[0] = [h |-> h, next |-> o] /\ \A n \in 1..m : s[n] = PT!ReleaseStep(s[n - 1])
  BY <1>8
<1> QED BY <1>9, <1>10 DEF s

-----------------------------------------------------------------------------
Slots == SmartVar \cup Objects
PointerHeap == [ptr : [Slots -> Objects \cup {0}], refs : [Objects -> Nat], val : [Objects -> Value]]
PointersTo(h, o) == {s \in Slots : h.ptr[s] = o}
(* Each object is counted for each pointer to it, each hand that holds it,  *)
(* and once more if it is n; what is not counted points to nothing.         *)
Counted(h, hand, n) ==
  /\ h \in PointerHeap /\ hand \in [Objects -> Nat] /\ n \in Objects \cup {0}
  /\ \A o \in Objects : h.refs[o] = Cardinality(PointersTo(h, o)) + hand[o] + (IF o = n THEN 1 ELSE 0)
  /\ \A o \in Objects : h.refs[o] = 0 => h.ptr[o] = 0 /\ h.val[o] = 0
  /\ \A o \in Objects : h.ptr[o] = 0 \/ o < h.ptr[o]
(* What is left of h when n and what only it led to are gone.               *)
LeftOf(h, g, n) ==
  /\ \A s \in SmartVar : g.ptr[s] = h.ptr[s]
  /\ \A o \in Objects : /\ g.refs[o] <= h.refs[o] /\ (o < n => g.refs[o] = h.refs[o])
                        /\ g.refs[o] > 0 => g.ptr[o] = h.ptr[o] /\ g.val[o] = h.val[o]

LEMMA ObjectsAre ==
  /\ ObjectCount \in Nat /\ Objects = 1..ObjectCount /\ Objects \subseteq Nat
  /\ IsFiniteSet(Objects) /\ Cardinality(Objects) = ObjectCount /\ IsFiniteSet(Slots)
  /\ SmartVar \cap Objects = {} /\ 0 \notin Objects /\ 0 \notin Slots
<1>1. ObjectCount \in Nat /\ Objects = 1..ObjectCount
  BY PointersAssumption DEF Objects
<1>2. IsFiniteSet(Objects) /\ Cardinality(Objects) = ObjectCount
  BY <1>1, FS_Interval
<1>3. IsFiniteSet(Slots)
  BY <1>2, PointersAssumption, FS_Union DEF Slots
<1> QED BY <1>1, <1>2, <1>3, PointersAssumption DEF Slots

LEMMA PointersFinite ==
  ASSUME NEW h, NEW o
  PROVE  IsFiniteSet(PointersTo(h, o)) /\ Cardinality(PointersTo(h, o)) \in Nat
<1>1. PointersTo(h, o) \subseteq Slots
  BY DEF PointersTo
<1> QED BY <1>1, ObjectsAre, FS_Subset, FS_CardinalityType

(* One pointer turns from one object to another.                            *)
Repoints(h, g, s, q) == g.ptr[s] = q /\ \A t \in Slots \ {s} : g.ptr[t] = h.ptr[t]

LEMMA OnePointer ==
  ASSUME NEW h, NEW g, h.ptr \in [Slots -> Objects \cup {0}], NEW s \in Slots, NEW q \in Objects \cup {0},
         Repoints(h, g, s, q), NEW o \in Objects
  PROVE  Cardinality(PointersTo(g, o)) = Cardinality(PointersTo(h, o))
              + (IF o = q THEN 1 ELSE 0) - (IF o = h.ptr[s] THEN 1 ELSE 0)
<1>1. g.ptr[s] = q /\ \A t \in Slots \ {s} : g.ptr[t] = h.ptr[t]
  BY DEF Repoints
<1>2. IsFiniteSet(PointersTo(h, o)) /\ Cardinality(PointersTo(h, o)) \in Nat
  BY PointersFinite
<1>3. CASE o = q /\ o = h.ptr[s]
  <2>1. PointersTo(g, o) = PointersTo(h, o)
    BY <1>1, <1>3 DEF PointersTo
  <2> QED BY <2>1, <1>2, <1>3
<1>4. CASE o = q /\ o # h.ptr[s]
  <2>1. PointersTo(g, o) = PointersTo(h, o) \cup {s} /\ s \notin PointersTo(h, o)
    BY <1>1, <1>4 DEF PointersTo
  <2>2. Cardinality(PointersTo(g, o)) = Cardinality(PointersTo(h, o)) + 1
    BY <1>2, <2>1, FS_AddElement
  <2> QED BY <2>2, <1>2, <1>4
<1>5. CASE o # q /\ o = h.ptr[s]
  <2>1. PointersTo(g, o) = PointersTo(h, o) \ {s} /\ s \in PointersTo(h, o)
    BY <1>1, <1>5 DEF PointersTo
  <2>2. Cardinality(PointersTo(g, o)) = Cardinality(PointersTo(h, o)) - 1
    BY <1>2, <2>1, FS_RemoveElement
  <2> QED BY <2>2, <1>2, <1>5
<1>6. CASE o # q /\ o # h.ptr[s]
  <2>1. PointersTo(g, o) = PointersTo(h, o)
    BY <1>1, <1>6 DEF PointersTo
  <2> QED BY <2>1, <1>2, <1>6
<1> QED BY <1>3, <1>4, <1>5, <1>6

Remade(h, ptr, refs, val) == [h EXCEPT !.ptr = ptr, !.refs = refs, !.val = val]

LEMMA PointerHeapIs ==
  ASSUME NEW h \in PointerHeap, NEW ptr \in [Slots -> Objects \cup {0}], NEW refs \in [Objects -> Nat],
         NEW val \in [Objects -> Value], NEW g, g = Remade(h, ptr, refs, val)
  PROVE  g \in PointerHeap /\ g.ptr = ptr /\ g.refs = refs /\ g.val = val
  BY DEF PointerHeap, Remade

LEMMA HeapHas ==
  ASSUME NEW h \in PointerHeap
  PROVE  /\ h.ptr \in [Slots -> Objects \cup {0}] /\ h.refs \in [Objects -> Nat] /\ h.val \in [Objects -> Value]
         /\ Objects \subseteq Slots /\ SmartVar \subseteq Slots /\ 0 \in Value
  BY DEF PointerHeap, Slots, Value

LEMMA ReleaseStepIs ==
  ASSUME NEW h, NEW hand, NEW n \in Objects, Counted(h, hand, n),
         NEW t, t = PT!ReleaseStep([h |-> h, next |-> n])
  PROVE  /\ t = [h |-> t.h, next |-> t.next]
         /\ Counted(t.h, hand, t.next) /\ LeftOf(h, t.h, n) /\ (t.next = 0 \/ t.next > n)
<1> DEFINE less == [h.refs EXCEPT ![n] = @ - 1]
<1>0. n # 0 /\ n \in Nat /\ 0 \notin Objects /\ Objects \subseteq Nat
  BY ObjectsAre
<1>1. h \in PointerHeap /\ hand \in [Objects -> Nat]
  BY DEF Counted
<1>2. /\ h.ptr \in [Slots -> Objects \cup {0}] /\ h.refs \in [Objects -> Nat] /\ h.val \in [Objects -> Value]
      /\ Objects \subseteq Slots /\ SmartVar \subseteq Slots /\ 0 \in Value
  BY <1>1, HeapHas
<1>3. h.refs[n] \in Nat \ {0}
  <2>1. h.refs[n] = Cardinality(PointersTo(h, n)) + hand[n] + 1
    BY DEF Counted
  <2>2. Cardinality(PointersTo(h, n)) \in Nat /\ hand[n] \in Nat
    BY <1>1, PointersFinite
  <2> QED BY <2>1, <2>2
<1>4. less \in [Objects -> Nat] /\ less[n] = h.refs[n] - 1 /\ \A o \in Objects \ {n} : less[o] = h.refs[o]
  BY <1>2, <1>3
<1>5. t = IF less[n] > 0 THEN [h |-> [h EXCEPT !.refs = less], next |-> 0]
          ELSE [h |-> [h EXCEPT !.ptr = [h.ptr EXCEPT ![n] = 0], !.refs = less, !.val = [h.val EXCEPT ![n] = 0]],
                next |-> h.ptr[n]]
  BY <1>0, <1>1 DEF PT!ReleaseStep, PT!ClearPtr, PointerHeap
<1> HIDE DEF less
<1>6. CASE less[n] > 0
  <2>1. t = [h |-> [h EXCEPT !.refs = less], next |-> 0]
    BY <1>5, <1>6
  <2> DEFINE g == [h EXCEPT !.refs = less]
  <2>2. g \in PointerHeap /\ g.ptr = h.ptr /\ g.refs = less /\ g.val = h.val
    BY <1>1, <1>4 DEF PointerHeap
  <2> HIDE DEF g
  <2>3. t.h = g /\ t.next = 0
    BY <2>1 DEF g
  <2>4. \A o \in Objects : g.refs[o] = Cardinality(PointersTo(g, o)) + hand[o] + (IF o = 0 THEN 1 ELSE 0)
    <3> TAKE o \in Objects
    <3>1. h.refs[o] = Cardinality(PointersTo(h, o)) + hand[o] + (IF o = n THEN 1 ELSE 0)
      BY DEF Counted
    <3>2. PointersTo(g, o) = PointersTo(h, o)
      BY <2>2 DEF PointersTo
    <3>3. Cardinality(PointersTo(h, o)) \in Nat /\ hand[o] \in Nat /\ h.refs[o] \in Nat /\ o # 0
      BY <1>0, <1>1, <1>2, PointersFinite
    <3>4. g.refs[o] = IF o = n THEN h.refs[o] - 1 ELSE h.refs[o]
      BY <1>4, <2>2
    <3> QED BY <3>1, <3>2, <3>3, <3>4
  <2>5. \A o \in Objects : g.refs[o] = 0 => g.ptr[o] = 0 /\ g.val[o] = 0
    BY <1>4, <1>6, <2>2 DEF Counted
  <2>6. \A o \in Objects : g.ptr[o] = 0 \/ o < g.ptr[o]
    BY <2>2 DEF Counted
  <2>7. Counted(g, hand, 0)
    BY <1>1, <2>2, <2>4, <2>5, <2>6 DEF Counted
  <2>8. LeftOf(h, g, n)
    <3>1. \A o \in Objects : g.refs[o] <= h.refs[o] /\ (o < n => g.refs[o] = h.refs[o])
      BY <1>0, <1>2, <1>4, <2>2
    <3> QED BY <3>1, <2>2 DEF LeftOf
  <2> QED BY <2>1, <2>3, <2>7, <2>8
<1>7. CASE ~(less[n] > 0)
  <2> DEFINE q == h.ptr[n]
             ptr == [h.ptr EXCEPT ![n] = 0]
             val == [h.val EXCEPT ![n] = 0]
             g == [h EXCEPT !.ptr = ptr, !.refs = less, !.val = val]
  <2>1. t = [h |-> g, next |-> q]
    BY <1>5, <1>7
  <2>2. q \in Objects \cup {0} /\ (q = 0 \/ n < q)
    BY <1>2 DEF Counted
  <2>3. ptr \in [Slots -> Objects \cup {0}] /\ ptr[n] = 0 /\ \A s \in Slots \ {n} : ptr[s] = h.ptr[s]
    BY <1>2
  <2>4. val \in [Objects -> Value] /\ val[n] = 0 /\ \A o \in Objects \ {n} : val[o] = h.val[o]
    BY <1>2
  <2> HIDE DEF ptr, val
  <2>14. g = Remade(h, ptr, less, val)
    BY DEF Remade
  <2> HIDE DEF g, q
  <2>6. g \in PointerHeap /\ g.ptr = ptr /\ g.refs = less /\ g.val = val
    BY <1>1, <1>4, <2>3, <2>4, <2>14, PointerHeapIs
  <2>7. t.h = g /\ t.next = q
    BY <2>1
  <2>8. less[n] = 0
    BY <1>3, <1>4, <1>7
  <2>9. \A o \in Objects : g.refs[o] = Cardinality(PointersTo(g, o)) + hand[o] + (IF o = q THEN 1 ELSE 0)
    <3> TAKE o \in Objects
    <3>1. h.refs[o] = Cardinality(PointersTo(h, o)) + hand[o] + (IF o = n THEN 1 ELSE 0)
      BY DEF Counted
    <3>2. Cardinality(PointersTo(g, o)) = Cardinality(PointersTo(h, o)) + (IF o = 0 THEN 1 ELSE 0) - (IF o = h.ptr[n] THEN 1 ELSE 0)
      <4>1. Repoints(h, g, n, 0) /\ n \in Slots
        BY <1>2, <2>3, <2>6 DEF Repoints
      <4>2. 0 \in Objects \cup {0}
        OBVIOUS
      <4> QED BY <4>1, <4>2, <1>2, OnePointer
    <3>3. Cardinality(PointersTo(h, o)) \in Nat /\ hand[o] \in Nat /\ h.refs[o] \in Nat /\ o # 0
      BY <1>0, <1>1, <1>2, PointersFinite
    <3>4. g.refs[o] = IF o = n THEN h.refs[o] - 1 ELSE h.refs[o]
      BY <1>4, <2>6
    <3> QED BY <3>1, <3>2, <3>3, <3>4 DEF q
  <2>10. \A o \in Objects : g.refs[o] = 0 => g.ptr[o] = 0 /\ g.val[o] = 0
    BY <1>2, <1>4, <2>3, <2>4, <2>6 DEF Counted
  <2>11. \A o \in Objects : g.ptr[o] = 0 \/ o < g.ptr[o]
    BY <1>2, <2>3, <2>6 DEF Counted
  <2>12. Counted(g, hand, q)
    BY <1>1, <2>2, <2>6, <2>9, <2>10, <2>11 DEF Counted
  <2>13. LeftOf(h, g, n)
    <3>1. n \notin SmartVar
      BY ObjectsAre
    <3>2. \A s \in SmartVar : g.ptr[s] = h.ptr[s]
      BY <3>1, <1>2, <2>3, <2>6
    <3>3. \A o \in Objects : g.refs[o] <= h.refs[o] /\ (o < n => g.refs[o] = h.refs[o])
      BY <1>0, <1>2, <1>4, <2>6
    <3>4. \A o \in Objects : g.refs[o] > 0 => g.ptr[o] = h.ptr[o] /\ g.val[o] = h.val[o]
      BY <1>2, <2>3, <2>4, <2>6, <2>8
    <3> QED BY <3>2, <3>3, <3>4 DEF LeftOf
  <2> QED BY <2>1, <2>2, <2>7, <2>12, <2>13 DEF q
<1> QED BY <1>6, <1>7

LEMMA LeftOver ==
  ASSUME NEW h, NEW g, NEW k, NEW n \in Objects, NEW m \in Objects, n <= m,
         h \in PointerHeap, g \in PointerHeap, k \in PointerHeap, LeftOf(h, g, n), LeftOf(g, k, m)
  PROVE  LeftOf(h, k, n)
<1>1. /\ h.refs \in [Objects -> Nat] /\ g.refs \in [Objects -> Nat] /\ k.refs \in [Objects -> Nat]
  BY HeapHas
<1>2. Objects \subseteq Nat
  BY ObjectsAre
<1>3. \A s \in SmartVar : k.ptr[s] = h.ptr[s]
  BY DEF LeftOf
<1>4. ASSUME NEW o \in Objects
      PROVE  k.refs[o] <= h.refs[o] /\ (o < n => k.refs[o] = h.refs[o])
  <2>1. g.refs[o] <= h.refs[o] /\ (o < n => g.refs[o] = h.refs[o])
    BY DEF LeftOf
  <2>2. k.refs[o] <= g.refs[o] /\ (o < m => k.refs[o] = g.refs[o])
    BY DEF LeftOf
  <2>3. h.refs[o] \in Nat /\ g.refs[o] \in Nat /\ k.refs[o] \in Nat /\ o \in Nat /\ n \in Nat /\ m \in Nat
    BY <1>1, <1>2
  <2> QED BY <2>1, <2>2, <2>3
<1>5. ASSUME NEW o \in Objects, k.refs[o] > 0
      PROVE  k.ptr[o] = h.ptr[o] /\ k.val[o] = h.val[o]
  <2>1. k.ptr[o] = g.ptr[o] /\ k.val[o] = g.val[o] /\ k.refs[o] <= g.refs[o]
    BY <1>5 DEF LeftOf
  <2>2. g.refs[o] > 0
    BY <1>1, <1>5, <2>1
  <2>3. g.ptr[o] = h.ptr[o] /\ g.val[o] = h.val[o]
    BY <2>2 DEF LeftOf
  <2> QED BY <2>1, <2>3
<1> QED BY <1>3, <1>4, <1>5 DEF LeftOf

(* Release is over within a step for each object.                           *)
LEMMA ReleaseIs ==
  ASSUME NEW h, NEW hand, NEW n \in Objects, Counted(h, hand, n), NEW g, g = PT!Release(h, n)
  PROVE  Counted(g, hand, 0) /\ LeftOf(h, g, n)
<1> DEFINE S == PT!ReleaseSteps(h, n)
           Fine(s) == /\ s = [h |-> s.h, next |-> s.next]
                      /\ Counted(s.h, hand, s.next)
           Left(s, k) == \/ k = 0 /\ s.h = h /\ s.next = n
                         \/ LeftOf(h, s.h, n) /\ (s.next = 0 \/ s.next >= n + k)
           T == {k \in Nat : k <= ObjectCount => Fine(S[k]) /\ Left(S[k], k)}
<1>0. ObjectCount \in Nat /\ Cardinality(Objects) = ObjectCount /\ Objects = 1..ObjectCount
  BY ObjectsAre
<1>1. /\ S[0] = [h |-> h, next |-> n]
      /\ \A k \in 1..ObjectCount : S[k] = PT!ReleaseStep(S[k - 1])
      /\ PT!Release(h, n) = S[ObjectCount].h
  BY <1>0, ReleaseStepsAre
<1>7. h \in PointerHeap
  BY DEF Counted
<1> HIDE DEF S
<1>2. 0 \in T
  BY <1>1
<1>3. ASSUME NEW k \in Nat, k \in T PROVE k + 1 \in T
  <2>1. SUFFICES ASSUME k + 1 <= ObjectCount PROVE Fine(S[k + 1]) /\ Left(S[k + 1], k + 1)
    OBVIOUS
  <2> DEFINE s == S[k]
             t == S[k + 1]
  <2>2. Fine(s) /\ Left(s, k)
    BY <1>0, <1>3, <2>1
  <2>3. t = PT!ReleaseStep(s)
    <3>1. k + 1 \in 1..ObjectCount /\ (k + 1) - 1 = k
      BY <1>0, <2>1
    <3> QED BY <1>1, <3>1
  <2>4. s = [h |-> s.h, next |-> s.next] /\ Counted(s.h, hand, s.next)
    BY <2>2
  <2>5. s.next \in Objects \cup {0} /\ s.h \in PointerHeap
    BY <2>4 DEF Counted
  <2> HIDE DEF s, t
  <2>6. CASE s.next = 0
    <3>1. t = s
      BY <2>3, <2>6 DEF PT!ReleaseStep
    <3>2. LeftOf(h, s.h, n)
      BY <1>0, <2>2, <2>6
    <3> QED BY <3>1, <3>2, <2>4, <2>6 DEF t
  <2>7. CASE s.next # 0
    <3>1. s.next \in Objects
      BY <2>5, <2>7
    <3>2. t = PT!ReleaseStep([h |-> s.h, next |-> s.next])
      BY <2>3, <2>4
    <3> DEFINE sh == s.h
               sn == s.next
    <3>3. sn \in Objects /\ Counted(sh, hand, sn) /\ t = PT!ReleaseStep([h |-> sh, next |-> sn])
      BY <3>1, <3>2, <2>4
    <3> HIDE DEF sh, sn
    <3>4. /\ t = [h |-> t.h, next |-> t.next]
          /\ Counted(t.h, hand, t.next) /\ LeftOf(sh, t.h, sn) /\ (t.next = 0 \/ t.next > sn)
      BY <3>3, ReleaseStepIs
    <3>5. t.h \in PointerHeap /\ t.next \in Objects \cup {0}
      BY <3>4 DEF Counted
    <3>6. n <= sn /\ sn >= n + k
      BY <2>2, <2>7, <3>1, <1>0 DEF sn
    <3>7. LeftOf(h, t.h, n)
      <4>1. CASE k = 0 /\ s.h = h /\ s.next = n
        BY <4>1, <3>4 DEF sh, sn
      <4>2. CASE LeftOf(h, s.h, n)
        <5>1. LeftOf(h, sh, n) /\ sh \in PointerHeap
          BY <4>2, <2>5 DEF sh
        <5> QED BY <5>1, <3>3, <3>4, <3>5, <3>6, <1>7, LeftOver
      <4> QED BY <4>1, <4>2, <2>2
    <3>8. t.next = 0 \/ t.next >= n + (k + 1)
      <4>1. sn \in Nat /\ n \in Nat /\ t.next \in Nat
        BY <3>3, <3>5, <1>0
      <4> QED BY <4>1, <3>4, <3>6
    <3> QED BY <3>4, <3>7, <3>8 DEF t
  <2> QED BY <2>6, <2>7
<1> HIDE DEF T
<1>4. ObjectCount \in T
  BY <1>0, <1>2, <1>3, SetInduction
<1>5. Fine(S[ObjectCount]) /\ Left(S[ObjectCount], ObjectCount)
  BY <1>0, <1>4 DEF T
<1> DEFINE s == S[ObjectCount]
<1>6. Counted(s.h, hand, s.next) /\ g = s.h
  BY <1>1, <1>5
<1>8. s.next \in Objects \cup {0}
  BY <1>6 DEF Counted
<1>9. LeftOf(h, s.h, n) /\ s.next = 0
  <2>1. ObjectCount # 0 /\ n \in Nat /\ n >= 1
    BY <1>0
  <2>2. LeftOf(h, s.h, n) /\ (s.next = 0 \/ s.next >= n + ObjectCount)
    BY <1>5, <2>1
  <2> QED BY <2>1, <2>2, <1>0, <1>8
<1> QED BY <1>6, <1>9

-----------------------------------------------------------------------------
(* A heap keeps what is asked when it has what is asked for, except that    *)
(* what is not there any more has nothing.                                  *)
Asked == [to : [Slots -> Objects \cup {0}], hand : [Objects -> Nat], val : [Objects -> Value]]
Keeping(h, a) == /\ a \in Asked /\ Counted(h, a.hand, 0)
                 /\ \A v \in SmartVar : h.ptr[v] = a.to[v]
                 /\ \A o \in Objects : h.refs[o] > 0 => h.ptr[o] = a.to[o] /\ h.val[o] = a.val[o]
Exactly(h, a) == a \in Asked /\ Counted(h, a.hand, 0) /\ h.ptr = a.to /\ h.val = a.val
There(h) == {o \in Objects : h.refs[o] > 0}

LEMMA AskedHas ==
  ASSUME NEW a \in Asked
  PROVE  /\ a.to \in [Slots -> Objects \cup {0}] /\ a.hand \in [Objects -> Nat] /\ a.val \in [Objects -> Value]
         /\ a = [to |-> a.to, hand |-> a.hand, val |-> a.val]
  BY DEF Asked

LEMMA ExactlyKeeps ==
  ASSUME NEW h, NEW a, Exactly(h, a)
  PROVE  Keeping(h, a)
  BY DEF Exactly, Keeping

(* What a pointer of a variable, or of an object that is there, leads to.   *)
LEMMA PointedIsThere ==
  ASSUME NEW h, NEW hand, Counted(h, hand, 0), NEW o \in Objects
  PROVE  /\ h.refs[o] \in Nat /\ h.refs[o] >= hand[o] /\ hand[o] \in Nat
         /\ \A s \in Slots : h.ptr[s] = o => h.refs[o] > hand[o]
         /\ h.refs[o] > hand[o] => \E s \in Slots : h.ptr[s] = o
<1>1. h \in PointerHeap /\ hand \in [Objects -> Nat]
  BY DEF Counted
<1>2. h.refs[o] \in Nat /\ hand[o] \in Nat /\ o # 0
  BY <1>1, HeapHas, ObjectsAre
<1>3. h.refs[o] = Cardinality(PointersTo(h, o)) + hand[o]
  <2>1. h.refs[o] = Cardinality(PointersTo(h, o)) + hand[o] + (IF o = 0 THEN 1 ELSE 0)
    BY DEF Counted
  <2>2. Cardinality(PointersTo(h, o)) \in Nat
    BY PointersFinite
  <2> QED BY <1>2, <2>1, <2>2
<1>4. IsFiniteSet(PointersTo(h, o)) /\ Cardinality(PointersTo(h, o)) \in Nat
  BY PointersFinite
<1>5. PointersTo(h, o) = {} <=> Cardinality(PointersTo(h, o)) = 0
  BY <1>4, FS_EmptySet
<1>6. \A s \in Slots : h.ptr[s] = o => s \in PointersTo(h, o)
  BY DEF PointersTo
<1>7. PointersTo(h, o) # {} => \E s \in Slots : h.ptr[s] = o
  BY DEF PointersTo
<1> QED BY <1>2, <1>3, <1>4, <1>5, <1>6, <1>7

LEMMA ThereIsClosed ==
  ASSUME NEW h, NEW a, Keeping(h, a)
  PROVE  Closed(a, There(h))
<1>1. a \in Asked /\ Counted(h, a.hand, 0)
  BY DEF Keeping
<1>2. h \in PointerHeap
  BY <1>1 DEF Counted
<1>3. h.ptr \in [Slots -> Objects \cup {0}] /\ Objects \subseteq Slots /\ SmartVar \subseteq Slots
  BY <1>2, HeapHas
<1>4. \A o \in Objects : /\ h.refs[o] \in Nat /\ h.refs[o] >= a.hand[o] /\ a.hand[o] \in Nat
                         /\ \A s \in Slots : h.ptr[s] = o => h.refs[o] > a.hand[o]
  BY <1>1, PointedIsThere
<1>5. Roots(a) \subseteq There(h)
  <2>1. SUFFICES ASSUME NEW o \in Objects, a.hand[o] > 0 \/ \E v \in SmartVar : a.to[v] = o
                 PROVE  h.refs[o] > 0
    BY DEF Roots, There
  <2>2. CASE a.hand[o] > 0
    BY <2>2, <1>4
  <2>3. CASE \E v \in SmartVar : a.to[v] = o
    <3>1. \E s \in Slots : h.ptr[s] = o
      BY <2>3, <1>3 DEF Keeping
    <3> QED BY <3>1, <1>4
  <2> QED BY <2>1, <2>2, <2>3
<1>6. ASSUME NEW o \in There(h)
      PROVE  a.to[o] \in There(h) \cup {0}
  <2>1. o \in Objects /\ h.refs[o] > 0
    BY DEF There
  <2>2. h.ptr[o] = a.to[o] /\ o \in Slots
    BY <2>1, <1>3 DEF Keeping
  <2>3. h.ptr[o] \in Objects \cup {0}
    BY <2>2, <1>3
  <2>4. CASE h.ptr[o] \in Objects
    <3>1. h.refs[h.ptr[o]] > a.hand[h.ptr[o]] /\ a.hand[h.ptr[o]] \in Nat /\ h.refs[h.ptr[o]] \in Nat
      BY <2>2, <2>4, <1>4
    <3> QED BY <3>1, <2>2, <2>4 DEF There
  <2> QED BY <2>2, <2>3, <2>4
<1> QED BY <1>5, <1>6 DEF Closed

(* What has a lower number has what points to it, so that the least object  *)
(* that a closed set does not have would have to be pointed to from it.     *)
LEMMA ClosedHasThere ==
  ASSUME NEW h, NEW a, Keeping(h, a), NEW T, Closed(a, T)
  PROVE  There(h) \subseteq T
<1>1. a \in Asked /\ Counted(h, a.hand, 0)
  BY DEF Keeping
<1>2. SUFFICES ASSUME There(h) \ T # {} PROVE FALSE
  OBVIOUS
<1>3. There(h) \ T \subseteq Nat
  BY ObjectsAre DEF There
<1>4. PICK m \in There(h) \ T : \A n \in There(h) \ T : m <= n
  <2> DEFINE D == There(h) \ T
  <2> HIDE DEF D
  <2>1. D \subseteq Nat /\ D # {}
    BY <1>2, <1>3 DEF D
  <2>2. \E m \in D : \A n \in D : m <= n
    BY <2>1, LeastNumber
  <2> QED BY <2>2 DEF D
<1>5. m \in Objects /\ h.refs[m] > 0 /\ m \notin T
  BY <1>4 DEF There
<1>6. /\ h.refs[m] \in Nat /\ a.hand[m] \in Nat
      /\ h.refs[m] > a.hand[m] => \E s \in Slots : h.ptr[s] = m
  BY <1>1, <1>5, PointedIsThere
<1>7. m \notin Roots(a)
  BY <1>5 DEF Closed
<1>8. ~(a.hand[m] > 0) /\ ~(\E v \in SmartVar : a.to[v] = m)
  BY <1>5, <1>7 DEF Roots
<1>9. PICK s \in Slots : h.ptr[s] = m
  BY <1>5, <1>6, <1>8
<1>10. s \in Objects
  BY <1>8, <1>9 DEF Keeping, Slots
<1>11. m # 0 /\ m \in Nat /\ s \in Nat
  BY <1>5, <1>10, ObjectsAre
<1>12. h.refs[s] # 0 /\ s < m /\ h.refs[s] \in Nat
  <2>1. h.refs[s] \in Nat
    BY <1>1, <1>10, PointedIsThere
  <2> QED BY <2>1, <1>1, <1>9, <1>10, <1>11 DEF Counted
<1>13. s \in There(h) /\ a.to[s] = m
  <2>1. h.refs[s] > 0
    BY <1>12
  <2> QED BY <2>1, <1>9, <1>10 DEF There, Keeping
<1>14. s \in T
  <2>1. ~(m <= s)
    BY <1>11, <1>12
  <2> QED BY <2>1, <1>4, <1>13
<1>15. m \in T \cup {0}
  BY <1>13, <1>14 DEF Closed
<1> QED BY <1>5, <1>11, <1>15

LEMMA ReachIs ==
  ASSUME NEW h, NEW a, Keeping(h, a)
  PROVE  Reach(a) = There(h)
<1>1. Closed(a, There(h)) /\ There(h) \subseteq Objects
  BY ThereIsClosed DEF There
<1>2. \A T \in SUBSET Objects : Closed(a, T) => There(h) \subseteq T
  BY ClosedHasThere
<1>3. Reach(a) = {o \in Objects : \A T \in SUBSET Objects : Closed(a, T) => o \in T}
  BY DEF Reach
<1> HIDE DEF Closed, There
<1> QED BY <1>1, <1>2, <1>3

LEMMA SweptIs ==
  ASSUME NEW h, NEW a, Keeping(h, a)
  PROVE  Exactly(h, Swept(a)) /\ Reach(a) = There(h)
<1>1. Reach(a) = There(h)
  BY ReachIs
<1>2. a \in Asked /\ Counted(h, a.hand, 0)
  BY DEF Keeping
<1>3. /\ a.to \in [Slots -> Objects \cup {0}] /\ a.hand \in [Objects -> Nat] /\ a.val \in [Objects -> Value]
      /\ a = [to |-> a.to, hand |-> a.hand, val |-> a.val]
  BY <1>2, AskedHas
<1> DEFINE L == There(h)
           to == [s \in Slots |-> IF s \in Objects \ L THEN 0 ELSE a.to[s]]
           val == [o \in Objects |-> IF o \in L THEN a.val[o] ELSE 0]
<1>4. Swept(a) = [to |-> to, hand |-> a.hand, val |-> val]
  <2>1. DOMAIN a.to = Slots
    BY <1>3
  <2>2. Swept(a) = [a EXCEPT !.to = to, !.val = val]
    BY <1>1, <2>1 DEF Swept
  <2> HIDE DEF to, val
  <2> QED BY <1>3, <2>2
<1>5. h \in PointerHeap
  BY <1>2 DEF Counted
<1>6. /\ h.ptr \in [Slots -> Objects \cup {0}] /\ h.refs \in [Objects -> Nat] /\ h.val \in [Objects -> Value]
      /\ Objects \subseteq Slots /\ SmartVar \subseteq Slots /\ 0 \in Value
  BY <1>5, HeapHas
<1>7. \A o \in Objects \ L : h.ptr[o] = 0 /\ h.val[o] = 0
  <2> TAKE o \in Objects \ L
  <2>1. h.refs[o] = 0
    BY <1>6 DEF There
  <2> QED BY <2>1, <1>2 DEF Counted
<1>8. \A o \in L : h.ptr[o] = a.to[o] /\ h.val[o] = a.val[o]
  BY DEF Keeping, There
<1>9. \A v \in SmartVar : h.ptr[v] = a.to[v] /\ v \notin Objects
  BY ObjectsAre DEF Keeping
<1>10. to = h.ptr
  <2>1. \A s \in Slots : to[s] = h.ptr[s]
    BY <1>7, <1>8, <1>9 DEF Slots
  <2>2. to = [s \in Slots |-> h.ptr[s]]
    BY <2>1
  <2> QED BY <2>2, <1>6
<1>11. val = h.val
  <2>1. \A o \in Objects : val[o] = h.val[o]
    BY <1>7, <1>8
  <2>2. val = [o \in Objects |-> h.val[o]]
    BY <2>1
  <2> QED BY <2>2, <1>6
<1>12. Swept(a) = [to |-> h.ptr, hand |-> a.hand, val |-> h.val]
  BY <1>4, <1>10, <1>11
<1>13. Exactly(h, Swept(a))
  BY <1>2, <1>3, <1>6, <1>12 DEF Exactly, Asked
<1> QED BY <1>1, <1>13

-----------------------------------------------------------------------------
(* Pointer s is turned to q, and what counts for that is counted.           *)
TurnedTo(a, b, s, q) == b \in Asked /\ b.to = [a.to EXCEPT ![s] = q] /\ b.val = a.val
Pays(h, a, refs, b, s, q) == \A o \in Objects :
  /\ refs[o] - b.hand[o] = h.refs[o] - a.hand[o] + (IF o = q THEN 1 ELSE 0) - (IF o = a.to[s] THEN 1 ELSE 0)
  /\ refs[o] > 0 <=> h.refs[o] > 0
MayTurn(h, s, q) == /\ s \in SmartVar \/ (s \in Objects /\ h.refs[s] > 0)
                    /\ q \in Objects \cup {0} /\ MayPoint(s, q)

Slotted(ptr, s, q) == [ptr EXCEPT ![s] = q]

LEMMA TurnedIs ==
  ASSUME NEW h, NEW a, Keeping(h, a), NEW s, NEW q, MayTurn(h, s, q),
         NEW refs \in [Objects -> Nat], NEW b, TurnedTo(a, b, s, q), Pays(h, a, refs, b, s, q),
         NEW g, g = Remade(h, Slotted(h.ptr, s, q), refs, h.val)
  PROVE  Keeping(g, b) /\ g.refs = refs /\ g.ptr = Slotted(h.ptr, s, q) /\ g.val = h.val
<1>1. a \in Asked /\ Counted(h, a.hand, 0)
  BY DEF Keeping
<1>2. h \in PointerHeap
  BY <1>1 DEF Counted
<1>3. /\ h.ptr \in [Slots -> Objects \cup {0}] /\ h.refs \in [Objects -> Nat] /\ h.val \in [Objects -> Value]
      /\ Objects \subseteq Slots /\ SmartVar \subseteq Slots /\ 0 \in Value
  BY <1>2, HeapHas
<1>4. s \in Slots /\ q \in Objects \cup {0}
  BY <1>3 DEF MayTurn
<1> DEFINE ptr == [h.ptr EXCEPT ![s] = q]
<1>5. ptr \in [Slots -> Objects \cup {0}] /\ ptr[s] = q /\ \A t \in Slots \ {s} : ptr[t] = h.ptr[t]
  BY <1>3, <1>4
<1>6. g = Remade(h, ptr, refs, h.val)
  BY DEF Slotted
<1> HIDE DEF ptr
<1>7. g \in PointerHeap /\ g.ptr = ptr /\ g.refs = refs /\ g.val = h.val
  <2> DEFINE val == h.val
  <2>1. val \in [Objects -> Value] /\ g = Remade(h, ptr, refs, val)
    BY <1>3, <1>6
  <2> HIDE DEF val
  <2>2. g \in PointerHeap /\ g.ptr = ptr /\ g.refs = refs /\ g.val = val
    BY <2>1, <1>2, <1>5, PointerHeapIs
  <2> QED BY <2>2 DEF val
<1>8. b \in Asked /\ b.val = a.val /\ b.to[s] = q /\ \A t \in Slots \ {s} : b.to[t] = a.to[t]
  <2>1. b \in Asked /\ b.val = a.val /\ b.to = [a.to EXCEPT ![s] = q]
    BY DEF TurnedTo
  <2>2. a.to \in [Slots -> Objects \cup {0}]
    BY <1>1, AskedHas
  <2> QED BY <2>1, <2>2, <1>4
<1>9. a.hand \in [Objects -> Nat] /\ b.hand \in [Objects -> Nat]
  BY <1>1, <1>8, AskedHas
<1>10. h.ptr[s] = a.to[s]
  BY DEF MayTurn, Keeping
<1>11. \A o \in Objects : g.refs[o] = Cardinality(PointersTo(g, o)) + b.hand[o] + (IF o = 0 THEN 1 ELSE 0)
  <2> TAKE o \in Objects
  <2>1. h.refs[o] = Cardinality(PointersTo(h, o)) + a.hand[o] + (IF o = 0 THEN 1 ELSE 0)
    BY <1>1 DEF Counted
  <2>2. Cardinality(PointersTo(g, o)) = Cardinality(PointersTo(h, o)) + (IF o = q THEN 1 ELSE 0) - (IF o = h.ptr[s] THEN 1 ELSE 0)
    <3>1. Repoints(h, g, s, q)
      BY <1>5, <1>7 DEF Repoints
    <3> QED BY <3>1, <1>3, <1>4, OnePointer
  <2>3. Cardinality(PointersTo(h, o)) \in Nat /\ o # 0
    BY ObjectsAre, PointersFinite
  <2>4. refs[o] - b.hand[o] = h.refs[o] - a.hand[o] + (IF o = q THEN 1 ELSE 0) - (IF o = a.to[s] THEN 1 ELSE 0)
    BY DEF Pays
  <2>5. refs[o] \in Nat /\ h.refs[o] \in Nat /\ a.hand[o] \in Nat /\ b.hand[o] \in Nat
    BY <1>3, <1>9
  <2> QED BY <2>1, <2>2, <2>3, <2>4, <2>5, <1>7, <1>10
<1>12. \A o \in Objects : g.refs[o] > 0 <=> h.refs[o] > 0
  BY <1>7 DEF Pays
<1>13. \A o \in Objects : g.refs[o] = 0 => g.ptr[o] = 0 /\ g.val[o] = 0
  <2> TAKE o \in Objects
  <2>1. HAVE g.refs[o] = 0
  <2>2. h.refs[o] = 0
    BY <2>1, <1>3, <1>12
  <2>3. o # s
    BY <2>2, ObjectsAre DEF MayTurn
  <2>4. h.ptr[o] = 0 /\ h.val[o] = 0
    BY <2>2, <1>1 DEF Counted
  <2> QED BY <2>3, <2>4, <1>3, <1>5, <1>7
<1>14. \A o \in Objects : g.ptr[o] = 0 \/ o < g.ptr[o]
  <2> TAKE o \in Objects
  <2>1. CASE o = s
    <3>1. q = 0 \/ s < q
      BY <2>1, ObjectsAre DEF MayTurn, MayPoint
    <3> QED BY <2>1, <3>1, <1>5, <1>7
  <2>2. CASE o # s
    BY <2>2, <1>1, <1>3, <1>5, <1>7 DEF Counted
  <2> QED BY <2>1, <2>2
<1>15. Counted(g, b.hand, 0)
  BY <1>7, <1>9, <1>11, <1>13, <1>14 DEF Counted
<1>16. \A v \in SmartVar : g.ptr[v] = b.to[v]
  BY <1>3, <1>5, <1>7, <1>8 DEF Keeping
<1>17. \A o \in Objects : g.refs[o] > 0 => g.ptr[o] = b.to[o] /\ g.val[o] = b.val[o]
  <2> TAKE o \in Objects
  <2>1. HAVE g.refs[o] > 0
  <2>2. h.ptr[o] = a.to[o] /\ h.val[o] = a.val[o]
    BY <2>1, <1>12 DEF Keeping
  <2> QED BY <2>2, <1>3, <1>5, <1>7, <1>8
<1>18. Keeping(g, b)
  BY <1>8, <1>15, <1>16, <1>17 DEF Keeping
<1> QED BY <1>7, <1>18 DEF ptr, Slotted

(* What is held in a hand is let go.                                        *)
Fewer(h, g, n) == \A o \in Objects : /\ g.refs[o] \in Nat /\ h.refs[o] \in Nat /\ g.refs[o] <= h.refs[o]
                                     /\ o < n => g.refs[o] = h.refs[o]

LEMMA LetGoIs ==
  ASSUME NEW h, NEW a, Keeping(h, a), NEW n \in Objects, a.hand[n] > 0, NEW g, g = PT!Release(h, n),
         NEW b \in Asked, b.to = a.to, b.val = a.val, b.hand = [a.hand EXCEPT ![n] = @ - 1]
  PROVE  Keeping(g, b) /\ Fewer(h, g, n)
<1>1. a \in Asked /\ Counted(h, a.hand, 0)
  BY DEF Keeping
<1>2. h \in PointerHeap /\ n # 0
  BY <1>1, ObjectsAre DEF Counted
<1>3. a.hand \in [Objects -> Nat] /\ b.hand \in [Objects -> Nat]
  BY <1>1, AskedHas
<1>4. \A o \in Objects : h.refs[o] = Cardinality(PointersTo(h, o)) + b.hand[o] + (IF o = n THEN 1 ELSE 0)
  <2> TAKE o \in Objects
  <2>1. h.refs[o] = Cardinality(PointersTo(h, o)) + a.hand[o] + (IF o = 0 THEN 1 ELSE 0)
    BY <1>1 DEF Counted
  <2>2. Cardinality(PointersTo(h, o)) \in Nat /\ o # 0 /\ a.hand[o] \in Nat
    BY <1>3, ObjectsAre, PointersFinite
  <2>3. b.hand[o] = IF o = n THEN a.hand[o] - 1 ELSE a.hand[o]
    BY <1>3
  <2> QED BY <2>1, <2>2, <2>3
<1>5. Counted(h, b.hand, n)
  BY <1>1, <1>3, <1>4 DEF Counted
<1> DEFINE hand == b.hand
<1>6. Counted(h, hand, n)
  BY <1>5
<1> HIDE DEF hand
<1>7. Counted(g, hand, 0) /\ LeftOf(h, g, n)
  BY <1>6, ReleaseIs
<1>8. g \in PointerHeap /\ g.refs \in [Objects -> Nat] /\ h.refs \in [Objects -> Nat]
  <2>1. g \in PointerHeap
    BY <1>7 DEF Counted
  <2> QED BY <2>1, <1>2, HeapHas
<1>9. Fewer(h, g, n)
  BY <1>7, <1>8 DEF Fewer, LeftOf
<1>10. \A v \in SmartVar : g.ptr[v] = b.to[v]
  BY <1>7 DEF LeftOf, Keeping
<1>11. \A o \in Objects : g.refs[o] > 0 => g.ptr[o] = b.to[o] /\ g.val[o] = b.val[o]
  <2> TAKE o \in Objects
  <2>1. HAVE g.refs[o] > 0
  <2>2. g.ptr[o] = h.ptr[o] /\ g.val[o] = h.val[o] /\ g.refs[o] <= h.refs[o]
    BY <2>1, <1>7 DEF LeftOf
  <2>3. h.refs[o] > 0
    BY <2>1, <2>2, <1>8
  <2> QED BY <2>2, <2>3 DEF Keeping
<1> QED BY <1>7, <1>9, <1>10, <1>11 DEF Keeping, hand

LEMMA SameHeap ==
  ASSUME NEW h \in PointerHeap, NEW g \in PointerHeap, h.ptr = g.ptr, h.refs = g.refs, h.val = g.val
  PROVE  h = g
  BY DEF PointerHeap

LEMMA AttachIs ==
  ASSUME NEW h \in PointerHeap, NEW s, NEW o
  PROVE  /\ PT!AttachPtr(h, s, o) = Remade(h, [h.ptr EXCEPT ![s] = o], h.refs, h.val)
         /\ PT!ClearPtr(h, s) = Remade(h, [h.ptr EXCEPT ![s] = 0], h.refs, h.val)
         /\ PT!DetachPtr(h, s) = Remade(h, [h.ptr EXCEPT ![s] = 0], h.refs, h.val)
<1>1. h = [ptr |-> h.ptr, refs |-> h.refs, val |-> h.val]
  BY DEF PointerHeap
<1>2. ASSUME NEW p PROVE Remade(h, p, h.refs, h.val) = [h EXCEPT !.ptr = p]
  BY <1>1 DEF Remade
<1>3. PT!AttachPtr(h, s, o) = Remade(h, [h.ptr EXCEPT ![s] = o], h.refs, h.val)
  BY <1>2 DEF PT!AttachPtr
<1>4. PT!ClearPtr(h, s) = Remade(h, [h.ptr EXCEPT ![s] = 0], h.refs, h.val)
  BY <1>2 DEF PT!ClearPtr
<1> QED BY <1>3, <1>4 DEF PT!DetachPtr

LEMMA AddRefIs ==
  ASSUME NEW h \in PointerHeap, NEW o
  PROVE  PT!AddRef(h, o) = Remade(h, h.ptr, [h.refs EXCEPT ![o] = @ + 1], h.val)
<1>1. h = [ptr |-> h.ptr, refs |-> h.refs, val |-> h.val]
  BY DEF PointerHeap
<1> QED BY <1>1 DEF PT!AddRef, Remade

(* What a pointer lets go may take more with it, but not what is its own.   *)
NoMore(h, g) == \A o \in Objects : g.refs[o] \in Nat /\ h.refs[o] \in Nat /\ g.refs[o] <= h.refs[o]

LEMMA ReleasePtrIs ==
  ASSUME NEW h, NEW a, Keeping(h, a), NEW s, MayTurn(h, s, 0), NEW g, g = PT!ReleasePtr(h, s),
         NEW b, TurnedTo(a, b, s, 0), b.hand = a.hand
  PROVE  Keeping(g, b) /\ NoMore(h, g) /\ MayTurn(g, s, 0) /\ g.ptr[s] = 0
<1>1. a \in Asked /\ Counted(h, a.hand, 0) /\ b \in Asked
  BY DEF Keeping, TurnedTo
<1>2. h \in PointerHeap
  BY <1>1 DEF Counted
<1>3. /\ h.ptr \in [Slots -> Objects \cup {0}] /\ h.refs \in [Objects -> Nat] /\ h.val \in [Objects -> Value]
      /\ Objects \subseteq Slots /\ SmartVar \subseteq Slots /\ 0 \in Value
  BY <1>2, HeapHas
<1>4. s \in Slots /\ h.ptr[s] = a.to[s] /\ h.ptr[s] \in Objects \cup {0}
  BY <1>3 DEF MayTurn, Keeping
<1>5. a.to \in [Slots -> Objects \cup {0}] /\ a.hand \in [Objects -> Nat] /\ a.val \in [Objects -> Value]
  BY <1>1, AskedHas
<1>6. b.to = [a.to EXCEPT ![s] = 0] /\ b.val = a.val
  BY DEF TurnedTo
<1>7. CASE h.ptr[s] = 0
  <2>1. g = h
    BY <1>7 DEF PT!ReleasePtr, PT!isValidPtr
  <2>2. b.to = a.to
    <3>1. \A t \in Slots : b.to[t] = a.to[t]
      BY <1>4, <1>5, <1>6, <1>7
    <3> QED BY <3>1, <1>1, <1>5, AskedHas
  <2>3. Keeping(h, b)
    <3>1. Counted(h, b.hand, 0)
      BY <1>1
    <3> QED BY <3>1, <2>2, <1>1, <1>6 DEF Keeping
  <2>4. NoMore(h, h)
    BY <1>3 DEF NoMore
  <2> QED BY <2>1, <2>3, <2>4, <1>7
<1>8. CASE h.ptr[s] # 0
  <2> DEFINE p == h.ptr[s]
             mid == PT!ClearPtr(h, s)
             hand == [a.hand EXCEPT ![p] = @ + 1]
             c == [to |-> b.to, hand |-> hand, val |-> b.val]
             refs == h.refs
  <2>1. p \in Objects /\ p = a.to[s]
    BY <1>4, <1>8
  <2>2. g = PT!Release(mid, p)
    BY <1>8 DEF PT!ReleasePtr, PT!isValidPtr
  <2>3. mid = Remade(h, Slotted(h.ptr, s, 0), refs, h.val)
    BY <1>2, AttachIs DEF Slotted
  <2>4. hand \in [Objects -> Nat] /\ hand[p] = a.hand[p] + 1 /\ \A o \in Objects \ {p} : hand[o] = a.hand[o]
    BY <2>1, <1>5
  <2>5. c.to = b.to /\ c.hand = hand /\ c.val = b.val
    OBVIOUS
  <2>6. c \in Asked
    BY <1>1, <2>4, AskedHas DEF Asked
  <2> HIDE DEF c, p, mid
  <2>7. TurnedTo(a, c, s, 0)
    BY <2>5, <2>6, <1>6 DEF TurnedTo
  <2>8. Pays(h, a, refs, c, s, 0)
    <3>1. ASSUME NEW o \in Objects
          PROVE  refs[o] - c.hand[o] = h.refs[o] - a.hand[o] + (IF o = 0 THEN 1 ELSE 0) - (IF o = a.to[s] THEN 1 ELSE 0)
      <4>1. c.hand[o] = IF o = p THEN a.hand[o] + 1 ELSE a.hand[o]
        BY <2>4, <2>5
      <4>2. refs[o] \in Nat /\ a.hand[o] \in Nat /\ o # 0 /\ refs[o] = h.refs[o]
        BY <1>3, <1>5, ObjectsAre
      <4> HIDE DEF refs
      <4> QED BY <4>1, <4>2, <2>1
    <3> QED BY <3>1 DEF Pays
  <2>9. refs \in [Objects -> Nat]
    BY <1>3
  <2> HIDE DEF refs
  <2>10. Keeping(mid, c) /\ mid.refs = refs
    BY <2>3, <2>7, <2>8, <2>9, TurnedIs
  <2>11. c.hand[p] > 0 /\ b.hand = [c.hand EXCEPT ![p] = @ - 1]
    <3>1. c.hand[p] = a.hand[p] + 1 /\ a.hand[p] \in Nat
      BY <2>1, <2>4, <2>5, <1>5
    <3> DEFINE less == [c.hand EXCEPT ![p] = @ - 1]
    <3>2. less \in [Objects -> Int] /\ \A o \in Objects : less[o] = a.hand[o]
      BY <2>1, <2>4, <2>5, <1>5
    <3>3. less = a.hand
      BY <3>2, <1>5
    <3> QED BY <3>1, <3>3
  <2>12. Keeping(g, b) /\ Fewer(mid, g, p)
    BY <2>1, <2>2, <2>5, <2>10, <2>11, <1>1, LetGoIs
  <2>13. NoMore(h, g)
    BY <2>12, <2>10 DEF Fewer, NoMore, refs
  <2>14. s \in Objects => g.refs[s] = h.refs[s]
    <3>1. SUFFICES ASSUME s \in Objects PROVE g.refs[s] = h.refs[s]
      OBVIOUS
    <3>2. s < p
      BY <3>1, <1>1, <1>8 DEF Counted, p
    <3> QED BY <3>1, <3>2, <2>10, <2>12 DEF Fewer, refs
  <2>15. MayTurn(g, s, 0)
    BY <2>14 DEF MayTurn
  <2>16. g.ptr[s] = 0
    <3>1. g.ptr[s] = b.to[s]
      BY <2>12, <2>15 DEF MayTurn, Keeping
    <3> QED BY <3>1, <1>4, <1>5, <1>6
  <2> QED BY <2>12, <2>13, <2>15, <2>16
<1> QED BY <1>7, <1>8

(* What is new is in the hand of its maker.                                 *)
LEMMA NewObjectIs ==
  ASSUME NEW h, NEW a, Exactly(h, a), NEW o \in Objects, h.refs[o] = 0, NEW e \in Value,
         NEW g, g = PT!NewObject(h, o, e),
         NEW b \in Asked, b.to = a.to, b.hand = [a.hand EXCEPT ![o] = 1], b.val = [a.val EXCEPT ![o] = e]
  PROVE  Exactly(g, b) /\ g.ptr = h.ptr /\ g.refs = [h.refs EXCEPT ![o] = 1]
<1>1. a \in Asked /\ Counted(h, a.hand, 0) /\ h.ptr = a.to /\ h.val = a.val
  BY DEF Exactly
<1>2. h \in PointerHeap
  BY <1>1 DEF Counted
<1>3. /\ h.ptr \in [Slots -> Objects \cup {0}] /\ h.refs \in [Objects -> Nat] /\ h.val \in [Objects -> Value]
  BY <1>2, HeapHas
<1> DEFINE refs == [h.refs EXCEPT ![o] = 1]
           val == [h.val EXCEPT ![o] = e]
           ptr == h.ptr
<1>4. refs \in [Objects -> Nat] /\ refs[o] = 1 /\ \A q \in Objects \ {o} : refs[q] = h.refs[q]
  BY <1>3
<1>5. val \in [Objects -> Value] /\ \A q \in Objects \ {o} : val[q] = h.val[q]
  BY <1>3
<1>6. g = Remade(h, ptr, refs, val)
  <2>1. h = [ptr |-> h.ptr, refs |-> h.refs, val |-> h.val]
    BY <1>2 DEF PointerHeap
  <2> QED BY <2>1 DEF PT!NewObject, Remade
<1>7. ptr \in [Slots -> Objects \cup {0}]
  BY <1>3
<1> HIDE DEF refs, val, ptr
<1>8. g \in PointerHeap /\ g.ptr = ptr /\ g.refs = refs /\ g.val = val
  BY <1>2, <1>4, <1>5, <1>6, <1>7, PointerHeapIs
<1>9. a.hand \in [Objects -> Nat] /\ b.hand \in [Objects -> Nat]
  BY <1>1, AskedHas
<1>10. \A q \in Objects : g.refs[q] = Cardinality(PointersTo(g, q)) + b.hand[q] + (IF q = 0 THEN 1 ELSE 0)
  <2> TAKE q \in Objects
  <2>1. h.refs[q] = Cardinality(PointersTo(h, q)) + a.hand[q] + (IF q = 0 THEN 1 ELSE 0)
    BY <1>1 DEF Counted
  <2>2. PointersTo(g, q) = PointersTo(h, q)
    BY <1>8 DEF PointersTo, ptr
  <2>3. Cardinality(PointersTo(h, q)) \in Nat /\ q # 0 /\ a.hand[q] \in Nat /\ h.refs[q] \in Nat
    BY <1>3, <1>9, ObjectsAre, PointersFinite
  <2>4. b.hand[q] = IF q = o THEN 1 ELSE a.hand[q]
    BY <1>9
  <2>5. g.refs[q] = IF q = o THEN 1 ELSE h.refs[q]
    BY <1>4, <1>8
  <2> QED BY <2>1, <2>2, <2>3, <2>4, <2>5
<1>11. \A q \in Objects : g.refs[q] = 0 => g.ptr[q] = 0 /\ g.val[q] = 0
  BY <1>1, <1>4, <1>5, <1>8 DEF Counted, ptr
<1>12. \A q \in Objects : g.ptr[q] = 0 \/ q < g.ptr[q]
  BY <1>1, <1>8 DEF Counted, ptr
<1>13. Counted(g, b.hand, 0)
  BY <1>8, <1>9, <1>10, <1>11, <1>12 DEF Counted
<1> QED BY <1>1, <1>8, <1>13 DEF Exactly, ptr, val, refs

LEMMA AttachedIs ==
  ASSUME NEW h \in PointerHeap, NEW s \in Slots, NEW q \in Objects \cup {0}
  PROVE  LET g == PT!AttachPtr(h, s, q)
         IN g \in PointerHeap /\ g.ptr = Slotted(h.ptr, s, q) /\ g.refs = h.refs /\ g.val = h.val
<1> DEFINE ptr == Slotted(h.ptr, s, q)
           refs == h.refs
           val == h.val
<1>1. ptr \in [Slots -> Objects \cup {0}] /\ refs \in [Objects -> Nat] /\ val \in [Objects -> Value]
  BY HeapHas DEF Slotted
<1>2. PT!AttachPtr(h, s, q) = Remade(h, ptr, refs, val)
  BY AttachIs DEF Slotted
<1> HIDE DEF ptr, refs, val
<1>3. LET g == PT!AttachPtr(h, s, q) IN g \in PointerHeap /\ g.ptr = ptr /\ g.refs = refs /\ g.val = val
  BY <1>1, <1>2, PointerHeapIs
<1> QED BY <1>3 DEF ptr, refs, val

LEMMA CountedUp ==
  ASSUME NEW h \in PointerHeap, NEW q \in Objects
  PROVE  LET g == PT!AddRef(h, q)
         IN g \in PointerHeap /\ g.ptr = h.ptr /\ g.refs = [h.refs EXCEPT ![q] = @ + 1] /\ g.val = h.val
<1> DEFINE ptr == h.ptr
           refs == [h.refs EXCEPT ![q] = @ + 1]
           val == h.val
<1>1. ptr \in [Slots -> Objects \cup {0}] /\ refs \in [Objects -> Nat] /\ val \in [Objects -> Value]
  BY HeapHas
<1>2. PT!AddRef(h, q) = Remade(h, ptr, refs, val)
  BY AddRefIs
<1> HIDE DEF ptr, refs, val
<1>3. LET g == PT!AddRef(h, q) IN g \in PointerHeap /\ g.ptr = ptr /\ g.refs = refs /\ g.val = val
  BY <1>1, <1>2, PointerHeapIs
<1> QED BY <1>3 DEF ptr, refs, val

LEMMA KeepingHas ==
  ASSUME NEW h, NEW a, Keeping(h, a)
  PROVE  /\ h \in PointerHeap /\ a \in Asked
         /\ h.ptr \in [Slots -> Objects \cup {0}] /\ h.refs \in [Objects -> Nat] /\ h.val \in [Objects -> Value]
         /\ a.to \in [Slots -> Objects \cup {0}] /\ a.hand \in [Objects -> Nat] /\ a.val \in [Objects -> Value]
         /\ Objects \subseteq Slots /\ SmartVar \subseteq Slots
         /\ \A o \in Objects : a.hand[o] <= h.refs[o]
<1>1. h \in PointerHeap /\ a \in Asked /\ Counted(h, a.hand, 0)
  BY DEF Keeping, Counted
<1>2. \A o \in Objects : a.hand[o] <= h.refs[o]
  BY <1>1, PointedIsThere
<1>3. /\ h.ptr \in [Slots -> Objects \cup {0}] /\ h.refs \in [Objects -> Nat] /\ h.val \in [Objects -> Value]
      /\ Objects \subseteq Slots /\ SmartVar \subseteq Slots
  BY <1>1, HeapHas
<1>4. a.to \in [Slots -> Objects \cup {0}] /\ a.hand \in [Objects -> Nat] /\ a.val \in [Objects -> Value]
  BY <1>1, AskedHas
<1> QED BY <1>1, <1>2, <1>3, <1>4

LEMMA TurnHas ==
  ASSUME NEW h, NEW a, Keeping(h, a), NEW s, NEW q, MayTurn(h, s, q)
  PROVE  s \in Slots /\ q \in Objects \cup {0} /\ h.ptr[s] = a.to[s]
<1>1. s \in SmartVar \/ (s \in Objects /\ h.refs[s] > 0)
  BY DEF MayTurn
<1>2. q \in Objects \cup {0} /\ s \in Slots
  BY <1>1 DEF MayTurn, Slots
<1>3. h.ptr[s] = a.to[s]
  BY <1>1 DEF Keeping
<1> QED BY <1>2, <1>3

(* From hand to pointer, and back.                                          *)
LEMMA HandedOver ==
  ASSUME NEW h, NEW a, Keeping(h, a), NEW s, NEW q, MayTurn(h, s, q), q # 0, a.to[s] = 0, a.hand[q] > 0,
         NEW g, g = PT!AttachPtr(h, s, q), NEW b, TurnedTo(a, b, s, q), b.hand = [a.hand EXCEPT ![q] = @ - 1]
  PROVE  Keeping(g, b) /\ g.refs = h.refs
<1>1. /\ h \in PointerHeap /\ a \in Asked
      /\ h.ptr \in [Slots -> Objects \cup {0}] /\ h.refs \in [Objects -> Nat] /\ h.val \in [Objects -> Value]
      /\ a.hand \in [Objects -> Nat]
  BY KeepingHas
<1>2. s \in Slots /\ q \in Objects
  BY TurnHas
<1> DEFINE refs == h.refs
<1>3. g = Remade(h, Slotted(h.ptr, s, q), refs, h.val)
  BY <1>1, AttachIs DEF Slotted
<1>4. refs \in [Objects -> Nat] /\ \A o \in Objects : refs[o] = h.refs[o]
  BY <1>1
<1> HIDE DEF refs
<1>5. Pays(h, a, refs, b, s, q)
  <2>1. ASSUME NEW o \in Objects
        PROVE  refs[o] - b.hand[o] = h.refs[o] - a.hand[o] + (IF o = q THEN 1 ELSE 0) - (IF o = a.to[s] THEN 1 ELSE 0)
    <3>1. b.hand[o] = IF o = q THEN a.hand[o] - 1 ELSE a.hand[o]
      BY <1>1
    <3>2. refs[o] \in Nat /\ a.hand[o] \in Nat /\ o # 0 /\ refs[o] = h.refs[o]
      BY <1>1, <1>4, ObjectsAre
    <3> QED BY <3>1, <3>2
  <2> QED BY <2>1, <1>4 DEF Pays
<1> QED BY <1>3, <1>4, <1>5, TurnedIs DEF refs

LEMMA TakenOut ==
  ASSUME NEW h, NEW a, Keeping(h, a), NEW s, MayTurn(h, s, 0), NEW q, q = a.to[s], q # 0,
         NEW g, g = PT!ClearPtr(h, s), NEW b, TurnedTo(a, b, s, 0), b.hand = [a.hand EXCEPT ![q] = @ + 1]
  PROVE  Keeping(g, b) /\ g.refs = h.refs
<1>1. /\ h \in PointerHeap /\ a \in Asked
      /\ h.ptr \in [Slots -> Objects \cup {0}] /\ h.refs \in [Objects -> Nat] /\ h.val \in [Objects -> Value]
      /\ a.hand \in [Objects -> Nat] /\ a.to \in [Slots -> Objects \cup {0}]
  BY KeepingHas
<1>2. s \in Slots /\ q \in Objects
  <2>1. s \in Slots
    BY TurnHas
  <2> QED BY <2>1, <1>1
<1> DEFINE refs == h.refs
<1>3. g = Remade(h, Slotted(h.ptr, s, 0), refs, h.val)
  BY <1>1, AttachIs DEF Slotted
<1>4. refs \in [Objects -> Nat] /\ \A o \in Objects : refs[o] = h.refs[o]
  BY <1>1
<1> HIDE DEF refs
<1>5. Pays(h, a, refs, b, s, 0)
  <2>1. ASSUME NEW o \in Objects
        PROVE  refs[o] - b.hand[o] = h.refs[o] - a.hand[o] + (IF o = 0 THEN 1 ELSE 0) - (IF o = a.to[s] THEN 1 ELSE 0)
    <3>1. b.hand[o] = IF o = q THEN a.hand[o] + 1 ELSE a.hand[o]
      BY <1>1
    <3>2. refs[o] \in Nat /\ a.hand[o] \in Nat /\ o # 0 /\ refs[o] = h.refs[o]
      BY <1>1, <1>4, ObjectsAre
    <3> QED BY <3>1, <3>2
  <2> QED BY <2>1, <1>4 DEF Pays
<1> QED BY <1>3, <1>4, <1>5, TurnedIs DEF refs

(* One more pointer to what is counted.                                     *)
LEMMA SharedIs ==
  ASSUME NEW h, NEW a, Keeping(h, a), NEW s, NEW q, MayTurn(h, s, q), q # 0, a.to[s] = 0, h.refs[q] > 0,
         NEW b, TurnedTo(a, b, s, q), b.hand = a.hand
  PROVE  /\ Keeping(PT!AttachPtr(PT!AddRef(h, q), s, q), b)
         /\ PT!AddRef(PT!AttachPtr(h, s, q), q) = PT!AttachPtr(PT!AddRef(h, q), s, q)
<1>1. /\ h \in PointerHeap /\ a \in Asked
      /\ h.ptr \in [Slots -> Objects \cup {0}] /\ h.refs \in [Objects -> Nat] /\ h.val \in [Objects -> Value]
      /\ a.hand \in [Objects -> Nat]
  BY KeepingHas
<1>2. s \in Slots /\ q \in Objects
  BY TurnHas
<1> DEFINE refs == [h.refs EXCEPT ![q] = @ + 1]
           ptr == Slotted(h.ptr, s, q)
           val == h.val
           g == Remade(h, ptr, refs, val)
           up == PT!AddRef(h, q)
           to == PT!AttachPtr(h, s, q)
<1>3. refs \in [Objects -> Nat] /\ \A o \in Objects : refs[o] = h.refs[o] + (IF o = q THEN 1 ELSE 0)
  BY <1>1, <1>2
<1>4. ptr \in [Slots -> Objects \cup {0}] /\ val \in [Objects -> Value]
  BY <1>1, <1>2 DEF Slotted
<1>5. up \in PointerHeap /\ up.ptr = h.ptr /\ up.refs = refs /\ up.val = val
  BY <1>1, <1>2, CountedUp
<1>6. to \in PointerHeap /\ to.ptr = ptr /\ to.refs = h.refs /\ to.val = val
  BY <1>1, <1>2, AttachedIs
<1>7. g \in PointerHeap /\ g.ptr = ptr /\ g.refs = refs /\ g.val = val
  <2> HIDE DEF ptr, refs, val
  <2> QED BY <1>1, <1>3, <1>4, PointerHeapIs
<1> HIDE DEF g, up, to
<1>8. PT!AttachPtr(up, s, q) = g
  <2> DEFINE k == PT!AttachPtr(up, s, q)
  <2>1. k \in PointerHeap /\ k.ptr = Slotted(up.ptr, s, q) /\ k.refs = up.refs /\ k.val = up.val
    BY <1>2, <1>5, AttachedIs
  <2> HIDE DEF k
  <2>2. k = g
    BY <2>1, <1>5, <1>7, SameHeap
  <2> QED BY <2>2 DEF k
<1>9. PT!AddRef(to, q) = g
  <2> DEFINE k == PT!AddRef(to, q)
  <2>1. k \in PointerHeap /\ k.ptr = to.ptr /\ k.refs = [to.refs EXCEPT ![q] = @ + 1] /\ k.val = to.val
    BY <1>2, <1>6, CountedUp
  <2> HIDE DEF k
  <2>2. k = g
    BY <2>1, <1>6, <1>7, SameHeap
  <2> QED BY <2>2 DEF k
<1>10. Keeping(g, b)
  <2> HIDE DEF refs
  <2>1. ASSUME NEW o \in Objects
        PROVE  /\ refs[o] - b.hand[o] = h.refs[o] - a.hand[o] + (IF o = q THEN 1 ELSE 0) - (IF o = a.to[s] THEN 1 ELSE 0)
               /\ refs[o] > 0 <=> h.refs[o] > 0
    <3>1. refs[o] = h.refs[o] + (IF o = q THEN 1 ELSE 0) /\ b.hand[o] = a.hand[o]
      BY <1>3
    <3>2. h.refs[o] \in Nat /\ a.hand[o] \in Nat /\ o # 0
      BY <1>1, ObjectsAre
    <3> QED BY <3>1, <3>2
  <2>2. Pays(h, a, refs, b, s, q)
    BY <2>1 DEF Pays
  <2>3. g = Remade(h, Slotted(h.ptr, s, q), refs, h.val)
    BY DEF g
  <2> QED BY <2>2, <2>3, <1>3, TurnedIs
<1> QED BY <1>8, <1>9, <1>10 DEF up, to

LEMMA AttachedNull ==
  ASSUME NEW h \in PointerHeap, NEW s \in Slots, h.ptr[s] = 0
  PROVE  PT!AttachPtr(h, s, 0) = h /\ PT!ClearPtr(h, s) = h
<1> DEFINE g == PT!AttachPtr(h, s, 0)
<1>1. g \in PointerHeap /\ g.ptr = Slotted(h.ptr, s, 0) /\ g.refs = h.refs /\ g.val = h.val
  BY AttachedIs
<1>2. Slotted(h.ptr, s, 0) = h.ptr
  BY HeapHas DEF Slotted
<1>3. PT!ClearPtr(h, s) = g
  BY DEF PT!ClearPtr, PT!AttachPtr
<1> HIDE DEF g
<1>4. g = h
  BY <1>1, <1>2, SameHeap
<1> QED BY <1>3, <1>4 DEF g

LEMMA TurnedSame ==
  ASSUME NEW h, NEW a, Keeping(h, a), NEW s \in Slots, NEW b, TurnedTo(a, b, s, a.to[s]), b.hand = a.hand
  PROVE  Keeping(h, b)
<1>1. b \in Asked /\ b.to = [a.to EXCEPT ![s] = a.to[s]] /\ b.val = a.val
  BY DEF TurnedTo
<1>2. b.to = a.to
  BY <1>1, KeepingHas
<1> QED BY <1>1, <1>2 DEF Keeping

LEMMA NoMoreIs ==
  ASSUME NEW h, NEW a, Keeping(h, a)
  PROVE  NoMore(h, h)
<1>1. h.refs \in [Objects -> Nat]
  BY KeepingHas
<1> QED BY <1>1 DEF NoMore

(* A pointer lets go of what it had, before it points to q.                 *)
LEMMA LetsGo ==
  ASSUME NEW h, NEW a, Keeping(h, a), NEW s, NEW q, MayTurn(h, s, q), NEW g, g = PT!ReleasePtr(h, s)
  PROVE  \E c : /\ TurnedTo(a, c, s, 0) /\ c.hand = a.hand /\ Keeping(g, c) /\ c.to[s] = 0 /\ g.ptr[s] = 0
                /\ NoMore(h, g) /\ MayTurn(g, s, q)
                /\ \A b : TurnedTo(a, b, s, q) => TurnedTo(c, b, s, q)
<1> DEFINE c == [to |-> [a.to EXCEPT ![s] = 0], hand |-> a.hand, val |-> a.val]
<1>1. /\ a \in Asked /\ a.hand \in [Objects -> Nat] /\ a.to \in [Slots -> Objects \cup {0}] /\ a.val \in [Objects -> Value]
  BY KeepingHas
<1>2. s \in Slots
  BY TurnHas
<1>3. c.to = [a.to EXCEPT ![s] = 0] /\ c.hand = a.hand /\ c.val = a.val
  OBVIOUS
<1>4. c \in Asked /\ c.to[s] = 0
  BY <1>1, <1>2 DEF Asked
<1> HIDE DEF c
<1>5. TurnedTo(a, c, s, 0)
  BY <1>3, <1>4 DEF TurnedTo
<1>6. MayTurn(h, s, 0)
  BY DEF MayTurn, MayPoint
<1>7. Keeping(g, c) /\ NoMore(h, g) /\ MayTurn(g, s, 0) /\ g.ptr[s] = 0
  BY <1>3, <1>5, <1>6, ReleasePtrIs
<1>8. MayTurn(g, s, q)
  BY <1>7 DEF MayTurn
<1>9. ASSUME NEW b, TurnedTo(a, b, s, q)
      PROVE  TurnedTo(c, b, s, q)
  <2>1. b \in Asked /\ b.to = [a.to EXCEPT ![s] = q] /\ b.val = a.val
    BY <1>9 DEF TurnedTo
  <2>2. [a.to EXCEPT ![s] = q] = [c.to EXCEPT ![s] = q]
    BY <1>1, <1>2, <1>3
  <2> QED BY <2>1, <2>2, <1>3 DEF TurnedTo
<1> QED BY <1>3, <1>4, <1>5, <1>7, <1>8, <1>9

LEMMA AssignPtrIs ==
  ASSUME NEW h, NEW a, Keeping(h, a), NEW s, NEW o, MayTurn(h, s, o),
         o # 0 => a.hand[o] > 0 /\ h.refs[o] <= 1, NEW g, g = PT!AssignPtr(h, s, o),
         NEW b, TurnedTo(a, b, s, o), b.hand = IF o = 0 THEN a.hand ELSE [a.hand EXCEPT ![o] = @ - 1]
  PROVE  Keeping(g, b) /\ NoMore(h, g)
<1>1. s \in Slots /\ o \in Objects \cup {0} /\ h.ptr[s] = a.to[s]
  BY TurnHas
<1>2. NoMore(h, h)
  BY NoMoreIs
<1>3. CASE h.ptr[s] = o
  <2>1. g = h
    BY <1>3 DEF PT!AssignPtr, PT!IsEqual
  <2>2. o = 0
    <3>1. SUFFICES ASSUME o \in Objects PROVE FALSE
      BY <1>1
    <3>2. o # 0
      BY <3>1, ObjectsAre
    <3>3. Counted(h, a.hand, 0)
      BY DEF Keeping
    <3>4. h.refs[o] \in Nat /\ a.hand[o] \in Nat /\ h.refs[o] > a.hand[o]
      BY <1>1, <1>3, <3>1, <3>3, PointedIsThere
    <3> QED BY <3>2, <3>4
  <2>3. TurnedTo(a, b, s, a.to[s]) /\ b.hand = a.hand
    BY <1>1, <1>3, <2>2
  <2>4. Keeping(h, b)
    BY <1>1, <2>3, TurnedSame
  <2> QED BY <2>1, <2>4, <1>2
<1>4. CASE h.ptr[s] # o
  <2> DEFINE gone == PT!ReleasePtr(h, s)
  <2>1. g = PT!AttachPtr(gone, s, o)
    BY <1>4 DEF PT!AssignPtr, PT!IsEqual
  <2> HIDE DEF gone
  <2>2. PICK c : /\ TurnedTo(a, c, s, 0) /\ c.hand = a.hand /\ Keeping(gone, c) /\ c.to[s] = 0 /\ gone.ptr[s] = 0
                 /\ NoMore(h, gone) /\ MayTurn(gone, s, o)
                 /\ \A d : TurnedTo(a, d, s, o) => TurnedTo(c, d, s, o)
    BY LetsGo DEF gone
  <2>3. TurnedTo(c, b, s, o)
    BY <2>2
  <2>4. CASE o = 0
    <3>1. gone \in PointerHeap
      BY <2>2, KeepingHas
    <3>2. g = gone
      BY <2>1, <2>2, <2>4, <3>1, <1>1, AttachedNull
    <3>3. Keeping(gone, b)
      <4>1. TurnedTo(c, b, s, c.to[s]) /\ b.hand = c.hand
        BY <2>2, <2>3, <2>4
      <4> QED BY <4>1, <2>2, <1>1, TurnedSame
    <3> QED BY <3>2, <3>3, <2>2
  <2>5. CASE o # 0
    <3>1. c.hand[o] > 0 /\ b.hand = [c.hand EXCEPT ![o] = @ - 1]
      BY <2>2, <2>5
    <3>2. Keeping(g, b) /\ g.refs = gone.refs
      BY <2>1, <2>2, <2>3, <2>5, <3>1, HandedOver
    <3> QED BY <3>2, <2>2 DEF NoMore
  <2> QED BY <2>4, <2>5
<1> QED BY <1>3, <1>4

LEMMA put_PtrIs ==
  ASSUME NEW h, NEW a, Keeping(h, a), NEW s, NEW o, MayTurn(h, s, o),
         o # 0 => o = a.to[s] \/ PT!ReleasePtr(h, s).refs[o] > 0, NEW g, g = PT!put_Ptr(h, s, o),
         NEW b, TurnedTo(a, b, s, o), b.hand = a.hand
  PROVE  Keeping(g, b)
<1>1. s \in Slots /\ o \in Objects \cup {0} /\ h.ptr[s] = a.to[s]
  BY TurnHas
<1>2. CASE h.ptr[s] = o
  <2>1. g = h
    BY <1>2 DEF PT!put_Ptr, PT!IsEqual
  <2>2. TurnedTo(a, b, s, a.to[s])
    BY <1>1, <1>2
  <2> QED BY <1>1, <2>1, <2>2, TurnedSame
<1>3. CASE h.ptr[s] # o
  <2> DEFINE gone == PT!ReleasePtr(h, s)
             to == PT!AttachPtr(gone, s, o)
  <2>1. g = IF to.ptr[s] # 0 THEN PT!AddRef(to, to.ptr[s]) ELSE to
    BY <1>3 DEF PT!put_Ptr, PT!IsEqual, PT!IncRefFirst, PT!isValidPtr
  <2>2. o # 0 => gone.refs[o] > 0
    BY <1>1, <1>3
  <2> HIDE DEF gone
  <2>3. PICK c : /\ TurnedTo(a, c, s, 0) /\ c.hand = a.hand /\ Keeping(gone, c) /\ c.to[s] = 0 /\ gone.ptr[s] = 0
                 /\ NoMore(h, gone) /\ MayTurn(gone, s, o)
                 /\ \A d : TurnedTo(a, d, s, o) => TurnedTo(c, d, s, o)
    BY LetsGo DEF gone
  <2>4. TurnedTo(c, b, s, o) /\ b.hand = c.hand
    BY <2>3
  <2>5. gone \in PointerHeap /\ gone.ptr \in [Slots -> Objects \cup {0}]
    BY <2>3, KeepingHas
  <2>6. to.ptr[s] = o
    <3>1. to.ptr = Slotted(gone.ptr, s, o)
      BY <2>5, <1>1, AttachedIs
    <3> QED BY <3>1, <2>5, <1>1 DEF Slotted
  <2>7. CASE o = 0
    <3>1. g = gone
      BY <2>1, <2>3, <2>5, <2>6, <2>7, <1>1, AttachedNull
    <3>2. TurnedTo(c, b, s, c.to[s])
      BY <2>3, <2>4, <2>7
    <3> QED BY <3>1, <3>2, <2>3, <2>4, <1>1, TurnedSame
  <2>8. CASE o # 0
    <3>1. g = PT!AddRef(PT!AttachPtr(gone, s, o), o)
      BY <2>1, <2>6, <2>8
    <3>2. /\ Keeping(PT!AttachPtr(PT!AddRef(gone, o), s, o), b)
          /\ PT!AddRef(PT!AttachPtr(gone, s, o), o) = PT!AttachPtr(PT!AddRef(gone, o), s, o)
      BY <2>2, <2>3, <2>4, <2>8, SharedIs
    <3> QED BY <3>1, <3>2
  <2> QED BY <2>7, <2>8
<1> QED BY <1>2, <1>3

LEMMA SetQIIs ==
  ASSUME NEW h, NEW a, Keeping(h, a), NEW s, NEW o, MayTurn(h, s, o), NEW has \in BOOLEAN,
         o # 0 => PT!ReleasePtr(h, s).refs[o] > 0, NEW g, g = PT!SetQI(h, s, o, has),
         NEW b, TurnedTo(a, b, s, IF has THEN o ELSE 0), b.hand = a.hand
  PROVE  Keeping(g, b)
<1> DEFINE gone == PT!ReleasePtr(h, s)
<1>1. g = IF o = 0 \/ ~has THEN gone ELSE PT!AttachPtr(PT!AddRef(gone, o), s, o)
  BY DEF PT!SetQI
<1> HIDE DEF gone
<1>2. s \in Slots /\ o \in Objects \cup {0}
  BY TurnHas
<1>3. CASE o = 0 \/ ~has
  <2>1. MayTurn(h, s, 0) /\ TurnedTo(a, b, s, 0)
    BY <1>3 DEF MayTurn, MayPoint
  <2>2. Keeping(gone, b)
    BY <2>1, ReleasePtrIs DEF gone
  <2> QED BY <2>2, <1>1, <1>3
<1>4. CASE o # 0 /\ has
  <2>1. PICK c : /\ TurnedTo(a, c, s, 0) /\ c.hand = a.hand /\ Keeping(gone, c) /\ c.to[s] = 0 /\ gone.ptr[s] = 0
                 /\ NoMore(h, gone) /\ MayTurn(gone, s, o)
                 /\ \A d : TurnedTo(a, d, s, o) => TurnedTo(c, d, s, o)
    BY LetsGo DEF gone
  <2>2. TurnedTo(c, b, s, o) /\ b.hand = c.hand /\ gone.refs[o] > 0
    BY <1>4, <2>1 DEF gone
  <2>3. Keeping(PT!AttachPtr(PT!AddRef(gone, o), s, o), b)
    BY <1>4, <2>1, <2>2, SharedIs
  <2> QED BY <2>3, <1>1, <1>4
<1> QED BY <1>3, <1>4

LEMMA TwoPointers ==
  ASSUME NEW h, NEW a, Keeping(h, a), NEW s \in Slots, NEW t \in Slots, s # t, h.ptr[s] = h.ptr[t],
         \A o \in Objects : h.refs[o] <= 1
  PROVE  h.ptr[s] = 0
<1>1. /\ h.ptr \in [Slots -> Objects \cup {0}] /\ h.refs \in [Objects -> Nat] /\ a.hand \in [Objects -> Nat]
  BY KeepingHas
<1>2. SUFFICES ASSUME h.ptr[s] # 0 PROVE FALSE
  OBVIOUS
<1> DEFINE p == h.ptr[s]
<1>3. p \in Objects
  BY <1>1, <1>2
<1>4. h.refs[p] = Cardinality(PointersTo(h, p)) + a.hand[p] + (IF p = 0 THEN 1 ELSE 0)
  BY <1>3 DEF Keeping, Counted
<1>5. s \in PointersTo(h, p) /\ t \in PointersTo(h, p) \ {s}
  BY DEF PointersTo
<1> HIDE DEF p
<1>6. IsFiniteSet(PointersTo(h, p)) /\ Cardinality(PointersTo(h, p)) \in Nat
  BY PointersFinite
<1>7. IsFiniteSet(PointersTo(h, p) \ {s}) /\ Cardinality(PointersTo(h, p) \ {s}) = Cardinality(PointersTo(h, p)) - 1
  BY <1>5, <1>6, FS_RemoveElement
<1>8. Cardinality(PointersTo(h, p) \ {s}) # 0 /\ Cardinality(PointersTo(h, p) \ {s}) \in Nat
  BY <1>5, <1>7, FS_EmptySet, FS_CardinalityType
<1>9. h.refs[p] <= 1 /\ h.refs[p] \in Nat /\ a.hand[p] \in Nat /\ p # 0
  BY <1>1, <1>2, <1>3 DEF p
<1> QED BY <1>4, <1>6, <1>7, <1>8, <1>9

LEMMA SwapIs ==
  ASSUME NEW h \in PointerHeap, NEW s \in Slots, NEW t \in Slots, s # t, NEW p \in Objects \cup {0}
  PROVE  PT!ClearPtr(PT!AttachPtr(h, s, p), t) = PT!AttachPtr(PT!ClearPtr(h, t), s, p)
<1> DEFINE g == PT!AttachPtr(h, s, p)
           k == PT!AttachPtr(h, t, 0)
           g2 == PT!AttachPtr(g, t, 0)
           k2 == PT!AttachPtr(k, s, p)
<1>1. g \in PointerHeap /\ g.ptr = Slotted(h.ptr, s, p) /\ g.refs = h.refs /\ g.val = h.val
  BY AttachedIs
<1>2. k \in PointerHeap /\ k.ptr = Slotted(h.ptr, t, 0) /\ k.refs = h.refs /\ k.val = h.val
  BY AttachedIs
<1>3. PT!ClearPtr(g, t) = g2 /\ PT!ClearPtr(h, t) = k
  BY DEF PT!ClearPtr, PT!AttachPtr
<1> HIDE DEF g, k
<1>4. g2 \in PointerHeap /\ g2.ptr = Slotted(g.ptr, t, 0) /\ g2.refs = g.refs /\ g2.val = g.val
  BY <1>1, AttachedIs
<1>5. k2 \in PointerHeap /\ k2.ptr = Slotted(k.ptr, s, p) /\ k2.refs = k.refs /\ k2.val = k.val
  BY <1>2, AttachedIs
<1> HIDE DEF g2, k2
<1>6. Slotted(Slotted(h.ptr, s, p), t, 0) = Slotted(Slotted(h.ptr, t, 0), s, p)
  BY HeapHas DEF Slotted
<1>7. g2 = k2
  BY <1>1, <1>2, <1>4, <1>5, <1>6, SameHeap
<1> QED BY <1>3, <1>7 DEF g, k, k2

LEMMA MovePtrIs ==
  ASSUME NEW h, NEW a, Keeping(h, a), NEW s, NEW t, MayTurn(h, s, a.to[t]), MayTurn(h, t, 0),
         t \in Objects => PT!ReleasePtr(h, s).refs[t] > 0,
         \A o \in Objects : h.refs[o] <= 1, NEW g, g = PT!MovePtr(h, s, t),
         NEW b \in Asked, b.hand = a.hand, b.val = a.val,
         b.to = IF s = t THEN a.to ELSE [a.to EXCEPT ![t] = 0, ![s] = a.to[t]]
  PROVE  Keeping(g, b) /\ NoMore(h, g)
<1>1. s \in Slots /\ t \in Slots /\ h.ptr[s] = a.to[s] /\ h.ptr[t] = a.to[t] /\ a.to[t] \in Objects \cup {0}
  BY TurnHas
<1>2. NoMore(h, h)
  BY NoMoreIs
<1>3. a.to \in [Slots -> Objects \cup {0}] /\ a.hand \in [Objects -> Nat]
  BY KeepingHas
<1>4. CASE h.ptr[s] = h.ptr[t]
  <2>1. g = h
    BY <1>4 DEF PT!MovePtr, PT!IsEqual
  <2>2. b.to = a.to
    <3>1. CASE s = t
      BY <3>1
    <3>2. CASE s # t
      <4>1. h.ptr[s] = 0
        BY <1>1, <1>4, <3>2, TwoPointers
      <4>2. b.to = [a.to EXCEPT ![t] = 0, ![s] = a.to[t]] /\ a.to[s] = 0 /\ a.to[t] = 0
        BY <1>1, <1>4, <3>2, <4>1
      <4> QED BY <4>2, <1>1, <1>3
    <3> QED BY <3>1, <3>2
  <2>3. Keeping(h, b)
    BY <2>2 DEF Keeping
  <2> QED BY <2>1, <2>3, <1>2
<1>5. CASE h.ptr[s] # h.ptr[t]
  <2> DEFINE gone == PT!ReleasePtr(h, s)
             p == a.to[t]
  <2>1. g = PT!ClearPtr(PT!AttachPtr(gone, s, gone.ptr[t]), t)
    BY <1>5 DEF PT!MovePtr, PT!IsEqual
  <2>2. t \in Objects => gone.refs[t] > 0
    OBVIOUS
  <2> HIDE DEF gone, p
  <2>3. MayTurn(h, s, p) /\ p \in Objects \cup {0} /\ s # t
    BY <1>1, <1>5 DEF p
  <2>4. PICK c : /\ TurnedTo(a, c, s, 0) /\ c.hand = a.hand /\ Keeping(gone, c) /\ c.to[s] = 0 /\ gone.ptr[s] = 0
                 /\ NoMore(h, gone) /\ MayTurn(gone, s, p)
                 /\ \A d : TurnedTo(a, d, s, p) => TurnedTo(c, d, s, p)
    BY <2>3, LetsGo DEF gone
  <2>5. c.to = [a.to EXCEPT ![s] = 0] /\ c.val = a.val /\ c.to \in [Slots -> Objects \cup {0}] /\ c.val \in [Objects -> Value]
    BY <2>4, KeepingHas DEF TurnedTo
  <2>6. MayTurn(gone, t, 0)
    BY <2>2 DEF MayTurn
  <2>7. gone.ptr[t] = p /\ c.to[t] = p
    <3>1. gone.ptr[t] = c.to[t]
      BY <2>4, <2>6, TurnHas
    <3>2. c.to[t] = a.to[t]
      BY <1>1, <1>3, <2>3, <2>5
    <3> QED BY <3>1, <3>2 DEF p
  <2>8. gone \in PointerHeap
    BY <2>4, KeepingHas
  <2> DEFINE out == PT!ClearPtr(gone, t)
  <2>9. g = PT!AttachPtr(out, s, p)
    BY <1>1, <2>1, <2>3, <2>7, <2>8, SwapIs
  <2> HIDE DEF out
  <2>10. b.to = [a.to EXCEPT ![t] = 0, ![s] = p]
    BY <2>3 DEF p
  <2>11. CASE p = 0
    <3>1. out = gone
      BY <1>1, <2>7, <2>8, <2>11, AttachedNull DEF out
    <3>2. g = gone
      BY <1>1, <2>4, <2>8, <2>9, <2>11, <3>1, AttachedNull
    <3>3. b.to = c.to
      <4>1. a.to[t] = 0
        BY <2>11 DEF p
      <4> QED BY <4>1, <1>1, <1>3, <2>5, <2>10, <2>11
    <3>4. Keeping(gone, b)
      BY <2>4, <2>5, <3>3 DEF Keeping
    <3> QED BY <3>2, <3>4, <2>4
  <2>12. CASE p # 0
    <3> DEFINE hand == [a.hand EXCEPT ![p] = @ + 1]
               d == [to |-> [c.to EXCEPT ![t] = 0], hand |-> hand, val |-> c.val]
    <3>1. p \in Objects
      BY <2>3, <2>12
    <3>2. hand \in [Objects -> Nat] /\ hand[p] > 0
      BY <1>3, <3>1
    <3>3. d.to = [c.to EXCEPT ![t] = 0] /\ d.hand = hand /\ d.val = c.val
      OBVIOUS
    <3>4. d \in Asked
      <4>1. [c.to EXCEPT ![t] = 0] \in [Slots -> Objects \cup {0}]
        BY <2>5, <1>1
      <4> QED BY <4>1, <3>2, <2>5 DEF Asked
    <3> HIDE DEF d
    <3>5. TurnedTo(c, d, t, 0)
      BY <3>3, <3>4 DEF TurnedTo
    <3>6. d.hand = [c.hand EXCEPT ![p] = @ + 1]
      BY <2>4, <3>3
    <3>7. Keeping(out, d) /\ out.refs = gone.refs
      BY <2>4, <2>6, <2>7, <2>12, <3>5, <3>6, TakenOut DEF out
    <3>8. MayTurn(out, s, p)
      BY <2>4, <3>7 DEF MayTurn
    <3>9. TurnedTo(d, b, s, p)
      <4>1. b.to = [d.to EXCEPT ![s] = p]
        BY <1>1, <1>3, <2>3, <2>5, <2>10, <3>3
      <4> QED BY <4>1, <2>5, <3>3 DEF TurnedTo
    <3>10. d.to[s] = 0
      BY <1>1, <2>3, <2>4, <2>5, <3>3
    <3>11. b.hand = [d.hand EXCEPT ![p] = @ - 1]
      <4>1. \A o \in Objects : hand[o] = IF o = p THEN a.hand[o] + 1 ELSE a.hand[o]
        BY <1>3, <3>1
      <4>2. [hand EXCEPT ![p] = @ - 1] \in [Objects -> Int]
            /\ \A o \in Objects : [hand EXCEPT ![p] = @ - 1][o] = a.hand[o]
        <5> HIDE DEF hand
        <5> QED BY <1>3, <3>1, <3>2, <4>1
      <4>3. [hand EXCEPT ![p] = @ - 1] = a.hand
        BY <4>2, <1>3
      <4> QED BY <4>3, <3>3
    <3>12. d.hand[p] > 0
      BY <3>2, <3>3
    <3>13. Keeping(g, b) /\ g.refs = out.refs
      BY <2>9, <2>12, <3>7, <3>8, <3>9, <3>10, <3>11, <3>12, HandedOver, SMTT(60)
    <3> QED BY <3>7, <3>13, <2>4 DEF NoMore
  <2> QED BY <2>11, <2>12
<1> QED BY <1>4, <1>5

-----------------------------------------------------------------------------
One(h) == \A o \in Objects : h.refs[o] <= 1
PtrInv(h, a, owned) == Exactly(h, a) /\ (owned => One(h))

(* The parts of what is asked that an action changes.                       *)
LEMMA Retold ==
  ASSUME NEW a \in Asked, NEW s \in Slots, NEW o \in Objects \cup {0},
         NEW b, b = [a EXCEPT !.to[s] = o]
  PROVE  TurnedTo(a, b, s, o) /\ b.hand = a.hand /\ b \in Asked
<1>1. /\ a.to \in [Slots -> Objects \cup {0}] /\ a.hand \in [Objects -> Nat] /\ a.val \in [Objects -> Value]
      /\ a = [to |-> a.to, hand |-> a.hand, val |-> a.val]
  BY AskedHas
<1>2. b.to = [a.to EXCEPT ![s] = o] /\ b.hand = a.hand /\ b.val = a.val
  BY <1>1
<1>3. b = [to |-> b.to, hand |-> b.hand, val |-> b.val]
  BY <1>1
<1>4. b.to \in [Slots -> Objects \cup {0}]
  BY <1>1, <1>2
<1>5. b \in Asked
  BY <1>1, <1>2, <1>3, <1>4 DEF Asked
<1> QED BY <1>2, <1>5 DEF TurnedTo

Handed(a, o, n) == [a EXCEPT !.hand[o] = n]
Valued(a, o, e) == [a EXCEPT !.val[o] = e]

LEMMA Rehanded ==
  ASSUME NEW a \in Asked, NEW o \in Objects, NEW n \in Nat, NEW b, b = Handed(a, o, n)
  PROVE  b \in Asked /\ b.to = a.to /\ b.val = a.val /\ b.hand = [a.hand EXCEPT ![o] = n]
<1>1. /\ a.to \in [Slots -> Objects \cup {0}] /\ a.hand \in [Objects -> Nat] /\ a.val \in [Objects -> Value]
      /\ a = [to |-> a.to, hand |-> a.hand, val |-> a.val]
  BY AskedHas
<1>2. b.hand = [a.hand EXCEPT ![o] = n] /\ b.to = a.to /\ b.val = a.val
  BY <1>1 DEF Handed
<1>3. b = [to |-> b.to, hand |-> b.hand, val |-> b.val]
  BY <1>1 DEF Handed
<1>4. b.hand \in [Objects -> Nat]
  BY <1>1, <1>2
<1> QED BY <1>1, <1>2, <1>3, <1>4 DEF Asked

LEMMA Revalued ==
  ASSUME NEW a \in Asked, NEW o \in Objects, NEW e \in Value, NEW b, b = Valued(a, o, e)
  PROVE  b \in Asked /\ b.to = a.to /\ b.hand = a.hand /\ b.val = [a.val EXCEPT ![o] = e]
<1>1. /\ a.to \in [Slots -> Objects \cup {0}] /\ a.hand \in [Objects -> Nat] /\ a.val \in [Objects -> Value]
      /\ a = [to |-> a.to, hand |-> a.hand, val |-> a.val]
  BY AskedHas
<1>2. b.val = [a.val EXCEPT ![o] = e] /\ b.to = a.to /\ b.hand = a.hand
  BY <1>1 DEF Valued
<1>3. b = [to |-> b.to, hand |-> b.hand, val |-> b.val]
  BY <1>1 DEF Valued
<1>4. b.val \in [Objects -> Value]
  BY <1>1, <1>2
<1> QED BY <1>1, <1>2, <1>3, <1>4 DEF Asked

(* The state, and what an action may ask of it.                             *)
LEMMA Now ==
  ASSUME NEW one, PtrInv(x, r, one)
  PROVE  /\ Keeping(x, r) /\ r \in Asked /\ Reach(r) = There(x)
         /\ \A o \in Objects : /\ x.refs[o] \in Nat /\ r.hand[o] \in Nat /\ r.hand[o] <= x.refs[o]
                               /\ o \in Reach(r) <=> x.refs[o] > 0
                               /\ o \notin Reach(r) => x.refs[o] = 0 /\ r.hand[o] = 0
<1>1. Keeping(x, r)
  BY ExactlyKeeps DEF PtrInv
<1>2. Reach(r) = There(x)
  BY <1>1, ReachIs
<1>3. /\ x.refs \in [Objects -> Nat] /\ r.hand \in [Objects -> Nat] /\ r \in Asked
      /\ \A o \in Objects : r.hand[o] <= x.refs[o]
  BY <1>1, KeepingHas
<1>4. \A o \in Objects : o \in Reach(r) <=> x.refs[o] > 0
  BY <1>2 DEF There
<1>5. ASSUME NEW o \in Objects
      PROVE  /\ x.refs[o] \in Nat /\ r.hand[o] \in Nat /\ r.hand[o] <= x.refs[o]
             /\ o \notin Reach(r) => x.refs[o] = 0 /\ r.hand[o] = 0
  BY <1>3, <1>4
<1> QED BY <1>1, <1>2, <1>3, <1>4, <1>5

LEMMA SlotTurns ==
  ASSUME NEW one, PtrInv(x, r, one), NEW s \in Slot, NEW q \in Objects \cup {0}, MayPoint(s, q)
  PROVE  MayTurn(x, s, q) /\ MayTurn(x, s, 0) /\ s \in Slots
<1>1. Reach(r) = There(x)
  BY Now
<1> QED BY <1>1 DEF MayTurn, MayPoint, Slot, There, Slots

LEMMA ToIs ==
  ASSUME NEW one, PtrInv(x, r, one), NEW s \in Slots, NEW q \in Objects \cup {0}
  PROVE  TurnedTo(r, To(s, q), s, q) /\ To(s, q).hand = r.hand /\ To(s, q) \in Asked
<1>1. r \in Asked
  BY Now
<1> DEFINE b == To(s, q)
<1>2. b = [r EXCEPT !.to[s] = q]
  BY DEF To
<1> HIDE DEF b
<1>3. TurnedTo(r, b, s, q) /\ b.hand = r.hand /\ b \in Asked
  BY <1>1, <1>2, Retold
<1> QED BY <1>3 DEF b

LEMMA KeepsIs ==
  ASSUME NEW one, PtrInv(x, r, one), NEW s \in Slot, NEW o \in Objects, Keeps(s, o)
  PROVE  PT!ReleasePtr(x, s).refs[o] > 0
<1>1. Keeping(x, r)
  BY Now
<1>2. MayTurn(x, s, 0) /\ s \in Slots
  <2>1. MayPoint(s, 0) /\ 0 \in Objects \cup {0}
    BY DEF MayPoint
  <2> QED BY <2>1, SlotTurns
<1> DEFINE b == To(s, 0)
           g == PT!ReleasePtr(x, s)
<1>3. TurnedTo(r, b, s, 0) /\ b.hand = r.hand
  BY <1>2, ToIs
<1> HIDE DEF b, g
<1>4. Keeping(g, b)
  BY <1>1, <1>2, <1>3, ReleasePtrIs DEF g
<1>5. o \in Reach(b)
  BY ObjectsAre DEF Keeps, b
<1>6. Reach(b) = There(g)
  BY <1>4, ReachIs
<1> QED BY <1>5, <1>6 DEF There, g

(* An action that turns x to h and is asked for a.                          *)
LEMMA PointsKeep ==
  ASSUME NEW h, NEW a, Keeping(h, a), NEW one, one => One(h)
  PROVE  PtrInv(h, Swept(a), one)
  BY SweptIs DEF PtrInv

LEMMA FewerOwners ==
  ASSUME NEW h, NEW g, NoMore(h, g), One(h)
  PROVE  One(g)
<1> SUFFICES ASSUME NEW o \in Objects PROVE g.refs[o] <= 1
  BY DEF One
<1>1. g.refs[o] \in Nat /\ h.refs[o] \in Nat /\ g.refs[o] <= h.refs[o] /\ h.refs[o] <= 1
  BY DEF NoMore, One
<1> QED BY <1>1

Owned == kind = "owned"

(* Points is what every action on pointers ends with.                       *)
LEMMA PointsIs ==
  ASSUME NEW h, NEW a, Points(h, a)
  PROVE  x' = h /\ r' = Swept(a) /\ kind' = kind
  BY DEF Points, Do

LEMMA NewObjectStep ==
  ASSUME PtrInv(x, r, Owned), NewObject
  PROVE  PtrInv(x', r', Owned) /\ kind' = kind
<1> DEFINE A(o, e) == [r EXCEPT !.hand[o] = 1, !.val[o] = e]
<1>1. PICK o \in Objects \ Reach(r), e \in Item : Points(PT!NewObject(x, o, e), A(o, e))
  BY DEF NewObject
<1>2. x' = PT!NewObject(x, o, e) /\ r' = Swept(A(o, e)) /\ kind' = kind
  BY <1>1 DEF Points, Do
<1>3. e \in Value /\ x.refs[o] = 0 /\ r.hand[o] = 0 /\ r \in Asked /\ o \in Objects
  BY Now, HeadsAssumption DEF Value
<1> DEFINE a == A(o, e)
           h == PT!NewObject(x, o, e)
           m == Handed(r, o, 1)
<1>4. a = Valued(m, o, e)
  <2>1. r = [to |-> r.to, hand |-> r.hand, val |-> r.val]
    BY <1>3, AskedHas
  <2> QED BY <2>1 DEF Handed, Valued
<1> HIDE DEF h, m, a
<1>5. m \in Asked /\ m.to = r.to /\ m.val = r.val /\ m.hand = [r.hand EXCEPT ![o] = 1]
  BY <1>3, Rehanded DEF m
<1>6. a \in Asked /\ a.to = m.to /\ a.hand = m.hand /\ a.val = [m.val EXCEPT ![o] = e]
  BY <1>3, <1>4, <1>5, Revalued
<1>7. Exactly(x, r)
  BY DEF PtrInv
<1>8. Exactly(h, a) /\ h.refs = [x.refs EXCEPT ![o] = 1]
  BY <1>3, <1>5, <1>6, <1>7, NewObjectIs DEF h
<1>9. Keeping(h, a)
  BY <1>8, ExactlyKeeps
<1>10. Owned => One(h)
  <2>1. x.refs \in [Objects -> Nat]
    BY Now, KeepingHas
  <2> QED BY <2>1, <1>8 DEF PtrInv, One
<1>11. PtrInv(h, Swept(a), Owned)
  <2> HIDE DEF Owned
  <2> QED BY <1>9, <1>10, PointsKeep
<1> QED BY <1>2, <1>11 DEF h, a

LEMMA LetGoStep ==
  ASSUME PtrInv(x, r, Owned), LetGo
  PROVE  PtrInv(x', r', Owned) /\ kind' = kind
<1>1. PICK o \in Objects : r.hand[o] > 0 /\ Points(PT!Release(x, o), [r EXCEPT !.hand[o] = @ - 1])
  BY DEF LetGo
<1>2. x' = PT!Release(x, o) /\ r' = Swept([r EXCEPT !.hand[o] = @ - 1]) /\ kind' = kind
  BY <1>1 DEF Points, Do
<1>3. Keeping(x, r) /\ r \in Asked /\ r.hand[o] \in Nat
  BY Now
<1> DEFINE h == PT!Release(x, o)
           n == r.hand[o] - 1
           a == Handed(r, o, n)
<1>4. r' = Swept(a)
  BY <1>2 DEF Handed
<1>5. n \in Nat
  BY <1>1, <1>3
<1> HIDE DEF h, a
<1>6. a \in Asked /\ a.to = r.to /\ a.val = r.val /\ a.hand = [r.hand EXCEPT ![o] = n]
  <2> HIDE DEF n
  <2> QED BY <1>3, <1>5, Rehanded DEF a
<1>7. Keeping(h, a) /\ Fewer(x, h, o)
  BY <1>1, <1>3, <1>6, LetGoIs DEF h
<1>8. NoMore(x, h)
  BY <1>7 DEF Fewer, NoMore
<1>9. Owned => One(h)
  BY <1>8, FewerOwners DEF PtrInv
<1>10. PtrInv(h, Swept(a), Owned)
  <2> HIDE DEF Owned
  <2> QED BY <1>7, <1>9, PointsKeep
<1> QED BY <1>2, <1>4, <1>10 DEF h

LEMMA ReleasePtrStep ==
  ASSUME PtrInv(x, r, Owned), ReleasePtr
  PROVE  PtrInv(x', r', Owned) /\ kind' = kind
<1>1. PICK s \in Slot : Points(PT!ReleasePtr(x, s), To(s, 0))
  BY DEF ReleasePtr
<1> DEFINE h == PT!ReleasePtr(x, s)
           a == To(s, 0)
<1>2. x' = h /\ r' = Swept(a) /\ kind' = kind
  BY <1>1 DEF Points, Do
<1>3. Keeping(x, r)
  BY Now
<1>4. MayTurn(x, s, 0) /\ s \in Slots
  <2>1. MayPoint(s, 0) /\ 0 \in Objects \cup {0}
    BY DEF MayPoint
  <2> QED BY <2>1, SlotTurns
<1>5. TurnedTo(r, a, s, 0) /\ a.hand = r.hand
  BY <1>4, ToIs
<1> HIDE DEF h, a
<1>6. Keeping(h, a) /\ NoMore(x, h)
  BY <1>3, <1>4, <1>5, ReleasePtrIs DEF h
<1>7. Owned => One(h)
  BY <1>6, FewerOwners DEF PtrInv
<1>8. PtrInv(h, Swept(a), Owned)
  <2> HIDE DEF Owned
  <2> QED BY <1>6, <1>7, PointsKeep
<1> QED BY <1>2, <1>8

LEMMA DetachPtrStep ==
  ASSUME PtrInv(x, r, Owned), DetachPtr
  PROVE  PtrInv(x', r', Owned) /\ kind' = kind
<1>1. PICK s \in Slot :
        /\ r.to[s] # 0 /\ r.hand[r.to[s]] = 0
        /\ Points(PT!DetachPtr(x, s), [To(s, 0) EXCEPT !.hand[r.to[s]] = @ + 1])
  BY DEF DetachPtr
<1> DEFINE h == PT!DetachPtr(x, s)
           q == r.to[s]
           c == To(s, 0)
           n == c.hand[q] + 1
           a == Handed(c, q, n)
<1>2. x' = h /\ r' = Swept([To(s, 0) EXCEPT !.hand[r.to[s]] = @ + 1]) /\ kind' = kind
  BY <1>1 DEF Points, Do
<1>3. r' = Swept(a)
  BY <1>2 DEF Handed
<1>4. Keeping(x, r) /\ r \in Asked
  BY Now
<1>5. MayTurn(x, s, 0) /\ s \in Slots
  <2>1. MayPoint(s, 0) /\ 0 \in Objects \cup {0}
    BY DEF MayPoint
  <2> QED BY <2>1, SlotTurns
<1>6. TurnedTo(r, c, s, 0) /\ c.hand = r.hand /\ c \in Asked
  BY <1>5, ToIs
<1>7. q \in Objects /\ r.hand \in [Objects -> Nat]
  BY <1>1, <1>4, <1>5, AskedHas
<1>8. n \in Nat
  BY <1>6, <1>7
<1> HIDE DEF h, a, c, q
<1>9. a \in Asked /\ a.to = c.to /\ a.val = c.val /\ a.hand = [c.hand EXCEPT ![q] = n]
  <2> HIDE DEF n
  <2> QED BY <1>6, <1>7, <1>8, Rehanded DEF a
<1>10. TurnedTo(r, a, s, 0) /\ a.hand = [r.hand EXCEPT ![q] = @ + 1]
  BY <1>6, <1>9 DEF TurnedTo
<1>11. h = PT!ClearPtr(x, s) /\ q = r.to[s] /\ q # 0
  BY <1>1 DEF PT!DetachPtr, h, q
<1>12. Keeping(h, a) /\ h.refs = x.refs
  BY <1>4, <1>5, <1>10, <1>11, TakenOut
<1>13. Owned => One(h)
  BY <1>12 DEF PtrInv, One
<1>14. PtrInv(h, Swept(a), Owned)
  <2> HIDE DEF Owned
  <2> QED BY <1>12, <1>13, PointsKeep
<1> QED BY <1>2, <1>3, <1>14 DEF h

LEMMA AssignPtrStep ==
  ASSUME PtrInv(x, r, Owned), AssignPtr
  PROVE  PtrInv(x', r', Owned) /\ kind' = kind
<1>1. PICK s \in Slot, o \in Objects \cup {0} :
        /\ o # 0 => r.hand[o] > 0 /\ MayPoint(s, o)
        /\ Points(PT!AssignPtr(x, s, o), IF o = 0 THEN To(s, 0) ELSE [To(s, o) EXCEPT !.hand[o] = 0])
  BY DEF AssignPtr
<1>2. kind = "owned"
  BY DEF AssignPtr
<1> DEFINE h == PT!AssignPtr(x, s, o)
           c == To(s, o)
           a == IF o = 0 THEN c ELSE Handed(c, o, 0)
<1>3. x' = h /\ r' = Swept(IF o = 0 THEN To(s, 0) ELSE [To(s, o) EXCEPT !.hand[o] = 0]) /\ kind' = kind
  BY <1>1 DEF Points, Do
<1>4. r' = Swept(a)
  BY <1>3 DEF Handed
<1>5. Keeping(x, r) /\ One(x)
  BY <1>2, Now DEF PtrInv, Owned
<1>6. MayTurn(x, s, o) /\ s \in Slots
  <2>1. MayPoint(s, o)
    BY <1>1 DEF MayPoint
  <2> QED BY <2>1, SlotTurns
<1>7. TurnedTo(r, c, s, o) /\ c.hand = r.hand /\ c \in Asked
  BY <1>6, ToIs
<1>8. o # 0 => r.hand[o] = 1 /\ r.hand \in [Objects -> Nat] /\ x.refs[o] <= 1
  <2>1. SUFFICES ASSUME o # 0 PROVE r.hand[o] = 1 /\ r.hand \in [Objects -> Nat] /\ x.refs[o] <= 1
    OBVIOUS
  <2>2. o \in Objects /\ r.hand \in [Objects -> Nat]
    BY <2>1, <1>5, KeepingHas
  <2>3. r.hand[o] \in Nat /\ x.refs[o] \in Nat /\ r.hand[o] <= x.refs[o] /\ x.refs[o] <= 1
    BY <2>2, <1>5, Now DEF One
  <2> QED BY <2>1, <2>2, <2>3, <1>1
<1> HIDE DEF h, c
<1>9. TurnedTo(r, a, s, o) /\ a.hand = IF o = 0 THEN r.hand ELSE [r.hand EXCEPT ![o] = @ - 1]
  <2>1. CASE o = 0
    BY <2>1, <1>7
  <2>2. CASE o # 0
    <3> DEFINE d == Handed(c, o, 0)
    <3> HIDE DEF d
    <3>1. d \in Asked /\ d.to = c.to /\ d.val = c.val /\ d.hand = [c.hand EXCEPT ![o] = 0]
      BY <2>2, <1>7, Rehanded DEF d
    <3>2. TurnedTo(r, d, s, o)
      BY <3>1, <1>7 DEF TurnedTo
    <3>3. d.hand = [r.hand EXCEPT ![o] = @ - 1]
      BY <3>1, <2>2, <1>7, <1>8
    <3> QED BY <3>2, <3>3, <2>2 DEF d
  <2> QED BY <2>1, <2>2
<1> HIDE DEF a
<1>10. Keeping(h, a) /\ NoMore(x, h)
  BY <1>1, <1>5, <1>6, <1>8, <1>9, AssignPtrIs DEF h
<1>11. Owned => One(h)
  BY <1>5, <1>10, FewerOwners
<1>12. PtrInv(h, Swept(a), Owned)
  <2> HIDE DEF Owned
  <2> QED BY <1>10, <1>11, PointsKeep
<1> QED BY <1>3, <1>4, <1>12

LEMMA MovePtrStep ==
  ASSUME PtrInv(x, r, Owned), MovePtr
  PROVE  PtrInv(x', r', Owned) /\ kind' = kind
<1>1. PICK s \in Slot, t \in Slot :
        /\ MayPoint(s, r.to[t]) /\ (t \in Objects => Keeps(s, t))
        /\ Points(PT!MovePtr(x, s, t),
                  IF s = t THEN r ELSE [r EXCEPT !.to = [@ EXCEPT ![t] = 0, ![s] = r.to[t]]])
  BY DEF MovePtr
<1>2. kind = "owned"
  BY DEF MovePtr
<1> DEFINE h == PT!MovePtr(x, s, t)
           to == IF s = t THEN r.to ELSE [r.to EXCEPT ![t] = 0, ![s] = r.to[t]]
           a == IF s = t THEN r ELSE [r EXCEPT !.to = to]
<1>3. x' = h /\ r' = Swept(IF s = t THEN r ELSE [r EXCEPT !.to = [@ EXCEPT ![t] = 0, ![s] = r.to[t]]]) /\ kind' = kind
  BY <1>1 DEF Points, Do
<1>4. r' = Swept(a)
  BY <1>3
<1>5. Keeping(x, r) /\ One(x) /\ r \in Asked
  BY <1>2, Now DEF PtrInv, Owned
<1>6. MayTurn(x, t, 0) /\ s \in Slots /\ t \in Slots
  <2>1. MayPoint(s, 0) /\ MayPoint(t, 0) /\ 0 \in Objects \cup {0}
    BY DEF MayPoint
  <2> QED BY <2>1, SlotTurns
<1>7. /\ r.to \in [Slots -> Objects \cup {0}] /\ r.hand \in [Objects -> Nat] /\ r.val \in [Objects -> Value]
      /\ r = [to |-> r.to, hand |-> r.hand, val |-> r.val]
  BY <1>5, AskedHas
<1>8. MayTurn(x, s, r.to[t])
  <2>1. r.to[t] \in Objects \cup {0}
    BY <1>6, <1>7
  <2> QED BY <2>1, <1>1, SlotTurns
<1>9. to \in [Slots -> Objects \cup {0}]
  BY <1>6, <1>7
<1>10. a = [to |-> to, hand |-> r.hand, val |-> r.val]
  <2> HIDE DEF to
  <2>1. CASE s # t
    BY <2>1, <1>7
  <2>2. CASE s = t
    <3>1. to = r.to
      BY <2>2 DEF to
    <3> QED BY <2>2, <3>1, <1>7
  <2> QED BY <2>1, <2>2
<1>11. a \in Asked /\ a.to = to /\ a.hand = r.hand /\ a.val = r.val
  <2> HIDE DEF to
  <2> QED BY <1>7, <1>9, <1>10 DEF Asked
<1>12. t \in Objects => PT!ReleasePtr(x, s).refs[t] > 0
  BY <1>1, KeepsIs
<1> HIDE DEF h, a
<1>13. Keeping(h, a) /\ NoMore(x, h)
  <2>1. \A o \in Objects : x.refs[o] <= 1
    BY <1>5 DEF One
  <2> QED BY <2>1, <1>5, <1>6, <1>8, <1>11, <1>12, MovePtrIs DEF h
<1>14. Owned => One(h)
  BY <1>5, <1>13, FewerOwners
<1>15. PtrInv(h, Swept(a), Owned)
  <2> HIDE DEF Owned
  <2> QED BY <1>13, <1>14, PointsKeep
<1> QED BY <1>3, <1>4, <1>15

LEMMA AssignDupeStep ==
  ASSUME PtrInv(x, r, Owned), AssignDupe
  PROVE  PtrInv(x', r', Owned) /\ kind' = kind
<1>1. PICK s \in Slot, t \in Slot, new \in Objects \ Reach(r) :
        /\ r.to[t] # 0 => r.to[r.to[t]] = 0 /\ MayPoint(s, new)
        /\ Points(PT!AssignDupe(x, s, t, new),
                  IF r.to[t] = 0 THEN To(s, 0) ELSE [To(s, new) EXCEPT !.val[new] = r.val[r.to[t]]])
  BY DEF AssignDupe
<1>2. kind = "owned"
  BY DEF AssignDupe
<1>3. /\ x' = PT!AssignDupe(x, s, t, new) /\ kind' = kind
      /\ r' = Swept(IF r.to[t] = 0 THEN To(s, 0) ELSE [To(s, new) EXCEPT !.val[new] = r.val[r.to[t]]])
  BY <1>1 DEF Points, Do
<1>4. Keeping(x, r) /\ One(x) /\ r \in Asked /\ Exactly(x, r)
  BY <1>2, Now DEF PtrInv, Owned
<1>5. MayTurn(x, s, 0) /\ s \in Slots /\ t \in Slots /\ MayTurn(x, t, 0)
  <2>1. MayPoint(s, 0) /\ MayPoint(t, 0) /\ 0 \in Objects \cup {0}
    BY DEF MayPoint
  <2> QED BY <2>1, SlotTurns
<1>6. x.ptr[t] = r.to[t] /\ r.to[t] \in Objects \cup {0} /\ x.val = r.val /\ r.val \in [Objects -> Value]
  <2>1. x.ptr[t] = r.to[t]
    BY <1>4, <1>5, TurnHas
  <2> QED BY <2>1, <1>4, <1>5, AskedHas DEF Exactly
<1>7. CASE r.to[t] = 0
  <2> DEFINE a == To(s, 0)
             h == PT!AssignPtr(x, s, 0)
  <2>1. x' = h
    BY <1>3, <1>6, <1>7 DEF PT!AssignDupe, PT!Dupe, PT!isValidPtr
  <2>2. TurnedTo(r, a, s, 0) /\ a.hand = r.hand
    BY <1>5, ToIs
  <2>3. r' = Swept(a)
    BY <1>3, <1>7
  <2> HIDE DEF a, h
  <2>4. Keeping(h, a) /\ NoMore(x, h)
    BY <2>2, <1>4, <1>5, AssignPtrIs DEF h
  <2>5. Owned => One(h)
    BY <2>4, <1>4, FewerOwners
  <2>6. PtrInv(h, Swept(a), Owned)
    <3> HIDE DEF Owned
    <3> QED BY <2>4, <2>5, PointsKeep
  <2> QED BY <2>1, <2>3, <2>6, <1>3
<1>8. CASE r.to[t] # 0
  <2> DEFINE e == r.val[r.to[t]]
             c == To(s, new)
             a == Valued(c, new, e)
             h1 == PT!NewObject(x, new, e)
             m == Handed(r, new, 1)
             a1 == Valued(m, new, e)
             h == PT!AssignPtr(h1, s, new)
  <2>1. x' = h
    BY <1>3, <1>6, <1>8 DEF PT!AssignDupe, PT!Dupe, PT!isValidPtr
  <2>2. r' = Swept(a)
    BY <1>3, <1>8 DEF Valued
  <2>3. e \in Value /\ new \in Objects /\ x.refs[new] = 0 /\ r.hand[new] = 0 /\ MayPoint(s, new)
        /\ r.hand \in [Objects -> Nat] /\ r.to \in [Slots -> Objects \cup {0}]
    BY <1>1, <1>4, <1>6, <1>8, Now, AskedHas
  <2>4. TurnedTo(r, c, s, new) /\ c.hand = r.hand /\ c \in Asked
    BY <2>3, <1>5, ToIs
  <2> HIDE DEF e, c, a, h1, m, a1, h
  <2>5. a \in Asked /\ a.to = c.to /\ a.hand = c.hand /\ a.val = [c.val EXCEPT ![new] = e]
    BY <2>3, <2>4, Revalued DEF a
  <2>6. m \in Asked /\ m.to = r.to /\ m.val = r.val /\ m.hand = [r.hand EXCEPT ![new] = 1]
    BY <2>3, <1>4, Rehanded DEF m
  <2>7. a1 \in Asked /\ a1.to = m.to /\ a1.hand = m.hand /\ a1.val = [m.val EXCEPT ![new] = e]
    BY <2>3, <2>6, Revalued DEF a1
  <2>8. Exactly(h1, a1) /\ h1.ptr = x.ptr /\ h1.refs = [x.refs EXCEPT ![new] = 1]
    BY <2>3, <2>6, <2>7, <1>4, NewObjectIs, SMTT(60) DEF h1
  <2>9. Keeping(h1, a1)
    BY <2>8, ExactlyKeeps
  <2>10. x.refs \in [Objects -> Nat]
    BY <1>4, KeepingHas
  <2>11. h1.refs[new] = 1 /\ One(h1) /\ \A o \in Objects : x.refs[o] > 0 => h1.refs[o] > 0
    BY <2>3, <2>8, <2>10, <1>4 DEF One
  <2>12. MayTurn(h1, s, new)
    BY <2>3, <2>11, <1>5 DEF MayTurn
  <2>13. TurnedTo(a1, a, s, new)
    BY <2>4, <2>5, <2>6, <2>7 DEF TurnedTo
  <2>14. a1.hand[new] > 0 /\ a.hand = [a1.hand EXCEPT ![new] = @ - 1]
    <3>1. a1.hand = [r.hand EXCEPT ![new] = 1] /\ a.hand = r.hand
      BY <2>4, <2>5, <2>6, <2>7
    <3> QED BY <3>1, <2>3
  <2>15. new # 0 /\ h1.refs[new] <= 1
    BY <2>3, <2>11, ObjectsAre
  <2>16. Keeping(h, a) /\ NoMore(h1, h)
    BY <2>9, <2>12, <2>13, <2>14, <2>15, AssignPtrIs DEF h
  <2>17. Owned => One(h)
    BY <2>11, <2>16, FewerOwners
  <2>18. PtrInv(h, Swept(a), Owned)
    <3> HIDE DEF Owned
    <3> QED BY <2>16, <2>17, PointsKeep
  <2> QED BY <2>1, <2>2, <2>18, <1>3
<1> QED BY <1>7, <1>8

LEMMA put_PtrStep ==
  ASSUME PtrInv(x, r, Owned), put_Ptr
  PROVE  PtrInv(x', r', Owned) /\ kind' = kind
<1>1. PICK s \in Slot, o \in Objects \cup {0} :
        /\ MayPoint(s, o) /\ (o = r.to[s] \/ Keeps(s, o))
        /\ Points(PT!put_Ptr(x, s, o), To(s, o))
  BY DEF put_Ptr
<1> DEFINE h == PT!put_Ptr(x, s, o)
           a == To(s, o)
<1>2. x' = h /\ r' = Swept(a) /\ kind' = kind /\ ~Owned
  BY <1>1 DEF Points, Do, put_Ptr, Owned
<1>3. Keeping(x, r)
  BY Now
<1>4. MayTurn(x, s, o) /\ s \in Slots
  BY <1>1, SlotTurns
<1>5. TurnedTo(r, a, s, o) /\ a.hand = r.hand
  BY <1>4, ToIs
<1>6. o # 0 => o = r.to[s] \/ PT!ReleasePtr(x, s).refs[o] > 0
  BY <1>1, KeepsIs
<1> HIDE DEF h, a
<1>7. Keeping(h, a)
  BY <1>3, <1>4, <1>5, <1>6, put_PtrIs DEF h
<1>8. PtrInv(h, Swept(a), Owned)
  <2> HIDE DEF Owned
  <2> QED BY <1>2, <1>7, PointsKeep
<1> QED BY <1>2, <1>8

LEMMA SetQIStep ==
  ASSUME PtrInv(x, r, Owned), SetQI
  PROVE  PtrInv(x', r', Owned) /\ kind' = kind
<1>1. PICK s \in Slot, o \in Objects \cup {0}, has \in BOOLEAN :
        /\ Keeps(s, o) /\ MayPoint(s, o)
        /\ Points(PT!SetQI(x, s, o, has), To(s, IF has THEN o ELSE 0))
  BY DEF SetQI
<1> DEFINE h == PT!SetQI(x, s, o, has)
           q == IF has THEN o ELSE 0
           a == To(s, q)
<1>2. x' = h /\ r' = Swept(a) /\ kind' = kind /\ ~Owned
  BY <1>1 DEF Points, Do, SetQI, Owned
<1>3. Keeping(x, r)
  BY Now
<1>4. MayTurn(x, s, o) /\ s \in Slots
  BY <1>1, SlotTurns
<1>5. TurnedTo(r, a, s, q) /\ a.hand = r.hand
  BY <1>4, ToIs
<1>6. o # 0 => PT!ReleasePtr(x, s).refs[o] > 0
  BY <1>1, KeepsIs
<1> HIDE DEF h, a
<1>7. Keeping(h, a)
  BY <1>3, <1>4, <1>5, <1>6, SetQIIs DEF h
<1>8. PtrInv(h, Swept(a), Owned)
  <2> HIDE DEF Owned
  <2> QED BY <1>2, <1>7, PointsKeep
<1> QED BY <1>2, <1>8

LEMMA FillPPtrStep ==
  ASSUME PtrInv(x, r, Owned), FillPPtr
  PROVE  PtrInv(x', r', Owned) /\ kind' = kind
<1> DEFINE Gone(s) == PT!get_PPtr(x, s)
<1>1. PICK s \in Slot, o \in Objects :
        /\ MayPoint(s, o) /\ Gone(s).refs[o] = 0
        /\ Points(PT!AttachPtr(PT!NewObject(Gone(s), o, 1), s, o),
                  [Swept(To(s, 0)) EXCEPT !.to[s] = o, !.val[o] = 1])
  BY DEF FillPPtr
<1> DEFINE gone == Gone(s)
           b == To(s, 0)
           a1 == Swept(b)
           a == [a1 EXCEPT !.to[s] = o, !.val[o] = 1]
           h2 == PT!NewObject(gone, o, 1)
           h == PT!AttachPtr(h2, s, o)
<1>2. x' = h /\ r' = Swept(a) /\ kind' = kind /\ ~Owned
  BY <1>1 DEF Points, Do, FillPPtr, Owned
<1>3. Keeping(x, r)
  BY Now
<1>4. MayTurn(x, s, 0) /\ s \in Slots
  <2>1. MayPoint(s, 0) /\ 0 \in Objects \cup {0}
    BY DEF MayPoint
  <2> QED BY <2>1, SlotTurns
<1>5. TurnedTo(r, b, s, 0) /\ b.hand = r.hand
  BY <1>4, ToIs
<1>6. gone = PT!ReleasePtr(x, s)
  BY DEF PT!get_PPtr
<1>7. gone.refs[o] = 0
  BY <1>1
<1> HIDE DEF h, h2, a1, b, Gone
<1>8. Keeping(gone, b) /\ MayTurn(gone, s, 0) /\ gone.ptr[s] = 0
  BY <1>3, <1>4, <1>5, <1>6, ReleasePtrIs
<1>9. Exactly(gone, a1)
  BY <1>8, SweptIs DEF a1
<1>10. a1 \in Asked /\ a1.to = gone.ptr /\ a1.val = gone.val /\ a1.hand[o] = 0
       /\ a1.hand \in [Objects -> Nat] /\ a1.to \in [Slots -> Objects \cup {0}] /\ gone.refs \in [Objects -> Nat]
  <2>1. Keeping(gone, a1)
    BY <1>9, ExactlyKeeps
  <2>2. /\ a1 \in Asked /\ a1.hand \in [Objects -> Nat] /\ a1.hand[o] <= gone.refs[o]
        /\ a1.to \in [Slots -> Objects \cup {0}] /\ gone.refs \in [Objects -> Nat]
    BY <2>1, KeepingHas
  <2> QED BY <2>2, <1>7, <1>9 DEF Exactly
<1> DEFINE c == [a1 EXCEPT !.to[s] = o]
           m == Handed(a1, o, 1)
           a2 == Valued(m, o, 1)
<1>11. a = Valued(c, o, 1)
  <2>1. a1 = [to |-> a1.to, hand |-> a1.hand, val |-> a1.val]
    BY <1>10, AskedHas
  <2> QED BY <2>1 DEF Valued
<1>12. 1 \in Value /\ 1 \in Nat
  BY DEF Value
<1> HIDE DEF a, m, a2
<1>13. TurnedTo(a1, c, s, o) /\ c.hand = a1.hand /\ c \in Asked
  <2> HIDE DEF c
  <2>1. c = [a1 EXCEPT !.to[s] = o]
    BY DEF c
  <2> QED BY <2>1, <1>4, <1>10, Retold
<1> HIDE DEF c
<1>14. a \in Asked /\ a.to = c.to /\ a.hand = c.hand /\ a.val = [c.val EXCEPT ![o] = 1]
  BY <1>11, <1>12, <1>13, Revalued
<1>15. m \in Asked /\ m.to = a1.to /\ m.val = a1.val /\ m.hand = [a1.hand EXCEPT ![o] = 1]
  <2>1. a1 \in Asked /\ m = Handed(a1, o, 1)
    BY <1>10 DEF m
  <2> QED BY <2>1, <1>12, Rehanded
<1>16. a2 \in Asked /\ a2.to = m.to /\ a2.hand = m.hand /\ a2.val = [m.val EXCEPT ![o] = 1]
  BY <1>12, <1>15, Revalued DEF a2
<1> HIDE DEF gone
<1>17. Exactly(h2, a2) /\ h2.refs = [gone.refs EXCEPT ![o] = 1]
  BY <1>7, <1>9, <1>12, <1>15, <1>16, NewObjectIs, SMTT(60) DEF h2
<1>18. Keeping(h2, a2)
  BY <1>17, ExactlyKeeps
<1>19. MayTurn(h2, s, o)
  <2>1. \A q \in Objects : gone.refs[q] > 0 => h2.refs[q] > 0
    BY <1>10, <1>17
  <2> QED BY <2>1, <1>1, <1>8 DEF MayTurn
<1>20. TurnedTo(a2, a, s, o)
  BY <1>13, <1>14, <1>15, <1>16 DEF TurnedTo
<1>21. a2.to[s] = 0 /\ a2.hand[o] > 0 /\ o # 0
  BY <1>8, <1>10, <1>15, <1>16, ObjectsAre
<1>22. a.hand = [a2.hand EXCEPT ![o] = @ - 1]
  BY <1>10, <1>13, <1>14, <1>15, <1>16
<1>23. Keeping(h, a)
  BY <1>18, <1>19, <1>20, <1>21, <1>22, HandedOver DEF h
<1>24. PtrInv(h, Swept(a), Owned)
  <2> HIDE DEF Owned
  <2> QED BY <1>2, <1>23, PointsKeep
<1> QED BY <1>2, <1>24

LEMMA PointersStep ==
  ASSUME PtrInv(x, r, Owned), NextPointers
  PROVE  PtrInv(x', r', Owned') /\ kind' = kind
<1>1. PtrInv(x', r', Owned) /\ kind' = kind
  BY NewObjectStep, LetGoStep, ReleasePtrStep, DetachPtrStep, AssignPtrStep, MovePtrStep, AssignDupeStep,
     put_PtrStep, SetQIStep, FillPPtrStep DEF NextPointers
<1> QED BY <1>1 DEF Owned

LEMMA PointersAgreeIs ==
  ASSUME PtrInv(x, r, Owned)
  PROVE  PointersAgree
<1>1. Keeping(x, r) /\ Exactly(x, r) /\ Reach(r) = There(x) /\ (Owned => One(x))
  BY Now DEF PtrInv
<1>2. /\ x.ptr = r.to /\ x.val = r.val /\ Counted(x, r.hand, 0) /\ x \in PointerHeap
      /\ x.refs \in [Objects -> Nat] /\ x.ptr \in [Slots -> Objects \cup {0}] /\ r.hand \in [Objects -> Nat]
      /\ SmartVar \subseteq Slots
  BY <1>1, KeepingHas DEF Exactly
<1> DEFINE Into(o) == {s \in SmartVar \cup Reach(r) : r.to[s] = o}
<1>3. ASSUME NEW o \in Objects
      PROVE  (x.refs[o] > 0 <=> o \in Reach(r)) /\ x.refs[o] = Cardinality(Into(o)) + r.hand[o]
  <2>1. x.refs[o] > 0 <=> o \in Reach(r)
    BY <1>1 DEF There
  <2>2. x.refs[o] = Cardinality(PointersTo(x, o)) + r.hand[o] + (IF o = 0 THEN 1 ELSE 0)
    BY <1>2 DEF Counted
  <2>3. PointersTo(x, o) = Into(o)
    <3>1. \A s \in Objects \ There(x) : x.ptr[s] # o
      <4> TAKE s \in Objects \ There(x)
      <4>1. x.refs[s] = 0
        BY <1>2 DEF There
      <4>2. x.ptr[s] = 0
        BY <4>1, <1>2 DEF Counted
      <4> QED BY <4>2, ObjectsAre
    <3>2. There(x) \subseteq Objects
      BY DEF There
    <3> QED BY <3>1, <3>2, <1>1, <1>2 DEF PointersTo, Slots
  <2>4. Cardinality(PointersTo(x, o)) \in Nat /\ o # 0 /\ r.hand[o] \in Nat
    BY <1>2, PointersFinite, ObjectsAre
  <2> QED BY <2>1, <2>2, <2>3, <2>4
<1>4. kind = "owned" => \A o \in Objects : x.refs[o] <= 1
  BY <1>1 DEF Owned, One
<1>5. ASSUME NEW s \in SmartVar
      PROVE  PT!get_RefCount(x, s) = IF r.to[s] = 0 THEN 0 ELSE x.refs[r.to[s]]
  <2> DEFINE p == x.ptr[s]
  <2>1. p = r.to[s] /\ p \in Objects \cup {0}
    BY <1>2
  <2>2. CASE p = 0
    BY <2>1, <2>2 DEF PT!get_RefCount, PT!isValidPtr
  <2>3. CASE p # 0
    <3>1. PT!get_RefCount(x, s) = PT!AddRef(x, p).refs[p] - 1
      BY <2>3 DEF PT!get_RefCount, PT!isValidPtr
    <3> HIDE DEF p
    <3> DEFINE up == PT!AddRef(x, p)
    <3>2. p \in Objects
      BY <2>1, <2>3
    <3>3. up.refs = [x.refs EXCEPT ![p] = @ + 1]
      BY <1>2, <3>2, CountedUp
    <3> HIDE DEF up
    <3>4. up.refs[p] - 1 = x.refs[p]
      BY <1>2, <3>2, <3>3
    <3> QED BY <3>1, <3>4, <2>1, <2>3 DEF up
  <2> QED BY <2>2, <2>3
<1> QED BY <1>2, <1>3, <1>4, <1>5 DEF PointersAgree

LEMMA PointersInit ==
  ASSUME NEW a, a = [to |-> [s \in Slots |-> 0], hand |-> [o \in Objects |-> 0], val |-> [o \in Objects |-> 0]], NEW one
  PROVE  PtrInv(PT!NoObjects, a, one)
<1> DEFINE h == PT!NoObjects
<1>1. h = [ptr |-> [s \in Slots |-> 0], refs |-> [o \in Objects |-> 0], val |-> [o \in Objects |-> 0]]
  BY DEF PT!NoObjects, Slots
<1> HIDE DEF h
<1>2. h \in PointerHeap /\ a \in Asked
  BY <1>1 DEF PointerHeap, Asked, Value
<1>3. ASSUME NEW o \in Objects
      PROVE  h.refs[o] = Cardinality(PointersTo(h, o)) + a.hand[o] + (IF o = 0 THEN 1 ELSE 0)
  <2>1. PointersTo(h, o) = {}
    BY <1>1, ObjectsAre DEF PointersTo
  <2>2. Cardinality(PointersTo(h, o)) = 0
    BY <2>1, FS_EmptySet
  <2>3. o # 0
    BY ObjectsAre
  <2> QED BY <1>1, <2>2, <2>3
<1>4. Counted(h, a.hand, 0)
  BY <1>1, <1>2, <1>3 DEF Counted, Slots
<1>5. One(h)
  BY <1>1 DEF One
<1> QED BY <1>1, <1>2, <1>4, <1>5 DEF PtrInv, Exactly, h

-----------------------------------------------------------------------------
(* A word that threads change.                                              *)
Ops == {"Increment", "Decrement", "ExchangeAdd", "Exchange"}
CallIs(call) == /\ call = [pc |-> call.pc, op |-> call.op, arg |-> call.arg, comp |-> call.comp, said |-> call.said]
                /\ call.pc \in {"none", "load", "swap"} /\ (call.pc # "none" => call.op \in Ops)
WordInv(c, a) ==
  /\ c = [val |-> c.val, call |-> c.call] /\ c.call = [t \in Thread |-> c.call[t]]
  /\ a = [val |-> a.val, said |-> a.said] /\ a.said = [t \in Thread |-> a.said[t]]
  /\ c.val = a.val /\ \A t \in Thread : CallIs(c.call[t]) /\ c.call[t].said = a.said[t]

(* A call of one thread, which may change the word.                         *)
Called(c, t, val, call) == [val |-> val, call |-> [c.call EXCEPT ![t] = call]]
Told(a, t, val, said) == [val |-> val, said |-> [a.said EXCEPT ![t] = said]]

LEMMA CalledIs ==
  ASSUME NEW c, NEW a, WordInv(c, a), NEW t \in Thread, NEW val, NEW call, CallIs(call),
         NEW said, call.said = said
  PROVE  WordInv(Called(c, t, val, call), Told(a, t, val, said))
<1> DEFINE c2 == Called(c, t, val, call)
           a2 == Told(a, t, val, said)
<1>1. c2.val = val /\ c2.call = [c.call EXCEPT ![t] = call] /\ a2.val = val /\ a2.said = [a.said EXCEPT ![t] = said]
  BY DEF Called, Told
<1>2. c2 = [val |-> c2.val, call |-> c2.call] /\ a2 = [val |-> a2.val, said |-> a2.said]
  BY DEF Called, Told
<1> HIDE DEF c2, a2
<1>3. \A u \in Thread : /\ c2.call[u] = IF u = t THEN call ELSE c.call[u]
                        /\ a2.said[u] = IF u = t THEN said ELSE a.said[u]
  BY <1>1 DEF WordInv
<1>4. c2.call = [u \in Thread |-> c2.call[u]] /\ a2.said = [u \in Thread |-> a2.said[u]]
  BY <1>1 DEF WordInv
<1>5. \A u \in Thread : CallIs(c2.call[u]) /\ c2.call[u].said = a2.said[u]
  BY <1>3 DEF WordInv
<1> QED BY <1>1, <1>2, <1>4, <1>5 DEF WordInv, c2, a2

LEMMA CallOf ==
  ASSUME NEW c, NEW a, WordInv(c, a), NEW t \in Thread
  PROVE  /\ c.val = a.val /\ c.call[t].said = a.said[t] /\ CallIs(c.call[t])
         /\ c = [val |-> c.val, call |-> c.call] /\ t \in DOMAIN c.call
  BY DEF WordInv

LEMMA ReturnedIs ==
  ASSUME NEW said
  PROVE  CallIs(PT!Returned(said)) /\ PT!Returned(said).said = said /\ PT!Returned(said).pc = "none"
  BY DEF PT!Returned, PT!NoCall, CallIs, Ops

LEMMA ToldIs ==
  ASSUME NEW t, NEW new, NEW said
  PROVE  AtOnce(t, new, said) = Told(r, t, new, said)
  BY DEF AtOnce, Told

(* What is stored and answered, if nobody came between, is what is made.    *)
LEMMA MadeIs ==
  ASSUME NEW t, NEW op \in Ops, NEW arg, NEW old, old = r.val
  PROVE  Made(t, op, arg) = Told(r, t, PT!Stored(op, old, arg, Bits), PT!Answer(op, old, Bits))
<1>1. CASE op = "Increment"
  BY <1>1 DEF Made, AtOnce, Told, PT!Stored, PT!Answer, Wrap
<1>2. CASE op = "Decrement"
  BY <1>2 DEF Made, AtOnce, Told, PT!Stored, PT!Answer, Wrap
<1>3. CASE op = "ExchangeAdd"
  BY <1>3 DEF Made, AtOnce, Told, PT!Stored, PT!Answer, Wrap
<1>4. CASE op = "Exchange"
  BY <1>4 DEF Made, AtOnce, Told, PT!Stored, PT!Answer, Wrap
<1> QED BY <1>1, <1>2, <1>3, <1>4 DEF Ops

Swapped(c, t, val, call) == [c EXCEPT !.val = val, !.call[t] = call]
Recalled(c, t, call) == [c EXCEPT !.call[t] = call]

LEMMA WordEdits ==
  ASSUME NEW c, NEW t, NEW val, NEW call, c = [val |-> c.val, call |-> c.call], t \in DOMAIN c.call
  PROVE  /\ Swapped(c, t, val, call) = Called(c, t, val, call)
         /\ Recalled(c, t, call) = Called(c, t, c.val, call)
<1>1. PICK v, k : c = [val |-> v, call |-> k]
  OBVIOUS
<1>2. [[val |-> v, call |-> k] EXCEPT !.call[t] = call] = [val |-> v, call |-> [k EXCEPT ![t] = call]]
  OBVIOUS
<1>3. [[val |-> v, call |-> k] EXCEPT !.val = val] = [val |-> val, call |-> k]
  OBVIOUS
<1>4. [[val |-> val, call |-> k] EXCEPT !.call[t] = call] = [val |-> val, call |-> [k EXCEPT ![t] = call]]
  OBVIOUS
<1>5. [[val |-> v, call |-> k] EXCEPT !.val = val, !.call[t] = call]
        = [[[val |-> v, call |-> k] EXCEPT !.val = val] EXCEPT !.call[t] = call]
  OBVIOUS
<1>6. c.val = v /\ c.call = k
  BY <1>1
<1> QED BY <1>1, <1>2, <1>3, <1>4, <1>5, <1>6 DEF Called, Swapped, Recalled

Entered(k, op, arg) == [k EXCEPT !.pc = "load", !.op = op, !.arg = arg, !.said = 0]

LEMMA OneEdit ==
  ASSUME NEW k, k = [pc |-> k.pc, op |-> k.op, arg |-> k.arg, comp |-> k.comp, said |-> k.said], NEW v
  PROVE  /\ [k EXCEPT !.pc = v] = [pc |-> v, op |-> k.op, arg |-> k.arg, comp |-> k.comp, said |-> k.said]
         /\ [k EXCEPT !.op = v] = [pc |-> k.pc, op |-> v, arg |-> k.arg, comp |-> k.comp, said |-> k.said]
         /\ [k EXCEPT !.arg = v] = [pc |-> k.pc, op |-> k.op, arg |-> v, comp |-> k.comp, said |-> k.said]
         /\ [k EXCEPT !.comp = v] = [pc |-> k.pc, op |-> k.op, arg |-> k.arg, comp |-> v, said |-> k.said]
         /\ [k EXCEPT !.said = v] = [pc |-> k.pc, op |-> k.op, arg |-> k.arg, comp |-> k.comp, said |-> v]
  OBVIOUS

LEMMA EnteredIs ==
  ASSUME NEW k, CallIs(k), NEW op \in Ops, NEW arg
  PROVE  CallIs(Entered(k, op, arg)) /\ Entered(k, op, arg).said = 0
<1>1. k = [pc |-> k.pc, op |-> k.op, arg |-> k.arg, comp |-> k.comp, said |-> k.said]
  BY DEF CallIs
<1> DEFINE a1 == [k EXCEPT !.pc = "load"]
           a2 == [a1 EXCEPT !.op = op]
           a3 == [a2 EXCEPT !.arg = arg]
           a4 == [a3 EXCEPT !.said = 0]
<1>2. Entered(k, op, arg) = a4
  BY DEF Entered
<1>3. a1 = [pc |-> "load", op |-> k.op, arg |-> k.arg, comp |-> k.comp, said |-> k.said]
  BY <1>1, OneEdit
<1>4. a2 = [pc |-> "load", op |-> op, arg |-> k.arg, comp |-> k.comp, said |-> k.said]
  <2> HIDE DEF a1
  <2> QED BY <1>3, OneEdit
<1>5. a3 = [pc |-> "load", op |-> op, arg |-> arg, comp |-> k.comp, said |-> k.said]
  <2> HIDE DEF a2
  <2> QED BY <1>4, OneEdit
<1>6. a4 = [pc |-> "load", op |-> op, arg |-> arg, comp |-> k.comp, said |-> 0]
  <2> HIDE DEF a3
  <2> QED BY <1>5, OneEdit
<1> HIDE DEF a4
<1>7. CallIs(a4) /\ a4.said = 0
  BY <1>6 DEF CallIs
<1> QED BY <1>2, <1>7

LEMMA CallEdits ==
  ASSUME NEW k, CallIs(k), k.pc # "none", NEW comp
  PROVE  /\ CallIs([k EXCEPT !.pc = "swap", !.comp = comp]) /\ [k EXCEPT !.pc = "swap", !.comp = comp].said = k.said
         /\ CallIs([k EXCEPT !.pc = "load"]) /\ [k EXCEPT !.pc = "load"].said = k.said
         /\ [k EXCEPT !.pc = "load"].pc = "load"
<1>1. k = [pc |-> k.pc, op |-> k.op, arg |-> k.arg, comp |-> k.comp, said |-> k.said] /\ k.op \in Ops
  BY DEF CallIs
<1> DEFINE a1 == [k EXCEPT !.pc = "load"]
           b1 == [k EXCEPT !.pc = "swap"]
           b2 == [b1 EXCEPT !.comp = comp]
<1>2. [k EXCEPT !.pc = "swap", !.comp = comp] = b2
  OBVIOUS
<1>3. a1 = [pc |-> "load", op |-> k.op, arg |-> k.arg, comp |-> k.comp, said |-> k.said]
  BY <1>1, OneEdit
<1>4. b1 = [pc |-> "swap", op |-> k.op, arg |-> k.arg, comp |-> k.comp, said |-> k.said]
  BY <1>1, OneEdit
<1>5. b2 = [pc |-> "swap", op |-> k.op, arg |-> k.arg, comp |-> comp, said |-> k.said]
  <2> HIDE DEF b1
  <2> QED BY <1>4, OneEdit
<1> HIDE DEF a1, b2
<1>6. b2.said = k.said /\ CallIs(b2)
  BY <1>1, <1>5 DEF CallIs
<1>7. a1.said = k.said /\ a1.pc = "load" /\ CallIs(a1)
  BY <1>1, <1>3 DEF CallIs
<1> QED BY <1>2, <1>6, <1>7 DEF a1

LEMMA CallInterlockedStep ==
  ASSUME WordInv(x, r), CallInterlocked
  PROVE  WordInv(x', r') /\ kind' = kind
<1>1. PICK t \in Thread, op \in Ops, arg \in Values :
        Do("interlocked", PT!CallInterlocked(x, t, op, arg), Silent(t))
  BY DEF CallInterlocked, Ops
<1> DEFINE k == Entered(x.call[t], op, arg)
<1>2. x' = Recalled(x, t, k) /\ r' = [r EXCEPT !.said[t] = 0] /\ kind' = kind
  BY <1>1 DEF Do, PT!CallInterlocked, Silent, Entered, Recalled
<1>3. x.val = r.val /\ CallIs(x.call[t]) /\ x = [val |-> x.val, call |-> x.call] /\ t \in DOMAIN x.call
  BY CallOf
<1>4. CallIs(k) /\ k.said = 0
  BY <1>3, EnteredIs
<1> HIDE DEF k
<1>5. x' = Called(x, t, x.val, k)
  BY <1>2, <1>3, WordEdits
<1>6. r' = Told(r, t, x.val, 0)
  <2>1. r = [val |-> r.val, said |-> r.said]
    BY DEF WordInv
  <2> QED BY <2>1, <1>2, <1>3 DEF Told
<1> DEFINE val == x.val
<1>7. x' = Called(x, t, val, k) /\ r' = Told(r, t, val, 0)
  BY <1>5, <1>6
<1> HIDE DEF val
<1>8. WordInv(Called(x, t, val, k), Told(r, t, val, 0))
  BY <1>4, CalledIs
<1> QED BY <1>2, <1>7, <1>8

LEMMA LoadValueStep ==
  ASSUME WordInv(x, r), LoadValue
  PROVE  WordInv(x', r') /\ kind' = kind
<1>1. PICK t \in Thread : x.call[t].pc = "load" /\ Do("interlocked", PT!LoadValue(x, t), r)
  BY DEF LoadValue
<1> DEFINE k == [x.call[t] EXCEPT !.pc = "swap", !.comp = x.val]
<1>2. x' = Recalled(x, t, k) /\ r' = r /\ kind' = kind
  BY <1>1 DEF Do, PT!LoadValue, Recalled
<1>3. /\ x.val = r.val /\ CallIs(x.call[t]) /\ x = [val |-> x.val, call |-> x.call] /\ t \in DOMAIN x.call
      /\ x.call[t].said = r.said[t]
  BY CallOf
<1>4. CallIs(k) /\ k.said = r.said[t]
  BY <1>1, <1>3, CallEdits
<1> HIDE DEF k
<1>5. x' = Called(x, t, x.val, k)
  BY <1>2, <1>3, WordEdits
<1>6. r' = Told(r, t, x.val, r.said[t])
  <2>1. r = [val |-> r.val, said |-> r.said] /\ r.said = [u \in Thread |-> r.said[u]]
    BY DEF WordInv
  <2>2. [r.said EXCEPT ![t] = r.said[t]] = r.said
    BY <2>1
  <2> QED BY <2>1, <2>2, <1>2, <1>3 DEF Told
<1> DEFINE val == x.val
           said == r.said[t]
<1>7. x' = Called(x, t, val, k) /\ r' = Told(r, t, val, said) /\ k.said = said
  BY <1>4, <1>5, <1>6
<1> HIDE DEF val, said
<1>8. WordInv(Called(x, t, val, k), Told(r, t, val, said))
  BY <1>4, <1>7, CalledIs
<1> QED BY <1>2, <1>7, <1>8

LEMMA SwapValueStep ==
  ASSUME WordInv(x, r), SwapValue
  PROVE  WordInv(x', r') /\ kind' = kind
<1>1. PICK t \in Thread :
        /\ x.call[t].pc = "swap"
        /\ Do("interlocked", PT!SwapValue(x, t, Bits),
              IF PT!SwapValue(x, t, Bits).call[t].pc = "load" THEN r ELSE Made(t, x.call[t].op, x.call[t].arg))
  BY DEF SwapValue
<1>2. /\ x.val = r.val /\ CallIs(x.call[t]) /\ x = [val |-> x.val, call |-> x.call] /\ t \in DOMAIN x.call
      /\ x.call[t].said = r.said[t]
  BY CallOf
<1> DEFINE op == x.call[t].op
           arg == x.call[t].arg
           old == x.call[t].comp
           after == PT!SwapValue(x, t, Bits)
           new == PT!Stored(op, old, arg, Bits)
           k == PT!Returned(PT!Answer(op, x.val, Bits))
           d == [x.call[t] EXCEPT !.pc = "load"]
<1>3. op \in Ops
  BY <1>1, <1>2 DEF CallIs
<1>4. x' = after /\ kind' = kind /\ r' = IF after.call[t].pc = "load" THEN r ELSE Made(t, op, arg)
  BY <1>1 DEF Do
<1>5. after = IF x.val = old THEN [x EXCEPT !.val = IF x.val = old THEN new ELSE x.val, !.call[t] = k]
              ELSE [x EXCEPT !.call[t].pc = "load"]
  BY DEF PT!SwapValue, PT!CompareExchange
<1>6. CASE x.val = old
  <2>1. after = Swapped(x, t, new, k)
    BY <1>5, <1>6 DEF Swapped
  <2> HIDE DEF k, new, after
  <2>2. after = Called(x, t, new, k)
    BY <2>1, <1>2, WordEdits
  <2> DEFINE said == PT!Answer(op, x.val, Bits)
  <2> HIDE DEF said
  <2>3. CallIs(k) /\ k.said = said /\ k.pc = "none"
    BY ReturnedIs DEF k, said
  <2>4. after.call[t] = k
    BY <2>2, <1>2 DEF Called
  <2>5. r' = Made(t, op, arg)
    BY <2>3, <2>4, <1>4
  <2>6. Made(t, op, arg) = Told(r, t, new, said)
    <3> DEFINE v == x.val
    <3>1. v = r.val /\ old = v /\ said = PT!Answer(op, v, Bits)
      BY <1>2, <1>6 DEF said
    <3> HIDE DEF v, op, arg
    <3>2. Made(t, op, arg) = Told(r, t, PT!Stored(op, v, arg, Bits), PT!Answer(op, v, Bits))
      BY <3>1, <1>3, MadeIs
    <3> QED BY <3>1, <3>2 DEF new, op, arg
  <2>7. WordInv(Called(x, t, new, k), Told(r, t, new, said))
    BY <2>3, CalledIs
  <2> QED BY <2>2, <2>5, <2>6, <2>7, <1>4
<1>7. CASE x.val # old
  <2>1. after = Recalled(x, t, d)
    BY <1>5, <1>7 DEF Recalled
  <2>2. CallIs(d) /\ d.said = x.call[t].said /\ d.pc = "load"
    BY <1>1, <1>2, CallEdits
  <2> HIDE DEF d, after
  <2>3. after = Called(x, t, x.val, d)
    BY <2>1, <1>2, WordEdits
  <2>4. after.call[t] = d
    BY <2>3, <1>2 DEF Called
  <2>5. r' = r
    BY <2>2, <2>4, <1>4
  <2>6. r = Told(r, t, x.val, r.said[t])
    <3>1. r = [val |-> r.val, said |-> r.said] /\ r.said = [u \in Thread |-> r.said[u]]
      BY DEF WordInv
    <3>2. [r.said EXCEPT ![t] = r.said[t]] = r.said
      BY <3>1
    <3> QED BY <3>1, <3>2, <1>2 DEF Told
  <2> DEFINE val == x.val
             said == r.said[t]
  <2>7. after = Called(x, t, val, d) /\ r = Told(r, t, val, said) /\ d.said = said
    BY <2>2, <2>3, <2>6, <1>2
  <2> HIDE DEF val, said
  <2>8. WordInv(Called(x, t, val, d), Told(r, t, val, said))
    BY <2>2, <2>7, CalledIs
  <2> QED BY <2>5, <2>7, <2>8, <1>4
<1> QED BY <1>6, <1>7

LEMMA AddInstructionStep ==
  ASSUME WordInv(x, r), AddInstruction
  PROVE  WordInv(x', r') /\ kind' = kind
<1>1. PICK t \in Thread, op \in {"Increment", "Decrement"} :
        Do("interlocked", PT!AddInstruction(x, t, op, Bits), Made(t, op, 0))
  BY DEF AddInstruction
<1>2. /\ x.val = r.val /\ x = [val |-> x.val, call |-> x.call] /\ t \in DOMAIN x.call
  BY CallOf
<1> DEFINE old == x.val
           new == PT!Stored(op, old, 0, Bits)
           said == PT!Answer(op, old, Bits)
           k == PT!Returned(said)
<1>3. x' = Swapped(x, t, new, k) /\ r' = Made(t, op, 0) /\ kind' = kind
  BY <1>1 DEF Do, PT!AddInstruction, Swapped
<1>4. op \in Ops /\ old = r.val
  BY <1>2 DEF Ops
<1> HIDE DEF old
<1>5. Made(t, op, 0) = Told(r, t, new, said)
  BY <1>4, MadeIs
<1> HIDE DEF k, new, said
<1>6. CallIs(k) /\ k.said = said
  BY ReturnedIs DEF k
<1>7. x' = Called(x, t, new, k)
  BY <1>2, <1>3, WordEdits
<1>8. WordInv(Called(x, t, new, k), Told(r, t, new, said))
  BY <1>6, CalledIs
<1> QED BY <1>3, <1>5, <1>7, <1>8

LEMMA CompareExchangeStep ==
  ASSUME WordInv(x, r), CompareExchange
  PROVE  WordInv(x', r') /\ kind' = kind
<1>1. PICK t \in Thread, n \in Values, comp \in Values :
        Do("interlocked", PT!CallCompareExchange(x, t, n, comp), AtOnce(t, IF r.val = comp THEN n ELSE r.val, r.val))
  BY DEF CompareExchange
<1>2. /\ x.val = r.val /\ x = [val |-> x.val, call |-> x.call] /\ t \in DOMAIN x.call
  BY CallOf
<1> DEFINE said == x.val
           new == IF said = comp THEN n ELSE said
           k == PT!Returned(said)
<1>3. x' = Swapped(x, t, new, k) /\ kind' = kind
  BY <1>1 DEF Do, PT!CallCompareExchange, PT!CompareExchange, Swapped
<1>4. r' = Told(r, t, new, said)
  BY <1>1, <1>2 DEF Do, AtOnce, Told
<1> HIDE DEF k, new, said
<1>6. CallIs(k) /\ k.said = said
  BY ReturnedIs DEF k
<1>7. x' = Called(x, t, new, k)
  BY <1>2, <1>3, WordEdits
<1>8. WordInv(Called(x, t, new, k), Told(r, t, new, said))
  BY <1>6, CalledIs
<1> QED BY <1>3, <1>4, <1>7, <1>8

LEMMA WordStep ==
  ASSUME WordInv(x, r), NextWord
  PROVE  WordInv(x', r') /\ kind' = kind
  BY CallInterlockedStep, LoadValueStep, SwapValueStep, AddInstructionStep, CompareExchangeStep DEF NextWord

LEMMA WordInit ==
  ASSUME NEW a, a = [val |-> 0, said |-> [t \in Thread |-> 0]]
  PROVE  WordInv(PT!NewCell(Thread, 0), a)
<1> DEFINE c == PT!NewCell(Thread, 0)
<1>1. c = [val |-> 0, call |-> [t \in Thread |-> PT!NoCall]]
  BY DEF PT!NewCell
<1> HIDE DEF c
<1>2. CallIs(PT!NoCall) /\ PT!NoCall.said = 0
  BY DEF CallIs, PT!NoCall, Ops
<1> QED BY <1>1, <1>2 DEF WordInv, c

-----------------------------------------------------------------------------
(* What each kind of store keeps, which a step of another kind cannot touch. *)
OwnersInv == /\ kind = "shared" => Agrees(x, r)
             /\ IsText => TextsInv(x, r, kind = "hashed")
             /\ kind = "blobs" => BlobsInv(x, r)
             /\ kind = "pool" => PoolInv(x, r)
             /\ IsPointer => PtrInv(x, r, Owned)
             /\ kind = "interlocked" => WordInv(x, r)

LEMMA KindOfHeads ==
  ASSUME NextHeads
  PROVE  kind = "shared" \/ IsText
<1>1. ASSUME put_Count \/ SetAtShared \/ AddShared \/ SetAtGrowShared \/ InsertAtShared
               \/ InsertArrayShared \/ RemoveAtShared
      PROVE  kind = "shared"
  BY <1>1 DEF put_Count, SetAtShared, AddShared, SetAtGrowShared, InsertAtShared, InsertArrayShared,
              RemoveAtShared, Do
<1>2. ASSUME Share \/ SetEmptyHead
      PROVE  kind = "shared" \/ IsText
  BY <1>2 DEF Share, SetEmptyHead, IsText
<1>3. ASSUME Rename \/ SetAtOwn \/ MakeUpper \/ get_HashCode
      PROVE  IsText
  BY <1>3 DEF Rename, SetAtOwn, MakeUpper, get_HashCode, IsText
<1>4. ASSUME AssignText \/ AssignPart \/ EditBuffer \/ InsertSpan \/ Part \/ SerializeInput
      PROVE  IsText
  BY <1>4 DEF AssignText, AssignPart, EditBuffer, InsertSpan, Part, SerializeInput
<1> QED BY <1>1, <1>2, <1>3, <1>4 DEF NextHeads

LEMMA KindOfBlobs ==
  ASSUME NextBlobs
  PROVE  kind = "blobs"
  BY DEF NextBlobs, AllocSize, ReAllocSize, SetCopyAlloc, SetCopyReAlloc, SetBlob, SetBlobCopy, MoveBlob,
         SetBlobNull, Destruct

LEMMA KindOfPointers ==
  ASSUME NextPointers
  PROVE  IsPointer
  BY DEF NextPointers, NewObject, LetGo, ReleasePtr, DetachPtr, AssignPtr, MovePtr, AssignDupe, put_Ptr,
         SetQI, FillPPtr, IsPointer

LEMMA KindOfWord ==
  ASSUME NextWord
  PROVE  kind = "interlocked"
  BY DEF NextWord, CallInterlocked, LoadValue, SwapValue, AddInstruction, CompareExchange

LEMMA OwnersInit == InitOwners => OwnersInv
<1> SUFFICES ASSUME InitOwners PROVE OwnersInv
  OBVIOUS
<1>1. CASE InitShared
  <2>1. kind = "shared" /\ Agrees(x, r)
    BY <1>1, HeadsInit DEF InitShared, Start
  <2> QED BY <2>1 DEF OwnersInv, IsText, IsPointer
<1>2. CASE InitTexts
  <2> DEFINE hashed == kind = "hashed"
  <2>1. kind \in {"text", "hashed"} /\ x = SH!NoHeads /\ r = [v \in Users |-> <<>>]
    BY <1>2 DEF InitTexts, Start
  <2>2. hashed \in BOOLEAN
    OBVIOUS
  <2> HIDE DEF hashed
  <2>3. TextsInv(x, r, hashed)
    BY <2>1, <2>2, HeadsInit
  <2> QED BY <2>1, <2>3 DEF OwnersInv, IsText, IsPointer, hashed
<1>3. CASE InitBlobs
  <2>1. kind = "blobs" /\ BlobsInv(x, r)
    BY <1>3, NoBlobsAreGood DEF InitBlobs, Start
  <2> QED BY <2>1 DEF OwnersInv, IsText, IsPointer
<1>4. CASE InitPool
  <2>1. kind = "pool" /\ PoolInv(x, r)
    BY <1>4, PoolInit DEF InitPool, Start
  <2> QED BY <2>1 DEF OwnersInv, IsText, IsPointer
<1>5. CASE InitPointers
  <2>1. kind \in {"owned", "counted"} /\ x = PT!NoObjects
        /\ r = [to |-> [s \in Slots |-> 0], hand |-> [o \in Objects |-> 0], val |-> [o \in Objects |-> 0]]
    BY <1>5 DEF InitPointers, Start, Slots
  <2>2. PtrInv(x, r, Owned)
    <3> HIDE DEF Owned
    <3> QED BY <2>1, PointersInit
  <2> QED BY <2>1, <2>2 DEF OwnersInv, IsText
<1>6. CASE InitInterlocked
  <2>1. kind = "interlocked" /\ WordInv(x, r)
    BY <1>6, WordInit DEF InitInterlocked, Start
  <2> QED BY <2>1 DEF OwnersInv, IsText, IsPointer
<1> QED BY <1>1, <1>2, <1>3, <1>4, <1>5, <1>6 DEF InitOwners

LEMMA OwnersStep == OwnersInv /\ [NextOwners]_vars => OwnersInv'
<1> SUFFICES ASSUME OwnersInv, [NextOwners]_vars PROVE OwnersInv'
  OBVIOUS
<1>1. CASE NextHeads /\ kind = "shared"
  <2>1. Agrees(x', r') /\ kind' = "shared"
    BY <1>1, SharedStep DEF OwnersInv
  <2> QED BY <2>1 DEF OwnersInv, IsText, IsPointer
<1>2. CASE NextHeads /\ IsText
  <2>1. TextsInv(x', r', kind' = "hashed") /\ kind' = kind
    BY <1>2, TextsStep DEF OwnersInv
  <2> QED BY <1>2, <2>1 DEF OwnersInv, IsText, IsPointer
<1>3. CASE NextBlobs
  <2>1. BlobsInv(x', r') /\ kind' = "blobs"
    BY <1>3, KindOfBlobs, BlobsStep DEF OwnersInv
  <2> QED BY <2>1 DEF OwnersInv, IsText, IsPointer
<1>4. CASE GetT
  <2>1. kind = "pool"
    BY <1>4 DEF GetT
  <2>2. PoolInv(x', r') /\ kind' = "pool"
    BY <1>4, <2>1, GetTStep DEF OwnersInv
  <2> QED BY <2>2 DEF OwnersInv, IsText, IsPointer
<1>5. CASE NextPointers
  <2>1. IsPointer
    BY <1>5, KindOfPointers
  <2>2. PtrInv(x', r', Owned') /\ kind' = kind
    BY <1>5, <2>1, PointersStep DEF OwnersInv
  <2> QED BY <2>1, <2>2 DEF OwnersInv, IsText, IsPointer
<1>6. CASE NextWord
  <2>1. WordInv(x', r') /\ kind' = "interlocked"
    BY <1>6, KindOfWord, WordStep DEF OwnersInv
  <2> QED BY <2>1 DEF OwnersInv, IsText, IsPointer
<1>7. CASE UNCHANGED vars
  <2>1. kind' = kind /\ x' = x /\ r' = r
    BY <1>7 DEF vars
  <2> QED BY <2>1 DEF OwnersInv, IsText, IsPointer, Owned
<1> QED BY <1>1, <1>2, <1>3, <1>4, <1>5, <1>6, <1>7, KindOfHeads DEF NextOwners

LEMMA OwnersInvAgrees == OwnersInv => OwnersAgree
<1> SUFFICES ASSUME OwnersInv PROVE OwnersAgree
  OBVIOUS
<1>1. kind = "shared" => HeadsAgree
  BY SharedAgree DEF OwnersInv
<1>2. IsText => TextsAgree
  BY TextsAgreeIs DEF OwnersInv
<1>3. kind = "blobs" => BlobsAgree
  BY BlobsAgreeIs DEF OwnersInv
<1>4. kind = "pool" => PoolAgrees
  BY PoolAgreesIs DEF OwnersInv
<1>5. IsPointer => PointersAgree
  BY PointersAgreeIs DEF OwnersInv
<1>6. kind = "interlocked" => InterlockedAgrees
  BY DEF OwnersInv, WordInv, InterlockedAgrees
<1> QED BY <1>1, <1>2, <1>3, <1>4, <1>5, <1>6 DEF OwnersAgree

(* Heads, blobs, temporary blocks, objects and threads are as the           *)
(* invariant of their kind of store says, whatever is called, in any order. *)
THEOREM OwnersInductive == SpecOwners => []OwnersInv
<1> QED BY OwnersInit, OwnersStep, PTL DEF SpecOwners

(* What is shared, owned or counted is freed with its last user and no      *)
(* sooner, a write is seen by those who share it and by no other, the       *)
(* temporary blocks of a thread outlive their turns, and no change of a     *)
(* word that threads share is lost: for any elements, variables, objects,   *)
(* blocks and threads.                                                      *)
THEOREM OwnersSafe == SpecOwners => []OwnersAgree
<1> QED BY OwnersInductive, OwnersInvAgrees, PTL
=============================================================================
