---------------------------- MODULE Heads_proofs -----------------------------
(***************************************************************************)
(* The proofs about Owners, part one: lemmas for induction over numbers and *)
(* about sequences; then variables that share heads (arrays of cArrayT and   *)
(* texts of cString): the invariant Exact of the counts, what each operator *)
(* of SharedHeads does to it, and each action of NextHeads.                 *)
(***************************************************************************)
EXTENDS Owners, FiniteSetTheorems, SequenceTheorems, TLAPS

(* Induction over sets of numbers.                                          *)
LEMMA SetInduction ==
  ASSUME NEW T, 0 \in T, \A n \in Nat : n \in T => n + 1 \in T
  PROVE  Nat \subseteq T
<1>1. SUFFICES ASSUME NEW m \in Nat, m \notin T PROVE FALSE
  OBVIOUS
<1> DEFINE A == T \cap (0..(m - 1))
           C == A \ {0}
           f == [a \in A |-> a + 1]
<1>2. IsFiniteSet(A)
  <2>1. IsFiniteSet(0..(m - 1))
    BY FS_Interval
  <2> QED BY <2>1, FS_Subset
<1>3. 0 \in A
  BY <1>1
<1>4. f \in Injection(A, C)
  <2>1. \A a \in A : a + 1 \in C
    BY <1>1
  <2> QED BY <2>1 DEF Injection, IsInjective
<1>5. IsFiniteSet(C) /\ Cardinality(C) = Cardinality(A) - 1
  BY <1>2, <1>3, FS_RemoveElement
<1>6. Cardinality(A) <= Cardinality(C)
  <2>1. Injection(A, C) # {}
    BY <1>4
  <2> QED BY <2>1, <1>2, <1>5, FS_Injection, ZenonT(60)
<1> QED BY <1>5, <1>6, <1>2, FS_CardinalityType

LEMMA LeastNumber ==
  ASSUME NEW T, T \subseteq Nat, T # {}
  PROVE  \E m \in T : \A n \in T : m <= n
<1>1. SUFFICES ASSUME \A m \in T : \E n \in T : n < m PROVE FALSE
  OBVIOUS
<1> DEFINE Z == {n \in Nat : \A k \in T : n <= k}
<1>2. 0 \in Z
  OBVIOUS
<1>3. \A n \in Nat : n \in Z => n + 1 \in Z
  BY <1>1
<1> HIDE DEF Z
<1>4. Nat \subseteq Z
  BY <1>2, <1>3, SetInduction
<1>5. PICK k \in T : TRUE
  OBVIOUS
<1>6. k + 1 \in Z
  BY <1>4, <1>5
<1> QED BY <1>5, <1>6 DEF Z

-----------------------------------------------------------------------------
Value == Int  \* what is kept in a head
HeadT == [data : Seq(Value), refs : Nat, hash : Seq(Value)]
Heap == [heads : [Heads -> HeadT], ref : [Users -> Heads \cup {Nil}]]
Pointing(h, b) == {v \in Users : h.ref[v] = b}
Exact(h) == /\ h \in Heap
            /\ \A b \in Heads : /\ h.heads[b].refs = Cardinality(Pointing(h, b))
                                /\ h.heads[b].refs = 0 => h.heads[b] = SH!Free
Others(h, g, v) == \A w \in Users \ {v} :
  /\ g.ref[w] = h.ref[w]
  /\ h.ref[w] # Nil => /\ g.heads[h.ref[w]].data = h.heads[h.ref[w]].data
                       /\ g.heads[h.ref[w]].hash = h.heads[h.ref[w]].hash
Sole(h, v) == h.ref[v] # Nil /\ \A w \in Users \ {v} : h.ref[w] # h.ref[v]

LEMMA ValuesAre ==
  /\ SH!Fresh \in Value /\ SH!Junk \in Value /\ 0 \in Value
  /\ Item \subseteq Value /\ Character \subseteq Value
  BY HeadsAssumption DEF Value, SH!Fresh, SH!Junk

LEMMA PointingFinite ==
  ASSUME NEW h, NEW b
  PROVE  IsFiniteSet(Pointing(h, b)) /\ Cardinality(Pointing(h, b)) \in Nat
<1>1. Pointing(h, b) \subseteq Users
  BY DEF Pointing
<1> QED BY <1>1, HeadsAssumption, FS_Subset, FS_CardinalityType

(* A head that is pointed to is counted, and counted once for its sole user.*)
LEMMA PointedIsCounted ==
  ASSUME NEW h, Exact(h), NEW v \in Users, h.ref[v] # Nil
  PROVE  /\ h.ref[v] \in Heads /\ h.heads[h.ref[v]].refs \in Nat \ {0}
         /\ h.heads[h.ref[v]].refs = 1 <=> Sole(h, v)
<1> DEFINE b == h.ref[v]
<1>1. b \in Heads
  BY DEF Exact, Heap
<1>2. v \in Pointing(h, b)
  BY DEF Pointing
<1>3. h.heads[b].refs = Cardinality(Pointing(h, b))
  BY <1>1 DEF Exact
<1>4. Cardinality(Pointing(h, b)) # 0
  BY <1>2, PointingFinite, FS_EmptySet
<1>5. Cardinality(Pointing(h, b)) = 1 <=> Pointing(h, b) = {v}
  <2>1. ASSUME Cardinality(Pointing(h, b)) = 1 PROVE Pointing(h, b) = {v}
    <3>1. Cardinality(Pointing(h, b) \ {v}) = 0 /\ IsFiniteSet(Pointing(h, b) \ {v})
      BY <2>1, <1>2, PointingFinite, FS_RemoveElement
    <3> QED BY <3>1, <1>2, FS_EmptySet
  <2>2. Cardinality({v}) = 1
    BY FS_Singleton
  <2> QED BY <2>1, <2>2
<1>6. Pointing(h, b) = {v} <=> Sole(h, v)
  BY <1>2 DEF Pointing, Sole
<1> QED BY <1>1, <1>3, <1>4, <1>5, <1>6, PointingFinite

LEMMA HeapHasRoom ==
  ASSUME NEW h, Exact(h)
  PROVE  SH!FreeBlocks(h) # {}
<1>1. SUFFICES ASSUME \A b \in Heads : h.heads[b].refs # 0 PROVE FALSE
  BY DEF SH!FreeBlocks
<1>2. \A b \in Heads : \E v \in Users : h.ref[v] = b
  <2> TAKE b \in Heads
  <2>1. Pointing(h, b) # {}
    BY <1>1, FS_EmptySet DEF Exact
  <2> QED BY <2>1 DEF Pointing
<1> DEFINE f == [b \in Heads |-> CHOOSE v \in Users : h.ref[v] = b]
<1>3. \A b \in Heads : f[b] \in Users /\ h.ref[f[b]] = b
  BY <1>2
<1>4. f \in Injection(Heads, Users)
  <2>1. f \in [Heads -> Users]
    BY <1>3
  <2> HIDE DEF f
  <2> QED BY <1>3, <2>1 DEF Injection, IsInjective
<1>5. Cardinality(Heads) <= Cardinality(Users)
  <2>1. Injection(Heads, Users) # {}
    BY <1>4
  <2> QED BY <2>1, HeadsAssumption, FS_Injection
<1>6. Cardinality(Heads) \in Nat /\ Cardinality(Users) \in Nat
  BY HeadsAssumption, FS_CardinalityType
<1> QED BY <1>5, <1>6, HeadsAssumption

(* What one variable's turning from one head to another does to the counts. *)
LEMMA Repoint ==
  ASSUME NEW h, Exact(h), NEW g \in Heap, NEW v \in Users, NEW c \in Heads \cup {Nil},
         c # h.ref[v], g.ref = [h.ref EXCEPT ![v] = c],
         \A b \in Heads \ {c, h.ref[v]} : g.heads[b] = h.heads[b],
         c # Nil => g.heads[c].refs = h.heads[c].refs + 1,
         h.ref[v] # Nil => g.heads[h.ref[v]] =
             IF h.heads[h.ref[v]].refs = 1 THEN SH!Free
             ELSE [h.heads[h.ref[v]] EXCEPT !.refs = @ - 1]
  PROVE  Exact(g)
<1> DEFINE old == h.ref[v]
<1>1. h \in Heap
  BY DEF Exact
<1>2. ASSUME NEW b \in Heads
      PROVE  /\ g.heads[b].refs = Cardinality(Pointing(g, b))
             /\ g.heads[b].refs = 0 => g.heads[b] = SH!Free
  <2>0. h.heads[b].refs = Cardinality(Pointing(h, b)) /\ (h.heads[b].refs = 0 => h.heads[b] = SH!Free)
    BY <1>2 DEF Exact
  <2>1. CASE b # c /\ b # old
    <3>1. Pointing(g, b) = Pointing(h, b)
      BY <2>1, <1>1 DEF Pointing, Heap
    <3> QED BY <2>0, <2>1, <3>1
  <2>2. CASE b = c
    <3>1. Pointing(g, b) = Pointing(h, b) \cup {v} /\ v \notin Pointing(h, b)
      BY <2>2, <1>1 DEF Pointing, Heap
    <3>2. Cardinality(Pointing(g, b)) = Cardinality(Pointing(h, b)) + 1
      BY <3>1, PointingFinite, FS_AddElement, ZenonT(60)
    <3>3. b # Nil
      BY HeadsAssumption
    <3> QED BY <2>0, <2>2, <3>2, <3>3, PointingFinite
  <2>3. CASE b = old
    <3>1. Pointing(g, b) = Pointing(h, b) \ {v} /\ v \in Pointing(h, b)
      BY <2>3, <1>1 DEF Pointing, Heap
    <3>2. Cardinality(Pointing(g, b)) = Cardinality(Pointing(h, b)) - 1
      BY <3>1, PointingFinite, FS_RemoveElement, ZenonT(60)
    <3>3. b # Nil
      BY HeadsAssumption
    <3>4. h.heads[b] \in HeadT /\ h.heads[b].refs \in Nat \ {0}
      BY <2>3, <3>3, PointedIsCounted, <1>1 DEF Heap
    <3> QED BY <2>0, <2>3, <3>2, <3>3, <3>4, PointingFinite DEF SH!Free, HeadT
  <2> QED BY <2>1, <2>2, <2>3
<1> QED BY <1>2 DEF Exact

LEMMA FreeInHead == SH!Free \in HeadT
  BY DEF SH!Free, HeadT

LEMMA Recounted ==
  ASSUME NEW a \in HeadT, NEW n \in Nat
  PROVE  LET c == [a EXCEPT !.refs = n]
         IN c \in HeadT /\ c.refs = n /\ c.data = a.data /\ c.hash = a.hash
  BY DEF HeadT

LEMMA DecRefCountIs ==
  ASSUME NEW h, Exact(h), NEW v \in Users
  PROVE  LET g == SH!DecRefCount(h, h.ref[v])
             old == h.ref[v]
         IN /\ g \in Heap /\ g.ref = h.ref
            /\ \A b \in Heads \ {old} : g.heads[b] = h.heads[b]
            /\ old # Nil => g.heads[old] = IF h.heads[old].refs = 1 THEN SH!Free
                                           ELSE [h.heads[old] EXCEPT !.refs = @ - 1]
<1>1. CASE h.ref[v] = Nil
  BY <1>1 DEF SH!DecRefCount, Exact, Heap
<1>2. CASE h.ref[v] # Nil
  <2> DEFINE old == h.ref[v]
             new == IF h.heads[old].refs = 1 THEN SH!Free ELSE [h.heads[old] EXCEPT !.refs = @ - 1]
  <2>1. old \in Heads /\ h.heads[old].refs \in Nat \ {0} /\ h \in Heap
    BY <1>2, PointedIsCounted DEF Exact
  <2>2. new \in HeadT
    <3>1. h.heads[old] \in HeadT /\ h.heads[old].refs - 1 \in Nat
      BY <2>1 DEF Heap
    <3> QED BY <3>1, FreeInHead, Recounted
  <2>3. SH!DecRefCount(h, old) = [h EXCEPT !.heads = [h.heads EXCEPT ![old] = new]]
    BY <1>2, Zenon DEF SH!DecRefCount
  <2> HIDE DEF new
  <2>4. /\ SH!DecRefCount(h, old) \in Heap /\ SH!DecRefCount(h, old).ref = h.ref
        /\ \A b \in Heads \ {old} : SH!DecRefCount(h, old).heads[b] = h.heads[b]
        /\ SH!DecRefCount(h, old).heads[old] = new
    BY <2>1, <2>2, <2>3 DEF Heap
  <2> QED BY <2>4 DEF new
<1> QED BY <1>1, <1>2

(* SetEmpty, a new head, and another variable's head.                       *)
LEMMA Emptied ==
  ASSUME NEW h, Exact(h), NEW v \in Users
  PROVE  LET g == SH!SetEmpty(h, v)
         IN Exact(g) /\ Others(h, g, v) /\ g.ref[v] = Nil
<1> DEFINE d == SH!DecRefCount(h, h.ref[v])
           g == SH!SetEmpty(h, v)
<1>1. g = [d EXCEPT !.ref = [d.ref EXCEPT ![v] = Nil]]
  BY DEF SH!SetEmpty, SH!Point
<1>2. h \in Heap
  BY DEF Exact
<1>3. /\ d \in Heap /\ d.ref = h.ref
      /\ \A b \in Heads \ {h.ref[v]} : d.heads[b] = h.heads[b]
      /\ h.ref[v] # Nil => d.heads[h.ref[v]] = IF h.heads[h.ref[v]].refs = 1 THEN SH!Free
                                     ELSE [h.heads[h.ref[v]] EXCEPT !.refs = @ - 1]
  BY DecRefCountIs
<1> HIDE DEF d, g
<1>4. /\ g \in Heap /\ g.ref = [h.ref EXCEPT ![v] = Nil] /\ g.heads = d.heads
  BY <1>1, <1>2, <1>3 DEF Heap
<1>5. g.ref[v] = Nil
  BY <1>4, <1>2 DEF Heap
<1>6. Exact(g)
  <2>1. CASE h.ref[v] = Nil
    <3>1. g.ref = h.ref
      BY <1>4, <2>1, <1>2 DEF Heap
    <3>2. \A b \in Heads : g.heads[b] = h.heads[b]
      BY <1>3, <1>4, <2>1, HeadsAssumption
    <3> QED BY <3>1, <3>2, <1>4 DEF Exact, Pointing
  <2>2. CASE h.ref[v] # Nil
    BY <1>3, <1>4, <2>2, Repoint, SMTT(60)
  <2> QED BY <2>1, <2>2
<1>7. Others(h, g, v)
  <2> SUFFICES ASSUME NEW w \in Users \ {v}, h.ref[w] # Nil
               PROVE  /\ g.heads[h.ref[w]].data = h.heads[h.ref[w]].data
                      /\ g.heads[h.ref[w]].hash = h.heads[h.ref[w]].hash
    BY <1>4, <1>2 DEF Others, Heap
  <2>1. CASE h.ref[w] # h.ref[v]
    BY <2>1, <1>2, <1>3, <1>4 DEF Heap
  <2>2. CASE h.ref[w] = h.ref[v]
    <3>1. h.heads[h.ref[v]].refs # 1
      BY <2>2, PointedIsCounted DEF Sole
    <3>2. h.heads[h.ref[v]] \in HeadT
      BY <2>2, <1>2 DEF Heap
    <3> QED BY <3>1, <3>2, <2>2, <1>3, <1>4 DEF HeadT
  <2> QED BY <2>1, <2>2
<1> QED BY <1>5, <1>6, <1>7 DEF g

LEMMA Renewed ==
  ASSUME NEW h, Exact(h), NEW v \in Users, NEW data \in Seq(Value)
  PROVE  LET g == SH!SetNew(h, v, data)
         IN /\ Exact(g) /\ Others(h, g, v) /\ Sole(g, v)
            /\ g.heads[g.ref[v]].data = data /\ g.heads[g.ref[v]].hash = SH!Clear
<1> DEFINE b == CHOOSE y \in SH!FreeBlocks(h) : TRUE
           new == [data |-> data, refs |-> 1, hash |-> SH!Clear]
           c == [h EXCEPT !.heads = [h.heads EXCEPT ![b] = new]]
           d == SH!DecRefCount(c, h.ref[v])
           g == SH!SetNew(h, v, data)
           old == h.ref[v]
<1>1. g = [d EXCEPT !.ref = [d.ref EXCEPT ![v] = b]]
  BY DEF SH!SetNew, SH!Point, SH!CreateHead
<1>2. h \in Heap
  BY DEF Exact
<1>3. b \in Heads /\ h.heads[b].refs = 0
  <2>1. b \in SH!FreeBlocks(h)
    BY HeapHasRoom
  <2> QED BY <2>1 DEF SH!FreeBlocks
<1>4. \A w \in Users : h.ref[w] # b
  BY <1>3, HeadsAssumption, PointedIsCounted
<1>5. new \in HeadT /\ new.data = data /\ new.refs = 1 /\ new.hash = SH!Clear
  BY DEF HeadT, SH!Clear
<1> HIDE DEF b, new
<1>6. c \in Heap /\ c.ref = h.ref /\ c.heads[b] = new /\ \A a \in Heads \ {b} : c.heads[a] = h.heads[a]
  BY <1>2, <1>3, <1>5 DEF Heap
<1> HIDE DEF c
<1>7. /\ d \in Heap /\ d.ref = h.ref
      /\ \A a \in Heads \ {old} : d.heads[a] = c.heads[a]
      /\ old # Nil => d.heads[old] = IF h.heads[old].refs = 1 THEN SH!Free
                                     ELSE [h.heads[old] EXCEPT !.refs = @ - 1]
  <2>1. CASE old = Nil
    BY <2>1, <1>6 DEF SH!DecRefCount
  <2>2. CASE old # Nil
    <3>1. old \in Heads /\ h.heads[old].refs \in Nat \ {0} /\ old # b
      BY <2>2, PointedIsCounted, <1>4
    <3>2. c.heads[old] = h.heads[old]
      BY <3>1, <1>6
    <3> DEFINE less == IF h.heads[old].refs = 1 THEN SH!Free ELSE [h.heads[old] EXCEPT !.refs = @ - 1]
    <3>3. less \in HeadT
      <4>1. h.heads[old] \in HeadT /\ h.heads[old].refs - 1 \in Nat
        BY <3>1, <1>2 DEF Heap
      <4> QED BY <4>1, FreeInHead, Recounted
    <3>4. d = [c EXCEPT !.heads = [c.heads EXCEPT ![old] = less]]
      BY <2>2, <3>2, Zenon DEF SH!DecRefCount
    <3> HIDE DEF d, less
    <3>5. /\ d \in Heap /\ d.ref = h.ref /\ d.heads[old] = less
          /\ \A a \in Heads \ {old} : d.heads[a] = c.heads[a]
      BY <1>6, <3>1, <3>3, <3>4 DEF Heap
    <3> QED BY <3>5 DEF less
  <2> QED BY <2>1, <2>2
<1> HIDE DEF d, g
<1>8. /\ g \in Heap /\ g.ref = [h.ref EXCEPT ![v] = b] /\ g.heads = d.heads /\ g.ref[v] = b
  BY <1>1, <1>2, <1>3, <1>7 DEF Heap
<1>9. /\ \A a \in Heads \ {b, old} : g.heads[a] = h.heads[a]
      /\ g.heads[b] = new
  BY <1>3, <1>4, <1>6, <1>7, <1>8
<1>10. Exact(g)
  <2>1. b # Nil /\ b # old
    BY <1>3, <1>4, HeadsAssumption
  <2>2. g.heads[b].refs = h.heads[b].refs + 1
    BY <1>3, <1>5, <1>9
  <2> QED BY <2>1, <2>2, <1>3, <1>7, <1>8, <1>9, Repoint
<1>11. Others(h, g, v)
  <2> SUFFICES ASSUME NEW w \in Users \ {v}, h.ref[w] # Nil
               PROVE  /\ g.heads[h.ref[w]].data = h.heads[h.ref[w]].data
                      /\ g.heads[h.ref[w]].hash = h.heads[h.ref[w]].hash
    BY <1>8, <1>2 DEF Others, Heap
  <2>1. h.ref[w] \in Heads /\ h.ref[w] # b
    BY <1>2, <1>4 DEF Heap
  <2>2. CASE h.ref[w] # h.ref[v]
    BY <2>1, <2>2, <1>9
  <2>3. CASE h.ref[w] = h.ref[v]
    <3>1. h.heads[h.ref[v]].refs # 1
      BY <2>3, PointedIsCounted DEF Sole
    <3>2. h.heads[h.ref[v]] \in HeadT
      BY <2>1, <2>3, <1>2 DEF Heap
    <3> QED BY <3>1, <3>2, <2>3, <1>7, <1>8 DEF HeadT
  <2> QED BY <2>2, <2>3
<1>12. Sole(g, v)
  BY <1>2, <1>3, <1>4, <1>8, HeadsAssumption DEF Sole, Heap
<1> QED BY <1>5, <1>8, <1>9, <1>10, <1>11, <1>12 DEF g

LEMMA Pointed ==
  ASSUME NEW h, Exact(h), NEW v \in Users, NEW u \in Users
  PROVE  LET g == SH!put_Ptr(h, v, h.ref[u])
         IN /\ Exact(g) /\ Others(h, g, v) /\ g.ref[v] = h.ref[u]
            /\ h.ref[u] # Nil => /\ g.heads[h.ref[u]].data = h.heads[h.ref[u]].data
                                 /\ g.heads[h.ref[u]].hash = h.heads[h.ref[u]].hash
<1> DEFINE b == h.ref[u]
           old == h.ref[v]
           d == SH!DecRefCount(h, old)
           i == SH!IncRefCount(d, b)
           g == SH!put_Ptr(h, v, b)
<1>0. h \in Heap /\ b \in Heads \cup {Nil}
  BY DEF Exact, Heap
<1>1. CASE old = b
  <2>1. g = h
    BY <1>1 DEF SH!put_Ptr
  <2> QED BY <2>1, <1>1 DEF Others
<1>2. CASE old # b
  <2>1. g = [i EXCEPT !.ref = [i.ref EXCEPT ![v] = b]]
    BY <1>2 DEF SH!put_Ptr, SH!Point
  <2>2. /\ d \in Heap /\ d.ref = h.ref
        /\ \A a \in Heads \ {old} : d.heads[a] = h.heads[a]
        /\ old # Nil => d.heads[old] = IF h.heads[old].refs = 1 THEN SH!Free
                                       ELSE [h.heads[old] EXCEPT !.refs = @ - 1]
    BY DecRefCountIs
  <2> HIDE DEF d
  <2>3. /\ i \in Heap /\ i.ref = h.ref
        /\ \A a \in Heads \ {b} : i.heads[a] = d.heads[a]
        /\ b # Nil => i.heads[b] = [h.heads[b] EXCEPT !.refs = @ + 1]
    <3>1. CASE b = Nil
      BY <3>1, <2>2 DEF SH!IncRefCount
    <3>2. CASE b # Nil
      <4>1. b \in Heads /\ d.heads[b] = h.heads[b]
        BY <3>2, <1>0, <1>2, <2>2
      <4> DEFINE more == [h.heads[b] EXCEPT !.refs = @ + 1]
      <4>2. more \in HeadT
        <5>1. h.heads[b] \in HeadT /\ h.heads[b].refs + 1 \in Nat
          BY <4>1, <1>0 DEF Heap, HeadT
        <5> QED BY <5>1, Recounted
      <4>3. i = [d EXCEPT !.heads = [d.heads EXCEPT ![b] = more]]
        BY <3>2, <4>1, <2>2, <1>0 DEF SH!IncRefCount, Heap, HeadT
      <4> HIDE DEF more, i
      <4>4. /\ i \in Heap /\ i.ref = h.ref /\ i.heads[b] = more
            /\ \A a \in Heads \ {b} : i.heads[a] = d.heads[a]
        BY <4>1, <4>2, <4>3, <2>2 DEF Heap
      <4> QED BY <4>4 DEF more
    <3> QED BY <3>1, <3>2
  <2> HIDE DEF i, g
  <2>4. g \in Heap /\ g.ref = [h.ref EXCEPT ![v] = b] /\ g.heads = i.heads /\ g.ref[v] = b
    BY <2>1, <2>3, <1>0 DEF Heap
  <2>5. \A a \in Heads \ {b, old} : g.heads[a] = h.heads[a]
    BY <2>2, <2>3, <2>4
  <2>6. b # Nil => /\ g.heads[b].refs = h.heads[b].refs + 1
                   /\ g.heads[b].data = h.heads[b].data /\ g.heads[b].hash = h.heads[b].hash
    <3> SUFFICES ASSUME b # Nil PROVE /\ g.heads[b].refs = h.heads[b].refs + 1
                   /\ g.heads[b].data = h.heads[b].data /\ g.heads[b].hash = h.heads[b].hash
      OBVIOUS
    <3>1. h.heads[b] \in HeadT
      BY <1>0 DEF Heap
    <3> QED BY <3>1, <2>3, <2>4 DEF HeadT
  <2>7. old # Nil => g.heads[old] = IF h.heads[old].refs = 1 THEN SH!Free
                                       ELSE [h.heads[old] EXCEPT !.refs = @ - 1]
    <3>1. old # Nil => old \in Heads
      BY <1>0 DEF Heap
    <3> QED BY <3>1, <1>2, <2>2, <2>3, <2>4
  <2>8. Exact(g)
    <3>1. g \in Heap /\ b \in Heads \cup {Nil} /\ b # h.ref[v] /\ g.ref = [h.ref EXCEPT ![v] = b]
      BY <2>4, <1>0, <1>2
    <3>2. \A a \in Heads \ {b, h.ref[v]} : g.heads[a] = h.heads[a]
      BY <2>5
    <3>3. b # Nil => g.heads[b].refs = h.heads[b].refs + 1
      BY <2>6
    <3>4. h.ref[v] # Nil => g.heads[h.ref[v]] = IF h.heads[h.ref[v]].refs = 1 THEN SH!Free
                                                ELSE [h.heads[h.ref[v]] EXCEPT !.refs = @ - 1]
      BY <2>7
    <3> HIDE DEF b, old
    <3> QED BY <3>1, <3>2, <3>3, <3>4, Repoint, SMTT(60)
  <2>9. Others(h, g, v)
    <3> SUFFICES ASSUME NEW w \in Users \ {v}, h.ref[w] # Nil
                 PROVE  /\ g.heads[h.ref[w]].data = h.heads[h.ref[w]].data
                        /\ g.heads[h.ref[w]].hash = h.heads[h.ref[w]].hash
      BY <2>4, <1>0 DEF Others, Heap
    <3>0. h.ref[w] \in Heads
      BY <1>0 DEF Heap
    <3>1. CASE h.ref[w] \notin {b, old}
      BY <3>0, <3>1, <2>5
    <3>2. CASE h.ref[w] = b
      BY <3>2, <2>6
    <3>3. CASE h.ref[w] = old
      <4>1. h.heads[old].refs # 1
        BY <3>3, PointedIsCounted DEF Sole
      <4>2. h.heads[old] \in HeadT
        BY <3>0, <3>3, <1>0 DEF Heap
      <4> QED BY <4>1, <4>2, <3>3, <2>7 DEF HeadT
    <3> QED BY <3>1, <3>2, <3>3
  <2> QED BY <2>4, <2>6, <2>8, <2>9 DEF g
<1> QED BY <1>1, <1>2

(* A head written in place.                                                 *)
Put(h, b, head) == [h EXCEPT !.heads = [h.heads EXCEPT ![b] = head]]
Rewrites(head, old, data, hash) ==
  head \in HeadT /\ head.data = data /\ head.hash = hash /\ head.refs = old.refs
Writes(h, g, v, data, hash) ==
  \E head : g = Put(h, h.ref[v], head) /\ Rewrites(head, h.heads[h.ref[v]], data, hash)

LEMMA WriteIs ==
  ASSUME NEW h, NEW v, h.heads[h.ref[v]] \in HeadT, NEW data \in Seq(Value), NEW hash \in Seq(Value)
  PROVE  LET old == h.heads[h.ref[v]]
         IN /\ Writes(h, [h EXCEPT !.heads[h.ref[v]] = [@ EXCEPT !.data = data, !.hash = hash]], v, data, hash)
            /\ Writes(h, SH!Write(h, v, data), v, data, old.hash)
            /\ Writes(h, [h EXCEPT !.heads[h.ref[v]].hash = hash], v, old.data, hash)
<1> DEFINE a == h.heads[h.ref[v]]
           a1 == [a EXCEPT !.data = data, !.hash = hash]
           a2 == [a EXCEPT !.data = data]
           a3 == [a EXCEPT !.hash = hash]
<1>1. a \in HeadT
  OBVIOUS
<1>2. /\ Rewrites(a1, a, data, hash)
      /\ Rewrites(a2, a, data, a.hash)
      /\ Rewrites(a3, a, a.data, hash)
  <2> HIDE DEF a
  <2> QED BY <1>1 DEF HeadT, Rewrites
<1>3. [h EXCEPT !.heads[h.ref[v]] = [@ EXCEPT !.data = data, !.hash = hash]] = Put(h, h.ref[v], a1)
  BY Zenon DEF Put
<1>4. SH!Write(h, v, data) = Put(h, h.ref[v], a2)
  BY Zenon DEF Put, SH!Write
<1>5. [h EXCEPT !.heads[h.ref[v]].hash = hash] = Put(h, h.ref[v], a3)
  BY Zenon DEF Put
<1> HIDE DEF a1, a2, a3
<1> QED BY <1>2, <1>3, <1>4, <1>5, Zenon DEF Writes

LEMMA Rewritten ==
  ASSUME NEW h, Exact(h), NEW v \in Users, h.ref[v] # Nil,
         NEW data, NEW hash, NEW g, Writes(h, g, v, data, hash)
  PROVE  /\ Exact(g) /\ g.ref = h.ref
         /\ g.heads[h.ref[v]].data = data /\ g.heads[h.ref[v]].hash = hash
         /\ g.heads[h.ref[v]].refs = h.heads[h.ref[v]].refs
         /\ \A b \in Heads \ {h.ref[v]} : g.heads[b] = h.heads[b]
         /\ Sole(h, v) => Others(h, g, v) /\ Sole(g, v)
<1> DEFINE b == h.ref[v]
<1>1. h \in Heap /\ b \in Heads /\ h.heads[b].refs \in Nat \ {0}
  BY PointedIsCounted DEF Exact
<1>2. PICK new : /\ g = Put(h, b, new)
                 /\ new \in HeadT /\ new.data = data /\ new.hash = hash /\ new.refs = h.heads[b].refs
  BY <1>1 DEF Writes, Rewrites
<1>3. /\ g \in Heap /\ g.ref = h.ref /\ g.heads[b] = new
      /\ \A a \in Heads \ {b} : g.heads[a] = h.heads[a]
  BY <1>1, <1>2 DEF Heap, Put
<1>4. Exact(g)
  <2> SUFFICES ASSUME NEW a \in Heads
               PROVE  /\ g.heads[a].refs = Cardinality(Pointing(g, a))
                      /\ g.heads[a].refs = 0 => g.heads[a] = SH!Free
    BY <1>3 DEF Exact
  <2>1. Pointing(g, a) = Pointing(h, a) /\ g.heads[a].refs = h.heads[a].refs
    BY <1>2, <1>3 DEF Pointing
  <2> QED BY <2>1, <1>1, <1>3 DEF Exact
<1>5. Sole(h, v) => Others(h, g, v) /\ Sole(g, v)
  BY <1>1, <1>3 DEF Sole, Others, Heap
<1> QED BY <1>2, <1>3, <1>4, <1>5

LEMMA Moved ==
  ASSUME NEW h, Exact(h), NEW v \in Users, NEW u \in Users, u # v, h.ref[v] = Nil
  PROVE  LET g == SH!Move(h, v, u)
         IN /\ Exact(g) /\ g.heads = h.heads /\ g.ref[v] = h.ref[u] /\ g.ref[u] = Nil
            /\ \A w \in Users \ {u, v} : g.ref[w] = h.ref[w]
<1> DEFINE g == SH!Move(h, v, u)
<1>1. h \in Heap
  BY DEF Exact
<1>2. g = [h EXCEPT !.ref = [h.ref EXCEPT ![u] = Nil, ![v] = h.ref[u]]]
  BY DEF SH!Move
<1> HIDE DEF g
<1>3. /\ g \in Heap /\ g.heads = h.heads /\ g.ref[v] = h.ref[u] /\ g.ref[u] = Nil
      /\ \A w \in Users \ {u, v} : g.ref[w] = h.ref[w]
  BY <1>1, <1>2 DEF Heap
<1>4. ASSUME NEW b \in Heads
      PROVE  Cardinality(Pointing(g, b)) = Cardinality(Pointing(h, b))
  <2>0. b # Nil
    BY HeadsAssumption
  <2>1. CASE h.ref[u] # b
    <3>1. Pointing(g, b) = Pointing(h, b)
      BY <2>0, <2>1, <1>1, <1>3 DEF Pointing, Heap
    <3> QED BY <3>1
  <2>2. CASE h.ref[u] = b
    <3>1. /\ Pointing(g, b) = (Pointing(h, b) \ {u}) \cup {v} /\ u \in Pointing(h, b)
          /\ v \notin Pointing(h, b) \ {u}
      BY <2>0, <2>2, <1>1, <1>3 DEF Pointing, Heap
    <3>2. /\ Cardinality(Pointing(h, b) \ {u}) = Cardinality(Pointing(h, b)) - 1
          /\ IsFiniteSet(Pointing(h, b) \ {u})
      BY <3>1, PointingFinite, FS_RemoveElement
    <3>3. Cardinality(Pointing(g, b)) = Cardinality(Pointing(h, b) \ {u}) + 1
      BY <3>1, <3>2, FS_AddElement
    <3> QED BY <3>2, <3>3, PointingFinite
  <2> QED BY <2>1, <2>2
<1>5. Exact(g)
  BY <1>3, <1>4 DEF Exact
<1> QED BY <1>3, <1>5 DEF g

(* Sequences that are written as functions.                                 *)
LEMMA SeqOf ==
  ASSUME NEW E, NEW n \in Nat, NEW f, f \in [1..n -> E]
  PROVE  f \in Seq(E) /\ Len(f) = n /\ DOMAIN f = 1..n
<1>1. f \in Seq(E)
  BY SeqDef
<1>2. DOMAIN f = 1..n /\ DOMAIN f = 1..Len(f) /\ Len(f) \in Nat
  BY <1>1, LenProperties
<1> QED BY <1>1, <1>2

LEMMA PaddedIs ==
  ASSUME NEW E, NEW s \in Seq(E), NEW n \in Nat, NEW new \in E
  PROVE  /\ Padded(s, n, new) \in Seq(E) /\ Len(Padded(s, n, new)) = n
         /\ \A k \in 1..n : Padded(s, n, new)[k] = IF k <= Len(s) THEN s[k] ELSE new
         /\ n = Len(s) => Padded(s, n, new) = s
         /\ SH!Resized(s, n, new) = Padded(s, n, new)
<1> DEFINE p == Padded(s, n, new)
<1>1. p \in [1..n -> E] /\ \A k \in 1..n : p[k] = IF k <= Len(s) THEN s[k] ELSE new
  BY LenProperties DEF Padded
<1>2. p \in Seq(E) /\ Len(p) = n
  BY <1>1, SeqOf
<1>3. n = Len(s) => p = s
  <2> HIDE DEF p
  <2> QED BY <1>1, <1>2, SeqEqual
<1>4. SH!Resized(s, n, new) = p
  BY DEF SH!Resized, Padded
<1> QED BY <1>1, <1>2, <1>3, <1>4

LEMMA PaddedAt ==
  ASSUME NEW E, NEW s \in Seq(E), NEW n \in Nat, NEW new \in E
  PROVE  \A k \in 1..n : Padded(s, n, new)[k] = IF k <= Len(s) THEN s[k] ELSE new
  BY PaddedIs

LEMMA PaddedSeq ==
  ASSUME NEW E, NEW s \in Seq(E), NEW n \in Nat, NEW new \in E
  PROVE  Padded(s, n, new) \in Seq(E) /\ Len(Padded(s, n, new)) = n
  BY PaddedIs

LEMMA BeforeAfter ==
  ASSUME NEW E, NEW s \in Seq(E), NEW i \in Nat
  PROVE  /\ Before(s, i) \in Seq(E) /\ Len(Before(s, i)) = Least(i, Len(s))
         /\ \A k \in 1..Least(i, Len(s)) : Before(s, i)[k] = s[k]
         /\ After(s, i) \in Seq(E) /\ Len(After(s, i)) = IF i < Len(s) THEN Len(s) - i ELSE 0
         /\ \A k \in 1..(Len(s) - i) : After(s, i)[k] = s[i + k]
         /\ i >= Len(s) => Before(s, i) = s
<1>1. Len(s) \in Nat /\ \A k \in 1..Len(s) : s[k] \in E
  BY LenProperties, ElementOfSeq
<1>2. /\ Before(s, i) \in Seq(E) /\ Len(Before(s, i)) = Least(i, Len(s))
      /\ \A k \in 1..Least(i, Len(s)) : Before(s, i)[k] = s[k]
  BY <1>1, SubSeqProperties DEF Before, Least
<1>3. /\ After(s, i) \in Seq(E) /\ Len(After(s, i)) = IF i < Len(s) THEN Len(s) - i ELSE 0
      /\ \A k \in 1..(Len(s) - i) : After(s, i)[k] = s[i + k]
  BY <1>1, SubSeqProperties DEF After
<1>4. i >= Len(s) => Before(s, i) = s
  BY <1>1, <1>2, SeqEqual DEF Least
<1> QED BY <1>2, <1>3, <1>4

LEMMA NothingBeforeAfter ==
  ASSUME NEW E, NEW s \in Seq(E), NEW i \in Nat
  PROVE  (i >= Len(s) => After(s, i) = <<>>) /\ Before(s, 0) = <<>>
<1>1. Len(s) \in Nat
  BY LenProperties
<1>2. i >= Len(s) => After(s, i) = <<>>
  BY <1>1, SubSeqEmpty DEF After
<1>3. Before(s, 0) = <<>>
  BY <1>1, SubSeqEmpty DEF Before, Least
<1> QED BY <1>2, <1>3

-----------------------------------------------------------------------------
Becomes(h, g, v, data) == Exact(g) /\ Others(h, g, v) /\ SH!Data(g, v) = data
Full(h, v) == h.ref[v] # Nil => SH!Data(h, v) # <<>>
Uncoded(h, v) == h.ref[v] # Nil => h.heads[h.ref[v]].hash = SH!Clear

LEMMA DataIs ==
  ASSUME NEW h, Exact(h), NEW v \in Users
  PROVE  /\ SH!Data(h, v) \in Seq(Value) /\ Len(SH!Data(h, v)) \in Nat
         /\ h.ref[v] # Nil => /\ SH!Data(h, v) = h.heads[h.ref[v]].data
                              /\ h.heads[h.ref[v]] \in HeadT
         /\ h.ref[v] = Nil => SH!Data(h, v) = <<>>
<1>1. h.ref[v] # Nil => h.ref[v] \in Heads /\ h.heads[h.ref[v]] \in HeadT
  BY DEF Exact, Heap
<1>2. SH!Data(h, v) \in Seq(Value)
  BY <1>1, EmptySeq DEF SH!Data, HeadT
<1> QED BY <1>1, <1>2, LenProperties DEF SH!Data

LEMMA ToNone ==
  ASSUME NEW h, Exact(h), NEW v \in Users
  PROVE  Becomes(h, SH!SetEmpty(h, v), v, <<>>) /\ SH!SetEmpty(h, v).ref[v] = Nil
<1> DEFINE g == SH!SetEmpty(h, v)
<1>1. Exact(g) /\ Others(h, g, v) /\ g.ref[v] = Nil
  BY Emptied
<1> HIDE DEF g
<1>2. Becomes(h, g, v, <<>>)
  BY <1>1, DataIs DEF Becomes
<1> QED BY <1>1, <1>2 DEF g

LEMMA ToNew ==
  ASSUME NEW h, Exact(h), NEW v \in Users, NEW data \in Seq(Value)
  PROVE  LET g == SH!SetNew(h, v, data)
         IN Becomes(h, g, v, data) /\ Sole(g, v) /\ Uncoded(g, v)
<1> DEFINE g == SH!SetNew(h, v, data)
<1>1. /\ Exact(g) /\ Others(h, g, v) /\ Sole(g, v)
      /\ g.heads[g.ref[v]].data = data /\ g.heads[g.ref[v]].hash = SH!Clear
  BY Renewed
<1> HIDE DEF g
<1> QED BY <1>1, DataIs DEF Becomes, Uncoded, Sole, g

(* Two changes of one variable.                                             *)
LEMMA BecomesAfter ==
  ASSUME NEW h, NEW g, NEW f, NEW v \in Users, NEW data, NEW d2,
         Becomes(h, g, v, d2), Becomes(g, f, v, data)
  PROVE  Becomes(h, f, v, data)
  BY DEF Becomes, Others

LEMMA WrittenAlone ==
  ASSUME NEW h, Exact(h), NEW v \in Users, Sole(h, v), NEW data \in Seq(Value)
  PROVE  LET g == SH!Write(h, v, data)
         IN Becomes(h, g, v, data) /\ Sole(g, v) /\ (Uncoded(h, v) => Uncoded(g, v))
<1> DEFINE g == SH!Write(h, v, data)
           b == h.ref[v]
<1>1. h.ref[v] # Nil /\ h.heads[b] \in HeadT /\ b \in Heads
  BY DataIs, PointedIsCounted DEF Sole
<1>2. Writes(h, g, v, data, h.heads[b].hash)
  BY <1>1, EmptySeq, WriteIs
<1> HIDE DEF g
<1>4. /\ Exact(g) /\ g.ref = h.ref /\ g.heads[b].data = data /\ g.heads[b].hash = h.heads[b].hash
      /\ Others(h, g, v) /\ Sole(g, v)
  BY <1>1, <1>2, Rewritten
<1>5. SH!Data(g, v) = data
  BY <1>1, <1>4, DataIs
<1>6. Uncoded(h, v) => Uncoded(g, v)
  BY <1>1, <1>4 DEF Uncoded
<1> QED BY <1>4, <1>5, <1>6 DEF g, Becomes

LEMMA RecodedAlone ==
  ASSUME NEW h, Exact(h), NEW v \in Users, Sole(h, v), NEW data, NEW g,
         Writes(h, g, v, data, SH!Clear)
  PROVE  Becomes(h, g, v, data) /\ Sole(g, v) /\ Uncoded(g, v)
<1> DEFINE b == h.ref[v]
<1>1. h.ref[v] # Nil /\ h.heads[b] \in HeadT /\ b \in Heads
  BY DataIs, PointedIsCounted DEF Sole
<1>4. /\ Exact(g) /\ g.ref = h.ref /\ g.heads[b].data = data /\ g.heads[b].hash = SH!Clear
      /\ Others(h, g, v) /\ Sole(g, v)
  BY <1>1, Rewritten
<1>5. SH!Data(g, v) = data
  BY <1>1, <1>4, DataIs
<1>6. Uncoded(g, v)
  BY <1>1, <1>4 DEF Uncoded
<1> QED BY <1>4, <1>5, <1>6 DEF Becomes

LEMMA ResizedAlone ==
  ASSUME NEW h, Exact(h), NEW v \in Users, Sole(h, v), NEW n \in Nat, NEW new \in Value
  PROVE  LET g == SH!ResizeHead(h, h.ref[v], n, new)
         IN Becomes(h, g, v, Padded(SH!Data(h, v), n, new)) /\ Sole(g, v) /\ Uncoded(g, v)
<1>1. SH!Data(h, v) \in Seq(Value) /\ SH!Data(h, v) = h.heads[h.ref[v]].data
  BY DataIs DEF Sole
<1>2. SH!Resized(SH!Data(h, v), n, new) = Padded(SH!Data(h, v), n, new) /\ Padded(SH!Data(h, v), n, new) \in Seq(Value)
  BY <1>1, PaddedIs
<1> DEFINE d == SH!Resized(h.heads[h.ref[v]].data, n, new)
<1>3. SH!ResizeHead(h, h.ref[v], n, new) =
        [h EXCEPT !.heads[h.ref[v]] = [@ EXCEPT !.data = d, !.hash = SH!Clear]]
  BY Zenon DEF SH!ResizeHead
<1>4. d = Padded(SH!Data(h, v), n, new)
  BY <1>1, <1>2
<1>5. SH!Clear \in Seq(Value) /\ h.heads[h.ref[v]] \in HeadT
  BY EmptySeq, DataIs DEF SH!Clear, Sole
<1>6. Writes(h, SH!ResizeHead(h, h.ref[v], n, new), v, d, SH!Clear)
  <2>1. d \in Seq(Value)
    BY <1>2, <1>4
  <2> HIDE DEF d
  <2>2. Writes(h, [h EXCEPT !.heads[h.ref[v]] = [@ EXCEPT !.data = d, !.hash = SH!Clear]], v, d, SH!Clear)
    BY <2>1, <1>5, WriteIs
  <2> QED BY <1>3, <2>2, Zenon
<1> HIDE DEF d
<1> QED BY <1>4, <1>6, RecodedAlone

LEMMA InsertedIs ==
  ASSUME NEW E, NEW s \in Seq(E), NEW t \in Seq(E), NEW i \in 0..Len(s)
  PROVE  /\ Inserted(s, i, t) \in Seq(E) /\ Len(Inserted(s, i, t)) = Len(s) + Len(t)
         /\ \A k \in 1..(Len(s) + Len(t)) :
              Inserted(s, i, t)[k] = IF k <= i THEN s[k] ELSE IF k <= i + Len(t) THEN t[k - i] ELSE s[k - Len(t)]
<1>0. Len(s) \in Nat /\ Len(t) \in Nat /\ i \in Nat
  BY LenProperties
<1> DEFINE b == Before(s, i)
           a == After(s, i)
<1>1. /\ b \in Seq(E) /\ Len(b) = i /\ \A k \in 1..i : b[k] = s[k]
      /\ a \in Seq(E) /\ Len(a) = Len(s) - i /\ \A k \in 1..(Len(s) - i) : a[k] = s[i + k]
  BY <1>0, BeforeAfter DEF Least
<1> HIDE DEF a, b
<1> DEFINE c == b \o t
<1>2. /\ c \in Seq(E) /\ Len(c) = i + Len(t)
      /\ \A k \in 1..(i + Len(t)) : c[k] = IF k <= i THEN b[k] ELSE t[k - i]
  BY <1>1, ConcatProperties, ZenonT(60)
<1> HIDE DEF c
<1>3. /\ c \o a \in Seq(E) /\ Len(c \o a) = Len(s) + Len(t)
      /\ \A k \in 1..(Len(s) + Len(t)) : (c \o a)[k] = IF k <= Len(c) THEN c[k] ELSE a[k - Len(c)]
  <2>1. /\ c \o a \in Seq(E) /\ Len(c \o a) = Len(c) + Len(a)
        /\ \A k \in 1..(Len(c) + Len(a)) : (c \o a)[k] = IF k <= Len(c) THEN c[k] ELSE a[k - Len(c)]
    <3>1. c \in Seq(E) /\ a \in Seq(E)
      BY <1>1, <1>2
    <3> QED BY <3>1, ConcatProperties
  <2>2. Len(c) + Len(a) = Len(s) + Len(t)
    BY <1>0, <1>1, <1>2
  <2> QED BY <2>1, <2>2
<1>4. \A k \in 1..(Len(s) + Len(t)) :
              (c \o a)[k] = IF k <= i THEN s[k] ELSE IF k <= i + Len(t) THEN t[k - i] ELSE s[k - Len(t)]
  <2> TAKE k \in 1..(Len(s) + Len(t))
  <2>1. CASE k <= i
    BY <2>1, <1>0, <1>1, <1>2, <1>3
  <2>2. CASE k > i /\ k <= i + Len(t)
    BY <2>2, <1>0, <1>1, <1>2, <1>3
  <2>3. CASE k > i + Len(t)
    <3>1. k - Len(c) \in 1..(Len(s) - i) /\ i + (k - Len(c)) = k - Len(t)
      BY <2>3, <1>0, <1>1, <1>2
    <3>2. a[k - Len(c)] = s[k - Len(t)]
      BY <3>1, <1>1
    <3>3. (c \o a)[k] = a[k - Len(c)]
      BY <2>3, <1>0, <1>2, <1>3
    <3>4. ~(k <= i) /\ ~(k <= i + Len(t))
      BY <2>3, <1>0
    <3> QED BY <3>2, <3>3, <3>4
  <2>4. k <= i \/ (k > i /\ k <= i + Len(t)) \/ k > i + Len(t)
    BY <1>0
  <2> QED BY <2>1, <2>2, <2>3, <2>4, Zenon
<1>5. Inserted(s, i, t) = c \o a
  BY DEF Inserted, a, b, c
<1> QED BY <1>3, <1>4, <1>5

LEMMA InsertedAt ==
  ASSUME NEW E, NEW s \in Seq(E), NEW t \in Seq(E), NEW i \in 0..Len(s)
  PROVE  \A k \in 1..(Len(s) + Len(t)) :
           Inserted(s, i, t)[k] = IF k <= i THEN s[k] ELSE IF k <= i + Len(t) THEN t[k - i] ELSE s[k - Len(t)]
  BY InsertedIs

LEMMA InsertedSeq ==
  ASSUME NEW E, NEW s \in Seq(E), NEW t \in Seq(E), NEW i \in 0..Len(s)
  PROVE  Inserted(s, i, t) \in Seq(E) /\ Len(Inserted(s, i, t)) = Len(s) + Len(t)
  BY InsertedIs

LEMMA Joined ==
  ASSUME NEW E, NEW s \in Seq(E), NEW i \in 0..Len(s)
  PROVE  Before(s, i) \o After(s, i) = s
<1>0. Len(s) \in Nat /\ i \in Nat
  BY LenProperties
<1> DEFINE b == Before(s, i)
           a == After(s, i)
<1>1. /\ b \in Seq(E) /\ Len(b) = i /\ \A k \in 1..i : b[k] = s[k]
      /\ a \in Seq(E) /\ Len(a) = Len(s) - i /\ \A k \in 1..(Len(s) - i) : a[k] = s[i + k]
  BY <1>0, BeforeAfter DEF Least
<1> HIDE DEF a, b
<1>2. /\ b \o a \in Seq(E) /\ Len(b \o a) = Len(s)
      /\ \A k \in 1..Len(s) : (b \o a)[k] = IF k <= i THEN b[k] ELSE a[k - i]
  BY <1>0, <1>1, ConcatProperties
<1>3. \A k \in 1..Len(s) : (b \o a)[k] = s[k]
  BY <1>0, <1>1, <1>2
<1>4. b \o a = s
  BY <1>2, <1>3, SeqEqual
<1> QED BY <1>4 DEF a, b

LEMMA NothingInserted ==
  ASSUME NEW E, NEW s \in Seq(E), NEW i \in 0..Len(s)
  PROVE  Inserted(s, i, <<>>) = s
<1>1. Before(s, i) \in Seq(E)
  BY LenProperties, BeforeAfter
<1>2. Before(s, i) \o <<>> = Before(s, i)
  BY <1>1, ConcatEmptySeq
<1> QED BY <1>2, Joined DEF Inserted

LEMMA WithoutIs ==
  ASSUME NEW E, NEW s \in Seq(E), NEW i \in Nat, NEW qty \in Nat
  PROVE  Without(s, i, qty) \in Seq(E) /\ (qty = 0 \/ i >= Len(s) => Without(s, i, qty) = s)
<1>0. Len(s) \in Nat
  BY LenProperties
<1>1. Before(s, i) \in Seq(E) /\ After(s, i + qty) \in Seq(E)
  <2>1. i + qty \in Nat
    OBVIOUS
  <2> QED BY <2>1, BeforeAfter
<1>2. Without(s, i, qty) \in Seq(E)
  BY <1>1, ConcatProperties DEF Without
<1>3. i >= Len(s) => Without(s, i, qty) = s
  <2> SUFFICES ASSUME i >= Len(s) PROVE Without(s, i, qty) = s
    OBVIOUS
  <2>1. Before(s, i) = s
    BY BeforeAfter
  <2>2. i + qty \in Nat /\ i + qty >= Len(s)
    BY <1>0
  <2>3. After(s, i + qty) = <<>>
    BY <2>2, NothingBeforeAfter
  <2> QED BY <2>1, <2>3, ConcatEmptySeq DEF Without
<1>4. qty = 0 /\ i < Len(s) => Without(s, i, qty) = s
  <2> SUFFICES ASSUME qty = 0, i < Len(s) PROVE Without(s, i, qty) = s
    OBVIOUS
  <2>1. i + qty = i /\ i \in 0..Len(s)
    BY <1>0
  <2> QED BY <2>1, Joined DEF Without
<1> QED BY <1>0, <1>2, <1>3, <1>4

-----------------------------------------------------------------------------
(* cArrayT.                                                                 *)
LEMMA CountIs ==
  ASSUME NEW h, Exact(h), NEW v \in Users, NEW n \in Nat
  PROVE  LET g == SH!put_Count(h, v, n, SH!Fresh)
             old == SH!Data(h, v)
         IN Becomes(h, g, v, Padded(old, n, SH!Fresh)) /\ (n > Len(old) => Sole(g, v))
<1> DEFINE old == SH!Data(h, v)
           new == Padded(old, n, SH!Fresh)
           g == SH!put_Count(h, v, n, SH!Fresh)
<1>0. old \in Seq(Value) /\ Len(old) \in Nat /\ SH!Fresh \in Value
  BY DataIs, ValuesAre
<1>n. h.ref[v] = Nil => old = <<>>
  BY DataIs
<1> HIDE DEF old
<1>1. new \in Seq(Value) /\ Len(new) = n /\ (n = Len(old) => new = old) /\ SH!Resized(old, n, SH!Fresh) = new
  BY <1>0, PaddedIs, SMTT(60)
<1>2. Len(<<>>) = 0 /\ (n = 0 => new = <<>>)
  BY <1>1, EmptySeq
<1> HIDE DEF new
<1>3. CASE n = Len(old)
  <2>1. g = h
    BY <1>3, <1>n, <1>2 DEF SH!put_Count, old
  <2> QED BY <2>1, <1>1, <1>3 DEF Becomes, Others, old, new
<1>4. CASE n # Len(old) /\ n = 0
  <2>1. h.ref[v] # Nil
    BY <1>4, <1>n, <1>2
  <2>2. g = SH!SetEmpty(h, v)
    BY <2>1, <1>4 DEF SH!put_Count, old
  <2> QED BY <2>2, <1>0, <1>2, <1>4, ToNone DEF old, new
<1>5. CASE n # Len(old) /\ n # 0 /\ (h.ref[v] = Nil \/ h.heads[h.ref[v]].refs # 1)
  <2>1. g = SH!SetNew(h, v, new)
    <3>1. CASE h.ref[v] = Nil
      BY <3>1, <1>n, <1>1, <1>5 DEF SH!put_Count, old
    <3>2. CASE h.ref[v] # Nil
      BY <3>2, <1>1, <1>5 DEF SH!put_Count, SH!RefCount, old
    <3> QED BY <3>1, <3>2
  <2>2. Becomes(h, SH!SetNew(h, v, new), v, new) /\ Sole(SH!SetNew(h, v, new), v)
    BY <1>1, ToNew
  <2> QED BY <2>1, <2>2 DEF old, new
<1>6. CASE n # Len(old) /\ n # 0 /\ h.ref[v] # Nil /\ h.heads[h.ref[v]].refs = 1
  <2>1. Sole(h, v)
    BY <1>6, PointedIsCounted
  <2>2. g = SH!ResizeHead(h, h.ref[v], n, SH!Fresh)
    BY <1>6 DEF SH!put_Count, SH!RefCount, old
  <2>3. /\ Becomes(h, SH!ResizeHead(h, h.ref[v], n, SH!Fresh), v, Padded(SH!Data(h, v), n, SH!Fresh))
        /\ Sole(SH!ResizeHead(h, h.ref[v], n, SH!Fresh), v)
    BY <1>0, <2>1, ResizedAlone
  <2> QED BY <2>2, <2>3
<1> QED BY <1>3, <1>4, <1>5, <1>6

(* The heap has what each variable should have.                             *)
Agrees(h, a) == Exact(h) /\ a \in [Users -> Seq(Value)] /\ \A v \in Users : SH!Data(h, v) = a[v]
Shared(h, v, w) == w = v \/ (h.ref[v] # Nil /\ h.ref[w] = h.ref[v])

LEMMA AgreesOwn ==
  ASSUME NEW h, NEW a, Agrees(h, a), NEW v \in Users, NEW g, NEW data \in Seq(Value), Becomes(h, g, v, data)
  PROVE  Agrees(g, [a EXCEPT ![v] = data])
<1>1. Exact(g) /\ Others(h, g, v) /\ SH!Data(g, v) = data
  BY DEF Becomes
<1>2. \A w \in Users \ {v} : SH!Data(g, w) = SH!Data(h, w)
  BY <1>1 DEF Others, SH!Data
<1> QED BY <1>1, <1>2 DEF Agrees

LEMMA AgreesSeen ==
  ASSUME NEW h, NEW a, Agrees(h, a), NEW v \in Users, h.ref[v] # Nil,
         NEW g, NEW data \in Seq(Value), NEW hash, Writes(h, g, v, data, hash)
  PROVE  Agrees(g, [w \in Users |-> IF Shared(h, v, w) THEN data ELSE a[w]])
<1>1. /\ Exact(g) /\ g.ref = h.ref
      /\ g.heads[h.ref[v]].data = data
      /\ \A b \in Heads \ {h.ref[v]} : g.heads[b] = h.heads[b]
  BY Rewritten DEF Agrees
<1>2. \A w \in Users : h.ref[w] \in Heads \cup {Nil}
  BY DEF Agrees, Exact, Heap
<1>3. \A w \in Users : SH!Data(g, w) = IF Shared(h, v, w) THEN data ELSE SH!Data(h, w)
  BY <1>1, <1>2 DEF Shared, SH!Data
<1> DEFINE b == [w \in Users |-> IF Shared(h, v, w) THEN data ELSE a[w]]
<1>4. b \in [Users -> Seq(Value)] /\ \A w \in Users : b[w] = IF Shared(h, v, w) THEN data ELSE a[w]
  BY DEF Agrees
<1> HIDE DEF b
<1> QED BY <1>1, <1>3, <1>4 DEF Agrees, b

LEMMA AgreesData ==
  ASSUME NEW h, NEW a, Agrees(h, a), NEW v \in Users
  PROVE  /\ SH!Data(h, v) = a[v] /\ a[v] \in Seq(Value) /\ Len(a[v]) \in Nat
         /\ DOMAIN a[v] = 1..Len(a[v]) /\ Exact(h)
  BY LenProperties DEF Agrees

LEMMA HasBlock ==
  ASSUME NEW h, NEW a, Agrees(h, a), NEW v \in Users, Len(a[v]) # 0
  PROVE  h.ref[v] # Nil
<1>1. Len(<<>>) = 0
  BY EmptySeq
<1> QED BY <1>1, DataIs, AgreesData

LEMMA WriteSeen ==
  ASSUME NEW h, NEW a, Agrees(h, a), NEW v \in Users, h.ref[v] # Nil, NEW data \in Seq(Value)
  PROVE  Agrees(SH!Write(h, v, data), [w \in Users |-> IF Shared(h, v, w) THEN data ELSE a[w]])
<1>1. h.heads[h.ref[v]] \in HeadT
  BY AgreesData, DataIs
<1>2. \E hash : Writes(h, SH!Write(h, v, data), v, data, hash)
  <2>1. h.heads[h.ref[v]].hash \in Seq(Value)
    BY <1>1 DEF HeadT
  <2> QED BY <1>1, <2>1, WriteIs
<1> QED BY <1>2, AgreesSeen

LEMMA SetAtIs ==
  ASSUME NEW h, NEW a, Agrees(h, a), NEW v \in Users, NEW i \in 0..(Len(a[v]) - 1), NEW e \in Value
  PROVE  Agrees(SH!SetAtShared(h, v, i, e),
                [w \in Users |-> IF Shared(h, v, w) THEN [a[v] EXCEPT ![i + 1] = e] ELSE a[w]])
<1> DEFINE data == [a[v] EXCEPT ![i + 1] = e]
<1>1. SH!Data(h, v) = a[v] /\ a[v] \in Seq(Value) /\ Len(a[v]) \in Nat
  BY AgreesData
<1>2. data \in Seq(Value)
  <2>1. i + 1 \in 1..Len(a[v])
    BY <1>1
  <2> QED BY <1>1, <2>1, ExceptSeq
<1>3. h.ref[v] # Nil
  BY <1>1, HasBlock
<1>4. SH!SetAtShared(h, v, i, e) = SH!Write(h, v, data)
  BY <1>1 DEF SH!SetAtShared
<1> HIDE DEF data
<1>5. Agrees(SH!Write(h, v, data), [w \in Users |-> IF Shared(h, v, w) THEN data ELSE a[w]])
  BY <1>2, <1>3, WriteSeen
<1> QED BY <1>4, <1>5 DEF data

LEMMA CountStep ==
  ASSUME Agrees(x, r), put_Count
  PROVE  Agrees(x', r')
<1>1. PICK v \in Users, n \in 0..Short :
        x' = SH!put_Count(x, v, n, SH!Fresh) /\ r' = [r EXCEPT ![v] = Padded(r[v], n, SH!Fresh)]
  BY DEF put_Count, Do, Own
<1>2. n \in Nat /\ SH!Fresh \in Value
  BY HeadsAssumption, ValuesAre
<1>3. SH!Data(x, v) = r[v] /\ r[v] \in Seq(Value) /\ Exact(x)
  BY AgreesData
<1>4. Becomes(x, x', v, Padded(r[v], n, SH!Fresh))
  BY <1>1, <1>2, <1>3, CountIs
<1>5. Padded(r[v], n, SH!Fresh) \in Seq(Value)
  BY <1>2, <1>3, PaddedIs
<1> QED BY <1>1, <1>4, <1>5, AgreesOwn

LEMMA SetAtSharedStep ==
  ASSUME Agrees(x, r), SetAtShared
  PROVE  Agrees(x', r')
<1>a. PICK v \in Users, e \in Item : \E i \in DOMAIN r[v] :
        x' = SH!SetAtShared(x, v, i - 1, e) /\ r' = Seen(v, [r[v] EXCEPT ![i] = e])
  BY DEF SetAtShared, Do
<1>1. PICK i \in DOMAIN r[v] :
        x' = SH!SetAtShared(x, v, i - 1, e) /\ r' = Seen(v, [r[v] EXCEPT ![i] = e])
  BY <1>a
<1>2. i - 1 \in 0..(Len(r[v]) - 1) /\ (i - 1) + 1 = i /\ e \in Value
  BY AgreesData, HeadsAssumption, ValuesAre
<1>3. Agrees(SH!SetAtShared(x, v, i - 1, e),
             [w \in Users |-> IF Shared(x, v, w) THEN [r[v] EXCEPT ![(i - 1) + 1] = e] ELSE r[w]])
  <2> DEFINE j == i - 1
  <2>1. j \in 0..(Len(r[v]) - 1) /\ e \in Value
    BY <1>2
  <2> HIDE DEF j
  <2>2. Agrees(SH!SetAtShared(x, v, j, e),
               [w \in Users |-> IF Shared(x, v, w) THEN [r[v] EXCEPT ![j + 1] = e] ELSE r[w]])
    BY <2>1, SetAtIs
  <2> QED BY <2>2 DEF j
<1>4. r' = [w \in Users |-> IF Shared(x, v, w) THEN [r[v] EXCEPT ![i] = e] ELSE r[w]]
  BY <1>1, Zenon DEF Seen, Shared
<1> QED BY <1>1, <1>2, <1>3, <1>4, Zenon

(* An element written into a head that was grown for it.                    *)
LEMMA GrownSetAt ==
  ASSUME NEW h, NEW v \in Users, NEW g, NEW p \in Seq(Value), Becomes(h, g, v, p), Sole(g, v),
         NEW i \in 0..(Len(p) - 1), NEW e \in Value
  PROVE  /\ Becomes(h, SH!SetAtShared(g, v, i, e), v, [p EXCEPT ![i + 1] = e])
         /\ [p EXCEPT ![i + 1] = e] \in Seq(Value)
<1> DEFINE data == [p EXCEPT ![i + 1] = e]
<1>1. Exact(g) /\ SH!Data(g, v) = p /\ Len(p) \in Nat
  BY LenProperties DEF Becomes
<1>2. data \in Seq(Value)
  <2>1. i + 1 \in 1..Len(p)
    BY <1>1
  <2> QED BY <2>1, ExceptSeq
<1>3. SH!SetAtShared(g, v, i, e) = SH!Write(g, v, data)
  BY <1>1 DEF SH!SetAtShared
<1> HIDE DEF data
<1>4. Becomes(g, SH!Write(g, v, data), v, data)
  <2>1. Exact(g) /\ Sole(g, v)
    BY <1>1
  <2> QED BY <2>1, <1>2, WrittenAlone
<1> QED BY <1>2, <1>3, <1>4, BecomesAfter DEF data

LEMMA GrowIs ==
  ASSUME NEW h, NEW a, Agrees(h, a), NEW v \in Users, NEW i \in Nat, i >= Len(a[v]), NEW e \in Value
  PROVE  LET to == [Padded(a[v], i + 1, SH!Fresh) EXCEPT ![i + 1] = e]
         IN /\ Agrees(SH!SetAtShared(SH!put_Count(h, v, i + 1, SH!Fresh), v, i, e), [a EXCEPT ![v] = to])
            /\ to \in Seq(Value)
<1> DEFINE p == Padded(a[v], i + 1, SH!Fresh)
           g == SH!put_Count(h, v, i + 1, SH!Fresh)
           f == SH!SetAtShared(g, v, i, e)
           to == [p EXCEPT ![i + 1] = e]
<1>1. SH!Data(h, v) = a[v] /\ a[v] \in Seq(Value) /\ Len(a[v]) \in Nat /\ Exact(h)
  BY AgreesData
<1>2. i + 1 \in Nat /\ i + 1 > Len(a[v]) /\ SH!Fresh \in Value
  BY <1>1, ValuesAre
<1>3. Becomes(h, g, v, p) /\ Sole(g, v)
  <2> DEFINE n == i + 1
             d == SH!Data(h, v)
             k == SH!put_Count(h, v, n, SH!Fresh)
  <2>1. n \in Nat /\ n > Len(d)
    BY <1>1, <1>2
  <2> HIDE DEF n
  <2>2. Becomes(h, k, v, Padded(d, n, SH!Fresh)) /\ (n > Len(d) => Sole(k, v))
    BY <1>1, <2>1, CountIs
  <2>3. d = a[v]
    BY <1>1
  <2> QED BY <2>1, <2>2, <2>3 DEF n
<1>4. p \in Seq(Value) /\ Len(p) = i + 1
  BY <1>1, <1>2, PaddedSeq, ZenonT(60)
<1> HIDE DEF p, g
<1>5. i \in 0..(Len(p) - 1)
  BY <1>4
<1>6. Becomes(h, f, v, to) /\ to \in Seq(Value)
  BY <1>3, <1>4, <1>5, GrownSetAt
<1> HIDE DEF f, to
<1>7. Agrees(f, [a EXCEPT ![v] = to])
  BY <1>6, AgreesOwn
<1> QED BY <1>6, <1>7 DEF f, to, p, g

LEMMA SetAtGrowStep ==
  ASSUME Agrees(x, r), SetAtGrowShared
  PROVE  Agrees(x', r')
<1>1. PICK v \in Users, i \in 0..(Short - 1), e \in Item :
        /\ x' = SH!SetAtGrow(x, v, i, e)
        /\ r' = IF i < Len(r[v]) THEN Seen(v, [r[v] EXCEPT ![i + 1] = e])
                ELSE Own(v, [Padded(r[v], i + 1, SH!Fresh) EXCEPT ![i + 1] = e])
  BY Zenon DEF SetAtGrowShared, Do
<1>2. SH!Data(x, v) = r[v] /\ Len(r[v]) \in Nat /\ i \in Nat /\ e \in Value
  BY AgreesData, HeadsAssumption, ValuesAre
<1>3. CASE i < Len(r[v])
  <2>1. x' = SH!SetAtShared(x, v, i, e) /\ i \in 0..(Len(r[v]) - 1)
    BY <1>1, <1>2, <1>3 DEF SH!SetAtGrow
  <2>2. r' = [w \in Users |-> IF Shared(x, v, w) THEN [r[v] EXCEPT ![i + 1] = e] ELSE r[w]]
    BY <1>1, <1>3, Zenon DEF Seen, Shared
  <2> QED BY <1>2, <2>1, <2>2, SetAtIs
<1>4. CASE ~(i < Len(r[v]))
  <2>1. i >= Len(r[v])
    BY <1>2, <1>4
  <2>2. x' = SH!SetAtShared(SH!put_Count(x, v, i + 1, SH!Fresh), v, i, e)
    BY <1>1, <1>2, <2>1 DEF SH!SetAtGrow
  <2>3. r' = [r EXCEPT ![v] = [Padded(r[v], i + 1, SH!Fresh) EXCEPT ![i + 1] = e]]
    BY <1>1, <1>4, Zenon DEF Own
  <2> QED BY <1>2, <2>1, <2>2, <2>3, GrowIs
<1> QED BY <1>3, <1>4

Changed(s, i, e) == [s EXCEPT ![i] = e]
LEMMA OneElement ==
  ASSUME NEW E, NEW e \in E
  PROVE  <<e>> \in Seq(E) /\ Len(<<e>>) = 1 /\ <<e>>[1] = e
  OBVIOUS

LEMMA AppendIs ==
  ASSUME NEW E, NEW s \in Seq(E), NEW e \in E, NEW new \in E
  PROVE  Changed(Padded(s, Len(s) + 1, new), Len(s) + 1, e) = Append(s, e)
<1> DEFINE n == Len(s) + 1
           p == Padded(s, n, new)
           q == [p EXCEPT ![n] = e]
           t == Append(s, e)
<1>1. Len(s) \in Nat /\ n \in Nat /\ n = Len(s) + 1
  BY LenProperties
<1> HIDE DEF n
<1>2. p \in Seq(E) /\ Len(p) = n /\ \A k \in 1..n : p[k] = IF k <= Len(s) THEN s[k] ELSE new
  BY <1>1, PaddedIs
<1> HIDE DEF p
<1>3. q \in Seq(E) /\ Len(q) = n /\ \A k \in 1..n : q[k] = IF k = n THEN e ELSE p[k]
  <2>1. n \in 1..Len(p)
    BY <1>1, <1>2
  <2> QED BY <1>2, <2>1, ExceptSeq
<1>4. t \in Seq(E) /\ Len(t) = n /\ t[n] = e /\ \A k \in 1..Len(s) : t[k] = s[k]
  BY <1>1, AppendProperties
<1> HIDE DEF q, t
<1>5. \A k \in 1..n : q[k] = t[k]
  BY <1>1, <1>2, <1>3, <1>4
<1>6. q = t
  BY <1>3, <1>4, <1>5, SeqEqual
<1> QED BY <1>6 DEF q, t, p, n, Changed

LEMMA InsertedAtEnd ==
  ASSUME NEW E, NEW s \in Seq(E), NEW i \in Nat, i >= Len(s), NEW e \in E, NEW new \in E
  PROVE  Changed(Padded(s, i + 1, new), i + 1, e) = Inserted(Padded(s, i, new), i, <<e>>)
<1> DEFINE n == i + 1
           p == Padded(s, n, new)
           u == Padded(s, i, new)
           o == <<e>>
           q == [p EXCEPT ![n] = e]
           t == Inserted(u, i, o)
<1>1. Len(s) \in Nat /\ n \in Nat /\ n = i + 1
  BY LenProperties
<1> HIDE DEF n
<1>2. /\ p \in Seq(E) /\ Len(p) = n /\ \A k \in 1..n : p[k] = IF k <= Len(s) THEN s[k] ELSE new
      /\ u \in Seq(E) /\ Len(u) = i /\ \A k \in 1..i : u[k] = IF k <= Len(s) THEN s[k] ELSE new
  <2>1. p \in Seq(E) /\ Len(p) = n /\ \A k \in 1..n : p[k] = IF k <= Len(s) THEN s[k] ELSE new
    <3>1. p \in Seq(E) /\ Len(p) = n
      BY <1>1, PaddedSeq, ZenonT(60)
    <3>2. \A k \in 1..n : p[k] = IF k <= Len(s) THEN s[k] ELSE new
      BY <1>1, PaddedAt
    <3> QED BY <3>1, <3>2
  <2>2. u \in Seq(E) /\ Len(u) = i /\ \A k \in 1..i : u[k] = IF k <= Len(s) THEN s[k] ELSE new
    BY <1>1, PaddedIs
  <2> QED BY <2>1, <2>2
<1> HIDE DEF p, u
<1>3. q \in Seq(E) /\ Len(q) = n /\ \A k \in 1..n : q[k] = IF k = n THEN e ELSE p[k]
  <2>1. n \in 1..Len(p)
    BY <1>1, <1>2
  <2> QED BY <1>2, <2>1, ExceptSeq
<1>4. o \in Seq(E) /\ Len(o) = 1 /\ o[1] = e
  BY OneElement
<1> HIDE DEF o
<1>5. /\ t \in Seq(E) /\ Len(t) = n
      /\ \A k \in 1..n : t[k] = IF k <= i THEN u[k] ELSE IF k <= i + 1 THEN o[k - i] ELSE u[k - 1]
  <2>1. i \in 0..Len(u) /\ Len(u) = i /\ Len(o) = 1 /\ u \in Seq(E) /\ o \in Seq(E)
    BY <1>2, <1>4
  <2>2. /\ t \in Seq(E) /\ Len(t) = Len(u) + Len(o)
        /\ \A k \in 1..(Len(u) + Len(o)) :
             t[k] = IF k <= i THEN u[k] ELSE IF k <= i + Len(o) THEN o[k - i] ELSE u[k - Len(o)]
    <3>1. t \in Seq(E) /\ Len(t) = Len(u) + Len(o)
      BY <2>1, InsertedSeq
    <3>2. \A k \in 1..(Len(u) + Len(o)) :
             t[k] = IF k <= i THEN u[k] ELSE IF k <= i + Len(o) THEN o[k - i] ELSE u[k - Len(o)]
      <4>1. i \in 0..Len(u) /\ u \in Seq(E) /\ o \in Seq(E)
        BY <2>1
      <4> QED BY <4>1, InsertedAt
    <3> QED BY <3>1, <3>2
  <2> HIDE DEF t
  <2>3. Len(t) = n
    BY <2>1, <2>2, <1>1
  <2> QED BY <2>1, <2>2, <2>3, <1>1
<1> HIDE DEF q, t
<1>6. \A k \in 1..n : q[k] = t[k]
  <2> TAKE k \in 1..n
  <2>1. CASE k = n
    <3>1. k - i = 1 /\ ~(k <= i) /\ k <= i + 1
      BY <2>1, <1>1
    <3>2. t[k] = o[k - i]
      BY <3>1, <1>5
    <3> QED BY <3>1, <3>2, <2>1, <1>3, <1>4
  <2>2. CASE k # n
    <3>1. k \in 1..i
      BY <2>2, <1>1
    <3> QED BY <3>1, <2>2, <1>2, <1>3, <1>5
  <2> QED BY <2>1, <2>2
<1>7. q = t
  BY <1>3, <1>5, <1>6, SeqEqual
<1> QED BY <1>7 DEF q, t, p, u, o, n, Changed

LEMMA AddStep ==
  ASSUME Agrees(x, r), AddShared
  PROVE  Agrees(x', r')
<1>1. PICK v \in Users, e \in Item : x' = SH!Add(x, v, e) /\ r' = [r EXCEPT ![v] = Append(r[v], e)]
  BY DEF AddShared, Do, Own
<1> DEFINE n == Len(r[v])
<1>2. SH!Data(x, v) = r[v] /\ n \in Nat /\ e \in Value /\ r[v] \in Seq(Value) /\ n >= n /\ SH!Fresh \in Value
  BY AgreesData, HeadsAssumption, ValuesAre
<1>3. x' = SH!SetAtShared(SH!put_Count(x, v, n + 1, SH!Fresh), v, n, e)
  BY <1>1, <1>2 DEF SH!Add, SH!SetAtGrow
<1>4. [Padded(r[v], n + 1, SH!Fresh) EXCEPT ![n + 1] = e] = Append(r[v], e)
  <2>1. Changed(Padded(r[v], n + 1, SH!Fresh), n + 1, e) = Append(r[v], e)
    BY <1>2, AppendIs
  <2> QED BY <2>1 DEF Changed
<1>5. Agrees(SH!SetAtShared(SH!put_Count(x, v, n + 1, SH!Fresh), v, n, e),
             [r EXCEPT ![v] = [Padded(r[v], n + 1, SH!Fresh) EXCEPT ![n + 1] = e]])
  BY <1>2, GrowIs
<1> QED BY <1>1, <1>3, <1>4, <1>5, Zenon

(* What InsertAt leaves in a head that has grown by one.                    *)
Shifted(d, n, i, e) == [k \in 1..n |-> IF k <= i THEN d[k] ELSE IF k = i + 1 THEN e ELSE d[k - 1]]
LEMMA InsertedWithin ==
  ASSUME NEW E, NEW s \in Seq(E), NEW i \in Nat, i < Len(s), NEW e \in E, NEW new \in E,
         NEW d, d = Padded(s, Len(s) + 1, new)
  PROVE  Shifted(d, Len(s) + 1, i, e) = Inserted(s, i, <<e>>) /\ Shifted(d, Len(s) + 1, i, e) \in Seq(E)
<1> DEFINE n == Len(s) + 1
           o == <<e>>
           q == [k \in 1..n |-> IF k <= i THEN d[k] ELSE IF k = i + 1 THEN e ELSE d[k - 1]]
           t == Inserted(s, i, o)
<1>1. Len(s) \in Nat /\ n \in Nat /\ n = Len(s) + 1
  BY LenProperties
<1> HIDE DEF n
<1>2. \A k \in 1..n : d[k] \in E /\ d[k] = IF k <= Len(s) THEN s[k] ELSE new
  <2>1. d \in Seq(E) /\ Len(d) = n /\ \A k \in 1..n : d[k] = IF k <= Len(s) THEN s[k] ELSE new
    BY <1>1, PaddedIs
  <2> QED BY <2>1, ElementOfSeq
<1>3. q \in Seq(E) /\ Len(q) = n
  <2>1. q \in [1..n -> E]
    BY <1>1, <1>2
  <2> HIDE DEF q
  <2> QED BY <1>1, <2>1, SeqOf
<1>4. o \in Seq(E) /\ Len(o) = 1 /\ o[1] = e
  BY OneElement
<1> HIDE DEF o
<1>5. /\ t \in Seq(E) /\ Len(t) = n
      /\ \A k \in 1..n : t[k] = IF k <= i THEN s[k] ELSE IF k <= i + 1 THEN o[k - i] ELSE s[k - 1]
  <2>1. i \in 0..Len(s) /\ Len(o) = 1 /\ o \in Seq(E)
    BY <1>1, <1>4
  <2>2. /\ t \in Seq(E) /\ Len(t) = Len(s) + Len(o)
        /\ \A k \in 1..(Len(s) + Len(o)) :
             t[k] = IF k <= i THEN s[k] ELSE IF k <= i + Len(o) THEN o[k - i] ELSE s[k - Len(o)]
    BY <2>1, InsertedIs
  <2> HIDE DEF t
  <2>3. Len(t) = n
    BY <2>1, <2>2, <1>1
  <2> QED BY <2>1, <2>2, <2>3, <1>1
<1>6. \A k \in 1..n : q[k] = t[k]
  <2> TAKE k \in 1..n
  <2> HIDE DEF t
  <2>1. CASE k <= i
    BY <2>1, <1>1, <1>2, <1>5
  <2>2. CASE k = i + 1
    <3>1. k - i = 1 /\ ~(k <= i) /\ k <= i + 1
      BY <2>2
    <3>2. t[k] = o[k - i]
      BY <3>1, <1>5
    <3>3. q[k] = e
      BY <3>1, <2>2
    <3> QED BY <3>1, <3>2, <3>3, <1>4
  <2>3. CASE k > i + 1
    <3>1. k - 1 \in 1..Len(s) /\ ~(k <= i) /\ ~(k <= i + 1) /\ k # i + 1
      BY <2>3, <1>1
    <3>2. t[k] = s[k - 1]
      BY <3>1, <1>5
    <3>3. q[k] = d[k - 1] /\ d[k - 1] = s[k - 1]
      BY <3>1, <1>1, <1>2
    <3> QED BY <3>1, <3>2, <3>3
  <2>4. k <= i \/ k = i + 1 \/ k > i + 1
    OBVIOUS
  <2> QED BY <2>1, <2>2, <2>3, <2>4, Zenon
<1>7. q = t
  <2> HIDE DEF q, t
  <2> QED BY <1>3, <1>5, <1>6, SeqEqual
<1> QED BY <1>3, <1>7 DEF o, n, Shifted

LEMMA InsertAtStep ==
  ASSUME Agrees(x, r), InsertAtShared
  PROVE  Agrees(x', r')
<1> DEFINE Wide(v, i) == IF i > Len(r[v]) THEN i ELSE Len(r[v])
<1>1. PICK v \in Users, i \in 0..(Short - 1), e \in Item :
        /\ x' = SH!InsertAt(x, v, i, e)
        /\ r' = [r EXCEPT ![v] = Inserted(Padded(r[v], Wide(v, i), SH!Fresh), i, <<e>>)]
  BY DEF InsertAtShared, Do, Own
<1> DEFINE s == r[v]
           n == Len(s)
<1>2. SH!Data(x, v) = s /\ n \in Nat /\ e \in Value /\ s \in Seq(Value) /\ SH!Fresh \in Value /\ i \in Nat /\ Exact(x)
  BY AgreesData, HeadsAssumption, ValuesAre
<1>3. CASE i >= n
  <2>1. Wide(v, i) = i
    BY <1>2, <1>3
  <2>2. x' = SH!SetAtShared(SH!put_Count(x, v, i + 1, SH!Fresh), v, i, e)
    BY <1>1, <1>2, <1>3 DEF SH!InsertAt
  <2>3. [Padded(s, i + 1, SH!Fresh) EXCEPT ![i + 1] = e] = Inserted(Padded(s, i, SH!Fresh), i, <<e>>)
    <3>1. Changed(Padded(s, i + 1, SH!Fresh), i + 1, e) = Inserted(Padded(s, i, SH!Fresh), i, <<e>>)
      BY <1>2, <1>3, InsertedAtEnd
    <3> QED BY <3>1 DEF Changed
  <2>4. Agrees(SH!SetAtShared(SH!put_Count(x, v, i + 1, SH!Fresh), v, i, e),
               [r EXCEPT ![v] = [Padded(s, i + 1, SH!Fresh) EXCEPT ![i + 1] = e]])
    BY <1>2, <1>3, GrowIs
  <2> QED BY <1>1, <2>1, <2>2, <2>3, <2>4, Zenon
<1>4. CASE ~(i >= n)
  <2> DEFINE g == SH!put_Count(x, v, n + 1, SH!Fresh)
             d == SH!Data(g, v)
             q == [k \in 1..(n + 1) |-> IF k <= i THEN d[k] ELSE IF k = i + 1 THEN e ELSE d[k - 1]]
  <2>0. i < n /\ n + 1 \in Nat /\ n + 1 > n
    BY <1>2, <1>4
  <2>1. Wide(v, i) = n
    BY <1>2, <1>4
  <2>2. x' = SH!Write(g, v, q)
    BY <1>1, <1>2, <1>4, Zenon DEF SH!InsertAt
  <2>3. Becomes(x, g, v, Padded(s, n + 1, SH!Fresh)) /\ Sole(g, v)
    BY <1>2, <2>0, CountIs
  <2> HIDE DEF g
  <2>4. d = Padded(s, n + 1, SH!Fresh)
    BY <2>3 DEF Becomes
  <2> HIDE DEF d
  <2>6. q = Inserted(s, i, <<e>>) /\ q \in Seq(Value)
    <3> DEFINE D == Padded(s, n + 1, SH!Fresh)
    <3> HIDE DEF D
    <3>1. D = Padded(s, Len(s) + 1, SH!Fresh)
      BY DEF D
    <3>2. i < Len(s) /\ s \in Seq(Value) /\ i \in Nat /\ e \in Value /\ SH!Fresh \in Value
      BY <1>2, <2>0
    <3>3. Shifted(D, Len(s) + 1, i, e) = Inserted(s, i, <<e>>) /\ Shifted(D, Len(s) + 1, i, e) \in Seq(Value)
      BY <3>1, <3>2, InsertedWithin
    <3> QED BY <3>3, <2>4 DEF Shifted, D
  <2>7. Padded(s, Wide(v, i), SH!Fresh) = s
    BY <2>1, <1>2, PaddedIs
  <2> HIDE DEF q
  <2>8. Becomes(x, SH!Write(g, v, q), v, q)
    <3>1. Exact(g)
      BY <2>3 DEF Becomes
    <3>2. Becomes(g, SH!Write(g, v, q), v, q)
      BY <3>1, <2>3, <2>6, WrittenAlone
    <3> QED BY <2>3, <3>2, BecomesAfter
  <2>9. Agrees(SH!Write(g, v, q), [r EXCEPT ![v] = q])
    BY <2>6, <2>8, AgreesOwn
  <2>10. r' = [r EXCEPT ![v] = q]
    <3> HIDE DEF Wide
    <3> QED BY <1>1, <2>6, <2>7, Zenon
  <2> QED BY <2>2, <2>9, <2>10
<1> QED BY <1>3, <1>4

LEMMA SeqsToAre ==
  ASSUME NEW S, NEW n \in Nat, NEW t \in SeqsTo(S, n), NEW E, S \subseteq E
  PROVE  t \in Seq(E) /\ t \in Seq(S) /\ Len(t) \in 0..n
<1>1. PICK k \in 0..n : t \in [1..k -> S]
  BY DEF SeqsTo
<1>2. k \in Nat
  OBVIOUS
<1>3. t \in Seq(S) /\ Len(t) = k
  BY <1>1, <1>2, SeqOf
<1>4. t \in Seq(E)
  BY <1>3, SeqMonotonic
<1> QED BY <1>3, <1>4

LEMMA InsertedInNothing ==
  ASSUME NEW E, NEW s \in Seq(E), NEW t \in Seq(E), Len(s) = 0
  PROVE  Inserted(s, 0, t) = t
<1>1. 0 \in 0..Len(s) /\ Len(t) \in Nat
  BY LenProperties
<1> DEFINE u == Inserted(s, 0, t)
<1>2. u \in Seq(E) /\ Len(u) = Len(s) + Len(t)
  BY <1>1, InsertedSeq
<1>3. \A k \in 1..(Len(s) + Len(t)) : u[k] = IF k <= 0 THEN s[k] ELSE IF k <= 0 + Len(t) THEN t[k - 0] ELSE s[k - Len(t)]
  <2>1. 0 \in 0..Len(s)
    BY <1>1
  <2> QED BY <2>1, InsertedAt, ZenonT(60)
<1> HIDE DEF u
<1>4. Len(u) = Len(t) /\ Len(s) + Len(t) = Len(t)
  BY <1>1, <1>2
<1>5. \A k \in 1..Len(t) : u[k] = t[k]
  BY <1>1, <1>3, <1>4
<1>6. u = t
  BY <1>2, <1>4, <1>5, SeqEqual
<1> QED BY <1>6 DEF u

LEMMA Split ==
  ASSUME NEW E, NEW s \in Seq(E), NEW i \in 0..Len(s), NEW t
  PROVE  Inserted(s, i, t) = SubSeq(s, 1, i) \o t \o SubSeq(s, i + 1, Len(s))
<1>1. Least(i, Len(s)) = i
  BY LenProperties DEF Least
<1> QED BY <1>1 DEF Inserted, Before, After

(* A head that is rewritten whole: its hash code is cleared.                *)
Recode(h, v, data) == [h EXCEPT !.heads[h.ref[v]] = [@ EXCEPT !.data = data, !.hash = SH!Clear]]
LEMMA RecodeIs ==
  ASSUME NEW h, Exact(h), NEW v \in Users, h.ref[v] # Nil, NEW data \in Seq(Value)
  PROVE  Writes(h, Recode(h, v, data), v, data, SH!Clear)
<1>1. SH!Clear \in Seq(Value)
  BY EmptySeq DEF SH!Clear
<1>2. h.heads[h.ref[v]] \in HeadT
  BY DataIs
<1> QED BY <1>1, <1>2, WriteIs DEF Recode

LEMMA InsertArrayStep ==
  ASSUME Agrees(x, r), InsertArrayShared
  PROVE  Agrees(x', r')
<1>1. PICK v \in Users, i \in 0..Short, src \in SeqsTo(Item, Short) :
        /\ x.ref[v] = Nil \/ Alone(v)
        /\ x' = SH!InsertArray(x, v, i, src)
        /\ r' = [r EXCEPT ![v] = Inserted(r[v], Least(i, Len(r[v])), src)]
  BY DEF InsertArrayShared, Do, Own
<1> DEFINE d == r[v]
           j == Least(i, Len(d))
<1>2. SH!Data(x, v) = d /\ Len(d) \in Nat /\ d \in Seq(Value) /\ i \in Nat /\ Exact(x)
  BY AgreesData, HeadsAssumption
<1>3. src \in Seq(Value)
  BY ValuesAre, HeadsAssumption, SeqsToAre
<1>4. j \in 0..Len(d) /\ j = IF i < 0 \/ i >= Len(d) THEN Len(d) ELSE i
  BY <1>2 DEF Least
<1>5. Inserted(d, j, src) \in Seq(Value)
  BY <1>2, <1>3, <1>4, InsertedSeq
<1>6. CASE src = <<>>
  <2>1. x' = x
    BY <1>1, <1>6 DEF SH!InsertArray
  <2>2. Inserted(d, j, src) = d
    <3>1. Inserted(d, j, <<>>) = d
      BY <1>2, <1>4, NothingInserted
    <3> QED BY <3>1, <1>6
  <2>3. r' = r
    BY <1>1, <2>2 DEF Agrees
  <2> QED BY <2>1, <2>3
<1>7. CASE src # <<>> /\ x.ref[v] = Nil
  <2>1. x' = SH!SetNew(x, v, src)
    BY <1>1, <1>7 DEF SH!InsertArray
  <2>2. Len(d) = 0
    BY <1>2, <1>7, DataIs, EmptySeq
  <2>3. Inserted(d, j, src) = src
    <3>1. j = 0
      BY <2>2, <1>4
    <3>2. Inserted(d, 0, src) = src
      BY <2>2, <1>2, <1>3, InsertedInNothing
    <3> QED BY <3>1, <3>2
  <2>4. Becomes(x, SH!SetNew(x, v, src), v, src)
    BY <1>2, <1>3, ToNew
  <2> QED BY <1>1, <1>3, <2>1, <2>3, <2>4, AgreesOwn
<1>8. CASE src # <<>> /\ x.ref[v] # Nil
  <2> DEFINE new == SubSeq(d, 1, j) \o src \o SubSeq(d, j + 1, Len(d))
  <2>1. x' = Recode(x, v, new)
    BY <1>1, <1>2, <1>4, <1>8, Zenon DEF SH!InsertArray, Recode
  <2>2. new = Inserted(d, j, src)
    BY <1>2, <1>4, Split
  <2>3. Sole(x, v)
    BY <1>1, <1>8 DEF Sole, Alone
  <2> HIDE DEF new
  <2>4. new \in Seq(Value)
    BY <2>2, <1>5
  <2>5. Writes(x, Recode(x, v, new), v, new, SH!Clear)
    BY <2>4, <1>2, <1>8, RecodeIs
  <2>6. Becomes(x, Recode(x, v, new), v, new)
    BY <1>2, <2>3, <2>5, RecodedAlone
  <2> QED BY <1>1, <2>1, <2>2, <2>4, <2>6, AgreesOwn
<1> QED BY <1>6, <1>7, <1>8

LEMMA SeenSame ==
  ASSUME Agrees(x, r), NEW v \in Users
  PROVE  Seen(v, r[v]) = r
<1>1. \A w \in Users : Shared(x, v, w) => r[w] = r[v]
  BY DEF Agrees, Shared, SH!Data
<1> QED BY <1>1 DEF Seen, Shared, Agrees

LEMMA RemoveAtStep ==
  ASSUME Agrees(x, r), RemoveAtShared
  PROVE  Agrees(x', r')
<1>1. PICK v \in Users, i \in 0..Short, qty \in 0..Short :
        x' = SH!RemoveAt(x, v, i, qty) /\ r' = Seen(v, Without(r[v], i, qty))
  BY DEF RemoveAtShared, Do
<1> DEFINE d == r[v]
           new == Without(d, i, qty)
<1>2. SH!Data(x, v) = d /\ Len(d) \in Nat /\ d \in Seq(Value) /\ i \in Nat /\ qty \in Nat /\ Exact(x)
  BY AgreesData, HeadsAssumption
<1>3. new \in Seq(Value) /\ (qty = 0 \/ i >= Len(d) => new = d)
  BY <1>2, WithoutIs
<1>4. CASE qty = 0 \/ i >= Len(d)
  <2>1. x' = x
    BY <1>1, <1>2, <1>4 DEF SH!RemoveAt
  <2> QED BY <1>1, <1>3, <1>4, <2>1, SeenSame
<1>5. CASE ~(qty = 0 \/ i >= Len(d))
  <2>1. ~(qty <= 0 \/ i < 0 \/ i >= Len(d)) /\ Len(d) # 0 /\ Least(i, Len(d)) = i
    BY <1>2, <1>5 DEF Least
  <2>2. new = SubSeq(d, 1, i) \o SubSeq(d, i + qty + 1, Len(d))
    BY <2>1 DEF Without, Before, After
  <2>3. x' = Recode(x, v, new)
    <3> DEFINE e == SubSeq(d, 1, i) \o SubSeq(d, i + qty + 1, Len(d))
    <3>1. x' = Recode(x, v, e)
      BY <1>1, <1>2, <2>1, Zenon DEF SH!RemoveAt, Recode
    <3> QED BY <2>2, <3>1
  <2>4. x.ref[v] # Nil
    BY <2>1, HasBlock
  <2> HIDE DEF new
  <2>5. Writes(x, Recode(x, v, new), v, new, SH!Clear)
    BY <1>2, <1>3, <2>4, RecodeIs
  <2>6. Agrees(Recode(x, v, new), [w \in Users |-> IF Shared(x, v, w) THEN new ELSE r[w]])
    BY <1>3, <2>4, <2>5, AgreesSeen
  <2>7. r' = [w \in Users |-> IF Shared(x, v, w) THEN new ELSE r[w]]
    BY <1>1, Zenon DEF Seen, Shared, new
  <2> QED BY <2>3, <2>6, <2>7
<1> QED BY <1>4, <1>5

LEMMA ShareIs ==
  ASSUME NEW h, NEW a, Agrees(h, a), NEW v \in Users, NEW w \in Users
  PROVE  /\ Becomes(h, SH!put_Ptr(h, v, h.ref[w]), v, a[w])
         /\ Agrees(SH!put_Ptr(h, v, h.ref[w]), [a EXCEPT ![v] = a[w]])
<1> DEFINE g == SH!put_Ptr(h, v, h.ref[w])
<1>1. SH!Data(h, w) = a[w] /\ a[w] \in Seq(Value) /\ Exact(h)
  BY AgreesData
<1>2. /\ Exact(g) /\ Others(h, g, v) /\ g.ref[v] = h.ref[w]
      /\ h.ref[w] # Nil => g.heads[h.ref[w]].data = h.heads[h.ref[w]].data
  BY <1>1, Pointed
<1> HIDE DEF g
<1>3. SH!Data(g, v) = a[w]
  BY <1>1, <1>2 DEF SH!Data
<1>4. Becomes(h, g, v, a[w])
  BY <1>2, <1>3 DEF Becomes
<1>5. Agrees(g, [a EXCEPT ![v] = a[w]])
  BY <1>1, <1>4, AgreesOwn
<1> QED BY <1>4, <1>5 DEF g

LEMMA EmptyIs ==
  ASSUME NEW h, NEW a, Agrees(h, a), NEW v \in Users
  PROVE  /\ Becomes(h, SH!SetEmpty(h, v), v, <<>>)
         /\ Agrees(SH!SetEmpty(h, v), [a EXCEPT ![v] = <<>>])
<1>1. Becomes(h, SH!SetEmpty(h, v), v, <<>>)
  BY AgreesData, ToNone
<1>2. <<>> \in Seq(Value)
  BY EmptySeq
<1> QED BY <1>1, <1>2, AgreesOwn

SharedCall == \/ put_Count \/ SetAtShared \/ AddShared \/ SetAtGrowShared \/ InsertAtShared
              \/ InsertArrayShared \/ RemoveAtShared \/ Share \/ SetEmptyHead
LEMMA SharedStep ==
  ASSUME kind = "shared", Agrees(x, r), NextHeads
  PROVE  Agrees(x', r') /\ kind' = "shared"
<1>1. kind' = "shared"
  <2>1. CASE SharedCall
    BY <2>1 DEF SharedCall, put_Count, SetAtShared, AddShared, SetAtGrowShared, InsertAtShared,
                InsertArrayShared, RemoveAtShared, Share, SetEmptyHead, Do
  <2>2. CASE ~SharedCall
    BY <2>2 DEF SharedCall, NextHeads, Rename, AssignText, AssignPart, EditBuffer, SetAtOwn, MakeUpper,
                InsertSpan, Part, SerializeInput, get_HashCode, Do, Text, IsText
  <2> QED BY <2>1, <2>2
<1>2. CASE put_Count BY <1>1, <1>2, CountStep
<1>3. CASE SetAtShared BY <1>1, <1>3, SetAtSharedStep
<1>4. CASE AddShared BY <1>1, <1>4, AddStep
<1>5. CASE SetAtGrowShared BY <1>1, <1>5, SetAtGrowStep
<1>6. CASE InsertAtShared BY <1>1, <1>6, InsertAtStep
<1>7. CASE InsertArrayShared BY <1>1, <1>7, InsertArrayStep
<1>8. CASE RemoveAtShared BY <1>1, <1>8, RemoveAtStep
<1>9. CASE Share
  <2>1. PICK v \in Users, w \in Users : x' = SH!put_Ptr(x, v, x.ref[w]) /\ r' = [r EXCEPT ![v] = r[w]]
    BY <1>9 DEF Share, Do, Own
  <2> QED BY <1>1, <2>1, ShareIs
<1>10. CASE SetEmptyHead
  <2>1. PICK v \in Users : x' = SH!SetEmpty(x, v) /\ r' = [r EXCEPT ![v] = <<>>]
    BY <1>10 DEF SetEmptyHead, Do, Own
  <2> QED BY <1>1, <2>1, EmptyIs
<1>11. CASE ~SharedCall
  BY <1>11 DEF SharedCall, NextHeads, Rename, AssignText, AssignPart, EditBuffer, SetAtOwn, MakeUpper,
               InsertSpan, Part, SerializeInput, get_HashCode, Do, Text, IsText
<1> QED BY <1>1, <1>2, <1>3, <1>4, <1>5, <1>6, <1>7, <1>8, <1>9, <1>10, <1>11 DEF SharedCall

LEMMA SharedAgree ==
  ASSUME Agrees(x, r)
  PROVE  HeadsAgree
  BY DEF Agrees, Exact, Pointing, HeadsAgree

(* Strings.  A text is not empty in a head, and its code is not kept beyond *)
(* a change of its length.                                                  *)
Coded(h, v) == h.ref[v] # Nil => h.heads[h.ref[v]].hash \in {SH!Clear, SH!Data(h, v)}
Retexts(h, g, v, t) == /\ Becomes(h, g, v, t) /\ Full(g, v)
                       /\ Len(t) # Len(SH!Data(h, v)) => Uncoded(g, v)
TextsInv(h, a, hashed) == /\ Agrees(h, a) /\ a \in [Users -> Seq(Character)]
                          /\ \A v \in Users : Full(h, v) /\ (hashed => Coded(h, v))

LEMMA PaddedShort ==
  ASSUME NEW E, NEW s \in Seq(E), NEW n \in 0..Len(s), NEW new \in E
  PROVE  Padded(s, n, new) = Before(s, n)
<1> DEFINE p == Padded(s, n, new)
           b == Before(s, n)
<1>1. Len(s) \in Nat /\ n \in Nat
  BY LenProperties
<1>2. p \in Seq(E) /\ Len(p) = n
  BY <1>1, PaddedSeq
<1>3. \A k \in 1..n : p[k] = IF k <= Len(s) THEN s[k] ELSE new
  BY <1>1, PaddedAt
<1>4. b \in Seq(E) /\ Len(b) = n /\ \A k \in 1..n : b[k] = s[k]
  BY <1>1, BeforeAfter DEF Least
<1> HIDE DEF p, b
<1>5. \A k \in 1..n : p[k] = b[k]
  BY <1>1, <1>3, <1>4
<1>6. p = b
  BY <1>2, <1>4, <1>5, SeqEqual
<1> QED BY <1>6 DEF p, b

LEMMA AllocIs ==
  ASSUME NEW h, Exact(h), NEW v \in Users, NEW n \in Nat \ {0}
  PROVE  LET g == SH!AllocBuffer(h, v, n)
             old == SH!Data(h, v)
         IN /\ Becomes(h, g, v, Padded(old, n, SH!Junk)) /\ Sole(g, v)
            /\ Len(old) # n => Uncoded(g, v)
<1> DEFINE old == SH!Data(h, v)
           new == Padded(old, n, SH!Junk)
           g == SH!AllocBuffer(h, v, n)
<1>0. old \in Seq(Value) /\ Len(old) \in Nat /\ SH!Junk \in Value /\ n \in Nat /\ ~(n <= 0)
  BY DataIs, ValuesAre
<1> HIDE DEF old
<1>1. new \in Seq(Value) /\ (n = Len(old) => new = old) /\ SH!Resized(old, n, SH!Junk) = new
  BY <1>0, PaddedIs, SMTT(60)
<1> HIDE DEF new
<1>2. h.ref[v] # Nil => h.heads[h.ref[v]].refs \in Nat \ {0} /\ (h.heads[h.ref[v]].refs = 1 <=> Sole(h, v))
  BY PointedIsCounted
<1>3. CASE h.ref[v] = Nil \/ ~Sole(h, v)
  <2>1. h.ref[v] = Nil \/ SH!RefCount(h, v) > 1
    BY <1>2, <1>3 DEF SH!RefCount
  <2>2. g = SH!SetNew(h, v, new)
    BY <2>1, <1>0, <1>1 DEF SH!AllocBuffer, old
  <2>3. Becomes(h, SH!SetNew(h, v, new), v, new) /\ Sole(SH!SetNew(h, v, new), v) /\ Uncoded(SH!SetNew(h, v, new), v)
    BY <1>1, ToNew
  <2> QED BY <2>2, <2>3 DEF old, new
<1>4. CASE h.ref[v] # Nil /\ Sole(h, v)
  <2>1. ~(h.ref[v] = Nil \/ SH!RefCount(h, v) > 1)
    BY <1>2, <1>4 DEF SH!RefCount
  <2>2. CASE Len(old) = n
    <3>1. g = h
      BY <2>1, <2>2, <1>0 DEF SH!AllocBuffer, old
    <3> QED BY <3>1, <2>2, <1>1, <1>4 DEF Becomes, Others, old, new
  <2>3. CASE Len(old) # n
    <3>1. g = SH!ResizeHead(h, h.ref[v], n, SH!Junk)
      BY <2>1, <2>3, <1>0 DEF SH!AllocBuffer, old
    <3>2. /\ Becomes(h, SH!ResizeHead(h, h.ref[v], n, SH!Junk), v, Padded(SH!Data(h, v), n, SH!Junk))
          /\ Sole(SH!ResizeHead(h, h.ref[v], n, SH!Junk), v)
          /\ Uncoded(SH!ResizeHead(h, h.ref[v], n, SH!Junk), v)
      BY <1>0, <1>4, ResizedAlone
    <3> QED BY <3>1, <3>2
  <2> QED BY <2>2, <2>3
<1> QED BY <1>3, <1>4

LEMMA CloneIs ==
  ASSUME NEW h, Exact(h), NEW v \in Users, h.ref[v] # Nil, Full(h, v)
  PROVE  Becomes(h, SH!CloneBeforeWrite(h, v), v, SH!Data(h, v)) /\ Sole(SH!CloneBeforeWrite(h, v), v)
<1> DEFINE old == SH!Data(h, v)
           n == Len(old)
<1>0. old \in Seq(Value) /\ n \in Nat /\ SH!Junk \in Value
  BY DataIs, ValuesAre
<1>1. n # 0
  <2>1. old # <<>>
    BY DEF Full
  <2> QED BY <2>1, <1>0, EmptySeq
<1>2. h.heads[h.ref[v]].refs \in Nat \ {0} /\ (h.heads[h.ref[v]].refs = 1 <=> Sole(h, v))
  BY PointedIsCounted
<1>3. CASE Sole(h, v)
  <2>1. SH!CloneBeforeWrite(h, v) = h
    BY <1>2, <1>3 DEF SH!CloneBeforeWrite, SH!RefCount
  <2> QED BY <2>1, <1>3 DEF Becomes, Others
<1>4. CASE ~Sole(h, v)
  <2>1. SH!CloneBeforeWrite(h, v) = SH!AllocBuffer(h, v, n)
    BY <1>2, <1>4 DEF SH!CloneBeforeWrite, SH!RefCount
  <2>2. Padded(old, n, SH!Junk) = old
    BY <1>0, PaddedIs
  <2>3. Becomes(h, SH!AllocBuffer(h, v, n), v, Padded(old, n, SH!Junk)) /\ Sole(SH!AllocBuffer(h, v, n), v)
    <3>1. n \in Nat \ {0}
      BY <1>0, <1>1
    <3> QED BY <3>1, AllocIs
  <2> QED BY <2>1, <2>2, <2>3
<1> QED BY <1>3, <1>4

LEMMA BufferIs ==
  ASSUME NEW h, Exact(h), NEW v \in Users, Full(h, v), NEW min \in Nat, min > 0 \/ h.ref[v] # Nil
  PROVE  LET g == SH!GetBuffer(h, v, min)
             n == Len(SH!Data(h, v))
         IN \E d \in Seq(Value) :
              /\ Becomes(h, g, v, d) /\ Sole(g, v)
              /\ Len(d) = IF min > n THEN min ELSE n
              /\ min > n => Uncoded(g, v)
<1> DEFINE old == SH!Data(h, v)
           n == Len(old)
<1>0. old \in Seq(Value) /\ n \in Nat /\ SH!Junk \in Value
  BY DataIs, ValuesAre
<1>1. CASE min > n
  <2> DEFINE d == Padded(old, min, SH!Junk)
  <2>1. SH!GetBuffer(h, v, min) = SH!AllocBuffer(h, v, min)
    BY <1>1 DEF SH!GetBuffer
  <2>2. min \in Nat \ {0} /\ n # min
    BY <1>0, <1>1
  <2>3. d \in Seq(Value) /\ Len(d) = min
    BY <1>0, PaddedSeq, ZenonT(60)
  <2>4. Becomes(h, SH!AllocBuffer(h, v, min), v, d) /\ Sole(SH!AllocBuffer(h, v, min), v) /\ Uncoded(SH!AllocBuffer(h, v, min), v)
    BY <2>2, AllocIs
  <2> HIDE DEF d
  <2> QED BY <1>1, <2>1, <2>3, <2>4
<1>2. CASE ~(min > n)
  <2>1. SH!GetBuffer(h, v, min) = SH!CloneBeforeWrite(h, v)
    BY <1>2 DEF SH!GetBuffer
  <2>2. h.ref[v] # Nil
    <3>1. min > 0 => n # 0
      BY <1>0, <1>2
    <3>2. Len(<<>>) = 0
      BY EmptySeq
    <3> QED BY <3>1, <3>2, DataIs
  <2>3. Becomes(h, SH!CloneBeforeWrite(h, v), v, old) /\ Sole(SH!CloneBeforeWrite(h, v), v)
    BY <2>2, CloneIs
  <2> HIDE DEF old
  <2> QED BY <1>0, <1>2, <2>1, <2>3 DEF old
<1> QED BY <1>1, <1>2

LEMMA ReleasedIs ==
  ASSUME NEW w, Exact(w), NEW v \in Users, Sole(w, v), NEW d \in Seq(Value), SH!Data(w, v) = d, NEW n \in 0..Len(d)
  PROVE  LET g == SH!ReleaseBuffer(w, v, n)
         IN /\ Becomes(w, g, v, Before(d, n)) /\ Full(g, v)
            /\ n # Len(d) => Uncoded(g, v)
            /\ n = Len(d) => Uncoded(g, v) \/ g = w
<1> DEFINE g == SH!ReleaseBuffer(w, v, n)
<1>0. Len(d) \in Nat /\ n \in Nat /\ w.ref[v] # Nil /\ SH!Junk \in Value
  BY LenProperties, ValuesAre DEF Sole
<1>1. CASE n = 0
  <2>1. g = SH!SetEmpty(w, v)
    BY <1>0, <1>1 DEF SH!ReleaseBuffer
  <2>2. Becomes(w, SH!SetEmpty(w, v), v, <<>>) /\ SH!SetEmpty(w, v).ref[v] = Nil
    BY ToNone
  <2>3. Before(d, n) = <<>>
    BY <1>1, NothingBeforeAfter
  <2> QED BY <2>1, <2>2, <2>3 DEF Full, Uncoded
<1>2. CASE n # 0 /\ n = Len(d)
  <2>1. g = w
    BY <1>0, <1>2 DEF SH!ReleaseBuffer
  <2>2. Before(d, n) = d
    BY <1>0, <1>2, BeforeAfter
  <2>3. d # <<>>
    <3>1. Len(<<>>) = 0
      BY EmptySeq
    <3> QED BY <3>1, <1>2
  <2> QED BY <2>1, <2>2, <2>3, <1>2 DEF Becomes, Others, Full
<1>3. CASE n # 0 /\ n # Len(d)
  <2>1. g = SH!ResizeHead(w, w.ref[v], n, SH!Junk)
    BY <1>0, <1>3 DEF SH!ReleaseBuffer
  <2>2. /\ Becomes(w, SH!ResizeHead(w, w.ref[v], n, SH!Junk), v, Padded(SH!Data(w, v), n, SH!Junk))
        /\ Uncoded(SH!ResizeHead(w, w.ref[v], n, SH!Junk), v)
    BY <1>0, ResizedAlone
  <2>3. Padded(d, n, SH!Junk) = Before(d, n)
    BY <1>0, PaddedShort
  <2>4. Before(d, n) # <<>>
    <3>1. Len(Before(d, n)) = n
      BY <1>0, BeforeAfter DEF Least
    <3>2. Len(<<>>) = 0
      BY EmptySeq
    <3> QED BY <3>1, <3>2, <1>3
  <2>5. Becomes(w, g, v, Before(d, n)) /\ Uncoded(g, v)
    BY <2>1, <2>2, <2>3
  <2> QED BY <2>4, <2>5, <1>3 DEF Full, Becomes
<1> QED BY <1>1, <1>2, <1>3

(* A buffer that is opened, written and closed at m characters.             *)
LEMMA Edited ==
  ASSUME NEW h, Exact(h), NEW v \in Users, Full(h, v), NEW min \in Nat, min > 0 \/ h.ref[v] # Nil,
         NEW e \in Seq(Value), Len(e) = Len(SH!Data(SH!GetBuffer(h, v, min), v)),
         NEW w, w = SH!Write(SH!GetBuffer(h, v, min), v, e)
                \/ (w = SH!GetBuffer(h, v, min) /\ e = SH!Data(w, v)),
         NEW m \in 0..min
  PROVE  Retexts(h, SH!ReleaseBuffer(w, v, m), v, Before(e, m)) /\ m <= Len(e)
<1> DEFINE b == SH!GetBuffer(h, v, min)
           n == Len(SH!Data(h, v))
           g == SH!ReleaseBuffer(w, v, m)
<1>1. PICK d \in Seq(Value) : /\ Becomes(h, b, v, d) /\ Sole(b, v)
                              /\ Len(d) = IF min > n THEN min ELSE n
                              /\ min > n => Uncoded(b, v)
  BY BufferIs
<1> HIDE DEF b
<1>2. /\ Exact(b) /\ SH!Data(b, v) = d /\ n \in Nat /\ Len(e) = Len(d) /\ m \in Nat
      /\ w = SH!Write(b, v, e) \/ (w = b /\ e = d)
  BY <1>1, DataIs DEF Becomes, b
<1>3. Becomes(b, w, v, e) /\ Sole(w, v) /\ (Uncoded(b, v) => Uncoded(w, v))
  <2>1. CASE w = SH!Write(b, v, e)
    BY <2>1, <1>1, <1>2, WrittenAlone
  <2>2. CASE w = b /\ e = d
    BY <2>2, <1>1, <1>2 DEF Becomes, Others
  <2> QED BY <2>1, <2>2, <1>2
<1>4. m \in 0..Len(e)
  BY <1>1, <1>2
<1>5. /\ Becomes(w, g, v, Before(e, m)) /\ Full(g, v)
      /\ m # Len(e) => Uncoded(g, v)
      /\ m = Len(e) => Uncoded(g, v) \/ g = w
  <2>1. Exact(w) /\ SH!Data(w, v) = e
    BY <1>3 DEF Becomes
  <2> QED BY <2>1, <1>3, <1>4, ReleasedIs
<1> HIDE DEF g
<1>6. Len(Before(e, m)) = m
  BY <1>4, <1>2, BeforeAfter DEF Least
<1>7. m # n => Uncoded(g, v)
  <2>1. m # n /\ m = Len(e) => min > n
    BY <1>1, <1>2
  <2> QED BY <2>1, <1>1, <1>3, <1>5
<1>8. Becomes(h, g, v, Before(e, m))
  <2>1. Becomes(h, w, v, e)
    BY <1>1, <1>3, BecomesAfter
  <2> QED BY <2>1, <1>5, BecomesAfter
<1>9. Retexts(h, g, v, Before(e, m))
  BY <1>5, <1>6, <1>7, <1>8 DEF Retexts
<1> QED BY <1>9, <1>4 DEF g

(* What a step may do to a text.                                            *)
LEMMA RetextedIs ==
  ASSUME NEW h, NEW a, NEW hashed, TextsInv(h, a, hashed), NEW v \in Users, NEW t \in Seq(Character), NEW g,
         Becomes(h, g, v, t), Full(g, v), hashed => Coded(g, v)
  PROVE  TextsInv(g, [a EXCEPT ![v] = t], hashed)
<1>1. t \in Seq(Value)
  BY ValuesAre, SeqMonotonic
<1>2. Agrees(g, [a EXCEPT ![v] = t])
  BY <1>1, AgreesOwn DEF TextsInv
<1>3. [a EXCEPT ![v] = t] \in [Users -> Seq(Character)]
  BY DEF TextsInv
<1>4. ASSUME NEW w \in Users PROVE Full(g, w) /\ (hashed => Coded(g, w))
  <2>1. CASE w = v
    BY <2>1
  <2>2. CASE w # v
    <3>1. SH!Data(g, w) = SH!Data(h, w) /\ g.ref[w] = h.ref[w]
      BY <2>2 DEF Becomes, Others, SH!Data
    <3>2. h.ref[w] # Nil => g.heads[h.ref[w]].hash = h.heads[h.ref[w]].hash
      BY <2>2 DEF Becomes, Others
    <3>3. Full(h, w) /\ (hashed => Coded(h, w))
      BY DEF TextsInv
    <3> QED BY <3>1, <3>2, <3>3 DEF Full, Coded
  <2> QED BY <2>1, <2>2
<1> QED BY <1>2, <1>3, <1>4 DEF TextsInv

LEMMA TextIs ==
  ASSUME IsText, TextsInv(x, r, kind = "hashed"), NEW v \in Users, NEW t \in Seq(Character), NEW g,
         Text(v, g, t), Retexts(x, g, v, t)
  PROVE  TextsInv(x', r', kind = "hashed")
<1>1. x' = g /\ r' = [r EXCEPT ![v] = t] /\ (kind = "hashed" => Len(t) # Len(r[v]))
  BY DEF Text, Do, Own
<1>2. SH!Data(x, v) = r[v]
  BY DEF TextsInv, Agrees
<1>3. Becomes(x, g, v, t) /\ Full(g, v) /\ (kind = "hashed" => Coded(g, v))
  BY <1>1, <1>2 DEF Retexts, Uncoded, Coded
<1>4. TextsInv(g, [r EXCEPT ![v] = t], kind = "hashed")
  BY <1>3, RetextedIs
<1> QED BY <1>1, <1>4

LEMMA TextsData ==
  ASSUME NEW h, NEW a, NEW hashed, TextsInv(h, a, hashed), NEW v \in Users
  PROVE  /\ SH!Data(h, v) = a[v] /\ a[v] \in Seq(Character) /\ a[v] \in Seq(Value)
         /\ Len(a[v]) \in Nat /\ Exact(h) /\ Full(h, v)
         /\ DOMAIN a[v] = 1..Len(a[v])
  BY AgreesData DEF TextsInv

LEMMA TextsEmptyIs ==
  ASSUME NEW h, Exact(h), NEW v \in Users
  PROVE  Retexts(h, SH!SetEmpty(h, v), v, <<>>)
  BY ToNone DEF Retexts, Full, Uncoded

LEMMA SameText ==
  ASSUME NEW h, Exact(h), NEW v \in Users, Full(h, v)
  PROVE  Retexts(h, h, v, SH!Data(h, v))
  BY DEF Retexts, Becomes, Others

(* A string that is allocated and written whole.                            *)
LEMMA AllocatedIs ==
  ASSUME NEW h, Exact(h), NEW v \in Users, NEW t \in Seq(Value), Len(t) # 0
  PROVE  Retexts(h, SH!Write(SH!AllocBuffer(h, v, Len(t)), v, t), v, t)
<1> DEFINE n == Len(t)
           b == SH!AllocBuffer(h, v, n)
           g == SH!Write(b, v, t)
<1>1. n \in Nat \ {0}
  BY LenProperties
<1>2. PICK d : Becomes(h, b, v, d) /\ Sole(b, v) /\ (Len(SH!Data(h, v)) # n => Uncoded(b, v))
  BY <1>1, AllocIs
<1> HIDE DEF b
<1>3. Becomes(b, g, v, t) /\ Sole(g, v) /\ (Uncoded(b, v) => Uncoded(g, v))
  <2>1. Exact(b)
    BY <1>2 DEF Becomes
  <2> QED BY <2>1, <1>2, WrittenAlone
<1> HIDE DEF g
<1>4. Becomes(h, g, v, t)
  BY <1>2, <1>3, BecomesAfter
<1>5. Full(g, v)
  <2>1. Len(<<>>) = 0
    BY EmptySeq
  <2> QED BY <2>1, <1>4 DEF Becomes, Full
<1>6. Len(t) # Len(SH!Data(h, v)) => Uncoded(g, v)
  BY <1>2, <1>3
<1>7. Retexts(h, g, v, t)
  BY <1>4, <1>5, <1>6 DEF Retexts
<1> QED BY <1>7 DEF g, b

LEMMA AssignIs ==
  ASSUME NEW h, Exact(h), NEW v \in Users, NEW t \in Seq(Value)
  PROVE  Retexts(h, SH!AssignText(h, v, t), v, t)
<1>1. CASE t = <<>>
  BY <1>1, TextsEmptyIs DEF SH!AssignText
<1>2. CASE t # <<>>
  <2>1. Len(t) # 0
    BY <1>2, EmptySeq
  <2>2. SH!AssignText(h, v, t) = SH!Write(SH!AllocBuffer(h, v, Len(t)), v, t)
    BY <1>2 DEF SH!AssignText
  <2> QED BY <2>1, <2>2, AllocatedIs
<1> QED BY <1>1, <1>2

LEMMA NewText ==
  ASSUME NEW h, Exact(h), NEW v \in Users, NEW t \in Seq(Value), t # <<>>
  PROVE  Retexts(h, SH!SetNew(h, v, t), v, t)
<1> DEFINE g == SH!SetNew(h, v, t)
<1>1. Becomes(h, g, v, t) /\ Uncoded(g, v)
  BY ToNew
<1> HIDE DEF g
<1>2. Retexts(h, g, v, t)
  BY <1>1 DEF Retexts, Full, Becomes
<1> QED BY <1>2 DEF g

(* A string that is cloned and written at its length.                       *)
LEMMA ClonedIs ==
  ASSUME NEW h, Exact(h), NEW v \in Users, h.ref[v] # Nil, Full(h, v), NEW t \in Seq(Value),
         Len(t) = Len(SH!Data(h, v))
  PROVE  Retexts(h, SH!Write(SH!CloneBeforeWrite(h, v), v, t), v, t)
<1> DEFINE b == SH!CloneBeforeWrite(h, v)
           g == SH!Write(b, v, t)
<1>1. Becomes(h, b, v, SH!Data(h, v)) /\ Sole(b, v)
  BY CloneIs
<1> HIDE DEF b
<1>2. Becomes(b, g, v, t)
  <2>1. Exact(b)
    BY <1>1 DEF Becomes
  <2> QED BY <2>1, <1>1, WrittenAlone
<1> HIDE DEF g
<1>3. Becomes(h, g, v, t)
  BY <1>1, <1>2, BecomesAfter
<1>4. t # <<>>
  <2>1. SH!Data(h, v) # <<>> /\ SH!Data(h, v) \in Seq(Value)
    BY DataIs DEF Full
  <2>2. Len(SH!Data(h, v)) # 0 /\ Len(<<>>) = 0
    BY <2>1, EmptySeq
  <2> QED BY <2>2
<1>5. Retexts(h, g, v, t)
  BY <1>3, <1>4 DEF Retexts, Full, Becomes
<1> QED BY <1>5 DEF g, b

CharactersAre == \A t \in Seq(Character) : t \in Seq(Value)
LEMMA CharactersAreValues == CharactersAre
  BY ValuesAre, SeqMonotonic DEF CharactersAre

LEMMA WordsAre ==
  ASSUME NEW t \in Words
  PROVE  t \in Seq(Character) /\ t \in Seq(Value) /\ Len(t) \in Nat
<1>1. Short \in Nat /\ Character \subseteq Value /\ t \in SeqsTo(Character, Short)
  BY HeadsAssumption, ValuesAre DEF Words
<1>2. t \in Seq(Value) /\ t \in Seq(Character) /\ Len(t) \in 0..Short
  BY <1>1, SeqsToAre
<1> QED BY <1>1, <1>2

LEMMA AssignTextStep ==
  ASSUME IsText, TextsInv(x, r, kind = "hashed"), AssignText
  PROVE  TextsInv(x', r', kind = "hashed")
<1>1. PICK v \in Users, t \in Words : Text(v, SH!AssignText(x, v, t), t)
  BY DEF AssignText
<1>2. t \in Seq(Character) /\ t \in Seq(Value) /\ Exact(x)
  BY WordsAre, TextsData
<1>3. Retexts(x, SH!AssignText(x, v, t), v, t)
  BY <1>2, AssignIs
<1> QED BY <1>1, <1>2, <1>3, TextIs

LEMMA PartIs ==
  ASSUME NEW E, NEW s \in Seq(E), NEW i \in Nat, NEW n \in Nat, n <= Len(s)
  PROVE  SubSeq(s, i + 1, n) \in Seq(E) /\ Len(SubSeq(s, i + 1, n)) = IF i < n THEN n - i ELSE 0
<1>1. Len(s) \in Nat /\ \A k \in 1..Len(s) : s[k] \in E
  BY LenProperties, ElementOfSeq
<1> QED BY <1>1, SubSeqProperties

LEMMA AssignPartStep ==
  ASSUME IsText, TextsInv(x, r, kind = "hashed"), AssignPart
  PROVE  TextsInv(x', r', kind = "hashed")
<1>1. PICK v \in Users, i \in 0..Short, n \in 0..Short :
        i + n <= Len(r[v]) /\ Text(v, SH!AssignPart(x, v, i, n), SubSeq(r[v], i + 1, i + n))
  BY DEF AssignPart
<1> DEFINE s == r[v]
           t == SubSeq(s, i + 1, i + n)
           g == SH!AssignPart(x, v, i, n)
<1>2. /\ s \in Seq(Character) /\ Len(s) \in Nat /\ SH!Data(x, v) = s /\ Exact(x) /\ Full(x, v)
      /\ i \in Nat /\ n \in Nat
  BY TextsData, HeadsAssumption
<1>3. t \in Seq(Character) /\ Len(t) = n /\ t \in Seq(Value)
  <2>1. i + n \in Nat /\ i + n <= Len(s)
    BY <1>1, <1>2
  <2> DEFINE m == i + n
  <2> HIDE DEF m
  <2>2. SubSeq(s, i + 1, m) \in Seq(Character) /\ Len(SubSeq(s, i + 1, m)) = IF i < m THEN m - i ELSE 0
    BY <2>1, <1>2, PartIs DEF m
  <2>3. m = i + n
    BY DEF m
  <2>4. Len(t) = n
    BY <2>2, <2>3, <1>2
  <2> QED BY <2>2, <2>3, <2>4, CharactersAreValues DEF CharactersAre
<1>4. Retexts(x, g, v, t)
  <2>1. CASE i = 0 /\ n >= Len(s)
    <3>1. g = x
      BY <1>2, <2>1 DEF SH!AssignPart
    <3>2. i + 1 = 1 /\ i + n = Len(s)
      BY <1>1, <1>2, <2>1
    <3>3. t = s
      BY <3>2, <1>2, SubSeqFull
    <3> QED BY <3>1, <3>3, <1>2, SameText
  <2>2. CASE ~(i = 0 /\ n >= Len(s)) /\ n = 0
    <3>1. g = SH!SetEmpty(x, v)
      BY <1>2, <2>2 DEF SH!AssignPart
    <3>2. t = <<>>
      BY <1>2, <2>2, SubSeqEmpty
    <3> QED BY <3>1, <3>2, <1>2, TextsEmptyIs
  <2>3. CASE ~(i = 0 /\ n >= Len(s)) /\ n # 0
    <3>1. g = SH!SetNew(x, v, t)
      BY <1>2, <2>3 DEF SH!AssignPart
    <3>2. t # <<>>
      <4>1. Len(<<>>) = 0
        BY EmptySeq
      <4> QED BY <4>1, <1>3, <2>3
    <3> HIDE DEF t
    <3> QED BY <3>1, <3>2, <1>2, <1>3, NewText
  <2> QED BY <2>1, <2>2, <2>3
<1> HIDE DEF g, t
<1> QED BY <1>1, <1>3, <1>4, TextIs DEF g, t

LEMMA BeforeConcat ==
  ASSUME NEW E, NEW s \in Seq(E), NEW t \in Seq(E)
  PROVE  Before(t \o s, Len(t)) = t
<1> DEFINE c == t \o s
           b == Before(c, Len(t))
<1>1. /\ c \in Seq(E) /\ Len(c) = Len(t) + Len(s) /\ Len(t) \in Nat /\ Len(s) \in Nat
      /\ \A k \in 1..(Len(t) + Len(s)) : c[k] = IF k <= Len(t) THEN t[k] ELSE s[k - Len(t)]
  BY ConcatProperties, LenProperties
<1> HIDE DEF c
<1>2. Least(Len(t), Len(c)) = Len(t)
  BY <1>1 DEF Least
<1>3. b \in Seq(E) /\ Len(b) = Len(t) /\ \A k \in 1..Len(t) : b[k] = c[k]
  BY <1>1, <1>2, BeforeAfter, ZenonT(60)
<1> HIDE DEF b
<1>4. \A k \in 1..Len(t) : b[k] = t[k]
  BY <1>1, <1>3
<1>5. b = t
  BY <1>3, <1>4, SeqEqual
<1> QED BY <1>5 DEF b, c

LEMMA EditBufferStep ==
  ASSUME IsText, TextsInv(x, r, kind = "hashed"), EditBuffer
  PROVE  TextsInv(x', r', kind = "hashed")
<1> DEFINE b(v, min) == SH!GetBuffer(x, v, min)
           w(v, t, min) == IF t = <<>> THEN b(v, min) ELSE SH!Write(b(v, min), v, t \o After(SH!Data(b(v, min), v), Len(t)))
<1>1. PICK v \in Users, t \in Words, min \in 0..Short :
        /\ min >= Len(t) /\ (min > 0 \/ x.ref[v] # Nil)
        /\ Text(v, SH!ReleaseBuffer(w(v, t, min), v, Len(t)), t)
  BY Zenon DEF EditBuffer
<1>2. /\ t \in Seq(Character) /\ t \in Seq(Value) /\ Len(t) \in Nat /\ Exact(x) /\ Full(x, v) /\ min \in Nat
      /\ Len(t) \in 0..min
  BY <1>1, WordsAre, TextsData, HeadsAssumption
<1>3. PICK d \in Seq(Value) : SH!Data(b(v, min), v) = d /\ Len(d) \in Nat /\ Len(d) >= Len(t)
  <2>1. PICK d \in Seq(Value) :
          /\ Becomes(x, b(v, min), v, d)
          /\ Len(d) = IF min > Len(SH!Data(x, v)) THEN min ELSE Len(SH!Data(x, v))
    BY <1>1, <1>2, BufferIs
  <2>2. Len(SH!Data(x, v)) \in Nat
    BY <1>2, DataIs
  <2> QED BY <2>1, <2>2, <1>2 DEF Becomes
<1> DEFINE e == IF t = <<>> THEN d ELSE t \o After(d, Len(t))
           f == w(v, t, min)
<1>4. e \in Seq(Value) /\ Len(e) = Len(d) /\ Before(e, Len(t)) = t
  <2>1. CASE t = <<>>
    <3>1. Before(d, 0) = <<>> /\ Len(<<>>) = 0
      BY NothingBeforeAfter, EmptySeq
    <3> QED BY <2>1, <3>1
  <2>2. CASE t # <<>>
    <3> DEFINE a == After(d, Len(t))
    <3>1. a \in Seq(Value) /\ Len(a) = Len(d) - Len(t)
      <4>1. d \in Seq(Value) /\ Len(t) \in Nat /\ Len(d) \in Nat /\ Len(d) >= Len(t)
        BY <1>2, <1>3
      <4> HIDE DEF b, w
      <4>2. a \in Seq(Value) /\ Len(a) = IF Len(t) < Len(d) THEN Len(d) - Len(t) ELSE 0
        BY <4>1, BeforeAfter
      <4> QED BY <4>1, <4>2
    <3> HIDE DEF a
    <3>2. t \o a \in Seq(Value) /\ Len(t \o a) = Len(t) + Len(a)
      BY <1>2, <3>1, ConcatProperties
    <3>3. Before(t \o a, Len(t)) = t
      BY <1>2, <3>1, BeforeConcat
    <3>4. e = t \o a
      BY <2>2 DEF a
    <3> HIDE DEF e
    <3>5. Len(t) + Len(a) = Len(d)
      BY <3>1, <1>2, <1>3
    <3> QED BY <3>2, <3>3, <3>4, <3>5
  <2> QED BY <2>1, <2>2
<1>5. f = SH!Write(b(v, min), v, e) \/ (f = b(v, min) /\ e = SH!Data(f, v))
  BY <1>3, Zenon
<1> HIDE DEF e, f
<1>6. Retexts(x, SH!ReleaseBuffer(f, v, Len(t)), v, Before(e, Len(t)))
  BY <1>1, <1>2, <1>3, <1>4, <1>5, Edited
<1>7. Text(v, SH!ReleaseBuffer(f, v, Len(t)), t)
  BY <1>1 DEF f
<1> QED BY <1>2, <1>4, <1>6, <1>7, TextIs

LEMMA TextHasBlock ==
  ASSUME NEW h, NEW a, NEW hashed, TextsInv(h, a, hashed), NEW v \in Users, Len(a[v]) # 0
  PROVE  h.ref[v] # Nil
  BY HasBlock DEF TextsInv

LEMMA SetAtOwnStep ==
  ASSUME IsText, TextsInv(x, r, kind = "hashed"), SetAtOwn
  PROVE  TextsInv(x', r', kind = "hashed")
<1>1. PICK v \in Users, ch \in Character : \E i \in DOMAIN r[v] :
        Text(v, SH!SetAtOwn(x, v, i - 1, ch), [r[v] EXCEPT ![i] = ch])
  BY DEF SetAtOwn
<1>2. PICK i \in DOMAIN r[v] : Text(v, SH!SetAtOwn(x, v, i - 1, ch), [r[v] EXCEPT ![i] = ch])
  BY <1>1
<1> DEFINE s == r[v]
           t == [s EXCEPT ![i] = ch]
           b == SH!CloneBeforeWrite(x, v)
<1>3. /\ s \in Seq(Character) /\ Len(s) \in Nat /\ SH!Data(x, v) = s /\ Exact(x) /\ Full(x, v)
      /\ i \in 1..Len(s) /\ DOMAIN s = 1..Len(s)
  BY <1>2, TextsData
<1>4. t \in Seq(Character) /\ t \in Seq(Value) /\ Len(t) = Len(s)
  <2>1. t \in Seq(Character) /\ Len(t) = Len(s)
    BY <1>3, ExceptSeq
  <2> QED BY <2>1, CharactersAreValues DEF CharactersAre
<1>5. x.ref[v] # Nil
  <2>1. Len(s) # 0
    BY <1>3
  <2> QED BY <2>1, TextHasBlock
<1>6. SH!SetAtOwn(x, v, i - 1, ch) = SH!Write(b, v, t)
  <2>1. SH!Data(b, v) = s
    BY <1>3, <1>5, CloneIs DEF Becomes
  <2>2. (i - 1) + 1 = i
    BY <1>3
  <2> QED BY <2>1, <2>2 DEF SH!SetAtOwn, SH!SetAtShared
<1> HIDE DEF t, b
<1>7. Retexts(x, SH!Write(b, v, t), v, t)
  BY <1>3, <1>4, <1>5, ClonedIs DEF b
<1>8. Text(v, SH!Write(b, v, t), t)
  BY <1>2, <1>6 DEF t
<1> QED BY <1>4, <1>7, <1>8, TextIs

LEMMA MakeUpperStep ==
  ASSUME IsText, TextsInv(x, r, kind = "hashed"), MakeUpper
  PROVE  TextsInv(x', r', kind = "hashed")
<1>1. PICK v \in Users : Text(v, SH!MakeUpper(x, v, Upper), [k \in DOMAIN r[v] |-> Upper[r[v][k]]])
  BY DEF MakeUpper
<1> DEFINE s == r[v]
           t == [k \in DOMAIN s |-> Upper[s[k]]]
<1>2. /\ s \in Seq(Character) /\ Len(s) \in Nat /\ SH!Data(x, v) = s /\ Exact(x) /\ Full(x, v)
      /\ DOMAIN s = 1..Len(s)
  BY TextsData
<1>3. t \in Seq(Character) /\ t \in Seq(Value) /\ Len(t) = Len(s)
  <2>1. \A k \in DOMAIN s : s[k] \in Character
    BY <1>2, ElementOfSeq
  <2>2. t \in [1..Len(s) -> Character]
    BY <2>1, <1>2, HeadsAssumption
  <2> HIDE DEF t
  <2>3. t \in Seq(Character) /\ Len(t) = Len(s)
    BY <2>2, <1>2, SeqOf
  <2> QED BY <2>3, CharactersAreValues DEF CharactersAre
<1>4. CASE x.ref[v] = Nil
  <2>1. SH!MakeUpper(x, v, Upper) = x
    BY <1>4 DEF SH!MakeUpper
  <2>2. s = <<>>
    BY <1>2, <1>4, DataIs
  <2>3. t = s
    <3> HIDE DEF t
    <3>1. Len(s) = 0 /\ Len(t) = 0
      BY <2>2, <1>3, EmptySeq
    <3>2. \A k \in 1..0 : t[k] = s[k]
      OBVIOUS
    <3> QED BY <3>1, <3>2, <1>2, <1>3, SeqEqual
  <2>4. Retexts(x, x, v, t)
    <3> HIDE DEF t
    <3>1. Retexts(x, x, v, SH!Data(x, v))
      BY <1>2, SameText
    <3> QED BY <3>1, <2>3, <1>2
  <2> HIDE DEF t
  <2>5. Text(v, x, t)
    BY <1>1, <2>1 DEF t
  <2> QED BY <1>3, <2>4, <2>5, TextIs
<1>5. CASE x.ref[v] # Nil
  <2> DEFINE b == SH!CloneBeforeWrite(x, v)
  <2>1. SH!MakeUpper(x, v, Upper) = SH!Write(b, v, t)
    BY <1>2, <1>5 DEF SH!MakeUpper
  <2> HIDE DEF t, b
  <2>2. Retexts(x, SH!Write(b, v, t), v, t)
    BY <1>2, <1>3, <1>5, ClonedIs DEF b
  <2>3. Text(v, SH!Write(b, v, t), t)
    BY <1>1, <2>1 DEF t
  <2> QED BY <1>3, <2>2, <2>3, TextIs
<1> QED BY <1>4, <1>5

LEMMA InsertSpanStep ==
  ASSUME IsText, TextsInv(x, r, kind = "hashed"), InsertSpan
  PROVE  TextsInv(x', r', kind = "hashed")
<1> DEFINE j(v, i) == IF i < 0 THEN 0 ELSE Least(i, Len(r[v]))
<1>1. PICK v \in Users, i \in -1..(Short + 1), t \in Words :
        Text(v, SH!InsertSpan(x, v, i, t), Inserted(r[v], j(v, i), t))
  BY DEF InsertSpan
<1> DEFINE s == r[v]
           at == j(v, i)
           new == Inserted(s, at, t)
<1>2. /\ s \in Seq(Character) /\ Len(s) \in Nat /\ SH!Data(x, v) = s /\ Exact(x) /\ Full(x, v)
      /\ i \in Int /\ t \in Seq(Character) /\ Len(t) \in Nat
  BY TextsData, WordsAre, HeadsAssumption
<1>3. at \in 0..Len(s) /\ at = IF i < 0 THEN 0 ELSE IF i > Len(s) THEN Len(s) ELSE i
  BY <1>2 DEF Least
<1>4. new = SubSeq(s, 1, at) \o t \o SubSeq(s, at + 1, Len(s))
  BY <1>2, <1>3, Split
<1>5. new \in Seq(Character) /\ new \in Seq(Value) /\ Len(new) = Len(s) + Len(t)
  <2>1. new \in Seq(Character) /\ Len(new) = Len(s) + Len(t)
    BY <1>2, <1>3, InsertedSeq
  <2> HIDE DEF new
  <2> QED BY <2>1, CharactersAreValues DEF CharactersAre
<1>6. CASE t = <<>>
  <2>1. SH!InsertSpan(x, v, i, t) = x
    BY <1>6 DEF SH!InsertSpan
  <2>2. new = s
    <3>1. Inserted(s, at, <<>>) = s
      BY <1>2, <1>3, NothingInserted
    <3> QED BY <3>1, <1>6
  <2>3. Text(v, x, s) /\ Retexts(x, x, v, SH!Data(x, v))
    BY <1>1, <1>2, <2>1, <2>2, SameText
  <2> QED BY <2>3, <1>2, TextIs
<1>7. CASE t # <<>>
  <2>1. Len(t) # 0
    BY <1>2, <1>7, EmptySeq
  <2>2. SH!InsertSpan(x, v, i, t) = SH!Write(SH!AllocBuffer(x, v, Len(s) + Len(t)), v, new)
    <3> DEFINE full == SubSeq(s, 1, at) \o t \o SubSeq(s, at + 1, Len(s))
    <3>1. SH!InsertSpan(x, v, i, t) = SH!Write(SH!AllocBuffer(x, v, Len(s) + Len(t)), v, full)
      BY <1>2, <1>3, <1>7, Zenon DEF SH!InsertSpan
    <3> QED BY <3>1, <1>4
  <2> HIDE DEF new
  <2>3. Len(new) # 0
    BY <1>2, <1>5, <2>1
  <2>4. Retexts(x, SH!Write(SH!AllocBuffer(x, v, Len(new)), v, new), v, new)
    BY <1>2, <1>5, <2>3, AllocatedIs
  <2>5. Text(v, SH!Write(SH!AllocBuffer(x, v, Len(new)), v, new), new)
    BY <1>1, <1>5, <2>2 DEF new
  <2> QED BY <1>5, <2>4, <2>5, TextIs
<1> QED BY <1>6, <1>7

LEMMA ConstructIs ==
  ASSUME IsText, TextsInv(x, r, kind = "hashed"), NEW v \in Users, NEW w \in Users, NEW part \in Seq(Character),
         Text(v, SH!Construct(x, v, w, part), part)
  PROVE  TextsInv(x', r', kind = "hashed")
<1> DEFINE g == SH!Construct(x, v, w, part)
<1>1. x' = g /\ r' = [r EXCEPT ![v] = part]
  BY DEF Text, Do, Own
<1>2. SH!Data(x, w) = r[w] /\ Exact(x) /\ Full(x, w) /\ (kind = "hashed" => Coded(x, w)) /\ Agrees(x, r)
  BY TextsData DEF TextsInv
<1>3. CASE part = r[w]
  <2> DEFINE f == SH!put_Ptr(x, v, x.ref[w])
  <2>1. g = f
    BY <1>2, <1>3 DEF SH!Construct
  <2>2. Becomes(x, f, v, part)
    BY <1>2, <1>3, ShareIs
  <2>3. /\ f.ref[v] = x.ref[w]
        /\ x.ref[w] # Nil => f.heads[x.ref[w]].data = x.heads[x.ref[w]].data
                             /\ f.heads[x.ref[w]].hash = x.heads[x.ref[w]].hash
    BY <1>2, Pointed
  <2> HIDE DEF f, g
  <2>4. Full(f, v) /\ (kind = "hashed" => Coded(f, v))
    BY <1>2, <2>3 DEF Full, Coded, SH!Data
  <2>5. TextsInv(f, [r EXCEPT ![v] = part], kind = "hashed")
    BY <2>2, <2>4, RetextedIs
  <2> QED BY <1>1, <2>1, <2>5
<1>4. CASE part # r[w]
  <2>1. g = SH!AssignText(x, v, part)
    BY <1>2, <1>4 DEF SH!Construct
  <2>2. part \in Seq(Value)
    BY CharactersAreValues DEF CharactersAre
  <2>3. Retexts(x, SH!AssignText(x, v, part), v, part)
    BY <1>2, <2>2, AssignIs
  <2>4. Text(v, SH!AssignText(x, v, part), part)
    BY <2>1
  <2> QED BY <2>3, <2>4, TextIs
<1> QED BY <1>3, <1>4

LEMMA PartStep ==
  ASSUME IsText, TextsInv(x, r, kind = "hashed"), Part
  PROVE  TextsInv(x', r', kind = "hashed")
<1> DEFINE ofRight(w, n) == After(r[w], IF n < Len(r[w]) THEN Len(r[w]) - n ELSE 0)
<1>1. PICK v \in Users, w \in Users, i \in 0..Short, n \in 0..Short :
        \/ Text(v, SH!Construct(x, v, w, SH!Left(r[w], n)), Before(r[w], n))
        \/ Text(v, SH!Construct(x, v, w, SH!Right(r[w], n)), ofRight(w, n))
        \/ Text(v, SH!Construct(x, v, w, SH!Mid(r[w], i, n)), SubSeq(r[w], i + 1, Least(i + n, Len(r[w]))))
  BY DEF Part
<1> DEFINE s == r[w]
<1>2. s \in Seq(Character) /\ Len(s) \in Nat /\ i \in Nat /\ n \in Nat
  BY TextsData, HeadsAssumption
<1> HIDE DEF s
<1>3. SH!Left(s, n) = Before(s, n) /\ Before(s, n) \in Seq(Character)
  <2>1. CASE n >= Len(s)
    BY <1>2, <2>1, BeforeAfter DEF SH!Left
  <2>2. CASE n < Len(s) /\ n = 0
    BY <1>2, <2>2, BeforeAfter, NothingBeforeAfter DEF SH!Left
  <2>3. CASE n < Len(s) /\ n # 0
    <3>1. SH!Left(s, n) = SubSeq(s, 1, n) /\ Least(n, Len(s)) = n
      BY <1>2, <2>3 DEF SH!Left, SH!Cut, Least
    <3> QED BY <3>1, <1>2, BeforeAfter DEF Before
  <2> QED BY <2>1, <2>2, <2>3, <1>2
<1> DEFINE m == IF n < Len(s) THEN Len(s) - n ELSE 0
<1>4. SH!Right(s, n) = After(s, m) /\ After(s, m) \in Seq(Character)
  <2>0. m \in Nat
    BY <1>2
  <2>1. CASE n >= Len(s)
    <3>1. m = 0 /\ SH!Right(s, n) = s
      BY <1>2, <2>1 DEF SH!Right
    <3>2. After(s, 0) = s
      BY <1>2, SubSeqFull DEF After
    <3> QED BY <3>1, <3>2, <1>2
  <2>2. CASE n < Len(s) /\ n = 0
    <3>1. m = Len(s) /\ SH!Right(s, n) = <<>>
      BY <1>2, <2>2 DEF SH!Right
    <3>2. After(s, m) = <<>> /\ After(s, m) \in Seq(Character)
      <4>1. m >= Len(s)
        BY <3>1, <1>2
      <4>2. After(s, m) = <<>>
        BY <4>1, <1>2, <2>0, NothingBeforeAfter
      <4>3. After(s, m) \in Seq(Character)
        BY <1>2, <2>0, BeforeAfter
      <4> QED BY <4>2, <4>3
    <3> QED BY <3>1, <3>2
  <2>3. CASE n < Len(s) /\ n # 0
    <3>1. SH!Right(s, n) = SubSeq(s, Len(s) - n + 1, Len(s)) /\ m = Len(s) - n
      BY <1>2, <2>3 DEF SH!Right
    <3>2. After(s, m) \in Seq(Character)
      BY <1>2, <2>0, BeforeAfter
    <3> QED BY <3>1, <3>2 DEF After
  <2> QED BY <2>1, <2>2, <2>3, <1>2
<1> DEFINE e == Least(i + n, Len(s))
<1>5. SH!Mid(s, i, n) = SubSeq(s, i + 1, e) /\ SubSeq(s, i + 1, e) \in Seq(Character)
  <2>1. e \in Nat /\ e <= Len(s)
    BY <1>2 DEF Least
  <2>2. SubSeq(s, i + 1, e) \in Seq(Character)
    <3> HIDE DEF e
    <3> QED BY <1>2, <2>1, PartIs
  <2>3. CASE i >= Len(s)
    <3>1. SH!Mid(s, i, n) = <<>> /\ e < i + 1
      BY <1>2, <2>1, <2>3 DEF SH!Mid
    <3>2. SubSeq(s, i + 1, e) = <<>>
      <4> HIDE DEF e
      <4> QED BY <3>1, <1>2, <2>1, SubSeqEmpty
    <3> QED BY <3>1, <3>2, <2>2
  <2>4. CASE i < Len(s)
    <3>1. e = IF i + n >= Len(s) THEN Len(s) ELSE i + n
      BY <1>2 DEF Least
    <3>2. ~(i >= Len(s))
      BY <2>4, <1>2
    <3>3. SH!Mid(s, i, n) = SubSeq(s, i + 1, IF i + n >= Len(s) THEN Len(s) ELSE i + n)
      BY <3>2, Zenon DEF SH!Mid
    <3> HIDE DEF e
    <3> QED BY <3>1, <3>3, <2>2
  <2> QED BY <2>3, <2>4, <1>2
<1> HIDE DEF m, e
<1>6. \/ Text(v, SH!Construct(x, v, w, Before(s, n)), Before(s, n))
      \/ Text(v, SH!Construct(x, v, w, After(s, m)), After(s, m))
      \/ Text(v, SH!Construct(x, v, w, SubSeq(s, i + 1, e)), SubSeq(s, i + 1, e))
  <2>1. SH!Left(r[w], n) = Before(s, n) /\ SH!Right(r[w], n) = After(s, m) /\ SH!Mid(r[w], i, n) = SubSeq(s, i + 1, e)
    BY <1>3, <1>4, <1>5 DEF s
  <2>2. Before(r[w], n) = Before(s, n) /\ ofRight(w, n) = After(s, m) /\ SubSeq(r[w], i + 1, Least(i + n, Len(r[w]))) = SubSeq(s, i + 1, e)
    BY DEF s, m, e
  <2> HIDE DEF ofRight
  <2> QED BY <1>1, <2>1, <2>2, Zenon
<1> QED BY <1>3, <1>4, <1>5, <1>6, ConstructIs

LEMMA SeqOfPart ==
  ASSUME NEW E, NEW C, NEW b \in Seq(E), \A k \in 1..Len(b) : b[k] \in C
  PROVE  b \in Seq(C)
<1>1. Len(b) \in Nat /\ b \in [1..Len(b) -> E]
  BY LenProperties
<1>2. b \in [1..Len(b) -> C]
  BY <1>1
<1> QED BY <1>1, <1>2, SeqOf

(* A text ends before its first 0.                                          *)
LEMMA FoundIs ==
  ASSUME NEW bytes \in Seq(Character \cup {0}), NEW n \in Nat, n <= Len(bytes), NEW m,
         m = IF SH!Find(bytes, 0, 0) >= 0 /\ SH!Find(bytes, 0, 0) < n THEN SH!Find(bytes, 0, 0) ELSE n
  PROVE  m \in 0..n /\ Before(bytes, m) \in Seq(Character)
<1> DEFINE here == {k \in (0 + 1)..Len(bytes) : bytes[k] = 0}
           f == SH!Find(bytes, 0, 0)
<1>1. Len(bytes) \in Nat /\ \A k \in 1..Len(bytes) : bytes[k] \in Character \cup {0}
  BY LenProperties, ElementOfSeq
<1>2. m \in 0..n /\ \A k \in 1..m : bytes[k] # 0
  <2>1. CASE here = {}
    <3>1. f = -1
      BY <2>1 DEF SH!Find
    <3>2. m = n
      BY <3>1
    <3> QED BY <2>1, <3>2, <1>1
  <2>2. CASE here # {}
    <3> DEFINE k == CHOOSE k \in here : \A j \in here : k <= j
    <3>1. here \subseteq Nat
      BY <1>1
    <3>2. \E i \in here : \A j \in here : i <= j
      <4> HIDE DEF here
      <4> QED BY <2>2, <3>1, LeastNumber
    <3>3. k \in here /\ \A j \in here : k <= j
      <4> HIDE DEF here
      <4> QED BY <3>2
    <3>4. f = k - 1
      BY <2>2, Zenon DEF SH!Find
    <3> HIDE DEF k, f
    <3>5. k \in 1..Len(bytes) /\ \A j \in 1..Len(bytes) : j < k => bytes[j] # 0
      BY <3>3, <1>1
    <3>6. m = IF f >= 0 /\ f < n THEN f ELSE n
      BY DEF f
    <3>7. m \in 0..n /\ m < k
      BY <3>4, <3>5, <3>6, <1>1
    <3> QED BY <3>5, <3>7, <1>1
  <2> QED BY <2>1, <2>2
<1> DEFINE b == Before(bytes, m)
<1>3. b \in Seq(Character \cup {0}) /\ Len(b) = m /\ \A k \in 1..m : b[k] = bytes[k]
  BY <1>1, <1>2, BeforeAfter DEF Least
<1> HIDE DEF b
<1>4. \A k \in 1..Len(b) : b[k] \in Character
  BY <1>1, <1>2, <1>3
<1>5. b \in Seq(Character)
  BY <1>3, <1>4, SeqOfPart
<1> QED BY <1>2, <1>5 DEF b

LEMMA BeforeOfConcat ==
  ASSUME NEW E, NEW s \in Seq(E), NEW t \in Seq(E), NEW n \in 0..Len(t), NEW m \in 0..n
  PROVE  Before(Before(t, n) \o s, m) = Before(t, m)
<1> DEFINE p == Before(t, n)
           c == p \o s
           a == Before(c, m)
           b == Before(t, m)
<1>0. Len(t) \in Nat /\ Len(s) \in Nat /\ n \in Nat /\ m \in Nat
  BY LenProperties
<1>1. p \in Seq(E) /\ Len(p) = n /\ \A k \in 1..n : p[k] = t[k]
  BY <1>0, BeforeAfter DEF Least
<1> HIDE DEF p
<1>2. /\ c \in Seq(E) /\ Len(c) = n + Len(s)
      /\ \A k \in 1..(n + Len(s)) : c[k] = IF k <= n THEN p[k] ELSE s[k - n]
  BY <1>1, ConcatProperties
<1> HIDE DEF c
<1>3. Least(m, Len(c)) = m /\ Least(m, Len(t)) = m
  BY <1>0, <1>2 DEF Least
<1>4. a \in Seq(E) /\ Len(a) = m /\ \A k \in 1..m : a[k] = c[k]
  BY <1>0, <1>2, <1>3, BeforeAfter, ZenonT(60)
<1>5. b \in Seq(E) /\ Len(b) = m /\ \A k \in 1..m : b[k] = t[k]
  BY <1>0, <1>3, BeforeAfter
<1> HIDE DEF a, b
<1>6. \A k \in 1..m : a[k] = b[k]
  <2> TAKE k \in 1..m
  <2>1. k \in 1..n /\ k \in 1..(n + Len(s)) /\ k <= n
    BY <1>0
  <2>2. c[k] = p[k]
    BY <2>1, <1>2
  <2>3. p[k] = t[k]
    BY <2>1, <1>1
  <2> QED BY <2>2, <2>3, <1>4, <1>5
<1>7. a = b
  BY <1>4, <1>5, <1>6, SeqEqual
<1> QED BY <1>7 DEF a, b, c, p

LEMMA SerializeInputStep ==
  ASSUME IsText, TextsInv(x, r, kind = "hashed"), SerializeInput
  PROVE  TextsInv(x', r', kind = "hashed")
<1> DEFINE m(bytes, n) == IF SH!Find(bytes, 0, 0) >= 0 /\ SH!Find(bytes, 0, 0) < n THEN SH!Find(bytes, 0, 0) ELSE n
           t(v, bytes, n) == IF n > Short THEN r[v] ELSE IF Len(bytes) < n THEN <<>> ELSE Before(bytes, m(bytes, n))
           g(v, bytes, n) == SH!SerializeInput(x, v, n, Short, bytes)
<1>1. PICK v \in Loaded, n \in 0..(Short + 1), bytes \in SeqsTo(Character \cup {0}, Short) :
        (n > 0 \/ x.ref[v] # Nil) /\ Text(v, g(v, bytes, n), t(v, bytes, n))
  BY Zenon DEF SerializeInput
<1>2. v \in Users /\ n \in Nat /\ Short \in Nat
  BY HeadsAssumption
<1>3. /\ bytes \in Seq(Character \cup {0}) /\ bytes \in Seq(Value) /\ Len(bytes) \in Nat
  <2>1. Character \cup {0} \subseteq Value
    BY ValuesAre
  <2> QED BY <2>1, <1>2, SeqsToAre, LenProperties
<1>4. SH!Data(x, v) = r[v] /\ r[v] \in Seq(Character) /\ Exact(x) /\ Full(x, v)
  BY <1>2, TextsData
<1> DEFINE b == SH!GetBuffer(x, v, n)
           d == SH!Data(b, v)
<1>5. d \in Seq(Value) /\ Len(d) \in Nat /\ Len(d) >= n
  <2>1. PICK c \in Seq(Value) :
          /\ Becomes(x, b, v, c)
          /\ Len(c) = IF n > Len(SH!Data(x, v)) THEN n ELSE Len(SH!Data(x, v))
    BY <1>1, <1>2, <1>4, BufferIs
  <2>2. Len(SH!Data(x, v)) \in Nat
    BY <1>2, <1>4, DataIs
  <2>3. c = d
    BY <2>1 DEF Becomes
  <2> HIDE DEF d
  <2> QED BY <2>1, <2>2, <2>3, <1>2
<1>6. CASE n > Short
  <2>1. g(v, bytes, n) = x /\ t(v, bytes, n) = r[v]
    BY <1>6 DEF SH!SerializeInput
  <2>2. Retexts(x, x, v, SH!Data(x, v))
    BY <1>2, <1>4, SameText
  <2> HIDE DEF g, t
  <2>3. Text(v, x, r[v]) /\ Retexts(x, x, v, r[v])
    BY <1>1, <1>4, <2>1, <2>2
  <2> QED BY <1>2, <1>4, <2>3, TextIs
<1> DEFINE none == SH!ReleaseBuffer(b, v, 0)
<1>7. Retexts(x, none, v, <<>>)
  <2> DEFINE z == 0
  <2>1. z \in 0..n /\ z = 0
    BY <1>2
  <2> HIDE DEF z
  <2>2. Retexts(x, SH!ReleaseBuffer(b, v, z), v, Before(d, z))
    <3> DEFINE w == b
    <3>1. w = b /\ d = SH!Data(w, v) /\ (n > 0 \/ x.ref[v] # Nil)
      BY <1>1
    <3> HIDE DEF w
    <3>2. Retexts(x, SH!ReleaseBuffer(w, v, z), v, Before(d, z))
      BY <3>1, <2>1, <1>2, <1>4, <1>5, Edited
    <3> QED BY <3>1, <3>2
  <2>3. Before(d, 0) = <<>>
    BY <1>5, NothingBeforeAfter
  <2> QED BY <2>1, <2>2, <2>3
<1>8. CASE ~(n > Short) /\ Len(bytes) < n
  <2>1. g(v, bytes, n) = none /\ t(v, bytes, n) = <<>>
    BY <1>8, Zenon DEF SH!SerializeInput
  <2>2. <<>> \in Seq(Character)
    BY EmptySeq
  <2> HIDE DEF g, t, none
  <2> QED BY <1>1, <1>2, <1>7, <2>1, <2>2, TextIs
<1>9. CASE ~(n > Short) /\ ~(Len(bytes) < n)
  <2> DEFINE k == m(bytes, n)
             e == SH!Cut(bytes, n) \o SubSeq(d, n + 1, Len(d))
             read == IF n = 0 THEN b ELSE SH!Write(b, v, e)
  <2>1. g(v, bytes, n) = SH!ReleaseBuffer(read, v, k) /\ t(v, bytes, n) = Before(bytes, k)
    BY <1>9, Zenon DEF SH!SerializeInput
  <2>2. k \in 0..n /\ Before(bytes, k) \in Seq(Character)
    <3>1. n <= Len(bytes)
      BY <1>9, <1>2, <1>3
    <3> QED BY <3>1, <1>2, <1>3, FoundIs
  <2>3. Text(v, SH!ReleaseBuffer(read, v, k), Before(bytes, k))
    <3> HIDE DEF g, t, k, read
    <3> QED BY <1>1, <2>1
  <2> HIDE DEF k, g, t
  <2>4. CASE n = 0
    <3>1. read = b /\ k = 0
      BY <2>2, <2>4
    <3>2. Before(bytes, k) = <<>>
      BY <3>1, <1>3, NothingBeforeAfter
    <3>3. Text(v, none, <<>>) /\ <<>> \in Seq(Character)
      BY <2>2, <2>3, <3>1, <3>2
    <3> HIDE DEF none
    <3> QED BY <1>2, <1>7, <3>3, TextIs
  <2>5. CASE n # 0
    <3>1. e = Before(bytes, n) \o After(d, n)
      BY DEF SH!Cut, Before, After, Least
    <3>2. Before(bytes, n) \in Seq(Value) /\ Len(Before(bytes, n)) = n
      BY <1>2, <1>3, <1>9, BeforeAfter DEF Least
    <3>3. After(d, n) \in Seq(Value) /\ Len(After(d, n)) = Len(d) - n
      BY <1>2, <1>5, BeforeAfter
    <3>4. e \in Seq(Value) /\ Len(e) = Len(d)
      <4> DEFINE p == Before(bytes, n)
                 q == After(d, n)
      <4> HIDE DEF p, q
      <4>1. p \in Seq(Value) /\ q \in Seq(Value) /\ Len(p) + Len(q) = Len(d)
        BY <3>2, <3>3, <1>2, <1>5 DEF p, q
      <4>2. p \o q \in Seq(Value) /\ Len(p \o q) = Len(p) + Len(q)
        BY <4>1, ConcatProperties
      <4>3. e = p \o q
        BY <3>1 DEF p, q
      <4> HIDE DEF e
      <4> QED BY <4>1, <4>2, <4>3
    <3>5. Before(e, k) = Before(bytes, k)
      <4>1. n \in 0..Len(bytes)
        BY <1>2, <1>3, <1>9
      <4> DEFINE q == After(d, n)
      <4>2. q \in Seq(Value) /\ e = Before(bytes, n) \o q
        BY <3>1, <3>3
      <4> HIDE DEF q, e
      <4> QED BY <4>1, <4>2, <2>2, <1>3, BeforeOfConcat
    <3>6. read = SH!Write(b, v, e)
      BY <2>5
    <3> HIDE DEF e
    <3>7. Retexts(x, SH!ReleaseBuffer(SH!Write(b, v, e), v, k), v, Before(e, k))
      <4> DEFINE w == SH!Write(b, v, e)
      <4>1. w = SH!Write(b, v, e) /\ (n > 0 \/ x.ref[v] # Nil)
        BY <1>1
      <4> HIDE DEF w
      <4>2. Retexts(x, SH!ReleaseBuffer(w, v, k), v, Before(e, k))
        BY <4>1, <3>4, <2>2, <1>2, <1>4, Edited
      <4> QED BY <4>1, <4>2
    <3>8. Text(v, SH!ReleaseBuffer(SH!Write(b, v, e), v, k), Before(e, k))
      BY <2>3, <3>5, <3>6
    <3> QED BY <1>2, <2>2, <3>5, <3>7, <3>8, TextIs
  <2> QED BY <2>4, <2>5
<1> HIDE DEF t, g, none, b, d, m
<1> QED BY <1>6, <1>8, <1>9

LEMMA RenameStep ==
  ASSUME kind = "text", TextsInv(x, r, kind = "hashed"), Rename
  PROVE  TextsInv(x', r', kind = "hashed")
<1>1. PICK v \in Users, w \in Users :
        /\ v # w /\ x.ref[v] = Nil /\ x' = SH!Move(x, v, w)
        /\ r' = [r EXCEPT ![v] = r[w], ![w] = <<>>]
  BY DEF Rename, Do
<1> DEFINE g == SH!Move(x, v, w)
           a == [r EXCEPT ![v] = r[w], ![w] = <<>>]
<1>2. Agrees(x, r) /\ r \in [Users -> Seq(Character)] /\ Exact(x) /\ \A u \in Users : Full(x, u)
  BY DEF TextsInv, Agrees
<1>3. /\ Exact(g) /\ g.heads = x.heads /\ g.ref[v] = x.ref[w] /\ g.ref[w] = Nil
      /\ \A u \in Users \ {v, w} : g.ref[u] = x.ref[u]
  BY <1>1, <1>2, Moved
<1> HIDE DEF g
<1>4. <<>> \in Seq(Character)
  BY EmptySeq
<1>5. /\ a \in [Users -> Seq(Character)] /\ a[v] = r[w] /\ a[w] = <<>>
      /\ \A u \in Users \ {v, w} : a[u] = r[u]
  BY <1>1, <1>2, <1>4
<1> HIDE DEF a
<1>6. \A u \in Users : SH!Data(g, u) = a[u] /\ Full(g, u)
  <2> TAKE u \in Users
  <2>1. CASE u = v
    BY <2>1, <1>2, <1>3, <1>5 DEF SH!Data, Full, Agrees
  <2>2. CASE u = w
    BY <2>2, <1>3, <1>5 DEF SH!Data, Full
  <2>3. CASE u \notin {v, w}
    BY <2>3, <1>2, <1>3, <1>5 DEF SH!Data, Full, Agrees
  <2> QED BY <2>1, <2>2, <2>3
<1>7. a \in [Users -> Seq(Value)]
  BY <1>5, CharactersAreValues DEF CharactersAre
<1>8. TextsInv(g, a, kind = "hashed")
  BY <1>3, <1>5, <1>6, <1>7 DEF TextsInv, Agrees
<1> QED BY <1>1, <1>8 DEF g, a

LEMMA HashStep ==
  ASSUME kind = "hashed", TextsInv(x, r, kind = "hashed"), get_HashCode
  PROVE  TextsInv(x', r', kind = "hashed")
<1>1. PICK v \in Users : x' = SH!get_HashCode(x, v) /\ r' = r
  BY DEF get_HashCode, Do
<1>2. /\ Agrees(x, r) /\ r \in [Users -> Seq(Character)] /\ Exact(x)
      /\ \A u \in Users : Full(x, u) /\ Coded(x, u)
  BY DEF TextsInv, Agrees
<1>3. CASE x.ref[v] = Nil
  BY <1>1, <1>3 DEF SH!get_HashCode
<1>4. CASE x.ref[v] # Nil
  <2> DEFINE b == x.ref[v]
             d == SH!Data(x, v)
             hash == IF x.heads[b].hash = SH!Clear THEN d ELSE x.heads[b].hash
             g == [x EXCEPT !.heads[b].hash = hash]
  <2>1. x' = g
    BY <1>1, <1>4 DEF SH!get_HashCode
  <2>2. /\ d \in Seq(Value) /\ d = x.heads[b].data /\ x.heads[b] \in HeadT
        /\ hash \in {SH!Clear, d}
    BY <1>2, <1>4, DataIs DEF Coded
  <2>3. hash \in Seq(Value)
    <3>1. x.heads[b].hash \in Seq(Value)
      BY <2>2 DEF HeadT
    <3> QED BY <2>2, <3>1
  <2> HIDE DEF hash
  <2>4. Writes(x, g, v, x.heads[b].data, hash)
    BY <2>2, <2>3, WriteIs
  <2>5. Writes(x, g, v, d, hash)
    BY <2>2, <2>4
  <2> HIDE DEF g, d
  <2>6. /\ Exact(g) /\ g.ref = x.ref
        /\ g.heads[b].data = d /\ g.heads[b].hash = hash
        /\ \A c \in Heads \ {b} : g.heads[c] = x.heads[c]
    BY <2>5, <1>2, <1>4, Rewritten
  <2>7. \A u \in Users : SH!Data(g, u) = SH!Data(x, u) /\ Coded(g, u) /\ Full(g, u)
    <3> TAKE u \in Users
    <3>0. x.ref[u] \in Heads \cup {Nil}
      BY <1>2 DEF Exact, Heap
    <3>1. CASE x.ref[u] = Nil
      BY <3>1, <2>6 DEF SH!Data, Coded, Full
    <3>2. CASE x.ref[u] = b /\ b # Nil
      <4>1. SH!Data(g, u) = d /\ SH!Data(x, u) = d
        BY <3>2, <2>2, <2>6 DEF SH!Data
      <4> QED BY <4>1, <3>2, <2>2, <2>6, <1>2 DEF Coded, Full
    <3>3. CASE x.ref[u] # b /\ x.ref[u] # Nil
      <4>1. g.heads[x.ref[u]] = x.heads[x.ref[u]]
        BY <3>0, <3>3, <2>6
      <4>2. SH!Data(g, u) = SH!Data(x, u)
        BY <4>1, <3>3, <2>6 DEF SH!Data
      <4> QED BY <4>1, <4>2, <2>6, <1>2 DEF Coded, Full
    <3> QED BY <3>1, <3>2, <3>3
  <2>8. TextsInv(g, r, kind = "hashed")
    BY <1>2, <2>6, <2>7 DEF TextsInv, Agrees
  <2> QED BY <1>1, <2>1, <2>8
<1> QED BY <1>3, <1>4

LEMMA TextsShareStep ==
  ASSUME IsText, TextsInv(x, r, kind = "hashed"), Share \/ SetEmptyHead
  PROVE  TextsInv(x', r', kind = "hashed")
<1>1. CASE Share
  <2>1. PICK v \in Users, w \in Users : x' = SH!put_Ptr(x, v, x.ref[w]) /\ r' = [r EXCEPT ![v] = r[w]]
    BY <1>1 DEF Share, Do, Own
  <2> DEFINE f == SH!put_Ptr(x, v, x.ref[w])
  <2>2. SH!Data(x, w) = r[w] /\ r[w] \in Seq(Character) /\ Exact(x) /\ Full(x, w) /\ (kind = "hashed" => Coded(x, w)) /\ Agrees(x, r)
    BY TextsData DEF TextsInv
  <2>3. Becomes(x, f, v, r[w])
    BY <2>2, ShareIs
  <2>4. /\ f.ref[v] = x.ref[w]
        /\ x.ref[w] # Nil => f.heads[x.ref[w]].data = x.heads[x.ref[w]].data
                             /\ f.heads[x.ref[w]].hash = x.heads[x.ref[w]].hash
    BY <2>2, Pointed
  <2> HIDE DEF f
  <2>5. Full(f, v) /\ (kind = "hashed" => Coded(f, v))
    BY <2>2, <2>4 DEF Full, Coded, SH!Data
  <2>6. TextsInv(f, [r EXCEPT ![v] = r[w]], kind = "hashed")
    BY <2>2, <2>3, <2>5, RetextedIs
  <2> QED BY <2>1, <2>6 DEF f
<1>2. CASE SetEmptyHead
  <2>1. PICK v \in Users : x' = SH!SetEmpty(x, v) /\ r' = [r EXCEPT ![v] = <<>>]
    BY <1>2 DEF SetEmptyHead, Do, Own
  <2> DEFINE f == SH!SetEmpty(x, v)
  <2>2. Becomes(x, f, v, <<>>) /\ f.ref[v] = Nil
    BY TextsData, ToNone
  <2> HIDE DEF f
  <2>3. <<>> \in Seq(Character)
    BY EmptySeq
  <2>4. Full(f, v) /\ (kind = "hashed" => Coded(f, v))
    BY <2>2 DEF Full, Coded
  <2>5. TextsInv(f, [r EXCEPT ![v] = <<>>], kind = "hashed")
    BY <2>2, <2>3, <2>4, RetextedIs
  <2> QED BY <2>1, <2>5 DEF f
<1> QED BY <1>1, <1>2

TextCall == \/ Share \/ SetEmptyHead \/ Rename \/ AssignText \/ AssignPart \/ EditBuffer \/ SetAtOwn
            \/ MakeUpper \/ InsertSpan \/ Part \/ SerializeInput \/ get_HashCode
LEMMA TextsStep ==
  ASSUME IsText, TextsInv(x, r, kind = "hashed"), NextHeads
  PROVE  TextsInv(x', r', kind' = "hashed") /\ kind' = kind
<1>0. TextCall
  BY DEF TextCall, NextHeads, put_Count, SetAtShared, AddShared, SetAtGrowShared, InsertAtShared,
         InsertArrayShared, RemoveAtShared, Do, IsText
<1>1. kind' = kind
  <2>1. CASE Share \/ SetEmptyHead \/ Rename \/ AssignText \/ AssignPart \/ SetAtOwn \/ MakeUpper
    BY <2>1, ZenonT(60) DEF Rename, AssignText, AssignPart, SetAtOwn, MakeUpper, Share, SetEmptyHead, Do, Text
  <2>2. CASE EditBuffer
    BY <2>2, ZenonT(60) DEF EditBuffer, Do, Text
  <2>3. CASE InsertSpan \/ Part \/ get_HashCode
    BY <2>3 DEF InsertSpan, Part, get_HashCode, Do, Text
  <2>4. CASE SerializeInput
    BY <2>4, ZenonT(60) DEF SerializeInput, Do, Text
  <2> QED BY <1>0, <2>1, <2>2, <2>3, <2>4 DEF TextCall
<1>2. TextsInv(x', r', kind = "hashed")
  <2>1. CASE Share \/ SetEmptyHead BY <2>1, TextsShareStep
  <2>2. CASE Rename
    <3>1. kind = "text"
      BY <2>2 DEF Rename
    <3> QED BY <2>2, <3>1, RenameStep
  <2>3. CASE AssignText BY <2>3, AssignTextStep
  <2>4. CASE AssignPart BY <2>4, AssignPartStep
  <2>5. CASE EditBuffer BY <2>5, EditBufferStep
  <2>6. CASE SetAtOwn BY <2>6, SetAtOwnStep
  <2>7. CASE MakeUpper BY <2>7, MakeUpperStep
  <2>8. CASE InsertSpan BY <2>8, InsertSpanStep
  <2>9. CASE Part BY <2>9, PartStep
  <2>10. CASE SerializeInput BY <2>10, SerializeInputStep
  <2>11. CASE get_HashCode
    <3>1. kind = "hashed"
      BY <2>11 DEF get_HashCode
    <3> QED BY <2>11, <3>1, HashStep
  <2> QED BY <1>0, <2>1, <2>2, <2>3, <2>4, <2>5, <2>6, <2>7, <2>8, <2>9, <2>10, <2>11 DEF TextCall
<1> QED BY <1>1, <1>2

LEMMA TextsAgreeIs ==
  ASSUME TextsInv(x, r, kind = "hashed")
  PROVE  TextsAgree
<1>1. HeadsAgree
  BY SharedAgree DEF TextsInv
<1> QED BY <1>1 DEF TextsInv, TextsAgree, Agrees, Full, Coded

LEMMA HeadsInit ==
  LET a == [v \in Users |-> <<>>]
  IN Agrees(SH!NoHeads, a) /\ \A hashed \in BOOLEAN : TextsInv(SH!NoHeads, a, hashed)
<1> DEFINE a == [v \in Users |-> <<>>]
           h == SH!NoHeads
<1>1. <<>> \in Seq(Value) /\ <<>> \in Seq(Character)
  BY EmptySeq
<1>2. h \in Heap /\ (\A b \in Heads : h.heads[b] = SH!Free) /\ \A v \in Users : h.ref[v] = Nil
  BY FreeInHead DEF SH!NoHeads, Heap
<1> HIDE DEF h
<1>3. Exact(h)
  <2>1. \A b \in Heads : Pointing(h, b) = {}
    BY <1>2, HeadsAssumption DEF Pointing
  <2>2. SH!Free.refs = 0
    BY DEF SH!Free
  <2> QED BY <1>2, <2>1, <2>2, FS_EmptySet DEF Exact
<1>4. Agrees(h, a)
  BY <1>1, <1>2, <1>3 DEF Agrees, SH!Data
<1>5. \A hashed \in BOOLEAN : TextsInv(h, a, hashed)
  BY <1>1, <1>2, <1>4 DEF TextsInv, Full, Coded
<1> QED BY <1>4, <1>5 DEF h
=============================================================================
