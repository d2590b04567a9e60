--------------------------- MODULE Managers_proofs ---------------------------
(***************************************************************************)
(* Machine-checked proofs about what the two managers keep under a lock and *)
(* use outside of it: LogNexus, for every tree of sinks and any number of   *)
(* threads and calls, and AtomTable, for all finite sets of threads and     *)
(* names, every hash function, and any number of objects and handles.       *)
(***************************************************************************)
EXTENDS LogNexus, AtomTable, SequenceTheorems, FiniteSetTheorems, TLAPS

LEMMA SeqOfFunction ==
  ASSUME NEW S, NEW n \in Nat, NEW g \in [1..n -> S]
  PROVE  g \in Seq(S) /\ Len(g) = n
OBVIOUS

-----------------------------------------------------------------------------
(* What RemoveSink leaves of a list: it removes the one place of the sink.  *)
LEMMA CountTo ==
  ASSUME NEW n \in Nat
  PROVE  IsFiniteSet(1..n) /\ Cardinality(1..n) = n
BY FS_Interval

LEMMA WithoutAbsent ==
  ASSUME NEW S, NEW list \in Seq(S), NEW x, ~Contains(list, x)
  PROVE  Without(list, x) = list
<1> DEFINE n == Len(list)
           left == {i \in DOMAIN list : list[i] # x}
           Below(i) == {j \in left : j < i}
           At(k) == CHOOSE i \in left : Cardinality(Below(i)) = k - 1
<1>1. left = 1..n /\ n \in Nat /\ DOMAIN list = 1..n
  BY DEF Contains
<1>2. Without(list, x) = [k \in 1..Cardinality(left) |-> list[At(k)]]
  BY DEF Without
<1> HIDE DEF left, n
<1>3. ASSUME NEW i \in left
      PROVE  Cardinality(Below(i)) = i - 1
  <2>1. Below(i) = 1..(i - 1) /\ i - 1 \in Nat
    BY <1>1
  <2> HIDE DEF Below
  <2> QED BY <2>1, CountTo
<1> HIDE DEF Below
<1>4. ASSUME NEW k \in 1..n
      PROVE  At(k) = k
  BY <1>1, <1>3
<1> HIDE DEF At
<1>5. Without(list, x) = [k \in 1..n |-> list[k]]
  BY <1>1, <1>2, <1>4, CountTo
<1> QED BY <1>1, <1>5

LEMMA WithoutPresent ==
  ASSUME NEW S, NEW list \in Seq(S), IsInjective(list), NEW p \in 1..Len(list)
  PROVE  Without(list, list[p]) =
           [k \in 1..(Len(list) - 1) |-> list[IF k < p THEN k ELSE k + 1]]
<1> DEFINE n == Len(list)
           left == {i \in DOMAIN list : list[i] # list[p]}
           Below(i) == {j \in left : j < i}
           At(k) == CHOOSE i \in left : Cardinality(Below(i)) = k - 1
<1>1. left = (1..n) \ {p} /\ n \in Nat /\ DOMAIN list = 1..n
  BY DEF IsInjective
<1>2. Without(list, list[p]) = [k \in 1..Cardinality(left) |-> list[At(k)]]
  BY DEF Without
<1>3. p \in 1..n
  OBVIOUS
<1> HIDE DEF left, n
<1>4. Cardinality(left) = n - 1
  BY <1>1, <1>3, CountTo, FS_RemoveElement
<1>5. ASSUME NEW i \in left
      PROVE  Cardinality(Below(i)) = IF i < p THEN i - 1 ELSE i - 2
  <2>1. Below(i) = (1..(i - 1)) \ {p} /\ i - 1 \in Nat
    BY <1>1
  <2>2. p \in 1..(i - 1) <=> ~(i < p)
    BY <1>1, <1>3
  <2> HIDE DEF Below
  <2>3. IsFiniteSet(1..(i - 1)) /\ Cardinality(1..(i - 1)) = i - 1
    BY <2>1, CountTo
  <2>4. Cardinality((1..(i - 1)) \ {p}) =
          IF p \in 1..(i - 1) THEN Cardinality(1..(i - 1)) - 1 ELSE Cardinality(1..(i - 1))
    BY <2>3, FS_RemoveElement
  <2> QED BY <1>1, <1>3, <2>1, <2>2, <2>3, <2>4
<1> HIDE DEF Below
<1>6. ASSUME NEW k \in 1..(n - 1)
      PROVE  At(k) = IF k < p THEN k ELSE k + 1
  <2> DEFINE c == IF k < p THEN k ELSE k + 1
  <2>1. c \in left /\ Cardinality(Below(c)) = k - 1
    BY <1>1, <1>3, <1>5
  <2>2. \A i \in left : Cardinality(Below(i)) = k - 1 => i = c
    BY <1>1, <1>3, <1>5
  <2> HIDE DEF c
  <2>3. At(k) = c
    BY <2>1, <2>2
  <2> QED BY <2>3 DEF c
<1> HIDE DEF At
<1>7. Without(list, list[p]) = [k \in 1..(n - 1) |-> list[IF k < p THEN k ELSE k + 1]]
  BY <1>2, <1>4, <1>6
<1> QED BY <1>7 DEF n

(* The list grows at its head, or loses one sink: those behind it move down.*)
Grows(a, b) ==
  /\ Len(b) = Len(a) + 1
  /\ \A p \in 1..Len(a) : b[p + 1] = a[p]
Shrinks(a, b) ==
  \E r \in 1..Len(a) :
    /\ Len(b) = Len(a) - 1
    /\ \A p \in 1..Len(b) : b[p] = a[IF p < r THEN p ELSE p + 1]

LEMMA RemovedFromList ==
  ASSUME NEW S, NEW list \in Seq(S), IsInjective(list), NEW x
  PROVE  LET b == Without(list, x) IN
         /\ b \in Seq(S) /\ IsInjective(b)
         /\ ToSet(b) \subseteq ToSet(list)
         /\ b = list \/ Shrinks(list, b)
<1> DEFINE b == Without(list, x)
<1>1. CASE ~Contains(list, x)
  BY <1>1, WithoutAbsent
<1>2. CASE Contains(list, x)
  <2>1. PICK p \in 1..Len(list) : list[p] = x
    BY <1>2 DEF Contains
  <2>2. PICK m \in Nat : m = Len(list) - 1
    BY <2>1
  <2>3. b = [k \in 1..m |-> list[IF k < p THEN k ELSE k + 1]]
    BY <2>1, <2>2, WithoutPresent
  <2>4. DOMAIN list = 1..Len(list) /\ Len(list) = m + 1
    BY <2>2
  <2> HIDE DEF b
  <2>5. b \in [1..m -> S]
    BY <2>1, <2>3, <2>4
  <2>6. b \in Seq(S) /\ Len(b) = m /\ DOMAIN b = 1..m
    BY <2>5, SeqOfFunction
  <2>7. ASSUME NEW k \in 1..m
        PROVE  b[k] = list[IF k < p THEN k ELSE k + 1]
    BY <2>3
  <2>8. IsInjective(b)
    <3> SUFFICES ASSUME NEW i \in 1..m, NEW j \in 1..m, b[i] = b[j]
                 PROVE  i = j
      BY <2>6 DEF IsInjective
    <3> DEFINE c(k) == IF k < p THEN k ELSE k + 1
    <3>1. c(i) \in 1..Len(list) /\ c(j) \in 1..Len(list) /\ list[c(i)] = list[c(j)]
      BY <2>1, <2>4, <2>7
    <3>2. c(i) = c(j)
      BY <2>4, <3>1 DEF IsInjective
    <3> QED BY <2>1, <3>2
  <2>9. Shrinks(list, b)
    <3>1. Len(b) = Len(list) - 1
      BY <2>2, <2>6
    <3>2. \A k \in 1..Len(b) : b[k] = list[IF k < p THEN k ELSE k + 1]
      BY <2>6, <2>7
    <3> QED BY <3>1, <3>2 DEF Shrinks
  <2>10. ToSet(b) \subseteq ToSet(list)
    <3> SUFFICES ASSUME NEW k \in 1..m PROVE b[k] \in ToSet(list)
      BY <2>6 DEF ToSet
    <3> QED BY <2>1, <2>4, <2>7 DEF ToSet
  <2> QED BY <2>6, <2>8, <2>9, <2>10 DEF b
<1> QED BY <1>1, <1>2

LEMMA AddedToList ==
  ASSUME NEW S, NEW list \in Seq(S), IsInjective(list), NEW x \in S, ~Contains(list, x)
  PROVE  LET b == <<x>> \o list IN
         b \in Seq(S) /\ IsInjective(b) /\ Grows(list, b)
<1> DEFINE b == <<x>> \o list
<1>1. <<x>> \in Seq(S) /\ Len(<<x>>) = 1 /\ <<x>>[1] = x
  OBVIOUS
<1>2. /\ b \in Seq(S) /\ Len(b) = Len(list) + 1
      /\ \A i \in 1..(Len(list) + 1) : b[i] = IF i = 1 THEN x ELSE list[i - 1]
  BY <1>1, ConcatProperties
<1> HIDE DEF b
<1>3. Grows(list, b)
  BY <1>2 DEF Grows
<1>4. IsInjective(b)
  <2>1. DOMAIN b = 1..(Len(list) + 1) /\ DOMAIN list = 1..Len(list) /\ Len(list) \in Nat
    BY <1>2
  <2>2. \A i \in 1..Len(list) : list[i] # x
    BY DEF Contains
  <2> SUFFICES ASSUME NEW i \in 1..(Len(list) + 1), NEW j \in 1..(Len(list) + 1), b[i] = b[j]
               PROVE  i = j
    BY <2>1 DEF IsInjective
  <2>3. CASE i = 1 \/ j = 1
    <3>1. b[1] = x /\ \A k \in 1..(Len(list) + 1) : k # 1 => b[k] # x
      <4>1. b[1] = x
        BY <1>2, <2>1
      <4>2. ASSUME NEW k \in 1..(Len(list) + 1), k # 1 PROVE b[k] # x
        <5>1. k - 1 \in 1..Len(list)
          BY <2>1, <4>2
        <5>2. b[k] = list[k - 1]
          BY <1>2, <4>2
        <5> QED BY <2>2, <5>1, <5>2
      <4> QED BY <4>1, <4>2
    <3> QED BY <2>3, <3>1
  <2>4. CASE i # 1 /\ j # 1
    <3>1. i - 1 \in 1..Len(list) /\ j - 1 \in 1..Len(list) /\ list[i - 1] = list[j - 1]
      BY <1>2, <2>1, <2>4
    <3> QED BY <2>1, <3>1 DEF IsInjective
  <2> QED BY <2>3, <2>4
<1> QED BY <1>2, <1>3, <1>4 DEF b

-----------------------------------------------------------------------------
Frame == [nexus : Nexuses, i : Nat, got : [Sinks -> 0..2], stay : SUBSET Sinks,
          added : Nat, removed : Nat]
Job == [kind : {"none", "found", "add", "remove", "flush"}, nexus : Nexuses,
        sink : Sinks \cup {Root}, todo : SUBSET Nexuses]

LogTypes ==
  /\ sinks \in [Nexuses -> Seq(Sinks)]
  /\ lock \in [Nexuses -> LogThreads \cup {NoThread}]
  /\ stack \in [LogThreads -> Seq(Frame)]
  /\ pSink \in [LogThreads -> Sinks \cup {Root}]
  /\ pc \in [LogThreads -> {"client", "enum", "deliver", "return", "job"}]
  /\ job \in [LogThreads -> Job]

(* A thread is in addEvent, or in one of the other calls, or in neither.    *)
Places ==
  \A t \in LogThreads :
    /\ pc[t] \in {"enum", "deliver", "return"} <=> stack[t] # <<>>
    /\ pc[t] = "deliver" => pSink[t] \in Sinks
    /\ pc[t] = "job" => job[t].kind # "none"
    /\ pc[t] # "job" => job[t] = NoJob

(* AddSink keeps the lock from its search to its insertion: what it has not *)
(* found is not there yet.                                                  *)
AddIsLocked ==
  \A t \in LogThreads : pc[t] = "job" =>
    /\ lock[job[t].nexus] = t
    /\ job[t].kind = "add" =>
         job[t].sink \in Sinks /\ ~Contains(sinks[job[t].nexus], job[t].sink)

Unique == \A n \in Nexuses : IsInjective(sinks[n])

(* A sink that is yet to come in the list for a loop at place i.            *)
Ahead(list, i, s) == \E p \in DOMAIN list : p > i /\ list[p] = s

(* The sinks that the loop has missed, and those it serves twice: so many   *)
(* were taken out, and so many put in, in the part of the list behind it.   *)
Missed(f, got, list, i) == {s \in f.stay : got[s] = 0 /\ ~Ahead(list, i, s)}
Doubled(f, got, list, i) ==
  {s \in f.stay : got[s] = 2 \/ (got[s] = 1 /\ Ahead(list, i, s))}

Served(f, got, list, i) ==
  /\ f.stay \subseteq ToSet(list)
  /\ Cardinality(Missed(f, got, list, i)) <= f.removed
  /\ Cardinality(Doubled(f, got, list, i)) <= f.added

(* What each sink got once the one looked up has it.                        *)
GotWith(f, q) == [f.got EXCEPT ![q] = IF @ = 0 THEN 1 ELSE 2]

AtReturn(f) ==
  /\ Cardinality({s \in f.stay : f.got[s] = 0}) <= f.removed
  /\ Cardinality({s \in f.stay : f.got[s] = 2}) <= f.added

LoopOK(f, list, where, q) ==
  /\ IsFiniteSet(f.stay)
  /\ where = "enum" => Served(f, f.got, list, f.i)
  /\ where = "deliver" => Served(f, GotWith(f, q), list, f.i + 1)
  /\ where = "return" => AtReturn(f)

(* Only the innermost loop is at a delivery; those around it go on behind.  *)
Loops ==
  \A t \in LogThreads : \A k \in DOMAIN stack[t] :
    LoopOK(stack[t][k], sinks[stack[t][k].nexus], IF k = 1 THEN pc[t] ELSE "enum", pSink[t])

LogIInv == LogTypes /\ Places /\ AddIsLocked /\ Unique /\ Loops

-----------------------------------------------------------------------------
(* Cardinalities of what a loop keeps: no element more, or one.             *)
LEMMA AtMost ==
  ASSUME NEW A, NEW B, IsFiniteSet(A), B \subseteq A, NEW n \in Nat, Cardinality(A) <= n
  PROVE  IsFiniteSet(B) /\ Cardinality(B) <= n
<1>1. IsFiniteSet(B) /\ Cardinality(B) <= Cardinality(A)
  BY FS_Subset
<1>2. Cardinality(A) \in Nat /\ Cardinality(B) \in Nat
  BY <1>1, FS_CardinalityType
<1> QED BY <1>1, <1>2

LEMMA OneMore ==
  ASSUME NEW A, NEW B, NEW x, IsFiniteSet(A), B \subseteq A \cup {x}, NEW n \in Nat,
         Cardinality(A) <= n
  PROVE  Cardinality(B) <= n + 1
<1>1. IsFiniteSet(A \cup {x}) /\ Cardinality(A \cup {x}) <= Cardinality(A) + 1
  <2>1. Cardinality(A) \in Nat
    BY FS_CardinalityType
  <2> QED BY <2>1, FS_AddElement
<1>2. Cardinality(A) \in Nat /\ Cardinality(A \cup {x}) \in Nat
  BY <1>1, FS_CardinalityType
<1>3. Cardinality(A \cup {x}) <= n + 1
  BY <1>1, <1>2
<1> QED BY <1>1, <1>3, AtMost

(* A list that grows at its head, or loses a sink, and a loop over it.      *)
LEMMA ServedStays ==
  ASSUME NEW f \in Frame, NEW got \in [Sinks -> 0..2], NEW n \in Nexuses, NEW i \in Nat,
         NEW a \in Seq(Sinks), NEW b \in Seq(Sinks), IsInjective(a), IsInjective(b),
         b = a \/ Grows(a, b) \/ Shrinks(a, b),
         f.nexus = n, sinks[n] = a, IsFiniteSet(f.stay), Served(f, got, a, i)
  PROVE  Served(Note(f, i, n, b), got, b, i)
<1> DEFINE g == Note(f, i, n, b)
           M(h, list) == Missed(h, got, list, i)
           D(h, list) == Doubled(h, got, list, i)
<1>1. /\ f.stay \subseteq Sinks /\ f.added \in Nat /\ f.removed \in Nat
      /\ g.stay = f.stay \cap ToSet(b)
      /\ g.added = IF PutBefore(i, n, b) THEN f.added + 1 ELSE f.added
      /\ g.removed = IF TakenOut(i, n, b) THEN f.removed + 1 ELSE f.removed
  BY DEF Note, Frame
<1>2. /\ Len(a) \in Nat /\ DOMAIN a = 1..Len(a)
      /\ Len(b) \in Nat /\ DOMAIN b = 1..Len(b)
  OBVIOUS
<1>3. /\ f.stay \subseteq ToSet(a)
      /\ Cardinality(M(f, a)) <= f.removed /\ Cardinality(D(f, a)) <= f.added
  BY DEF Served
<1>4. IsFiniteSet(M(f, a)) /\ IsFiniteSet(D(f, a))
  BY FS_Subset DEF Missed, Doubled
<1> HIDE DEF g
<1>5. Cardinality(M(g, b)) <= g.removed
  <2>1. ASSUME NEW x, M(g, b) \subseteq M(f, a) \cup {x}, TakenOut(i, n, b)
        PROVE  Cardinality(M(g, b)) <= g.removed
    <3>1. g.removed = f.removed + 1
      BY <1>1, <2>1
    <3> HIDE DEF M, D
    <3>2. Cardinality(M(g, b)) <= f.removed + 1
      BY <1>1, <1>3, <1>4, <2>1, OneMore
    <3> QED BY <3>1, <3>2
  <2>2. ASSUME M(g, b) \subseteq M(f, a)
        PROVE  Cardinality(M(g, b)) <= g.removed
    <3>1. Cardinality(M(g, b)) <= f.removed
      BY <1>1, <1>3, <1>4, <2>2, AtMost
    <3>2. M(g, b) \subseteq M(f, a) /\ IsFiniteSet(M(g, b))
      BY <1>4, <2>2, FS_Subset
    <3>3. Cardinality(M(g, b)) \in Nat
      BY <3>2, FS_CardinalityType
    <3> QED BY <1>1, <3>1, <3>3
  <2>3. CASE b = a
    BY <1>1, <2>2, <2>3 DEF Missed
  <2>4. CASE Grows(a, b)
    <3>1. ASSUME NEW s, Ahead(a, i, s) PROVE Ahead(b, i, s)
      <4>1. PICK p \in 1..Len(a) : p > i /\ a[p] = s
        BY <1>2, <3>1 DEF Ahead
      <4>2. p + 1 \in 1..Len(b) /\ p + 1 > i /\ b[p + 1] = s
        BY <1>2, <2>4, <4>1 DEF Grows
      <4> QED BY <1>2, <4>2 DEF Ahead
    <3> QED BY <1>1, <2>2, <3>1 DEF Missed
  <2>5. CASE Shrinks(a, b)
    <3>1. PICK r \in 1..Len(a) :
            /\ Len(b) = Len(a) - 1
            /\ \A p \in 1..Len(b) : b[p] = a[IF p < r THEN p ELSE p + 1]
      BY <2>5 DEF Shrinks
    <3>2. a[r] \notin ToSet(b)
      <4> SUFFICES ASSUME NEW p \in 1..Len(b), b[p] = a[r] PROVE FALSE
        BY <1>2 DEF ToSet
      <4> DEFINE c == IF p < r THEN p ELSE p + 1
      <4>1. c \in DOMAIN a /\ r \in DOMAIN a /\ a[c] = a[r] /\ c # r
        BY <1>2, <3>1
      <4> QED BY <4>1 DEF IsInjective
    <3>3. ASSUME NEW s \in g.stay, Ahead(a, i, s), ~Ahead(b, i, s)
          PROVE  r <= i /\ s = a[i + 1]
      <4>1. PICK p \in 1..Len(a) : p > i /\ a[p] = s
        BY <1>2, <3>3 DEF Ahead
      <4>2. p # r
        BY <1>1, <3>2, <4>1
      <4>3. CASE p < r
        <5>1. p \in 1..Len(b) /\ b[p] = s
          BY <1>2, <3>1, <4>1, <4>3
        <5> QED BY <1>2, <3>3, <4>1, <5>1 DEF Ahead
      <4>4. CASE p > r
        <5>1. p - 1 \in 1..Len(b) /\ b[p - 1] = s
          BY <1>2, <3>1, <4>1, <4>4
        <5>2. ~(p - 1 > i)
          BY <1>2, <3>3, <5>1 DEF Ahead
        <5>3. p = i + 1
          BY <4>1, <5>2
        <5> QED BY <4>1, <4>4, <5>3
      <4> QED BY <4>2, <4>3, <4>4
    <3>4. CASE r <= i
      <4>1. TakenOut(i, n, b)
        BY <1>2, <3>2, <3>4 DEF TakenOut
      <4>2. M(g, b) \subseteq M(f, a) \cup {a[i + 1]}
        BY <1>1, <3>3 DEF Missed
      <4> QED BY <2>1, <4>1, <4>2
    <3>5. CASE ~(r <= i)
      BY <1>1, <2>2, <3>3, <3>5 DEF Missed
    <3> QED BY <3>4, <3>5
  <2> QED BY <2>3, <2>4, <2>5
<1>6. Cardinality(D(g, b)) <= g.added
  <2>1. ASSUME NEW x, D(g, b) \subseteq D(f, a) \cup {x}, PutBefore(i, n, b)
        PROVE  Cardinality(D(g, b)) <= g.added
    <3>1. g.added = f.added + 1
      BY <1>1, <2>1
    <3> HIDE DEF M, D
    <3>2. Cardinality(D(g, b)) <= f.added + 1
      BY <1>1, <1>3, <1>4, <2>1, OneMore
    <3> QED BY <3>1, <3>2
  <2>2. ASSUME D(g, b) \subseteq D(f, a)
        PROVE  Cardinality(D(g, b)) <= g.added
    <3>1. Cardinality(D(g, b)) <= f.added
      BY <1>1, <1>3, <1>4, <2>2, AtMost
    <3>2. IsFiniteSet(D(g, b))
      BY <1>4, <2>2, FS_Subset
    <3>3. Cardinality(D(g, b)) \in Nat
      BY <3>2, FS_CardinalityType
    <3> QED BY <1>1, <3>1, <3>3
  <2>3. CASE b = a
    BY <1>1, <2>2, <2>3 DEF Doubled
  <2>4. CASE Grows(a, b)
    <3>1. ASSUME NEW s \in g.stay, Ahead(b, i, s), ~Ahead(a, i, s)
          PROVE  i > 0 /\ s = a[i]
      <4>1. PICK p \in 1..Len(b) : p > i /\ b[p] = s
        BY <1>2, <3>1 DEF Ahead
      <4>2. PICK k \in 1..Len(a) : a[k] = s
        BY <1>1, <1>2, <1>3 DEF ToSet
      <4>3. k + 1 \in DOMAIN b /\ b[k + 1] = s
        BY <1>2, <2>4, <4>2 DEF Grows
      <4>4. p = k + 1
        BY <1>2, <4>1, <4>3 DEF IsInjective
      <4>5. ~(k > i)
        BY <1>2, <3>1, <4>2 DEF Ahead
      <4>6. k = i
        BY <4>1, <4>4, <4>5
      <4> QED BY <4>2, <4>6
    <3>2. CASE i > 0
      <4>1. PutBefore(i, n, b)
        BY <1>2, <2>4, <3>2 DEF PutBefore, Grows
      <4>2. D(g, b) \subseteq D(f, a) \cup {a[i]}
        BY <1>1, <3>1 DEF Doubled
      <4> QED BY <2>1, <4>1, <4>2
    <3>3. CASE ~(i > 0)
      BY <1>1, <2>2, <3>1, <3>3 DEF Doubled
    <3> QED BY <3>2, <3>3
  <2>5. CASE Shrinks(a, b)
    <3>1. ASSUME NEW s, Ahead(b, i, s) PROVE Ahead(a, i, s)
      <4>1. PICK p \in 1..Len(b) : p > i /\ b[p] = s
        BY <1>2, <3>1 DEF Ahead
      <4>2. PICK r \in 1..Len(a) :
              Len(b) = Len(a) - 1 /\ b[p] = a[IF p < r THEN p ELSE p + 1]
        BY <2>5 DEF Shrinks
      <4> DEFINE c == IF p < r THEN p ELSE p + 1
      <4>3. c \in 1..Len(a) /\ c > i /\ a[c] = s
        BY <1>2, <4>1, <4>2
      <4> QED BY <1>2, <4>3 DEF Ahead
    <3> QED BY <1>1, <2>2, <3>1 DEF Doubled
  <2> QED BY <2>3, <2>4, <2>5
<1> QED BY <1>1, <1>5, <1>6 DEF Served, g

LEMMA ListChanges ==
  ASSUME NEW f \in Frame, NEW n \in Nexuses, NEW a \in Seq(Sinks), NEW b \in Seq(Sinks),
         IsInjective(a), IsInjective(b), NEW where, NEW q \in Sinks \cup {Root},
         LoopOK(f, a, where, q), b = a \/ Grows(a, b) \/ Shrinks(a, b),
         f.nexus = n, sinks[n] = a, where = "deliver" => q \in Sinks
  PROVE  LET g == Note(f, IF where = "deliver" THEN f.i + 1 ELSE f.i, n, b) IN
         g \in Frame /\ g.nexus = n /\ LoopOK(g, b, where, q)
<1> DEFINE i == IF where = "deliver" THEN f.i + 1 ELSE f.i
           g == Note(f, i, n, b)
<1>1. /\ f.i \in Nat /\ f.stay \subseteq Sinks /\ f.got \in [Sinks -> 0..2]
      /\ f.added \in Nat /\ f.removed \in Nat /\ i \in Nat
  BY DEF Frame
<1>2. /\ g \in Frame /\ g.got = f.got /\ g.i = f.i /\ g.nexus = n /\ g.stay \subseteq f.stay
      /\ g.added \in Nat /\ g.added >= f.added /\ g.removed \in Nat /\ g.removed >= f.removed
  <2> DEFINE ad == IF PutBefore(i, n, b) THEN f.added + 1 ELSE f.added
             rm == IF TakenOut(i, n, b) THEN f.removed + 1 ELSE f.removed
  <2>1. g = [f EXCEPT !.stay = @ \cap ToSet(b), !.added = ad, !.removed = rm]
    BY DEF Note
  <2>2. ad \in Nat /\ ad >= f.added /\ rm \in Nat /\ rm >= f.removed
    BY <1>1
  <2> HIDE DEF i, ad, rm, g
  <2> QED BY <1>1, <2>1, <2>2 DEF Frame
<1>3. IsFiniteSet(f.stay) /\ IsFiniteSet(g.stay)
  BY <1>2, FS_Subset DEF LoopOK
<1>4. ASSUME where = "enum" PROVE LoopOK(g, b, where, q)
  <2>1. Served(f, f.got, a, i)
    BY <1>4 DEF LoopOK
  <2>2. Served(g, f.got, b, i)
    <3> HIDE DEF i
    <3> QED BY <1>1, <1>3, <2>1, ServedStays
  <2>3. i = f.i
    BY <1>4
  <2> HIDE DEF g, i
  <2> QED BY <1>2, <1>3, <1>4, <2>2, <2>3 DEF LoopOK
<1>5. ASSUME where = "deliver" PROVE LoopOK(g, b, where, q)
  <2>1. Served(f, GotWith(f, q), a, i)
    BY <1>5 DEF LoopOK
  <2>2. GotWith(f, q) \in [Sinks -> 0..2]
    BY <1>1, <1>5 DEF GotWith
  <2>3. Served(g, GotWith(f, q), b, i)
    <3> HIDE DEF i
    <3> QED BY <1>1, <1>3, <2>1, <2>2, ServedStays
  <2>4. i = f.i + 1
    BY <1>5
  <2> HIDE DEF g, i
  <2>5. GotWith(g, q) = GotWith(f, q)
    BY <1>2 DEF GotWith
  <2> QED BY <1>2, <1>3, <1>5, <2>3, <2>4, <2>5 DEF LoopOK
<1>6. ASSUME where = "return" PROVE LoopOK(g, b, where, q)
  <2> HIDE DEF g
  <2>1. ASSUME NEW v \in {0, 2}, NEW k \in Nat, NEW m \in Nat, k <= m,
               Cardinality({s \in f.stay : f.got[s] = v}) <= k
        PROVE  Cardinality({s \in g.stay : g.got[s] = v}) <= m
    <3> DEFINE F == {s \in f.stay : f.got[s] = v}
               G == {s \in g.stay : g.got[s] = v}
    <3>1. IsFiniteSet(F)
      BY <1>3, FS_Subset
    <3>2. G \subseteq F
      BY <1>2
    <3> HIDE DEF F, G
    <3>3. IsFiniteSet(G) /\ Cardinality(G) <= k
      BY <2>1, <3>1, <3>2, AtMost DEF F
    <3>4. Cardinality(G) \in Nat
      BY <3>3, FS_CardinalityType
    <3>5. Cardinality(G) <= m
      BY <2>1, <3>3, <3>4
    <3> QED BY <3>5 DEF G
  <2>2. AtReturn(g)
    <3>1. /\ Cardinality({s \in f.stay : f.got[s] = 0}) <= f.removed
          /\ Cardinality({s \in f.stay : f.got[s] = 2}) <= f.added
      BY <1>6 DEF LoopOK, AtReturn
    <3>2. Cardinality({s \in g.stay : g.got[s] = 0}) <= g.removed
      BY <1>1, <1>2, <2>1, <3>1
    <3>3. Cardinality({s \in g.stay : g.got[s] = 2}) <= g.added
      BY <1>1, <1>2, <2>1, <3>1
    <3> QED BY <3>2, <3>3 DEF AtReturn
  <2> QED BY <1>2, <1>3, <1>6, <2>2 DEF LoopOK
<1>7. ASSUME where \notin {"enum", "deliver", "return"} PROVE LoopOK(g, b, where, q)
  <2> HIDE DEF g
  <2> QED BY <1>2, <1>3, <1>7 DEF LoopOK
<1> QED BY <1>2, <1>4, <1>5, <1>6, <1>7, Zenon

LEMMA LoopsAreTold ==
  ASSUME LogIInv, NEW n \in Nexuses, NEW b \in Seq(Sinks), SetSinks(n, b), IsInjective(b),
         b = sinks[n] \/ Grows(sinks[n], b) \/ Shrinks(sinks[n], b),
         UNCHANGED pSink, \A t \in LogThreads : stack[t] = <<>> \/ pc'[t] = pc[t]
  PROVE  /\ stack' \in [LogThreads -> Seq(Frame)] /\ Loops'
         /\ \A t \in LogThreads : stack'[t] = <<>> <=> stack[t] = <<>>
<1>1. ASSUME NEW t \in LogThreads
      PROVE  /\ stack'[t] \in Seq(Frame) /\ Len(stack'[t]) = Len(stack[t])
             /\ \A k \in DOMAIN stack'[t] :
                  LoopOK(stack'[t][k], sinks'[stack'[t][k].nexus],
                         IF k = 1 THEN pc'[t] ELSE "enum", pSink'[t])
  <2> DEFINE st == stack[t]
             new(k) == Note(st[k], Reached(t, k), n, b)
  <2>1. st \in Seq(Frame) /\ DOMAIN st = 1..Len(st) /\ Len(st) \in Nat
    BY DEF LogIInv, LogTypes
  <2>2. stack'[t] = [k \in 1..Len(st) |-> new(k)]
    BY <2>1 DEF SetSinks
  <2>3. /\ sinks \in [Nexuses -> Seq(Sinks)] /\ sinks'[n] = b /\ IsInjective(sinks[n])
        /\ \A m \in Nexuses : m # n => sinks'[m] = sinks[m]
    BY DEF LogIInv, LogTypes, Unique, SetSinks
  <2>4. ASSUME NEW k \in 1..Len(st)
        PROVE  /\ new(k) \in Frame
               /\ LoopOK(new(k), sinks'[new(k).nexus],
                         IF k = 1 THEN pc'[t] ELSE "enum", pSink'[t])
    <3> DEFINE where == IF k = 1 THEN pc[t] ELSE "enum"
    <3>1. st[k] \in Frame
      BY <2>1
    <3>2. pc'[t] = pc[t] /\ pSink'[t] = pSink[t]
      BY <2>1 DEF LogIInv, LogTypes
    <3>3. LoopOK(st[k], sinks[st[k].nexus], where, pSink[t])
      BY <2>1 DEF LogIInv, Loops
    <3>4. where = "deliver" => pSink[t] \in Sinks
      BY DEF LogIInv, Places
    <3>5. Reached(t, k) = IF where = "deliver" THEN st[k].i + 1 ELSE st[k].i
      BY <3>1 DEF Reached, Frame
    <3>6. pSink[t] \in Sinks \cup {Root}
      BY DEF LogIInv, LogTypes
    <3> HIDE DEF where, st
    <3>7. CASE st[k].nexus = n
      <4>1. sinks[n] \in Seq(Sinks) /\ LoopOK(st[k], sinks[n], where, pSink[t])
        BY <2>3, <3>3, <3>7
      <4>2. new(k) \in Frame /\ new(k).nexus = n /\ LoopOK(new(k), b, where, pSink[t])
        BY <2>3, <3>1, <3>4, <3>5, <3>6, <3>7, <4>1, ListChanges
      <4> QED BY <2>3, <3>2, <4>2 DEF where
    <3>8. CASE st[k].nexus # n
      <4>1. new(k) = st[k] /\ st[k].nexus \in Nexuses
        BY <3>1, <3>8 DEF Note, Frame
      <4> QED BY <2>3, <3>1, <3>2, <3>3, <3>8, <4>1 DEF where
    <3> QED BY <3>7, <3>8
  <2> HIDE DEF st, new
  <2>5. stack'[t] \in [1..Len(st) -> Frame]
    BY <2>2, <2>4
  <2>6. stack'[t] \in Seq(Frame) /\ Len(stack'[t]) = Len(st) /\ DOMAIN stack'[t] = 1..Len(st)
    BY <2>1, <2>5, SeqOfFunction
  <2>7. \A k \in 1..Len(st) : stack'[t][k] = new(k)
    BY <2>2
  <2> QED BY <2>4, <2>6, <2>7 DEF st
<1>2. stack' \in [LogThreads -> Seq(Frame)]
  BY <1>1 DEF SetSinks
<1>3. \A t \in LogThreads : stack'[t] = <<>> <=> stack[t] = <<>>
  BY <1>1, <1>2, EmptySeq DEF LogIInv, LogTypes
<1> QED BY <1>1, <1>2, <1>3 DEF Loops

-----------------------------------------------------------------------------
(* The four ways in which a loop of addEvent goes on.                       *)
LEMMA LoopStarts ==
  ASSUME LogIInv, NEW n \in Nexuses, NEW q
  PROVE  Loop(n) \in Frame /\ Loop(n).nexus = n /\ LoopOK(Loop(n), sinks[n], "enum", q)
<1> DEFINE list == sinks[n]
           f == Loop(n)
<1>1. list \in Seq(Sinks) /\ DOMAIN list = 1..Len(list) /\ Len(list) \in Nat
  BY DEF LogIInv, LogTypes
<1>2. ToSet(list) \subseteq Sinks
  BY <1>1 DEF ToSet
<1>3. /\ f \in Frame /\ f.nexus = n /\ f.stay = ToSet(list) /\ f.i = 0
      /\ f.added = 0 /\ f.removed = 0 /\ \A s \in Sinks : f.got[s] = 0
  BY <1>2 DEF Loop, Frame
<1> HIDE DEF f
<1>4. IsFiniteSet(f.stay)
  <2>1. IsFiniteSet(1..Len(list))
    <3>1. PICK m \in Int : m = Len(list)
      BY <1>1
    <3>2. IsFiniteSet(1..m)
      BY FS_Interval
    <3> QED BY <3>1, <3>2
  <2>2. list \in Surjection(1..Len(list), ToSet(list))
    BY <1>1 DEF ToSet, Surjection
  <2> QED BY <1>3, <2>1, <2>2, FS_Surjection
<1>5. \A s \in ToSet(list) : Ahead(list, 0, s)
  BY <1>1 DEF Ahead, ToSet
<1>6. Missed(f, f.got, list, f.i) = {} /\ Doubled(f, f.got, list, f.i) = {}
  BY <1>2, <1>3, <1>5 DEF Missed, Doubled
<1>7. Served(f, f.got, list, f.i)
  BY <1>3, <1>6, FS_EmptySet DEF Served
<1>8. LoopOK(f, list, "enum", q)
  BY <1>4, <1>7 DEF LoopOK
<1> QED BY <1>3, <1>8 DEF f

LEMMA LoopLooksUp ==
  ASSUME NEW f \in Frame, NEW list \in Seq(Sinks), IsInjective(list),
         LoopOK(f, list, "enum", Root), f.i < Len(list)
  PROVE  LoopOK(f, list, "deliver", list[f.i + 1])
<1> DEFINE q == list[f.i + 1]
           got == GotWith(f, q)
<1>1. /\ f.i \in Nat /\ f.got \in [Sinks -> 0..2] /\ f.stay \subseteq Sinks
      /\ f.added \in Nat /\ f.removed \in Nat
  BY DEF Frame
<1>2. DOMAIN list = 1..Len(list) /\ Len(list) \in Nat /\ f.i + 1 \in DOMAIN list /\ q \in Sinks
  BY <1>1
<1>3. Ahead(list, f.i, q) /\ ~Ahead(list, f.i + 1, q)
  BY <1>1, <1>2 DEF Ahead, IsInjective
<1>4. ASSUME NEW s, s # q
      PROVE  Ahead(list, f.i, s) <=> Ahead(list, f.i + 1, s)
  BY <1>1, <1>2, <1>4 DEF Ahead
<1> HIDE DEF q
<1>5. /\ got[q] = IF f.got[q] = 0 THEN 1 ELSE 2
      /\ \A s \in Sinks : s # q => got[s] = f.got[s]
  BY <1>1, <1>2 DEF GotWith
<1> HIDE DEF got
<1>6. IsFiniteSet(f.stay) /\ Served(f, f.got, list, f.i)
  BY DEF LoopOK
<1>7. Missed(f, got, list, f.i + 1) \subseteq Missed(f, f.got, list, f.i)
  BY <1>1, <1>4, <1>5 DEF Missed
<1>8. Doubled(f, got, list, f.i + 1) \subseteq Doubled(f, f.got, list, f.i)
  <2> SUFFICES ASSUME NEW s \in f.stay,
                      got[s] = 2 \/ (got[s] = 1 /\ Ahead(list, f.i + 1, s))
               PROVE  f.got[s] = 2 \/ (f.got[s] = 1 /\ Ahead(list, f.i, s))
    BY DEF Doubled
  <2>1. s \in Sinks /\ f.got[s] \in 0..2
    BY <1>1
  <2> QED BY <1>3, <1>4, <1>5, <2>1
<1>9. /\ IsFiniteSet(Missed(f, f.got, list, f.i))
      /\ IsFiniteSet(Doubled(f, f.got, list, f.i))
  BY <1>6, FS_Subset DEF Missed, Doubled
<1>10. Served(f, got, list, f.i + 1)
  BY <1>1, <1>6, <1>7, <1>8, <1>9, AtMost DEF Served
<1> QED BY <1>6, <1>10 DEF LoopOK, got, q

LEMMA LoopDelivers ==
  ASSUME NEW f \in Frame, NEW list \in Seq(Sinks), NEW q \in Sinks,
         LoopOK(f, list, "deliver", q)
  PROVE  LET g == [f EXCEPT !.i = @ + 1, !.got[q] = IF @ = 0 THEN 1 ELSE 2] IN
         g \in Frame /\ g.nexus = f.nexus /\ LoopOK(g, list, "enum", Root)
<1> DEFINE g == [f EXCEPT !.i = @ + 1, !.got[q] = IF @ = 0 THEN 1 ELSE 2]
<1>1. f.i \in Nat /\ f.got \in [Sinks -> 0..2] /\ f.stay \subseteq Sinks
  BY DEF Frame
<1>2. /\ g \in Frame /\ g.nexus = f.nexus /\ g.i = f.i + 1 /\ g.stay = f.stay
      /\ g.added = f.added /\ g.removed = f.removed /\ g.got = GotWith(f, q)
  <2> DEFINE h == [f EXCEPT !.i = @ + 1]
             got == [f.got EXCEPT ![q] = IF @ = 0 THEN 1 ELSE 2]
  <2>1. h \in Frame /\ h.got = f.got
    BY DEF Frame
  <2>2. g = [h EXCEPT !.got = got]
    BY <2>1, Zenon
  <2>3. got \in [Sinks -> 0..2]
    BY <1>1
  <2>4. /\ h.i = f.i + 1 /\ h.nexus = f.nexus /\ h.stay = f.stay
        /\ h.added = f.added /\ h.removed = f.removed
    BY DEF Frame
  <2>5. got = GotWith(f, q)
    BY DEF GotWith
  <2> HIDE DEF h, got, g
  <2>6. /\ g \in Frame /\ g.nexus = h.nexus /\ g.i = h.i /\ g.stay = h.stay /\ g.got = got
        /\ g.added = h.added /\ g.removed = h.removed
    BY <2>1, <2>2, <2>3 DEF Frame
  <2> QED BY <2>4, <2>5, <2>6
<1> HIDE DEF g
<1>3. IsFiniteSet(g.stay) /\ Served(f, g.got, list, g.i)
  BY <1>2 DEF LoopOK
<1>4. Served(g, g.got, list, g.i)
  BY <1>2, <1>3 DEF Served, Missed, Doubled
<1> QED BY <1>2, <1>3, <1>4 DEF g, LoopOK

LEMMA LoopEnds ==
  ASSUME NEW f \in Frame, NEW list \in Seq(Sinks), NEW q, LoopOK(f, list, "enum", q),
         f.i >= Len(list)
  PROVE  LoopOK(f, list, "return", q)
<1>1. /\ f.i \in Nat /\ DOMAIN list = 1..Len(list) /\ Len(list) \in Nat
      /\ f.added \in Nat /\ f.removed \in Nat
  BY DEF Frame
<1>2. \A s : ~Ahead(list, f.i, s)
  BY <1>1 DEF Ahead
<1>3. IsFiniteSet(f.stay) /\ Served(f, f.got, list, f.i)
  BY DEF LoopOK
<1>4. /\ {s \in f.stay : f.got[s] = 0} = Missed(f, f.got, list, f.i)
      /\ {s \in f.stay : f.got[s] = 2} \subseteq Doubled(f, f.got, list, f.i)
  BY <1>2 DEF Missed, Doubled
<1>5. IsFiniteSet(Doubled(f, f.got, list, f.i))
  BY <1>3, FS_Subset DEF Doubled
<1>6. AtReturn(f)
  BY <1>1, <1>3, <1>4, <1>5, AtMost DEF AtReturn, Served
<1> QED BY <1>3, <1>6 DEF LoopOK

(* A step of addEvent moves one thread, and no list.                        *)
LEMMA LoopStep ==
  ASSUME LogIInv, NEW t \in LogThreads, NEW st \in Seq(Frame), NEW q \in Sinks \cup {Root},
         NEW loc \in {"client", "enum", "deliver", "return"},
         stack' = [stack EXCEPT ![t] = st], pc' = [pc EXCEPT ![t] = loc],
         pSink' = [pSink EXCEPT ![t] = q], UNCHANGED <<sinks, lock, job>>,
         pc[t] # "job", loc = "client" <=> st = <<>>, loc = "deliver" => q \in Sinks,
         \A k \in 1..Len(st) :
           LoopOK(st[k], sinks[st[k].nexus], IF k = 1 THEN loc ELSE "enum", q)
  PROVE  LogIInv'
<1>1. LogTypes'
  BY DEF LogIInv, LogTypes
<1>2. /\ stack'[t] = st /\ pc'[t] = loc /\ pSink'[t] = q
      /\ \A u \in LogThreads : u # t =>
           stack'[u] = stack[u] /\ pc'[u] = pc[u] /\ pSink'[u] = pSink[u]
  BY DEF LogIInv, LogTypes
<1>3. Places'
  BY <1>2 DEF LogIInv, Places
<1>4. AddIsLocked' /\ Unique'
  BY <1>2 DEF LogIInv, AddIsLocked, Unique
<1>5. Loops'
  <2> SUFFICES ASSUME NEW u \in LogThreads, NEW k \in DOMAIN stack'[u]
               PROVE  LoopOK(stack'[u][k], sinks[stack'[u][k].nexus],
                             IF k = 1 THEN pc'[u] ELSE "enum", pSink'[u])
    BY DEF Loops
  <2>1. CASE u = t
    BY <1>2, <2>1
  <2>2. CASE u # t
    BY <1>2, <2>2 DEF LogIInv, Loops
  <2> QED BY <2>1, <2>2
<1> QED BY <1>1, <1>3, <1>4, <1>5 DEF LogIInv

LEMMA StepAddEvent ==
  ASSUME LogIInv, NEW t \in LogThreads,
         (\E n \in Nexuses : AddEvent(t, n)) \/ EnumSinks(t) \/ Deliver(t)
           \/ EnumEnds(t) \/ AddEventReturn(t)
  PROVE  LogIInv'
<1> DEFINE st == stack[t]
           f == st[1]
           list == sinks[f.nexus]
<1>1. /\ st \in Seq(Frame) /\ Len(st) \in Nat /\ DOMAIN st = 1..Len(st)
      /\ pc[t] \in {"client", "enum", "deliver", "return", "job"}
      /\ pSink[t] \in Sinks \cup {Root}
      /\ stack = [stack EXCEPT ![t] = st] /\ pSink = [pSink EXCEPT ![t] = pSink[t]]
  BY DEF LogIInv, LogTypes
<1>2. ASSUME NEW k \in 1..Len(st)
      PROVE  LoopOK(st[k], sinks[st[k].nexus], IF k = 1 THEN pc[t] ELSE "enum", pSink[t])
  BY <1>1 DEF LogIInv, Loops
<1>3. pc[t] \in {"enum", "deliver", "return"} =>
        st # <<>> /\ Len(st) > 0 /\ f \in Frame /\ list \in Seq(Sinks)
  <2> SUFFICES ASSUME pc[t] \in {"enum", "deliver", "return"}
               PROVE  st # <<>> /\ Len(st) > 0 /\ f \in Frame /\ list \in Seq(Sinks)
    OBVIOUS
  <2>1. st # <<>>
    BY DEF LogIInv, Places
  <2> HIDE DEF st
  <2>2. Len(st) > 0 /\ f \in Frame
    BY <1>1, <2>1, EmptySeq
  <2>3. f.nexus \in Nexuses
    BY <2>2 DEF Frame
  <2>4. list \in Seq(Sinks)
    BY <2>3 DEF LogIInv, LogTypes
  <2> QED BY <2>1, <2>2, <2>4
<1> HIDE DEF st
<1>4. ASSUME NEW n \in Nexuses, AddEvent(t, n)
      PROVE  LogIInv'
  <2>1. Loop(n) \in Frame /\ LoopOK(Loop(n), sinks[Loop(n).nexus], "enum", pSink[t])
    BY LoopStarts
  <2>2. <<Loop(n)>> \in Seq(Frame) /\ Len(<<Loop(n)>>) = 1 /\ <<Loop(n)>>[1] = Loop(n)
        /\ <<Loop(n)>> # <<>>
    BY <2>1
  <2>3. /\ stack' = [stack EXCEPT ![t] = <<Loop(n)>>] /\ pc' = [pc EXCEPT ![t] = "enum"]
        /\ pSink' = [pSink EXCEPT ![t] = pSink[t]] /\ UNCHANGED <<sinks, lock, job>>
        /\ pc[t] = "client"
    BY <1>1, <1>4 DEF AddEvent, Goto
  <2>4. \A k \in 1..Len(<<Loop(n)>>) :
          LoopOK(<<Loop(n)>>[k], sinks[<<Loop(n)>>[k].nexus],
                 IF k = 1 THEN "enum" ELSE "enum", pSink[t])
    BY <2>1, <2>2
  <2> QED BY <1>1, <2>2, <2>3, <2>4, LoopStep
<1>5. CASE EnumSinks(t)
  <2> DEFINE q == list[f.i + 1]
  <2>1. /\ stack' = [stack EXCEPT ![t] = st] /\ pc' = [pc EXCEPT ![t] = "deliver"]
        /\ pSink' = [pSink EXCEPT ![t] = q] /\ UNCHANGED <<sinks, lock, job>>
        /\ pc[t] = "enum" /\ f.i < Len(list)
    BY <1>1, <1>5 DEF EnumSinks, Goto, st
  <2>2. q \in Sinks
    BY <1>3, <2>1 DEF Frame
  <2>3. LoopOK(f, list, "deliver", q)
    <3>1. LoopOK(f, list, "enum", Root) /\ IsInjective(list)
      BY <1>2, <1>3, <2>1 DEF LoopOK, LogIInv, Unique, Frame
    <3> QED BY <1>3, <2>1, <3>1, LoopLooksUp
  <2> HIDE DEF q
  <2>4. \A k \in 1..Len(st) :
          LoopOK(st[k], sinks[st[k].nexus], IF k = 1 THEN "deliver" ELSE "enum", q)
    BY <1>2, <2>3 DEF LoopOK
  <2> QED BY <1>1, <1>3, <2>1, <2>2, <2>4, LoopStep
<1>6. CASE Deliver(t)
  <2> DEFINE q == pSink[t]
             g == [f EXCEPT !.i = @ + 1, !.got[q] = IF @ = 0 THEN 1 ELSE 2]
             inner == IF q \in Nexuses THEN <<Loop(q)>> ELSE <<>>
             new == inner \o <<g>> \o Tail(st)
  <2>1. /\ stack' = [stack EXCEPT ![t] = new] /\ pc' = [pc EXCEPT ![t] = "enum"]
        /\ pSink' = [pSink EXCEPT ![t] = Root] /\ UNCHANGED <<sinks, lock, job>>
        /\ pc[t] = "deliver"
    BY <1>1, <1>6 DEF Deliver, DeliverThen, Goto, st
  <2>2. q \in Sinks
    BY <2>1 DEF LogIInv, Places
  <2>3. g \in Frame /\ LoopOK(g, sinks[g.nexus], "enum", Root)
    <3>1. LoopOK(f, list, "deliver", q)
      BY <1>2, <1>3, <2>1
    <3>2. g \in Frame /\ g.nexus = f.nexus /\ LoopOK(g, list, "enum", Root)
      BY <1>3, <2>1, <2>2, <3>1, LoopDelivers
    <3> HIDE DEF g
    <3> QED BY <3>2
  <2>4. q \in Nexuses => Loop(q) \in Frame /\ LoopOK(Loop(q), sinks[Loop(q).nexus], "enum", Root)
    BY LoopStarts
  <2>5. /\ Tail(st) \in Seq(Frame) /\ Len(Tail(st)) = Len(st) - 1
        /\ \A k \in 1..Len(Tail(st)) : Tail(st)[k] = st[k + 1]
    BY <1>1, <1>3, <2>1, HeadTailProperties
  <2>6. \A k \in 1..Len(Tail(st)) : LoopOK(Tail(st)[k], sinks[Tail(st)[k].nexus], "enum", Root)
    BY <1>1, <1>2, <1>3, <2>1, <2>5, SMTT(30) DEF LoopOK
  <2> HIDE DEF g, q
  <2>7. /\ inner \o <<g>> \in Seq(Frame) /\ Len(inner \o <<g>>) \in {1, 2}
        /\ \A k \in 1..Len(inner \o <<g>>) :
             LoopOK((inner \o <<g>>)[k], sinks[(inner \o <<g>>)[k].nexus], "enum", Root)
    BY <2>3, <2>4
  <2> HIDE DEF inner
  <2>8. /\ new \in Seq(Frame) /\ Len(new) = Len(inner \o <<g>>) + Len(Tail(st))
        /\ \A k \in 1..Len(new) : new[k] = IF k <= Len(inner \o <<g>>) THEN (inner \o <<g>>)[k]
                                            ELSE Tail(st)[k - Len(inner \o <<g>>)]
    BY <2>5, <2>7, ConcatProperties
  <2>9. \A k \in 1..Len(new) :
          LoopOK(new[k], sinks[new[k].nexus], IF k = 1 THEN "enum" ELSE "enum", Root)
    <3> SUFFICES ASSUME NEW k \in 1..Len(new)
                 PROVE  LoopOK(new[k], sinks[new[k].nexus], "enum", Root)
      OBVIOUS
    <3> DEFINE top == Len(inner \o <<g>>)
    <3> HIDE DEF new
    <3>1. CASE k <= top
      BY <2>5, <2>7, <2>8, <3>1
    <3>2. CASE ~(k <= top)
      <4>1. k - top \in 1..Len(Tail(st)) /\ new[k] = Tail(st)[k - top]
        BY <2>5, <2>7, <2>8, <3>2
      <4> QED BY <2>6, <4>1
    <3> QED BY <3>1, <3>2
  <2>10. new # <<>>
    BY <2>5, <2>7, <2>8
  <2> HIDE DEF new
  <2> QED BY <1>1, <2>1, <2>8, <2>9, <2>10, LoopStep
<1>7. CASE EnumEnds(t)
  <2>1. /\ stack' = [stack EXCEPT ![t] = st] /\ pc' = [pc EXCEPT ![t] = "return"]
        /\ pSink' = [pSink EXCEPT ![t] = pSink[t]] /\ UNCHANGED <<sinks, lock, job>>
        /\ pc[t] = "enum" /\ f.i >= Len(list)
    BY <1>1, <1>7 DEF EnumEnds, Goto, st
  <2>2. LoopOK(f, list, "return", pSink[t])
    BY <1>2, <1>3, <2>1, LoopEnds
  <2>3. \A k \in 1..Len(st) :
          LoopOK(st[k], sinks[st[k].nexus], IF k = 1 THEN "return" ELSE "enum", pSink[t])
    BY <1>2, <2>2 DEF LoopOK
  <2> QED BY <1>1, <1>3, <2>1, <2>3, LoopStep
<1>8. CASE AddEventReturn(t)
  <2> DEFINE loc == IF Len(st) = 1 THEN "client" ELSE "enum"
  <2>1. /\ stack' = [stack EXCEPT ![t] = Tail(st)] /\ pc' = [pc EXCEPT ![t] = loc]
        /\ pSink' = [pSink EXCEPT ![t] = pSink[t]] /\ UNCHANGED <<sinks, lock, job>>
        /\ pc[t] = "return"
    BY <1>1, <1>8 DEF AddEventReturn, Goto, st
  <2>2. /\ Tail(st) \in Seq(Frame) /\ Len(Tail(st)) = Len(st) - 1
        /\ \A k \in 1..Len(Tail(st)) : Tail(st)[k] = st[k + 1]
    BY <1>1, <1>3, <2>1, HeadTailProperties
  <2>3. \A k \in 1..Len(Tail(st)) :
          LoopOK(Tail(st)[k], sinks[Tail(st)[k].nexus], IF k = 1 THEN loc ELSE "enum", pSink[t])
    BY <1>1, <1>2, <1>3, <2>1, <2>2
  <2>4. loc = "client" <=> Tail(st) = <<>>
    <3>1. Tail(st) = <<>> <=> Len(Tail(st)) = 0
      BY <2>2, EmptySeq
    <3> QED BY <1>1, <2>2, <3>1
  <2> HIDE DEF loc
  <2>5. loc \in {"client", "enum"}
    BY DEF loc
  <2> QED BY <1>1, <2>1, <2>2, <2>3, <2>4, <2>5, LoopStep, ZenonT(60)
<1> QED BY <1>4, <1>5, <1>6, <1>7, <1>8

-----------------------------------------------------------------------------
(* AddSink, RemoveSink and FlushLogs: a list changes in one of three ways.  *)
ListChange ==
  \/ UNCHANGED <<sinks, stack>>
  \/ \E n \in Nexuses, b \in Seq(Sinks) :
       /\ SetSinks(n, b) /\ IsInjective(b)
       /\ b = sinks[n] \/ Grows(sinks[n], b) \/ Shrinks(sinks[n], b)

LEMMA ListStep ==
  ASSUME LogIInv, ListChange, UNCHANGED pSink,
         \A t \in LogThreads : stack[t] = <<>> \/ pc'[t] = pc[t]
  PROVE  /\ sinks' \in [Nexuses -> Seq(Sinks)]
         /\ stack' \in [LogThreads -> Seq(Frame)]
         /\ \A t \in LogThreads : stack'[t] = <<>> <=> stack[t] = <<>>
         /\ Unique' /\ Loops'
<1>1. CASE UNCHANGED <<sinks, stack>>
  <2>1. Loops'
    <3> SUFFICES ASSUME NEW t \in LogThreads, NEW k \in DOMAIN stack[t]
                 PROVE  LoopOK(stack[t][k], sinks[stack[t][k].nexus],
                               IF k = 1 THEN pc'[t] ELSE "enum", pSink[t])
      BY <1>1 DEF Loops
    <3>1. pc'[t] = pc[t]
      BY DEF LogIInv, LogTypes
    <3> QED BY <3>1 DEF LogIInv, Loops
  <2> QED BY <1>1, <2>1 DEF LogIInv, LogTypes, Unique
<1>2. ASSUME NEW n \in Nexuses, NEW b \in Seq(Sinks), SetSinks(n, b), IsInjective(b),
             b = sinks[n] \/ Grows(sinks[n], b) \/ Shrinks(sinks[n], b)
      PROVE  /\ sinks' \in [Nexuses -> Seq(Sinks)]
             /\ stack' \in [LogThreads -> Seq(Frame)]
             /\ \A t \in LogThreads : stack'[t] = <<>> <=> stack[t] = <<>>
             /\ Unique' /\ Loops'
  <2>1. sinks' \in [Nexuses -> Seq(Sinks)] /\ Unique'
    BY <1>2 DEF SetSinks, LogIInv, LogTypes, Unique
  <2> QED BY <1>2, <2>1, LoopsAreTold
<1> QED BY <1>1, <1>2 DEF ListChange

LEMMA SinkIsRemoved ==
  ASSUME LogIInv, NEW n \in Nexuses, NEW x, SetSinks(n, Without(sinks[n], x))
  PROVE  ListChange /\ \A m \in Nexuses, s \in Sinks : Contains(sinks'[m], s) => Contains(sinks[m], s)
<1> DEFINE a == sinks[n]
           b == Without(a, x)
<1>1. a \in Seq(Sinks) /\ IsInjective(a) /\ sinks \in [Nexuses -> Seq(Sinks)]
  BY DEF LogIInv, LogTypes, Unique
<1>2. /\ b \in Seq(Sinks) /\ IsInjective(b)
      /\ ToSet(b) \subseteq ToSet(a)
      /\ b = a \/ Shrinks(a, b)
  BY <1>1, RemovedFromList
<1> HIDE DEF b
<1>3. \A s \in Sinks : Contains(b, s) => Contains(a, s)
  <2>1. DOMAIN a = 1..Len(a) /\ DOMAIN b = 1..Len(b)
    BY <1>1, <1>2
  <2> QED BY <1>2, <2>1 DEF Contains, ToSet
<1>4. \A m \in Nexuses : sinks'[m] = IF m = n THEN b ELSE sinks[m]
  BY <1>1 DEF SetSinks, b
<1> QED BY <1>2, <1>3, <1>4 DEF ListChange, b

LEMMA StepBegin ==
  ASSUME LogIInv, NEW t \in LogThreads, NEW n \in Nexuses, NEW x \in Sinks \cup {Root},
         NEW kind \in {"found", "add", "remove", "flush"}, Begin(t, kind, n, x), ListChange,
         \A m \in Nexuses, s \in Sinks : Contains(sinks'[m], s) => Contains(sinks[m], s),
         kind = "add" => x \in Sinks /\ ~Contains(sinks[n], x)
  PROVE  LogIInv'
<1>1. /\ pc[t] = "client" /\ pc' = [pc EXCEPT ![t] = "job"]
      /\ lock[n] = NoThread /\ lock' = [lock EXCEPT ![n] = t]
      /\ job' = [job EXCEPT ![t] = [kind |-> kind, nexus |-> n, sink |-> x,
                                    todo |-> Children(n) \ {x}]]
      /\ UNCHANGED pSink
  BY DEF Begin, Goto
<1>2. Children(n) \subseteq Nexuses
  BY DEF Children
<1>3. /\ pc \in [LogThreads -> {"client", "enum", "deliver", "return", "job"}]
      /\ lock \in [Nexuses -> LogThreads \cup {NoThread}]
      /\ job \in [LogThreads -> Job] /\ stack[t] = <<>>
  BY <1>1 DEF LogIInv, LogTypes, Places
<1>4. /\ pc'[t] = "job" /\ job'[t] \in Job /\ job'[t].nexus = n /\ job'[t].kind = kind
      /\ job'[t].sink = x /\ lock'[n] = t
      /\ \A u \in LogThreads : u # t => pc'[u] = pc[u] /\ job'[u] = job[u]
      /\ \A m \in Nexuses : m # n => lock'[m] = lock[m]
  BY <1>1, <1>2, <1>3 DEF Job
<1>5. /\ sinks' \in [Nexuses -> Seq(Sinks)]
      /\ stack' \in [LogThreads -> Seq(Frame)]
      /\ \A u \in LogThreads : stack'[u] = <<>> <=> stack[u] = <<>>
      /\ Unique' /\ Loops'
  BY <1>1, <1>3, <1>4, ListStep
<1>6. LogTypes'
  BY <1>1, <1>3, <1>4, <1>5 DEF LogIInv, LogTypes
<1>7. Places'
  BY <1>1, <1>3, <1>4, <1>5 DEF LogIInv, Places
<1>8. AddIsLocked'
  <2> SUFFICES ASSUME NEW u \in LogThreads, pc'[u] = "job"
               PROVE  /\ lock'[job'[u].nexus] = u
                      /\ job'[u].kind = "add" =>
                           job'[u].sink \in Sinks
                             /\ ~Contains(sinks'[job'[u].nexus], job'[u].sink)
    BY DEF AddIsLocked
  <2>1. CASE u = t
    BY <1>4, <2>1
  <2>2. CASE u # t
    <3>1. lock[job[u].nexus] = u /\ job[u].nexus \in Nexuses
      BY <1>3, <1>4, <2>2 DEF LogIInv, AddIsLocked, Job
    <3>2. job[u].nexus # n
      BY <1>1, <3>1, LogAssumption
    <3> QED BY <1>3, <1>4, <2>2, <3>1, <3>2 DEF LogIInv, AddIsLocked, Job
  <2> QED BY <2>1, <2>2
<1> QED BY <1>5, <1>6, <1>7, <1>8 DEF LogIInv

LEMMA StepDescend ==
  ASSUME LogIInv, NEW t \in LogThreads, Descend(t)
  PROVE  LogIInv'
<1>1. PICK m \in job[t].todo :
        /\ IF job[t].kind = "remove" THEN SetSinks(m, Without(sinks[m], job[t].sink))
           ELSE UNCHANGED <<sinks, stack>>
        /\ job' = [job EXCEPT ![t] = Visited(job[t], m)]
  BY DEF Descend
<1>2. pc[t] = "job" /\ UNCHANGED <<lock, pSink, pc>>
  BY DEF Descend
<1>3. /\ pc \in [LogThreads -> {"client", "enum", "deliver", "return", "job"}]
      /\ job \in [LogThreads -> Job] /\ job[t] \in Job /\ m \in Nexuses
  BY DEF LogIInv, LogTypes, Job
<1>4. ListChange /\ \A n \in Nexuses, s \in Sinks : Contains(sinks'[n], s) => Contains(sinks[n], s)
  <2>1. CASE job[t].kind = "remove"
    BY <1>1, <1>3, <2>1, SinkIsRemoved
  <2>2. CASE job[t].kind # "remove"
    BY <1>1, <2>2 DEF ListChange
  <2> QED BY <2>1, <2>2
<1>5. /\ job'[t] \in Job /\ job'[t].nexus = job[t].nexus /\ job'[t].sink = job[t].sink
      /\ job'[t].kind # "none" /\ (job'[t].kind = "add" => job[t].kind = "add")
      /\ job' \in [LogThreads -> Job] /\ \A u \in LogThreads : u # t => job'[u] = job[u]
  <2>1. job[t].kind # "none"
    BY <1>2 DEF LogIInv, Places
  <2>2. /\ Visited(job[t], m) \in Job /\ Visited(job[t], m).nexus = job[t].nexus
        /\ Visited(job[t], m).sink = job[t].sink /\ Visited(job[t], m).kind # "none"
        /\ Visited(job[t], m).kind = "add" => job[t].kind = "add"
    BY <1>3, <2>1 DEF Job, Visited
  <2> QED BY <1>1, <1>3, <2>2
<1>6. /\ sinks' \in [Nexuses -> Seq(Sinks)]
      /\ stack' \in [LogThreads -> Seq(Frame)]
      /\ \A u \in LogThreads : stack'[u] = <<>> <=> stack[u] = <<>>
      /\ Unique' /\ Loops'
  BY <1>2, <1>4, ListStep
<1>7. LogTypes' /\ Places'
  BY <1>2, <1>5, <1>6 DEF LogIInv, LogTypes, Places
<1>8. AddIsLocked'
  BY <1>2, <1>3, <1>4, <1>5 DEF LogIInv, AddIsLocked, Job
<1> QED BY <1>6, <1>7, <1>8 DEF LogIInv

LEMMA StepEnd ==
  ASSUME LogIInv, NEW t \in LogThreads, End(t)
  PROVE  LogIInv'
<1> DEFINE n == job[t].nexus
           x == job[t].sink
<1>1. /\ pc[t] = "job" /\ pc' = [pc EXCEPT ![t] = "client"]
      /\ lock' = [lock EXCEPT ![n] = NoThread]
      /\ job' = [job EXCEPT ![t] = NoJob] /\ UNCHANGED pSink
      /\ IF job[t].kind = "add" THEN SetSinks(n, <<x>> \o sinks[n]) ELSE UNCHANGED <<sinks, stack>>
  BY DEF End, Goto
<1>2. /\ pc \in [LogThreads -> {"client", "enum", "deliver", "return", "job"}]
      /\ sinks \in [Nexuses -> Seq(Sinks)]
      /\ lock \in [Nexuses -> LogThreads \cup {NoThread}]
      /\ job \in [LogThreads -> Job] /\ n \in Nexuses /\ stack[t] = <<>>
  BY <1>1 DEF LogIInv, LogTypes, Places, Job
<1>3. /\ lock[n] = t
      /\ job[t].kind = "add" => x \in Sinks /\ ~Contains(sinks[n], x)
  BY <1>1 DEF LogIInv, AddIsLocked
<1>4. NoJob \in Job
  BY LogAssumption DEF NoJob, Job
<1> HIDE DEF n, x
<1>5. /\ pc'[t] = "client" /\ job'[t] = NoJob /\ job' \in [LogThreads -> Job]
      /\ lock' \in [Nexuses -> LogThreads \cup {NoThread}]
      /\ \A u \in LogThreads : u # t => pc'[u] = pc[u] /\ job'[u] = job[u]
      /\ \A m \in Nexuses : m # n => lock'[m] = lock[m]
  BY <1>1, <1>2, <1>4
<1>6. ListChange /\ \A m \in Nexuses : m # n => sinks'[m] = sinks[m]
  <2>1. CASE job[t].kind = "add"
    <3> DEFINE b == <<x>> \o sinks[n]
    <3>1. b \in Seq(Sinks) /\ IsInjective(b) /\ Grows(sinks[n], b)
      BY <1>2, <1>3, <2>1, AddedToList DEF LogIInv, Unique
    <3> HIDE DEF b
    <3>2. SetSinks(n, b)
      BY <1>1, <2>1 DEF b
    <3> QED BY <1>2, <3>1, <3>2 DEF ListChange, SetSinks
  <2>2. CASE job[t].kind # "add"
    BY <1>1, <2>2 DEF ListChange
  <2> QED BY <2>1, <2>2
<1>7. /\ sinks' \in [Nexuses -> Seq(Sinks)]
      /\ stack' \in [LogThreads -> Seq(Frame)]
      /\ \A u \in LogThreads : stack'[u] = <<>> <=> stack[u] = <<>>
      /\ Unique' /\ Loops'
  BY <1>1, <1>2, <1>5, <1>6, ListStep
<1>8. LogTypes' /\ Places'
  BY <1>1, <1>2, <1>5, <1>7 DEF LogIInv, LogTypes, Places
<1>9. AddIsLocked'
  <2> SUFFICES ASSUME NEW u \in LogThreads, pc'[u] = "job"
               PROVE  /\ lock'[job'[u].nexus] = u
                      /\ job'[u].kind = "add" =>
                           job'[u].sink \in Sinks
                             /\ ~Contains(sinks'[job'[u].nexus], job'[u].sink)
    BY DEF AddIsLocked
  <2>1. u # t /\ pc[u] = "job" /\ job'[u] = job[u]
    BY <1>5
  <2>2. lock[job[u].nexus] = u /\ job[u].nexus \in Nexuses
    BY <1>2, <2>1 DEF LogIInv, AddIsLocked, Job
  <2>3. job[u].nexus # n
    BY <1>3, <2>1, <2>2
  <2> QED BY <1>5, <1>6, <2>1, <2>2, <2>3 DEF LogIInv, AddIsLocked
<1> QED BY <1>7, <1>8, <1>9 DEF LogIInv

-----------------------------------------------------------------------------
LEMMA LogInitIInv == LogInit => LogIInv
<1> SUFFICES ASSUME LogInit PROVE LogIInv
  OBVIOUS
<1>1. NoJob \in Job /\ NoJob.kind = "none"
  BY LogAssumption DEF NoJob, Job
<1>2. <<>> \in Seq(Sinks) /\ <<>> \in Seq(Frame) /\ DOMAIN <<>> = {}
  OBVIOUS
<1>3. LogTypes
  BY <1>1, <1>2 DEF LogInit, LogTypes
<1>4. Places /\ AddIsLocked
  BY DEF LogInit, Places, AddIsLocked
<1>5. Unique /\ Loops
  BY <1>2 DEF LogInit, Unique, Loops, IsInjective
<1> QED BY <1>3, <1>4, <1>5 DEF LogIInv

LEMMA LogStepIInv ==
  ASSUME LogIInv, LogNext
  PROVE  LogIInv'
<1>1. ASSUME NEW t \in LogThreads, NEW n \in Nexuses, NEW s \in Sinks \ {n}, AddSink(t, n, s)
      PROVE  LogIInv'
  <2> DEFINE kind == IF Contains(sinks[n], s) THEN "found" ELSE "add"
  <2>1. Begin(t, kind, n, s) /\ UNCHANGED <<sinks, stack>>
    BY <1>1 DEF AddSink
  <2>2. kind \in {"found", "add", "remove", "flush"} /\ (kind = "add" => ~Contains(sinks[n], s))
    OBVIOUS
  <2> HIDE DEF kind
  <2> QED BY <2>1, <2>2, StepBegin DEF ListChange
<1>2. ASSUME NEW t \in LogThreads, NEW n \in Nexuses, NEW s \in Sinks \ {n}, RemoveSink(t, n, s)
      PROVE  LogIInv'
  BY <1>2, StepBegin, SinkIsRemoved DEF RemoveSink
<1>3. ASSUME NEW t \in LogThreads, NEW n \in Nexuses, FlushLogs(t, n)
      PROVE  LogIInv'
  BY <1>3, StepBegin DEF FlushLogs, ListChange
<1> QED BY <1>1, <1>2, <1>3, StepAddEvent, StepDescend, StepEnd DEF LogNext, Work

LEMMA StutterIInv == LogIInv /\ UNCHANGED logVars => LogIInv'
BY DEF logVars, LogIInv, LogTypes, Places, AddIsLocked, Unique, Loops

(* The strengthened invariant holds in every state of every behaviour.      *)
THEOREM LogInductive == LogSpec => []LogIInv
BY LogInitIInv, LogStepIInv, StutterIInv, PTL DEF LogSpec

(* "no dupes": AddSink's search and its insertion are one step for the      *)
(* other threads, however RemoveSink and addEvent of theirs interleave.     *)
THEOREM NoSinkTwice == LogSpec => []NoDupes
<1>1. LogIInv => NoDupes
  <2> SUFFICES ASSUME LogIInv PROVE NoDupes
    OBVIOUS
  <2>1. ASSUME NEW t \in LogThreads
        PROVE  /\ pc[t] \in {"client", "enum", "deliver", "return", "job"}
               /\ pSink[t] \in Sinks \cup {Root}
               /\ (pc[t] = "job") = (job[t] # NoJob)
               /\ (pc[t] \in {"enum", "deliver", "return"}) = (stack[t] # <<>>)
    BY DEF LogIInv, LogTypes, Places, NoJob
  <2>2. ASSUME NEW t \in LogThreads, NEW k \in DOMAIN stack[t]
        PROVE  stack[t][k].nexus \in Nexuses /\ stack[t][k].i \in Nat
    <3>1. stack[t] \in Seq(Frame)
      BY DEF LogIInv, LogTypes
    <3>2. stack[t][k] \in Frame
      BY <3>1
    <3> QED BY <3>2 DEF Frame
  <2>3. LogTypeOK
    BY <2>1, <2>2 DEF LogIInv, LogTypes, LogTypeOK
  <2> QED BY <2>3 DEF LogIInv, Unique, NoDupes
<1> QED BY <1>1, LogInductive, PTL

(* The loop of addEvent reaches every sink that is there all the time, and  *)
(* reaches it once, but for at most one for each sink that other threads    *)
(* take out of, or put in before, the part of the list it has passed.       *)
THEOREM EventReaches == LogSpec => []EventReachesSinks
<1>1. LogIInv => EventReachesSinks
  <2> SUFFICES ASSUME LogIInv, NEW t \in LogThreads, pc[t] = "return"
               PROVE  AtReturn(stack[t][1])
    BY DEF EventReachesSinks, AtReturn
  <2>1. stack[t] \in Seq(Frame) /\ stack[t] # <<>>
    BY DEF LogIInv, LogTypes, Places
  <2>2. 1 \in DOMAIN stack[t]
    BY <2>1, EmptySeq
  <2> QED BY <2>2 DEF LogIInv, Loops, LoopOK
<1> QED BY <1>1, LogInductive, PTL

-----------------------------------------------------------------------------
(* The rest is about AtomTable.                                             *)

(* A handle that is being dropped has an object.                            *)
Drops ==
  /\ drop \in [Threads -> [pc : {"none", "remove", "release"}, obj : MaybeObject, others : Int]]
  /\ \A t \in Threads : drop[t].pc = "none" <=> drop[t].obj = Nobody

(* What the tables say of an object: only under its own name and code, in   *)
(* _aHashes only if _aNames has it too, and the reverse but for the names   *)
(* that may have lost their entry to another name with the same code.       *)
Entries ==
  /\ \A n \in Names, o \in Objects : aNames[n] = o => nameOf[o] = n
  /\ \A c \in Codes, o \in Objects : aHashes[c] = o => CodeOf(o) = c /\ aNames[nameOf[o]] = o
  /\ \A n \in Names, o \in Objects :
       aNames[n] = o => aHashes[Code[n]] = o \/ HasTwin(n)

(* SetAtomStatic works through a handle, which stays until it has inserted. *)
Pending ==
  \A t \in Threads, o \in Objects : adding[t] = o => handles[t][o] > 0 /\ o \notin aStatics[t]

(* What SetEmptyA's reading said of the other users of an object that is    *)
(* still found: a RemoveAtom only comes for the last of them.               *)
Readings ==
  \A t \in Threads, o \in Objects :
    drop[t].pc = "remove" /\ drop[t].obj = o /\ IsFound(o) =>
      drop[t].others = 0 \/ (drop[t].others = 1 /\ HasTwin(nameOf[o]))

(* Every reference is counted.                                              *)
Counts ==
  \A o \in Objects : refCount[o] =
      Cardinality(InNames(o)) + Cardinality(InHashes(o)) + Cardinality(InStatics(o))
    + Cardinality(HandlesTo(o)) + strings[o] + Cardinality(Dropping(o))

Types == TypeOK /\ Drops
IInv == Types /\ Entries /\ Pending /\ Counts /\ Readings

-----------------------------------------------------------------------------
(* Two subsets of a finite set that differ at most in d.                    *)
LEMMA OneElement ==
  ASSUME NEW D, IsFiniteSet(D), NEW S \in SUBSET D, NEW T \in SUBSET D, NEW d \in D,
         \A e \in D : e # d => (e \in S <=> e \in T)
  PROVE  /\ Cardinality(S) \in Nat
         /\ Cardinality(T) = Cardinality(S) + (IF d \in T THEN 1 ELSE 0)
                                            - (IF d \in S THEN 1 ELSE 0)
<1>1. IsFiniteSet(S) /\ IsFiniteSet(T) /\ Cardinality(S) \in Nat /\ Cardinality(T) \in Nat
  BY FS_Subset, FS_CardinalityType
<1>2. CASE d \in S /\ d \notin T
  <2>1. T = S \ {d}
    BY <1>2
  <2> QED BY <1>1, <1>2, <2>1, FS_RemoveElement
<1>3. CASE d \notin S /\ d \in T
  <2>1. T = S \cup {d}
    BY <1>3
  <2> QED BY <1>1, <1>3, <2>1, FS_AddElement
<1>4. CASE d \in S <=> d \in T
  <2>1. S = T
    BY <1>4
  <2> QED BY <1>1, <1>4, <2>1
<1> QED BY <1>2, <1>3, <1>4

(* Where the references of every kind come from is finite.                  *)
LEMMA Finite == IsFiniteSet(Codes) /\ IsFiniteSet(Threads \X (1..MaxHandles))
<1>1. IsFiniteSet(Codes)
  <2> DEFINE code == [n \in Names |-> Code[n]]
  <2>1. code \in Surjection(Names, Codes)
    BY DEF Surjection, Codes
  <2> QED BY <2>1, FiniteAssumption, FS_Surjection
<1>2. IsFiniteSet(1..MaxHandles)
  BY FiniteAssumption, FS_Interval
<1> QED BY <1>1, <1>2, FiniteAssumption, FS_Product

(* A reference of any kind is counted in its kind.                          *)
LEMMA References ==
  ASSUME Types, NEW o \in Objects
  PROVE  /\ Cardinality(InNames(o)) \in Nat /\ Cardinality(InHashes(o)) \in Nat
         /\ Cardinality(InStatics(o)) \in Nat /\ Cardinality(HandlesTo(o)) \in Nat
         /\ Cardinality(Dropping(o)) \in Nat /\ strings[o] \in 0..1
         /\ \A n \in Names : aNames[n] = o => Cardinality(InNames(o)) > 0
         /\ \A c \in Codes : aHashes[c] = o => Cardinality(InHashes(o)) > 0
         /\ \A t \in Threads : handles[t][o] > 0 => Cardinality(HandlesTo(o)) > 0
         /\ \A t \in Threads : drop[t].obj = o => Cardinality(Dropping(o)) > 0
<1>1. /\ InNames(o) \in SUBSET Names /\ InHashes(o) \in SUBSET Codes
      /\ InStatics(o) \in SUBSET Threads /\ HandlesTo(o) \in SUBSET (Threads \X (1..MaxHandles))
      /\ Dropping(o) \in SUBSET Threads
  BY DEF InNames, InHashes, InStatics, HandlesTo, Dropping
<1>2. /\ IsFiniteSet(InNames(o)) /\ IsFiniteSet(InHashes(o)) /\ IsFiniteSet(InStatics(o))
      /\ IsFiniteSet(HandlesTo(o)) /\ IsFiniteSet(Dropping(o))
  BY <1>1, Finite, FiniteAssumption, FS_Subset
<1>3. ASSUME NEW S, IsFiniteSet(S)
      PROVE  Cardinality(S) \in Nat /\ \A e \in S : Cardinality(S) > 0
  BY <1>3, FS_CardinalityType, FS_EmptySet
<1>4. ASSUME NEW t \in Threads, handles[t][o] > 0
      PROVE  <<t, 1>> \in HandlesTo(o)
  BY <1>4, FiniteAssumption DEF Types, TypeOK, HandlesTo
<1>5. \A t \in Threads : handles[t][o] > 0 => Cardinality(HandlesTo(o)) > 0
  BY <1>2, <1>3, <1>4
<1>6. /\ \A n \in Names : aNames[n] = o => n \in InNames(o)
      /\ \A c \in Codes : aHashes[c] = o => c \in InHashes(o)
      /\ \A t \in Threads : drop[t].obj = o => t \in Dropping(o)
  BY DEF InNames, InHashes, InStatics, Dropping
<1>7. strings[o] \in 0..1
  BY DEF Types, TypeOK
<1>8. /\ \A n \in Names : aNames[n] = o => Cardinality(InNames(o)) > 0
      /\ \A c \in Codes : aHashes[c] = o => Cardinality(InHashes(o)) > 0
      /\ \A t \in Threads : drop[t].obj = o => Cardinality(Dropping(o)) > 0
  BY <1>2, <1>3, <1>6
<1> QED BY <1>2, <1>3, <1>5, <1>7, <1>8

LEMMA Summands ==
  ASSUME IInv, NEW o \in Objects
  PROVE  /\ refCount[o] =
              Cardinality(InNames(o)) + Cardinality(InHashes(o)) + Cardinality(InStatics(o))
              + Cardinality(HandlesTo(o)) + strings[o] + Cardinality(Dropping(o))
         /\ Cardinality(InNames(o)) \in Nat /\ Cardinality(InHashes(o)) \in Nat
         /\ Cardinality(InStatics(o)) \in Nat /\ Cardinality(HandlesTo(o)) \in Nat
         /\ Cardinality(Dropping(o)) \in Nat /\ strings[o] \in 0..1
BY References DEF IInv, Counts

(* What a changed table entry, handle or drop adds and takes away.          *)
LEMMA NamesChange ==
  ASSUME Types, NEW n \in Names, NEW v, aNames' = [aNames EXCEPT ![n] = v], NEW q \in Objects
  PROVE  Cardinality(InNames(q)') =
           Cardinality(InNames(q)) + (IF v = q THEN 1 ELSE 0) - (IF aNames[n] = q THEN 1 ELSE 0)
<1>1. /\ InNames(q) \in SUBSET Names /\ InNames(q)' \in SUBSET Names
      /\ \A e \in Names : e # n => (e \in InNames(q) <=> e \in InNames(q)')
      /\ n \in InNames(q) <=> aNames[n] = q
      /\ n \in InNames(q)' <=> v = q
  BY DEF Types, TypeOK, InNames
<1> QED BY <1>1, FiniteAssumption, OneElement

LEMMA HashesChange ==
  ASSUME Types, NEW c \in Codes, NEW v, aHashes' = [aHashes EXCEPT ![c] = v], NEW q \in Objects
  PROVE  Cardinality(InHashes(q)') =
           Cardinality(InHashes(q)) + (IF v = q THEN 1 ELSE 0) - (IF aHashes[c] = q THEN 1 ELSE 0)
<1>1. /\ InHashes(q) \in SUBSET Codes /\ InHashes(q)' \in SUBSET Codes
      /\ \A e \in Codes : e # c => (e \in InHashes(q) <=> e \in InHashes(q)')
      /\ c \in InHashes(q) <=> aHashes[c] = q
      /\ c \in InHashes(q)' <=> v = q
  BY DEF Types, TypeOK, InHashes
<1> QED BY <1>1, Finite, OneElement

LEMMA StaticsGrow ==
  ASSUME Types, NEW t \in Threads, NEW o \in Objects, o \notin aStatics[t],
         aStatics' = [aStatics EXCEPT ![t] = @ \cup {o}], NEW q \in Objects
  PROVE  Cardinality(InStatics(q)') = Cardinality(InStatics(q)) + (IF q = o THEN 1 ELSE 0)
<1>1. \A e \in Threads : aStatics'[e] = IF e = t THEN aStatics[t] \cup {o} ELSE aStatics[e]
  BY DEF Types, TypeOK
<1>2. /\ InStatics(q) \in SUBSET Threads /\ InStatics(q)' \in SUBSET Threads
      /\ \A e \in Threads : e # t => (e \in InStatics(q) <=> e \in InStatics(q)')
      /\ t \in InStatics(q)' <=> q = o \/ t \in InStatics(q)
      /\ t \notin InStatics(o)
  BY <1>1 DEF InStatics
<1>3. /\ Cardinality(InStatics(q)) \in Nat
      /\ Cardinality(InStatics(q)') = Cardinality(InStatics(q)) + (IF t \in InStatics(q)' THEN 1 ELSE 0)
                                                               - (IF t \in InStatics(q) THEN 1 ELSE 0)
  BY <1>2, FiniteAssumption, OneElement
<1> QED BY <1>2, <1>3

LEMMA DropChanges ==
  ASSUME Types, NEW t \in Threads, NEW d, drop' = [drop EXCEPT ![t] = d], NEW q \in Objects
  PROVE  Cardinality(Dropping(q)') =
           Cardinality(Dropping(q)) + (IF d.obj = q THEN 1 ELSE 0) - (IF drop[t].obj = q THEN 1 ELSE 0)
<1>1. /\ Dropping(q) \in SUBSET Threads /\ Dropping(q)' \in SUBSET Threads
      /\ \A e \in Threads : e # t => (e \in Dropping(q) <=> e \in Dropping(q)')
      /\ t \in Dropping(q) <=> drop[t].obj = q
      /\ t \in Dropping(q)' <=> d.obj = q
  BY DEF Types, Drops, Dropping
<1> QED BY <1>1, FiniteAssumption, OneElement

LEMMA HandleBegins ==
  ASSUME Types, NEW t \in Threads, NEW o \in Objects, HasRoom(t, o), NewHandle(t, o)
  PROVE  /\ handles' \in [Threads -> [Objects -> 0..MaxHandles]]
         /\ \A u \in Threads, p \in Objects :
              handles'[u][p] = IF u = t /\ p = o THEN handles[t][o] + 1 ELSE handles[u][p]
         /\ \A q \in Objects :
              Cardinality(HandlesTo(q)') = Cardinality(HandlesTo(q)) + (IF q = o THEN 1 ELSE 0)
<1> USE FiniteAssumption
<1>1. handles' = [handles EXCEPT ![t] = [handles[t] EXCEPT ![o] = handles[t][o] + 1]]
  BY Zenon DEF NewHandle
<1>2. handles \in [Threads -> [Objects -> 0..MaxHandles]] /\ handles[t][o] < MaxHandles
  BY DEF Types, TypeOK, HasRoom
<1>3. /\ handles' \in [Threads -> [Objects -> 0..MaxHandles]]
      /\ \A u \in Threads, p \in Objects :
           handles'[u][p] = IF u = t /\ p = o THEN handles[t][o] + 1 ELSE handles[u][p]
  BY <1>1, <1>2
<1>4. ASSUME NEW q \in Objects
      PROVE  Cardinality(HandlesTo(q)') = Cardinality(HandlesTo(q)) + (IF q = o THEN 1 ELSE 0)
  <2> DEFINE D == Threads \X (1..MaxHandles)
             d == <<t, handles[t][o] + 1>>
  <2>1. HandlesTo(q) \in SUBSET D /\ HandlesTo(q)' \in SUBSET D
    BY DEF HandlesTo
  <2>2. d \in D /\ d \notin HandlesTo(o) /\ d \in HandlesTo(o)'
    BY <1>2, <1>3 DEF HandlesTo
  <2>3. ASSUME NEW u \in Threads, NEW k \in 1..MaxHandles, <<u, k>> # d \/ q # o
        PROVE  k <= handles[u][q] <=> k <= handles'[u][q]
    BY <1>2, <1>3, <2>3
  <2>4. CASE q = o
    <3>1. \A e \in D : e # d => (e \in HandlesTo(q) <=> e \in HandlesTo(q)')
      BY <2>3 DEF HandlesTo
    <3> QED BY <2>1, <2>2, <2>4, <3>1, Finite, OneElement
  <2>5. CASE q # o
    <3>1. HandlesTo(q)' = HandlesTo(q)
      BY <2>3, <2>5 DEF HandlesTo
    <3> QED BY <2>5, <3>1, References
  <2> QED BY <2>4, <2>5
<1> QED BY <1>3, <1>4

LEMMA HandleEnds ==
  ASSUME Types, NEW t \in Threads, NEW o \in Objects, handles[t][o] > 0,
         handles' = [handles EXCEPT ![t][o] = @ - 1]
  PROVE  /\ handles' \in [Threads -> [Objects -> 0..MaxHandles]]
         /\ \A u \in Threads, p \in Objects :
              handles'[u][p] = IF u = t /\ p = o THEN handles[t][o] - 1 ELSE handles[u][p]
         /\ \A q \in Objects :
              Cardinality(HandlesTo(q)') = Cardinality(HandlesTo(q)) - (IF q = o THEN 1 ELSE 0)
<1> USE FiniteAssumption
<1>1. handles' = [handles EXCEPT ![t] = [handles[t] EXCEPT ![o] = handles[t][o] - 1]]
  BY Zenon
<1>2. handles \in [Threads -> [Objects -> 0..MaxHandles]] /\ handles[t][o] \in 1..MaxHandles
  BY DEF Types, TypeOK
<1>3. /\ handles' \in [Threads -> [Objects -> 0..MaxHandles]]
      /\ \A u \in Threads, p \in Objects :
           handles'[u][p] = IF u = t /\ p = o THEN handles[t][o] - 1 ELSE handles[u][p]
  BY <1>1, <1>2
<1>4. ASSUME NEW q \in Objects
      PROVE  Cardinality(HandlesTo(q)') = Cardinality(HandlesTo(q)) - (IF q = o THEN 1 ELSE 0)
  <2> DEFINE D == Threads \X (1..MaxHandles)
             d == <<t, handles[t][o]>>
  <2>1. HandlesTo(q) \in SUBSET D /\ HandlesTo(q)' \in SUBSET D
    BY DEF HandlesTo
  <2>2. d \in D /\ d \in HandlesTo(o) /\ d \notin HandlesTo(o)'
    BY <1>2, <1>3 DEF HandlesTo
  <2>3. ASSUME NEW u \in Threads, NEW k \in 1..MaxHandles, <<u, k>> # d \/ q # o
        PROVE  k <= handles[u][q] <=> k <= handles'[u][q]
    BY <1>2, <1>3, <2>3
  <2>4. CASE q = o
    <3>1. \A e \in D : e # d => (e \in HandlesTo(q) <=> e \in HandlesTo(q)')
      BY <2>3 DEF HandlesTo
    <3> QED BY <2>1, <2>2, <2>4, <3>1, Finite, OneElement
  <2>5. CASE q # o
    <3>1. HandlesTo(q)' = HandlesTo(q)
      BY <2>3, <2>5 DEF HandlesTo
    <3> QED BY <2>5, <3>1, References
  <2> QED BY <2>4, <2>5
<1> QED BY <1>3, <1>4

-----------------------------------------------------------------------------
(* An object that anything refers to is alive, so nobody finds a dead one.  *)
LEMMA Alive ==
  ASSUME IInv, NEW o \in Objects
  PROVE  /\ refCount[o] \in Nat
         /\ nameOf[o] \in Names <=> refCount[o] > 0
         /\ nameOf[o] = Nobody <=> refCount[o] = 0
         /\ \A n \in Names : aNames[n] = o => refCount[o] > 0
         /\ \A c \in Codes : aHashes[c] = o => refCount[o] > 1
         /\ \A t \in Threads : handles[t][o] > 0 => refCount[o] > 0
         /\ \A t \in Threads : drop[t].obj = o => refCount[o] > 0
<1>1. /\ refCount[o] \in Nat /\ nameOf[o] \in Names \cup {Nobody}
      /\ nameOf[o] = Nobody <=> refCount[o] = 0
  BY DEF IInv, Types, TypeOK
<1>2. refCount[o] =
        Cardinality(InNames(o)) + Cardinality(InHashes(o)) + Cardinality(InStatics(o))
        + Cardinality(HandlesTo(o)) + strings[o] + Cardinality(Dropping(o))
  BY DEF IInv, Counts
<1>3. \A n \in Names : aNames[n] = o => refCount[o] > 0
  BY <1>2, References DEF IInv
<1>5. \A t \in Threads : handles[t][o] > 0 => refCount[o] > 0
  BY <1>2, References DEF IInv
<1>6. \A t \in Threads : drop[t].obj = o => refCount[o] > 0
  BY <1>2, References DEF IInv
<1>7. ASSUME NEW c \in Codes, aHashes[c] = o
      PROVE  refCount[o] > 1
  <2>1. Cardinality(InHashes(o)) > 0 /\ refCount[o] > 0
    BY <1>2, <1>7, References DEF IInv
  <2>2. nameOf[o] \in Names /\ aNames[nameOf[o]] = o
    BY <1>1, <1>7, <2>1 DEF IInv, Entries
  <2>3. Cardinality(InNames(o)) > 0
    BY <2>2, References DEF IInv
  <2> QED BY <1>2, <2>1, <2>3, References DEF IInv
<1>8. nameOf[o] \in Names <=> refCount[o] > 0
  BY <1>1, NobodyAssumption
<1> QED BY <1>1, <1>3, <1>5, <1>6, <1>7, <1>8

LEMMA InitIInv == Init => IInv
<1> SUFFICES ASSUME Init PROVE IInv
  OBVIOUS
<1> USE NobodyAssumption, FiniteAssumption DEF Init, NoDrop
<1>1. Types
  BY DEF Types, TypeOK, MaybeObject, Drops
<1>2. Entries /\ Pending /\ Readings
  BY DEF Entries, Pending, Readings
<1>3. ASSUME NEW o \in Objects
      PROVE  /\ InNames(o) = {} /\ InHashes(o) = {} /\ InStatics(o) = {}
             /\ HandlesTo(o) = {} /\ Dropping(o) = {}
  BY DEF InNames, InHashes, InStatics, HandlesTo, Dropping
<1>4. Counts
  <2>1. Cardinality({}) = 0
    BY FS_EmptySet
  <2>2. \A o \in Objects : refCount[o] = 0 /\ strings[o] = 0
    OBVIOUS
  <2>3. ASSUME NEW o \in Objects
        PROVE  /\ Cardinality(InNames(o)) = 0 /\ Cardinality(InHashes(o)) = 0
               /\ Cardinality(InStatics(o)) = 0 /\ Cardinality(HandlesTo(o)) = 0
               /\ Cardinality(Dropping(o)) = 0
    BY <1>3, <2>1
  <2> QED BY <2>2, <2>3 DEF Counts
<1> QED BY <1>1, <1>2, <1>4 DEF IInv

-----------------------------------------------------------------------------
(* One more handle to an object that is found, or that somebody has one to. *)
LEMMA StepHandle ==
  ASSUME IInv, NEW t \in Threads, NEW o \in Objects, HasRoom(t, o), NewHandle(t, o),
         refCount' = Count(refCount, o, refCount[o] + 1),
         UNCHANGED <<nameOf, tables, adding, strings, drop>>,
         refCount[o] > 0
  PROVE  IInv'
<1>1. UNCHANGED <<nameOf, aNames, aHashes, aStatics, adding, strings, drop>>
  BY DEF tables
<1>2. /\ refCount' \in [Objects -> Nat]
      /\ \A q \in Objects : refCount'[q] = IF q = o THEN refCount[o] + 1 ELSE refCount[q]
  BY DEF Count, IInv, Types, TypeOK
<1>3. /\ handles' \in [Threads -> [Objects -> 0..MaxHandles]]
      /\ \A u \in Threads, p \in Objects :
           handles'[u][p] = IF u = t /\ p = o THEN handles[t][o] + 1 ELSE handles[u][p]
      /\ \A q \in Objects :
           Cardinality(HandlesTo(q)') = Cardinality(HandlesTo(q)) + (IF q = o THEN 1 ELSE 0)
  BY HandleBegins DEF IInv
<1>4. Types'
  BY <1>1, <1>2, <1>3 DEF IInv, Types, TypeOK, Drops
<1>5. Entries'
  BY <1>1 DEF IInv, Entries, CodeOf
<1>6. ASSUME NEW q \in Objects
      PROVE  refCount'[q] = (Cardinality(InNames(q)) + Cardinality(InHashes(q))
               + Cardinality(InStatics(q)) + Cardinality(HandlesTo(q)) + strings[q]
               + Cardinality(Dropping(q)))'
  <2>1. /\ InNames(q)' = InNames(q) /\ InHashes(q)' = InHashes(q)
        /\ InStatics(q)' = InStatics(q) /\ Dropping(q)' = Dropping(q) /\ strings'[q] = strings[q]
    BY <1>1 DEF InNames, InHashes, InStatics, Dropping
  <2>2. Cardinality(HandlesTo(q)') = Cardinality(HandlesTo(q)) + (IF q = o THEN 1 ELSE 0)
    BY <1>3
  <2> QED BY <1>2, <2>1, <2>2, Summands
<1>7. Pending'
  <2>1. \A u \in Threads, q \in Objects : handles[u][q] \in Nat
    BY DEF IInv, Types, TypeOK
  <2> QED BY <1>1, <1>3, <2>1 DEF IInv, Pending
<1>8. Readings'
  BY <1>1 DEF IInv, Readings, IsFound
<1> QED BY <1>4, <1>5, <1>6, <1>7, <1>8 DEF IInv, Counts

LEMMA StepFindStr ==
  ASSUME IInv, NEW t \in Threads, NEW n \in Names, FindAtomStr(t, n)
  PROVE  IInv'
<1> DEFINE o == aNames[n]
<1>1. /\ o \in Objects /\ HasRoom(t, o) /\ NewHandle(t, o)
      /\ UNCHANGED <<nameOf, aHashes, aStatics, adding, strings, drop>>
      /\ nameOf[o] = n /\ refCount[o] \in Nat /\ refCount[o] > 0
  BY Alive DEF FindAtomStr, IInv, Types, TypeOK, MaybeObject, Entries
<1>2. CASE refCount[o] + 2 <= kRefsBase
  <2>1. /\ aNames' = [aNames EXCEPT ![n] = Nobody]
        /\ refCount' = [refCount EXCEPT ![o] = refCount[o] + 0]
    BY <1>2 DEF FindAtomStr, Count
  <2>2. refCount' = refCount
    BY <1>1, <2>1 DEF IInv, Types, TypeOK
  <2>3. refCount[o] <= 1
    BY <1>1, <1>2 DEF kRefsBase
  <2>4. \A c \in Codes : aHashes[c] # o
    BY <1>1, <2>3, Alive
  <2>5. /\ handles' \in [Threads -> [Objects -> 0..MaxHandles]]
        /\ \A u \in Threads, p \in Objects :
             handles'[u][p] = IF u = t /\ p = o THEN handles[t][o] + 1 ELSE handles[u][p]
        /\ \A q \in Objects :
             Cardinality(HandlesTo(q)') = Cardinality(HandlesTo(q)) + (IF q = o THEN 1 ELSE 0)
    BY <1>1, HandleBegins DEF IInv
  <2>6. aNames' \in [Names -> MaybeObject] /\ \A m \in Names : aNames'[m] = IF m = n THEN Nobody ELSE aNames[m]
    BY <2>1 DEF IInv, Types, TypeOK, MaybeObject
  <2>7. Types'
    BY <1>1, <2>2, <2>5, <2>6 DEF IInv, Types, TypeOK, Drops
  <2>8. Entries'
    <3>1. \A c \in Codes, q \in Objects :
            aHashes[c] = q => q # o /\ nameOf[q] \in Names /\ aNames[nameOf[q]] = q
      BY <2>4, Alive DEF IInv, Entries
    <3>2. \A c \in Codes, q \in Objects : aHashes[c] = q => aNames'[nameOf[q]] = q
      BY <2>6, <3>1
    <3>3. \A m \in Names, q \in Objects : aNames'[m] = q => aNames[m] = q
      BY <2>6, NobodyAssumption
    <3> QED BY <1>1, <3>2, <3>3 DEF IInv, Entries, CodeOf
  <2>9. ASSUME NEW q \in Objects
        PROVE  refCount'[q] = (Cardinality(InNames(q)) + Cardinality(InHashes(q))
                 + Cardinality(InStatics(q)) + Cardinality(HandlesTo(q)) + strings[q]
                 + Cardinality(Dropping(q)))'
    <3>1. /\ InHashes(q)' = InHashes(q) /\ InStatics(q)' = InStatics(q)
          /\ Dropping(q)' = Dropping(q) /\ strings'[q] = strings[q]
      BY <1>1 DEF InHashes, InStatics, Dropping
    <3>2. Cardinality(InNames(q)') = Cardinality(InNames(q)) + (IF Nobody = q THEN 1 ELSE 0) - (IF o = q THEN 1 ELSE 0)
      BY <2>1, NamesChange DEF IInv
    <3>3. Nobody # q
      BY NobodyAssumption
    <3>4. Cardinality(HandlesTo(q)') = Cardinality(HandlesTo(q)) + (IF q = o THEN 1 ELSE 0)
      BY <2>5
    <3> QED BY <2>2, <3>1, <3>2, <3>3, <3>4, Summands
  <2>10. Pending'
    <3>1. \A u \in Threads, q \in Objects : handles[u][q] \in Nat
      BY DEF IInv, Types, TypeOK
    <3> QED BY <1>1, <2>5, <3>1 DEF IInv, Pending
  <2>11. Readings'
    <3>1. \A q \in Objects : IsFound(q)' => IsFound(q)
      <4>1. \A q \in Objects : nameOf[q] # Nobody => nameOf[q] \in Names
        BY DEF IInv, Types, TypeOK
      <4> QED BY <1>1, <2>6, <4>1, NobodyAssumption DEF IsFound
    <3> QED BY <1>1, <3>1 DEF IInv, Readings
  <2> QED BY <2>7, <2>8, <2>9, <2>10, <2>11 DEF IInv, Counts
<1>3. CASE ~(refCount[o] + 2 <= kRefsBase)
  <2>1. UNCHANGED tables /\ refCount' = Count(refCount, o, refCount[o] + 1)
    BY <1>1, <1>3 DEF FindAtomStr, tables, IInv, Types, TypeOK
  <2> QED BY <1>1, <2>1, StepHandle
<1> QED BY <1>2, <1>3

(* A cStringA that shares the object comes.                                 *)
LEMMA StepString ==
  ASSUME IInv, NEW t \in Threads, NEW o \in Objects, GetStrA(t, o)
  PROVE  IInv'
<1>1. /\ UNCHANGED <<nameOf, aNames, aHashes, aStatics, adding, handles, drop>>
      /\ handles[t][o] > 0 /\ refCount[o] > 0
  BY Alive DEF GetStrA, tables
<1>2. /\ refCount' \in [Objects -> Nat]
      /\ \A q \in Objects : refCount'[q] = IF q = o THEN refCount[o] + 1 ELSE refCount[q]
  BY DEF GetStrA, Count, IInv, Types, TypeOK
<1>3. /\ strings' \in [Objects -> 0..1]
      /\ \A q \in Objects : strings'[q] = strings[q] + (IF q = o THEN 1 ELSE 0)
  BY DEF GetStrA, IInv, Types, TypeOK
<1>4. Types'
  BY <1>1, <1>2, <1>3 DEF IInv, Types, TypeOK, Drops
<1>5. Entries' /\ Pending' /\ Readings'
  BY <1>1 DEF IInv, Entries, CodeOf, Pending, Readings, IsFound
<1>6. \A q \in Objects :
        /\ InNames(q)' = InNames(q) /\ InHashes(q)' = InHashes(q) /\ InStatics(q)' = InStatics(q)
        /\ HandlesTo(q)' = HandlesTo(q) /\ Dropping(q)' = Dropping(q)
  BY <1>1 DEF InNames, InHashes, InStatics, HandlesTo, Dropping
<1>7. ASSUME NEW q \in Objects
      PROVE  refCount'[q] = (Cardinality(InNames(q)) + Cardinality(InHashes(q))
               + Cardinality(InStatics(q)) + Cardinality(HandlesTo(q)) + strings[q]
               + Cardinality(Dropping(q)))'
  BY <1>2, <1>3, <1>6, Summands
<1> QED BY <1>4, <1>5, <1>7 DEF IInv, Counts

(* SetAtomStatic has searched: its own object is not among those it put in. *)
LEMMA StepSearch ==
  ASSUME IInv, NEW t \in Threads, NEW o \in Objects, SearchStatic(t, o)
  PROVE  IInv'
<1>1. /\ UNCHANGED <<nameOf, refCount, aNames, aHashes, aStatics, handles, strings, drop>>
      /\ handles[t][o] > 0 /\ o \notin aStatics[t]
      /\ adding' = [adding EXCEPT ![t] = o]
  BY DEF SearchStatic, tables
<1>2. Types' /\ Entries' /\ Readings'
  BY <1>1 DEF IInv, Types, TypeOK, Drops, MaybeObject, Entries, CodeOf, Readings, IsFound
<1>3. Pending'
  BY <1>1 DEF IInv, Types, TypeOK, Pending
<1>4. Counts'
  BY <1>1 DEF IInv, Counts, InNames, InHashes, InStatics, HandlesTo, Dropping
<1> QED BY <1>2, <1>3, <1>4 DEF IInv

(* SetAtomStatic inserts the object: one more reference, and it is alive.   *)
LEMMA StepInsert ==
  ASSUME IInv, NEW t \in Threads, InsertStatic(t)
  PROVE  IInv'
<1>1. PICK o \in Objects : o = adding[t]
  BY DEF InsertStatic, IInv, Types, TypeOK, MaybeObject
<1>2. /\ UNCHANGED <<nameOf, aNames, aHashes, handles, strings, drop>>
      /\ handles[t][o] > 0 /\ o \notin aStatics[t] /\ refCount[o] > 0
      /\ aStatics' = [aStatics EXCEPT ![t] = @ \cup {o}]
      /\ adding' = [adding EXCEPT ![t] = Nobody]
  BY <1>1, Alive DEF InsertStatic, IInv, Pending
<1>3. /\ refCount' \in [Objects -> Nat]
      /\ \A q \in Objects : refCount'[q] = IF q = o THEN refCount[o] + 1 ELSE refCount[q]
  BY <1>1 DEF InsertStatic, Count, IInv, Types, TypeOK
<1>4. aStatics' \in [Threads -> SUBSET Objects] /\ adding' \in [Threads -> MaybeObject]
  BY <1>2 DEF IInv, Types, TypeOK, MaybeObject
<1>5. Types'
  BY <1>2, <1>3, <1>4 DEF IInv, Types, TypeOK, Drops
<1>6. Entries' /\ Readings'
  BY <1>2 DEF IInv, Entries, CodeOf, Readings, IsFound
<1>7. Pending'
  BY <1>2, NobodyAssumption DEF IInv, Types, TypeOK, Pending
<1>8. ASSUME NEW q \in Objects
      PROVE  refCount'[q] = (Cardinality(InNames(q)) + Cardinality(InHashes(q))
               + Cardinality(InStatics(q)) + Cardinality(HandlesTo(q)) + strings[q]
               + Cardinality(Dropping(q)))'
  <2>1. /\ InNames(q)' = InNames(q) /\ InHashes(q)' = InHashes(q)
        /\ HandlesTo(q)' = HandlesTo(q) /\ Dropping(q)' = Dropping(q) /\ strings'[q] = strings[q]
    BY <1>2 DEF InNames, InHashes, HandlesTo, Dropping
  <2>2. Cardinality(InStatics(q)') = Cardinality(InStatics(q)) + (IF q = o THEN 1 ELSE 0)
    BY <1>2, StaticsGrow DEF IInv
  <2> QED BY <1>3, <2>1, <2>2, Summands
<1> QED BY <1>5, <1>6, <1>7, <1>8 DEF IInv, Counts

(* The last reference goes with its object: no table has it any more.       *)
LEMMA StepLastGoes ==
  ASSUME IInv, NEW o \in Objects, UNCHANGED <<tables, adding, handles>>,
         refCount' = Count(refCount, o, refCount[o] - 1), nameOf' = Deleted(refCount'),
         \/ strings[o] > 0 /\ strings' = [strings EXCEPT ![o] = @ - 1] /\ UNCHANGED drop
         \/ /\ UNCHANGED strings
            /\ \E t \in Threads : drop[t].obj = o /\ drop' = [drop EXCEPT ![t] = NoDrop]
  PROVE  IInv'
<1>1. UNCHANGED <<aNames, aHashes, aStatics, adding, handles>>
  BY DEF tables
<1>2. \A q \in Objects :
        /\ InNames(q)' = InNames(q) /\ InHashes(q)' = InHashes(q)
        /\ InStatics(q)' = InStatics(q) /\ HandlesTo(q)' = HandlesTo(q)
  BY <1>1 DEF InNames, InHashes, InStatics, HandlesTo
<1>3. ASSUME NEW q \in Objects
      PROVE  Cardinality(Dropping(q)') + strings'[q]
               = Cardinality(Dropping(q)) + strings[q] - (IF q = o THEN 1 ELSE 0)
  <2>1. CASE strings' = [strings EXCEPT ![o] = @ - 1] /\ UNCHANGED drop
    <3>1. Dropping(q)' = Dropping(q) /\ strings'[q] = strings[q] - (IF q = o THEN 1 ELSE 0)
      BY <2>1 DEF Dropping, IInv, Types, TypeOK
    <3> QED BY <3>1, Summands
  <2>2. ASSUME NEW t \in Threads, drop[t].obj = o, drop' = [drop EXCEPT ![t] = NoDrop], UNCHANGED strings
        PROVE  Cardinality(Dropping(q)') + strings'[q]
                 = Cardinality(Dropping(q)) + strings[q] - (IF q = o THEN 1 ELSE 0)
    <3>1. Cardinality(Dropping(q)') = Cardinality(Dropping(q))
            + (IF NoDrop.obj = q THEN 1 ELSE 0) - (IF drop[t].obj = q THEN 1 ELSE 0)
      BY <2>2, DropChanges, ZenonT(60) DEF IInv
    <3>2. NoDrop.obj # q
      BY NobodyAssumption DEF NoDrop
    <3> QED BY <2>2, <3>1, <3>2, Summands
  <2> QED BY <2>1, <2>2
<1>4. refCount[o] > 0 /\ Cardinality(Dropping(o)) + strings[o] > 0
  <2>1. CASE strings[o] > 0
    BY <2>1, Summands
  <2>2. CASE \E t \in Threads : drop[t].obj = o
    BY <2>2, Summands, References DEF IInv
  <2> QED BY <2>1, <2>2
<1>5. /\ refCount' \in [Objects -> Nat]
      /\ \A q \in Objects : refCount'[q] = IF q = o THEN refCount[o] - 1 ELSE refCount[q]
  BY <1>4 DEF Count, IInv, Types, TypeOK
<1>6. /\ nameOf' \in [Objects -> Names \cup {Nobody}]
      /\ \A q \in Objects : nameOf'[q] = IF refCount'[q] = 0 THEN Nobody ELSE nameOf[q]
      /\ \A q \in Objects : nameOf'[q] = Nobody <=> refCount'[q] = 0
      /\ \A q \in Objects : q # o => nameOf'[q] = nameOf[q]
  BY <1>5 DEF Deleted, IInv, Types, TypeOK
<1>7. ASSUME refCount'[o] = 0
      PROVE  /\ \A n \in Names : aNames[n] # o
             /\ \A c \in Codes : aHashes[c] # o
  <2>1. refCount[o] = 1
    BY <1>5, <1>7, Alive
  <2> DEFINE names == Cardinality(InNames(o))
             hashes == Cardinality(InHashes(o))
             statics == Cardinality(InStatics(o))
             mine == Cardinality(HandlesTo(o))
             drops == Cardinality(Dropping(o))
  <2>2. /\ 1 = names + hashes + statics + mine + strings[o] + drops
        /\ names \in Nat /\ hashes \in Nat /\ statics \in Nat /\ mine \in Nat /\ drops \in Nat
        /\ strings[o] \in 0..1 /\ drops + strings[o] > 0
    BY <1>4, <2>1, Summands
  <2>3. names = 0 /\ hashes = 0
    <3> HIDE DEF names, hashes, statics, mine, drops
    <3> QED BY <2>2
  <2>4. Cardinality(InNames(o)) = 0 /\ Cardinality(InHashes(o)) = 0
    BY <2>3
  <2> QED BY <2>4, References DEF IInv
<1>8. Types'
  <2>1. strings' \in [Objects -> 0..1]
    BY DEF IInv, Types, TypeOK
  <2>2. Drops'
    BY NobodyAssumption DEF IInv, Types, Drops, NoDrop, MaybeObject
  <2> QED BY <1>1, <1>5, <1>6, <2>1, <2>2 DEF IInv, Types, TypeOK, Drops
<1>9. Entries'
  BY <1>1, <1>6, <1>7 DEF IInv, Entries, CodeOf
<1>10. ASSUME NEW q \in Objects
       PROVE  refCount'[q] = (Cardinality(InNames(q)) + Cardinality(InHashes(q))
                + Cardinality(InStatics(q)) + Cardinality(HandlesTo(q)) + strings[q]
                + Cardinality(Dropping(q)))'
  <2>1. Cardinality(Dropping(q)') \in Int /\ strings'[q] \in Int
    <3>1. Dropping(q)' \in SUBSET Threads
      BY DEF Dropping
    <3>2. Cardinality(Dropping(q)') \in Nat
      BY <3>1, FiniteAssumption, FS_Subset, FS_CardinalityType
    <3> QED BY <1>8, <3>2 DEF Types, TypeOK
  <2> QED BY <1>2, <1>3, <1>5, <2>1, Summands
<1>11. Pending'
  BY <1>1 DEF IInv, Pending
<1>12. Readings'
  <2>1. ASSUME NEW u \in Threads, NEW q \in Objects,
               drop'[u].pc = "remove", drop'[u].obj = q, IsFound(q)'
        PROVE  drop'[u].others = 0 \/ (drop'[u].others = 1 /\ HasTwin(nameOf'[q]))
    <3>1. drop'[u] = drop[u]
      BY <2>1 DEF IInv, Types, Drops, NoDrop
    <3>2. nameOf'[q] = nameOf[q] /\ IsFound(q)
      BY <1>1, <1>6, <2>1 DEF IsFound
    <3> QED BY <2>1, <3>1, <3>2 DEF IInv, Readings
  <2> QED BY <2>1 DEF Readings
<1> QED BY <1>8, <1>9, <1>10, <1>11, <1>12 DEF IInv, Counts

(* A new object for a name that has none.                                   *)
LEMMA StepCreate ==
  ASSUME IInv, NEW t \in Threads, NEW n \in Names, NEW s \in {0, 1}, CreateAtom(t, n, s)
  PROVE  IInv'
<1> USE NobodyAssumption, FiniteAssumption
<1> DEFINE c == Code[n]
           old == aHashes[c]
<1>1. PICK o \in Objects : nameOf[o] = Nobody /\ CreateFor(t, n, s, o, old)
  BY DEF CreateAtom
<1>2. /\ aNames[n] = Nobody /\ c \in Codes /\ refCount[o] = 0 /\ s \in Nat
      /\ UNCHANGED <<aStatics, adding, drop>>
      /\ old \in Objects => refCount[old] > 1 /\ nameOf[old] \in Names
  <2>1. old \in Objects => refCount[old] > 1 /\ nameOf[old] \in Names
    BY Alive DEF Codes
  <2>2. old \in Objects \cup {Nobody}
    BY DEF Codes, IInv, Types, TypeOK, MaybeObject
  <2> QED BY <1>1, <2>1, <2>2 DEF CreateAtom, CreateFor, Codes, IInv, Types, TypeOK
<1>3. o # old
  BY <1>2
<1>4. /\ \A m \in Names : aNames[m] # o
      /\ \A d \in Codes : aHashes[d] # o
      /\ \A u \in Threads : handles[u][o] = 0 /\ drop[u].obj # o
  <2>1. \A u \in Threads : handles[u][o] \in Nat
    BY DEF IInv, Types, TypeOK
  <2> QED BY <1>2, <2>1, Alive
<1>5. /\ nameOf' \in [Objects -> Names \cup {Nobody}]
      /\ \A q \in Objects : nameOf'[q] = IF q = o THEN n ELSE nameOf[q]
  BY <1>1 DEF CreateFor, IInv, Types, TypeOK
<1>6. /\ aNames' = [aNames EXCEPT ![n] = o] /\ aNames' \in [Names -> MaybeObject]
      /\ \A m \in Names : aNames'[m] = IF m = n THEN o ELSE aNames[m]
  BY <1>1 DEF CreateFor, IInv, Types, TypeOK, MaybeObject
<1>7. /\ aHashes' = [aHashes EXCEPT ![c] = o] /\ aHashes' \in [Codes -> MaybeObject]
      /\ \A d \in Codes : aHashes'[d] = IF d = c THEN o ELSE aHashes[d]
  BY <1>1 DEF CreateFor, IInv, Types, TypeOK, MaybeObject
<1>8. /\ refCount' \in [Objects -> Nat]
      /\ \A q \in Objects : refCount'[q] = IF q = o THEN 3 + s
                                           ELSE IF q = old THEN refCount[q] - 1 ELSE refCount[q]
  <2>1. refCount' = [p \in Objects |-> IF p = o THEN 3 + s
                      ELSE IF p = old THEN refCount[p] - 1 ELSE refCount[p]]
    BY <1>1 DEF CreateFor, kRefsBase
  <2>2. ASSUME NEW p \in Objects
        PROVE  refCount[p] \in Nat /\ (p = old => refCount[p] > 1)
    BY <1>2 DEF IInv, Types, TypeOK
  <2> HIDE DEF old
  <2> QED BY <1>2, <2>1, <2>2
<1>9. /\ handles' \in [Threads -> [Objects -> 0..MaxHandles]]
      /\ \A u \in Threads, p \in Objects :
           handles'[u][p] = IF u = t /\ p = o THEN handles[t][o] + 1 ELSE handles[u][p]
      /\ \A q \in Objects :
           Cardinality(HandlesTo(q)') = Cardinality(HandlesTo(q)) + (IF q = o THEN 1 ELSE 0)
  <2>1. HasRoom(t, o) /\ NewHandle(t, o) /\ Types
    BY <1>1, <1>4 DEF HasRoom, CreateFor, IInv
  <2> QED BY <2>1, HandleBegins
<1>10. /\ strings' \in [Objects -> 0..1]
       /\ \A q \in Objects : strings'[q] = IF q = o THEN s ELSE strings[q]
  BY <1>1, <1>2 DEF CreateFor, IInv, Types, TypeOK
<1>11. Types'
  <2>1. \A q \in Objects : nameOf'[q] = Nobody <=> refCount'[q] = 0
    <3>1. ASSUME NEW q \in Objects
          PROVE  nameOf'[q] = Nobody <=> refCount'[q] = 0
      <4>1. refCount[q] \in Nat /\ (nameOf[q] = Nobody <=> refCount[q] = 0)
        BY DEF IInv, Types, TypeOK
      <4>2. q = old => refCount[q] > 1
        BY <1>2
      <4>3. 3 + s # 0
        BY <1>2
      <4> HIDE DEF old
      <4> QED BY <1>5, <1>8, <4>1, <4>2, <4>3
    <3> QED BY <3>1
  <2> QED BY <1>2, <1>5, <1>6, <1>7, <1>8, <1>9, <1>10, <2>1 DEF IInv, Types, TypeOK, Drops
<1>12. Entries'
  <2>1. \A m \in Names, q \in Objects : aNames'[m] = q => nameOf'[q] = m
    BY <1>4, <1>5, <1>6 DEF IInv, Entries
  <2>2. ASSUME NEW d \in Codes, NEW q \in Objects, aHashes'[d] = q
        PROVE  Code[nameOf'[q]] = d /\ aNames'[nameOf'[q]] = q
    <3>1. CASE d = c
      BY <1>5, <1>6, <1>7, <2>2, <3>1
    <3>2. CASE d # c
      <4>1. aHashes[d] = q /\ q # o
        BY <1>4, <1>7, <2>2, <3>2
      <4>2. Code[nameOf[q]] = d /\ aNames[nameOf[q]] = q /\ nameOf[q] \in Names
        BY <4>1, Alive DEF IInv, Entries, CodeOf
      <4> QED BY <1>2, <1>5, <1>6, <4>1, <4>2
    <3> QED BY <3>1, <3>2
  <2>4. ASSUME NEW m \in Names, NEW q \in Objects, aNames'[m] = q
        PROVE  aHashes'[Code[m]] = q \/ HasTwin(m)
    <3>1. Code[m] \in Codes
      BY DEF Codes
    <3>2. CASE m = n
      BY <1>6, <1>7, <2>4, <3>1, <3>2
    <3>3. CASE m # n
      <4>1. aNames[m] = q /\ nameOf[q] = m
        BY <1>6, <2>4, <3>3 DEF IInv, Entries
      <4>2. aHashes[Code[m]] = q \/ HasTwin(m)
        BY <4>1 DEF IInv, Entries
      <4>3. Code[m] = c => HasTwin(m)
        BY <3>3 DEF HasTwin
      <4> QED BY <1>7, <3>1, <4>2, <4>3
    <3> QED BY <3>2, <3>3
  <2> QED BY <2>1, <2>2, <2>4 DEF Entries, CodeOf
<1>13. ASSUME NEW q \in Objects
       PROVE  refCount'[q] = (Cardinality(InNames(q)) + Cardinality(InHashes(q))
                + Cardinality(InStatics(q)) + Cardinality(HandlesTo(q)) + strings[q]
                + Cardinality(Dropping(q)))'
  <2>1. InStatics(q)' = InStatics(q) /\ Dropping(q)' = Dropping(q)
    BY <1>2 DEF InStatics, Dropping
  <2>2. Cardinality(InNames(q)') =
          Cardinality(InNames(q)) + (IF o = q THEN 1 ELSE 0) - (IF aNames[n] = q THEN 1 ELSE 0)
    BY <1>6, NamesChange DEF IInv
  <2>3. aNames[n] # q
    BY <1>2
  <2>4. Cardinality(InHashes(q)') =
          Cardinality(InHashes(q)) + (IF o = q THEN 1 ELSE 0) - (IF aHashes[c] = q THEN 1 ELSE 0)
    <3>1. c \in Codes /\ aHashes' = [aHashes EXCEPT ![c] = o] /\ Types
      BY <1>2, <1>7 DEF IInv
    <3> HIDE DEF c
    <3> QED BY <3>1, HashesChange, ZenonT(60)
  <2>5. Cardinality(HandlesTo(q)') = Cardinality(HandlesTo(q)) + (IF q = o THEN 1 ELSE 0)
    BY <1>9
  <2>6. strings'[q] = IF q = o THEN s ELSE strings[q]
    BY <1>10
  <2>7. CASE q = o
    <3> DEFINE names == Cardinality(InNames(q))
               hashes == Cardinality(InHashes(q))
               statics == Cardinality(InStatics(q))
               mine == Cardinality(HandlesTo(q))
               drops == Cardinality(Dropping(q))
    <3>1. /\ 0 = names + hashes + statics + mine + strings[q] + drops
          /\ names \in Nat /\ hashes \in Nat /\ statics \in Nat /\ mine \in Nat /\ drops \in Nat
          /\ strings[q] \in 0..1
      BY <1>2, <2>7, Summands
    <3>2. names = 0 /\ hashes = 0 /\ statics = 0 /\ mine = 0 /\ drops = 0
      <4> HIDE DEF names, hashes, statics, mine, drops
      <4> QED BY <3>1
    <3>3. refCount'[q] = 3 + s /\ old # q
      BY <1>3, <1>8, <2>7
    <3> QED BY <1>2, <2>1, <2>2, <2>3, <2>4, <2>5, <2>6, <2>7, <3>2, <3>3
  <2>8. CASE q # o
    <3>1. refCount'[q] = refCount[q] - (IF aHashes[c] = q THEN 1 ELSE 0)
      <4>1. refCount[q] \in Nat
        BY Alive
      <4> QED BY <1>8, <2>8, <4>1
    <3> QED BY <2>1, <2>2, <2>3, <2>4, <2>5, <2>6, <2>8, <3>1, Summands
  <2> QED BY <2>7, <2>8
<1>14. Pending'
  <2>1. \A u \in Threads, q \in Objects : handles[u][q] \in Nat
    BY DEF IInv, Types, TypeOK
  <2> QED BY <1>2, <1>9, <2>1 DEF IInv, Pending
<1>15. Readings'
  <2>1. ASSUME NEW u \in Threads, NEW q \in Objects,
               drop'[u].pc = "remove", drop'[u].obj = q, IsFound(q)'
        PROVE  drop'[u].others = 0 \/ (drop'[u].others = 1 /\ HasTwin(nameOf'[q]))
    <3>1. q # o /\ nameOf'[q] = nameOf[q] /\ drop[u].obj = q
      BY <1>2, <1>4, <1>5, <2>1
    <3>2. nameOf[q] \in Names /\ aNames'[nameOf[q]] = q
      BY <1>5, <2>1, <3>1 DEF IsFound, IInv, Types, TypeOK
    <3>3. IsFound(q)
      BY <1>6, <3>1, <3>2 DEF IsFound
    <3> QED BY <1>2, <2>1, <3>1, <3>3 DEF IInv, Readings
  <2> QED BY <2>1 DEF Readings
<1> QED BY <1>11, <1>12, <1>13, <1>14, <1>15 DEF IInv, Counts

(* SetEmptyA has read the count: a handle less, a drop more.                *)
LEMMA StepSetEmpty ==
  ASSUME IInv, NEW t \in Threads, NEW o \in Objects, SetEmptyA(t, o)
  PROVE  IInv'
<1> DEFINE d == [pc |-> IF refCount[o] <= kRefsBase THEN "remove" ELSE "release",
                 obj |-> o, others |-> IF refCount[o] <= kRefsBase THEN Users(o) - 1 ELSE 0]
<1>1. /\ Free(t) /\ handles[t][o] > 0 /\ handles' = [handles EXCEPT ![t][o] = @ - 1]
      /\ drop' = [drop EXCEPT ![t] = d]
      /\ UNCHANGED <<nameOf, refCount, aNames, aHashes, aStatics, adding, strings>>
  BY DEF SetEmptyA, SetEmptyWhen, tables
<1>2. /\ handles' \in [Threads -> [Objects -> 0..MaxHandles]]
      /\ \A u \in Threads, p \in Objects :
           handles'[u][p] = IF u = t /\ p = o THEN handles[t][o] - 1 ELSE handles[u][p]
      /\ \A q \in Objects :
           Cardinality(HandlesTo(q)') = Cardinality(HandlesTo(q)) - (IF q = o THEN 1 ELSE 0)
  <2>1. handles[t][o] > 0 /\ handles' = [handles EXCEPT ![t][o] = @ - 1] /\ Types
    BY <1>1 DEF IInv
  <2> QED BY <2>1, HandleEnds
<1>3. Types'
  <2>1. /\ d \in [pc : {"none", "remove", "release"}, obj : MaybeObject, others : Int]
        /\ d.pc # "none" /\ d.obj # Nobody
    <3>1. Users(o) \in Int
      BY Summands DEF Users
    <3> QED BY <3>1, NobodyAssumption DEF MaybeObject
  <2>2. Drops'
    <3> HIDE DEF d
    <3> QED BY <1>1, <2>1 DEF IInv, Types, Drops
  <2> QED BY <1>1, <1>2, <2>2 DEF IInv, Types, TypeOK, Drops
<1>4. Entries'
  BY <1>1 DEF IInv, Entries, CodeOf
<1>5. ASSUME NEW q \in Objects
      PROVE  refCount'[q] = (Cardinality(InNames(q)) + Cardinality(InHashes(q))
               + Cardinality(InStatics(q)) + Cardinality(HandlesTo(q)) + strings[q]
               + Cardinality(Dropping(q)))'
  <2>1. /\ InNames(q)' = InNames(q) /\ InHashes(q)' = InHashes(q)
        /\ InStatics(q)' = InStatics(q) /\ strings'[q] = strings[q] /\ refCount'[q] = refCount[q]
    BY <1>1 DEF InNames, InHashes, InStatics
  <2>2. Cardinality(Dropping(q)') =
          Cardinality(Dropping(q)) + (IF d.obj = q THEN 1 ELSE 0) - (IF drop[t].obj = q THEN 1 ELSE 0)
    <3> HIDE DEF d
    <3> QED BY <1>1, DropChanges DEF IInv
  <2>3. d.obj = o /\ drop[t].obj # q
    BY <1>1, NobodyAssumption DEF IInv, Types, Drops, Free
  <2>4. Cardinality(HandlesTo(q)') = Cardinality(HandlesTo(q)) - (IF q = o THEN 1 ELSE 0)
    BY <1>2
  <2>5. Cardinality(Dropping(q)') = Cardinality(Dropping(q)) + (IF q = o THEN 1 ELSE 0)
    <3>1. Cardinality(Dropping(q)) \in Nat
      BY Summands
    <3> HIDE DEF d
    <3> QED BY <2>2, <2>3, <3>1
  <2> HIDE DEF d
  <2> QED BY <2>1, <2>4, <2>5, Summands
<1>6. Pending'
  <2>1. adding[t] = Nobody /\ UNCHANGED adding
    BY <1>1 DEF Free
  <2> QED BY <1>1, <1>2, <2>1, NobodyAssumption DEF IInv, Pending
<1>7. ASSUME refCount[o] <= kRefsBase, IsFound(o)
      PROVE  Users(o) = 1 \/ (Users(o) = 2 /\ HasTwin(nameOf[o]))
  <2> DEFINE n == nameOf[o]
             names == Cardinality(InNames(o))
             hashes == Cardinality(InHashes(o))
             statics == Cardinality(InStatics(o))
             mine == Cardinality(HandlesTo(o))
             drops == Cardinality(Dropping(o))
  <2>1. /\ refCount[o] = names + hashes + statics + mine + strings[o] + drops
        /\ names \in Nat /\ hashes \in Nat /\ statics \in Nat /\ mine \in Nat /\ drops \in Nat
        /\ strings[o] \in 0..1
    BY Summands
  <2>2. n \in Names /\ aNames[n] = o /\ Code[n] \in Codes
    BY <1>7 DEF IsFound, IInv, Types, TypeOK, Codes
  <2>3. names > 0 /\ mine > 0
    BY <1>1, <2>2, References DEF IInv
  <2>4. hashes > 0 \/ HasTwin(n)
    <3>1. aHashes[Code[n]] = o \/ HasTwin(n)
      BY <2>2 DEF IInv, Entries
    <3> QED BY <2>2, <3>1, References DEF IInv
  <2>5. refCount[o] <= 3
    BY <1>7 DEF kRefsBase
  <2>6. Users(o) = statics + mine + strings[o] + drops
    BY DEF Users
  <2> HIDE DEF names, hashes, statics, mine, drops, n
  <2>7. statics + mine + strings[o] + drops = 1 \/ (statics + mine + strings[o] + drops = 2 /\ HasTwin(n))
    BY <2>1, <2>3, <2>4, <2>5
  <2> QED BY <2>6, <2>7 DEF n
<1>8. Readings'
  <2>1. ASSUME NEW u \in Threads, NEW q \in Objects,
               drop'[u].pc = "remove", drop'[u].obj = q, IsFound(q)'
        PROVE  drop'[u].others = 0 \/ (drop'[u].others = 1 /\ HasTwin(nameOf'[q]))
    <3>1. IsFound(q) /\ nameOf'[q] = nameOf[q]
      BY <1>1, <2>1 DEF IsFound
    <3>2. CASE u # t
      <4>1. drop'[u] = drop[u]
        BY <1>1, <3>2 DEF IInv, Types, Drops
      <4> QED BY <2>1, <3>1, <4>1 DEF IInv, Readings
    <3>3. CASE u = t
      <4>1. drop'[u] = d
        BY <1>1, <3>3 DEF IInv, Types, Drops
      <4>2. q = o /\ refCount[o] <= kRefsBase /\ d.others = Users(o) - 1
        BY <2>1, <4>1
      <4> HIDE DEF d
      <4> QED BY <1>7, <3>1, <4>1, <4>2
    <3> QED BY <3>2, <3>3
  <2> QED BY <2>1 DEF Readings
<1> QED BY <1>3, <1>4, <1>5, <1>6, <1>8 DEF IInv, Counts

(* RemoveAtom: its tables lose the object and its count their references.   *)
LEMMA StepRemove ==
  ASSUME IInv, NEW t \in Threads, RemoveAtom(t)
  PROVE  IInv'
<1> USE NobodyAssumption
<1> DEFINE o == drop[t].obj
           n == nameOf[o]
           c == CodeOf(o)
           inHash == aHashes[c] = o
           inNames == aNames[n] = o
           dn == [drop[t] EXCEPT !.pc = "release"]
<1>1. /\ drop[t].pc = "remove" /\ o \in Objects /\ refCount[o] > 0 /\ n \in Names /\ c \in Codes
      /\ c = Code[n]
  <2>1. drop[t].pc = "remove" /\ o \in Objects
    BY DEF RemoveAtom, IInv, Types, Drops, MaybeObject
  <2>2. refCount[o] > 0 /\ n \in Names
    BY <2>1, Alive
  <2> QED BY <2>1, <2>2 DEF CodeOf, Codes
<1>2. /\ aHashes' = [aHashes EXCEPT ![c] = IF inHash THEN Nobody ELSE aHashes[c]]
      /\ aNames' = [aNames EXCEPT ![n] = IF inNames THEN Nobody ELSE aNames[n]]
      /\ refCount' = Count(refCount, o, refCount[o] - (IF inHash THEN 1 ELSE 0)
                                                    - (IF inNames THEN 1 ELSE 0))
      /\ UNCHANGED <<nameOf, aStatics, adding, handles, strings>>
  BY DEF RemoveAtom
<1>3. drop' = [drop EXCEPT ![t] = dn]
  BY Zenon DEF RemoveAtom
<1>4. dn \in [pc : {"none", "remove", "release"}, obj : MaybeObject, others : Int]
        /\ dn.pc = "release" /\ dn.obj = o
  BY DEF IInv, Types, Drops
<1>5. /\ Cardinality(Dropping(o)) > 0
      /\ inHash => Cardinality(InHashes(o)) > 0
      /\ inNames => Cardinality(InNames(o)) > 0
  BY <1>1, References DEF IInv
<1>6. /\ aHashes' \in [Codes -> MaybeObject] /\ aNames' \in [Names -> MaybeObject]
      /\ \A e \in Codes : aHashes'[e] = IF e = c /\ inHash THEN Nobody ELSE aHashes[e]
      /\ \A m \in Names : aNames'[m] = IF m = n /\ inNames THEN Nobody ELSE aNames[m]
  BY <1>1, <1>2 DEF IInv, Types, TypeOK, MaybeObject
<1>7. refCount[o] - (IF inHash THEN 1 ELSE 0) - (IF inNames THEN 1 ELSE 0) \in Nat \ {0}
  <2> DEFINE names == Cardinality(InNames(o))
             hashes == Cardinality(InHashes(o))
             statics == Cardinality(InStatics(o))
             mine == Cardinality(HandlesTo(o))
             drops == Cardinality(Dropping(o))
  <2>1. /\ refCount[o] = names + hashes + statics + mine + strings[o] + drops
        /\ names \in Nat /\ hashes \in Nat /\ statics \in Nat /\ mine \in Nat /\ drops \in Nat
        /\ strings[o] \in 0..1
    BY <1>1, Summands
  <2>2. drops > 0 /\ (inHash => hashes > 0) /\ (inNames => names > 0)
    BY <1>5
  <2> HIDE DEF names, hashes, statics, mine, drops, inHash, inNames, o
  <2> QED BY <2>1, <2>2
<1>8. /\ refCount' \in [Objects -> Nat] /\ refCount'[o] > 0
      /\ \A q \in Objects : refCount'[q] = IF q = o
           THEN refCount[o] - (IF inHash THEN 1 ELSE 0) - (IF inNames THEN 1 ELSE 0) ELSE refCount[q]
  <2> HIDE DEF o, inHash, inNames
  <2> QED BY <1>1, <1>2, <1>7 DEF Count, IInv, Types, TypeOK
<1>9. Types'
  <2>1. Drops'
    <3> HIDE DEF dn
    <3> QED BY <1>1, <1>3, <1>4 DEF IInv, Types, Drops
  <2>2. \A q \in Objects : nameOf'[q] = Nobody <=> refCount'[q] = 0
    <3>1. refCount'[o] # 0 /\ nameOf[o] # Nobody /\ nameOf' = nameOf
      <4>1. nameOf[o] # Nobody /\ nameOf' = nameOf
        BY <1>1, <1>2
      <4>2. o \in Objects /\ refCount' \in [Objects -> Nat] /\ refCount'[o] > 0
        BY <1>1, <1>8
      <4> HIDE DEF o
      <4> QED BY <4>1, <4>2
    <3>2. \A q \in Objects : q # o => refCount'[q] = refCount[q]
      BY <1>8
    <3>3. \A q \in Objects : nameOf[q] = Nobody <=> refCount[q] = 0
      BY DEF IInv, Types, TypeOK
    <3> HIDE DEF o
    <3> QED BY <3>1, <3>2, <3>3
  <2> QED BY <1>2, <1>6, <1>8, <2>1, <2>2 DEF IInv, Types, TypeOK, Drops
<1>11. Entries'
  <2>1. \A m \in Names, q \in Objects : aNames'[m] = q => aNames[m] = q /\ q # o /\ nameOf[q] = m
    BY <1>6 DEF IInv, Entries
  <2>2. \A d \in Codes, q \in Objects : aHashes'[d] = q => aHashes[d] = q /\ q # o
    BY <1>6 DEF IInv, Entries
  <2>3. ASSUME NEW d \in Codes, NEW q \in Objects, aHashes'[d] = q
        PROVE  Code[nameOf[q]] = d /\ aNames'[nameOf[q]] = q
    <3>1. aHashes[d] = q /\ q # o
      BY <2>2, <2>3
    <3>2. Code[nameOf[q]] = d /\ aNames[nameOf[q]] = q /\ nameOf[q] \in Names
      BY <3>1, Alive DEF IInv, Entries, CodeOf
    <3> QED BY <1>6, <3>1, <3>2
  <2>4. ASSUME NEW m \in Names, NEW q \in Objects, aNames'[m] = q
        PROVE  aHashes'[Code[m]] = q \/ HasTwin(m)
    <3>1. aHashes[Code[m]] = q \/ HasTwin(m)
      BY <2>1, <2>4 DEF IInv, Entries
    <3>2. q # o /\ Code[m] \in Codes
      BY <2>1, <2>4 DEF Codes
    <3> QED BY <1>6, <3>1, <3>2
  <2>5. nameOf' = nameOf /\ aStatics' = aStatics
    BY <1>2
  <2>6. \A m \in Names, q \in Objects : aNames'[m] = q => nameOf'[q] = m
    BY <2>1, <2>5
  <2>7. \A d \in Codes, q \in Objects :
          aHashes'[d] = q => Code[nameOf'[q]] = d /\ aNames'[nameOf'[q]] = q
    BY <2>3, <2>5
  <2> HIDE DEF o, n, c, inHash, inNames, dn
  <2> QED BY <2>4, <2>6, <2>7 DEF Entries, CodeOf
<1>12. ASSUME NEW q \in Objects
       PROVE  refCount'[q] = (Cardinality(InNames(q)) + Cardinality(InHashes(q))
                + Cardinality(InStatics(q)) + Cardinality(HandlesTo(q)) + strings[q]
                + Cardinality(Dropping(q)))'
  <2>1. InStatics(q)' = InStatics(q) /\ HandlesTo(q)' = HandlesTo(q) /\ strings'[q] = strings[q]
    BY <1>2 DEF InStatics, HandlesTo
  <2> DEFINE vn == IF inNames THEN Nobody ELSE aNames[n]
             vh == IF inHash THEN Nobody ELSE aHashes[c]
  <2>2. Cardinality(InNames(q)') =
          Cardinality(InNames(q)) + (IF vn = q THEN 1 ELSE 0) - (IF aNames[n] = q THEN 1 ELSE 0)
    <3>1. aNames' = [aNames EXCEPT ![n] = vn] /\ n \in Names /\ Types
      BY <1>1, <1>2 DEF IInv
    <3> HIDE DEF n, vn
    <3> QED BY <3>1, NamesChange
  <2>3. Cardinality(InHashes(q)') =
          Cardinality(InHashes(q)) + (IF vh = q THEN 1 ELSE 0) - (IF aHashes[c] = q THEN 1 ELSE 0)
    <3>1. aHashes' = [aHashes EXCEPT ![c] = vh] /\ c \in Codes /\ Types
      BY <1>1, <1>2 DEF IInv
    <3> HIDE DEF c, vh
    <3> QED BY <3>1, HashesChange
  <2>4. Cardinality(Dropping(q)') =
          Cardinality(Dropping(q)) + (IF dn.obj = q THEN 1 ELSE 0) - (IF drop[t].obj = q THEN 1 ELSE 0)
    <3>1. Types
      BY DEF IInv
    <3> HIDE DEF dn
    <3> QED BY <1>3, <3>1, DropChanges
  <2>5. Dropping(q)' \in SUBSET Threads
    BY DEF Dropping
  <2>6. Cardinality(Dropping(q)') = Cardinality(Dropping(q))
    <3>1. dn.obj = drop[t].obj /\ Cardinality(Dropping(q)) \in Nat
      BY <1>4, Summands
    <3> HIDE DEF dn
    <3> QED BY <2>4, <3>1
  <2>7. CASE q = o
    <3>1. (vn = q <=> FALSE) /\ (vh = q <=> FALSE) /\ (aNames[n] = q <=> inNames) /\ (aHashes[c] = q <=> inHash)
      BY <1>1, <2>7
    <3>2. refCount'[q] = refCount[q] - (IF inHash THEN 1 ELSE 0) - (IF inNames THEN 1 ELSE 0)
      BY <1>8, <2>7
    <3> HIDE DEF o, n, c, vn, vh, inHash, inNames
    <3> QED BY <2>1, <2>2, <2>3, <2>6, <3>1, <3>2, Summands
  <2>8. CASE q # o
    <3>1. (vn = q <=> aNames[n] = q) /\ (vh = q <=> aHashes[c] = q)
      BY <2>8
    <3>2. refCount'[q] = refCount[q]
      BY <1>8, <2>8
    <3> HIDE DEF o, n, c, vn, vh, inHash, inNames
    <3> QED BY <2>1, <2>2, <2>3, <2>6, <3>1, <3>2, Summands
  <2> QED BY <2>7, <2>8
<1>13. Pending'
  BY <1>2 DEF IInv, Pending
<1>14. Readings'
  <2>1. ASSUME NEW u \in Threads, NEW q \in Objects,
               drop'[u].pc = "remove", drop'[u].obj = q, IsFound(q)'
        PROVE  drop'[u].others = 0 \/ (drop'[u].others = 1 /\ HasTwin(nameOf'[q]))
    <3>1. drop'[u] = drop[u]
      <4> HIDE DEF dn
      <4> QED BY <1>3, <1>4, <2>1 DEF IInv, Types, Drops
    <3>2. nameOf'[q] = nameOf[q] /\ nameOf[q] \in Names /\ aNames'[nameOf[q]] = q
      BY <1>2, <2>1 DEF IsFound, IInv, Types, TypeOK
    <3>3. IsFound(q)
      BY <1>6, <3>2 DEF IsFound
    <3> QED BY <2>1, <3>1, <3>2, <3>3 DEF IInv, Readings
  <2> QED BY <2>1 DEF Readings
<1> QED BY <1>9, <1>11, <1>12, <1>13, <1>14 DEF IInv, Counts

LEMMA StepIInv == IInv /\ [Next]_vars => IInv'
<1> SUFFICES ASSUME IInv, [Next]_vars PROVE IInv'
  OBVIOUS
<1>1. ASSUME NEW t \in Threads, NEW n \in Names, FindAtom(t, n)
      PROVE  IInv'
  <2>1. PICK o \in Objects : o = aNames[n]
    BY <1>1 DEF FindAtom, IInv, Types, TypeOK, MaybeObject
  <2>2. /\ HasRoom(t, o) /\ NewHandle(t, o) /\ refCount' = Count(refCount, o, refCount[o] + 1)
        /\ UNCHANGED <<nameOf, tables, adding, strings, drop>>
    BY <1>1, <2>1 DEF FindAtom
  <2>3. refCount[o] > 0
    BY <2>1, Alive
  <2> QED BY <2>2, <2>3, StepHandle
<1>2. ASSUME NEW t \in Threads, NEW c \in Codes, FindAtomHashCode(t, c)
      PROVE  IInv'
  <2>1. PICK o \in Objects : o = aHashes[c]
    BY <1>2 DEF FindAtomHashCode, IInv, Types, TypeOK, MaybeObject
  <2>2. /\ HasRoom(t, o) /\ NewHandle(t, o) /\ refCount' = Count(refCount, o, refCount[o] + 1)
        /\ UNCHANGED <<nameOf, tables, adding, strings, drop>>
    BY <1>2, <2>1 DEF FindAtomHashCode
  <2>3. refCount[o] > 0
    BY <2>1, Alive
  <2> QED BY <2>2, <2>3, StepHandle
<1>3. ASSUME NEW t \in Threads, NEW o \in Objects, CopyHandle(t, o)
      PROVE  IInv'
  <2>1. refCount[o] > 0
    BY <1>3, Alive DEF CopyHandle
  <2> QED BY <1>3, <2>1, StepHandle DEF CopyHandle
<1>4. ASSUME NEW o \in Objects, StringGoes(o)
      PROVE  IInv'
  BY <1>4, StepLastGoes DEF StringGoes
<1>5. ASSUME NEW t \in Threads, ReleasePtr(t)
      PROVE  IInv'
  <2>1. PICK o \in Objects : o = drop[t].obj
    BY <1>5 DEF ReleasePtr, IInv, Types, Drops, MaybeObject
  <2> QED BY <1>5, <2>1, StepLastGoes DEF ReleasePtr
<1>6. CASE UNCHANGED vars
  BY <1>6 DEF vars, tables, IInv, Types, TypeOK, Drops, Entries, CodeOf, Counts, InNames, InHashes,
              InStatics, HandlesTo, Dropping, Pending, Readings, IsFound
<1> QED BY <1>1, <1>2, <1>3, <1>4, <1>5, <1>6, StepFindStr, StepCreate, StepString, StepSearch,
           StepInsert, StepSetEmpty, StepRemove DEF Next

(* The reference counts, the three tables, the drops and the static entries *)
(* under way agree, whatever the interleaving: the other two rest on it.    *)
THEOREM Inductive == Spec => []IInv
<1>1. IInv /\ [Next]_vars => IInv'
  BY StepIInv
<1> QED BY InitIInv, <1>1, PTL DEF Spec

(* Every reference is counted and nothing else is, so no table, handle or   *)
(* string ever has an object that was deleted.                              *)
THEOREM RefsExact == Spec => []RefsAreExact
<1>1. IInv => RefsAreExact
  <2> SUFFICES ASSUME IInv PROVE RefsAreExact
    OBVIOUS
  <2>1. ASSUME NEW o \in Objects
        PROVE  refCount[o] = Cardinality(InNames(o)) + Cardinality(InHashes(o)) + Users(o)
    BY Summands DEF Users
  <2> QED BY <2>1 DEF IInv, Types, RefsAreExact
<1> QED BY <1>1, Inductive, PTL

(* What a step does to an object that the lookup of its name finds.         *)
LEMMA StaysFound ==
  ASSUME IInv, Next, NEW o \in Objects, IsFound(o)
  PROVE  \/ IsFound(o)'
         \/ \E t \in Threads : LastOneTakesOut(t, o)
         \/ Users(o) = 0 /\ HasTwin(nameOf[o])
<1>1. /\ nameOf[o] \in Names /\ aNames[nameOf[o]] = o
      /\ Code[nameOf[o]] \in Codes /\ refCount[o] > 0
  BY Alive DEF IsFound, IInv, Types, TypeOK, Codes
<1>2. UNCHANGED nameOf /\ UNCHANGED aNames => IsFound(o)'
  BY DEF IsFound
<1>3. ASSUME NEW q \in Objects, strings[q] > 0 \/ \E t \in Threads : drop[t].obj = q,
             refCount' = Count(refCount, q, refCount[q] - 1), nameOf' = Deleted(refCount'),
             UNCHANGED tables
      PROVE  IsFound(o)'
  <2>1. refCount'[o] = IF o = q THEN refCount[q] - 1 ELSE refCount[o]
    BY <1>3 DEF Count, IInv, Types, TypeOK
  <2>2. o = q => refCount[o] > 1
    <3> SUFFICES ASSUME o = q PROVE refCount[o] > 1
      OBVIOUS
    <3>1. Cardinality(InNames(o)) > 0
      BY <1>1, References DEF IInv
    <3>2. strings[o] > 0 \/ Cardinality(Dropping(o)) > 0
      BY <1>3, References DEF IInv
    <3> QED BY <3>1, <3>2, Summands
  <2>3. refCount'[o] # 0
    BY <1>1, <2>1, <2>2, Alive
  <2>4. nameOf'[o] = nameOf[o] /\ aNames' = aNames
    BY <1>3, <2>3 DEF Deleted, tables
  <2> QED BY <1>1, <2>4, NobodyAssumption DEF IsFound
<1>4. ASSUME NEW t \in Threads, NEW n \in Names, FindAtomStr(t, n)
      PROVE  IsFound(o)' \/ (Users(o) = 0 /\ HasTwin(nameOf[o]))
  <2> DEFINE p == aNames[n]
             last == refCount[p] + 2 <= kRefsBase
  <2>1. /\ nameOf' = nameOf
        /\ aNames' = [aNames EXCEPT ![n] = IF last THEN Nobody ELSE p]
    BY <1>4 DEF FindAtomStr
  <2>2. CASE last /\ nameOf[o] = n
    <3> DEFINE names == Cardinality(InNames(o))
               hashes == Cardinality(InHashes(o))
               statics == Cardinality(InStatics(o))
               mine == Cardinality(HandlesTo(o))
               drops == Cardinality(Dropping(o))
    <3>1. refCount[o] + 2 <= 3
      BY <1>1, <2>2 DEF kRefsBase
    <3>2. names > 0 /\ (aHashes[Code[n]] = o => hashes > 0)
      BY <1>1, <2>2, References DEF IInv
    <3>3. /\ refCount[o] = names + hashes + statics + mine + strings[o] + drops
          /\ names \in Nat /\ hashes \in Nat /\ statics \in Nat /\ mine \in Nat /\ drops \in Nat
          /\ strings[o] \in 0..1
      BY Summands
    <3>4. aHashes[Code[n]] = o \/ HasTwin(n)
      BY <1>1, <2>2 DEF IInv, Entries
    <3>5. Users(o) = statics + mine + strings[o] + drops
      BY DEF Users
    <3> HIDE DEF names, hashes, statics, mine, drops, last
    <3>6. statics + mine + strings[o] + drops = 0 /\ HasTwin(n)
      BY <3>1, <3>2, <3>3, <3>4
    <3> QED BY <2>2, <3>5, <3>6
  <2>3. CASE ~(last /\ nameOf[o] = n)
    <3>1. aNames'[nameOf[o]] = o
      <4> HIDE DEF last
      <4> QED BY <1>1, <2>1, <2>3 DEF IInv, Types, TypeOK
    <3> QED BY <1>1, <2>1, <3>1, NobodyAssumption DEF IsFound
  <2> QED BY <2>2, <2>3
<1>5. ASSUME NEW t \in Threads, NEW n \in Names, NEW s \in {0, 1}, CreateAtom(t, n, s)
      PROVE  IsFound(o)'
  <2>1. PICK p \in Objects : nameOf[p] = Nobody /\ CreateFor(t, n, s, p, aHashes[Code[n]])
    BY <1>5 DEF CreateAtom
  <2>2. aNames[n] = Nobody /\ o # p /\ nameOf[o] # n
    BY <1>1, <1>5, <2>1, NobodyAssumption DEF CreateAtom
  <2>3. nameOf'[o] = nameOf[o] /\ aNames'[nameOf[o]] = aNames[nameOf[o]]
    BY <1>1, <2>1, <2>2 DEF CreateFor, IInv, Types, TypeOK
  <2> QED BY <1>1, <2>3, NobodyAssumption DEF IsFound
<1>6. ASSUME NEW t \in Threads, RemoveAtom(t)
      PROVE  IsFound(o)' \/ LastOneTakesOut(t, o)
  <2> DEFINE p == drop[t].obj
  <2>1. /\ drop[t].pc = "remove" /\ drop'[t].pc = "release" /\ nameOf' = nameOf
        /\ aNames' = [aNames EXCEPT ![nameOf[p]] = IF aNames[nameOf[p]] = p THEN Nobody
                                                   ELSE aNames[nameOf[p]]]
    BY <1>6 DEF RemoveAtom, IInv, Types, Drops
  <2>2. CASE p = o
    BY <2>1, <2>2 DEF LastOneTakesOut, IInv, Readings
  <2>3. CASE p # o
    <3>1. aNames'[nameOf[o]] = o
      BY <1>1, <2>1, <2>3 DEF IInv, Types, TypeOK
    <3> QED BY <1>1, <2>1, <3>1, NobodyAssumption DEF IsFound
  <2> QED BY <2>2, <2>3
<1>7. ASSUME NEW t \in Threads, ReleasePtr(t)
      PROVE  IsFound(o)'
  <2>1. PICK q \in Objects : q = drop[t].obj
    BY <1>7 DEF ReleasePtr, IInv, Types, Drops, MaybeObject
  <2> QED BY <1>3, <1>7, <2>1 DEF ReleasePtr
<1>8. ASSUME NEW q \in Objects, StringGoes(q)
      PROVE  IsFound(o)'
  BY <1>3, <1>8 DEF StringGoes
<1>9. ASSUME NEW t \in Threads,
             \/ \E n \in Names : FindAtom(t, n)
             \/ \E c \in Codes : FindAtomHashCode(t, c)
             \/ \E q \in Objects :
                  CopyHandle(t, q) \/ GetStrA(t, q) \/ SearchStatic(t, q) \/ SetEmptyA(t, q)
             \/ InsertStatic(t)
      PROVE  IsFound(o)'
  <2>1. UNCHANGED nameOf /\ UNCHANGED aNames
    <3> USE DEF tables
    <3>1. CASE \E n \in Names : FindAtom(t, n)
      BY <3>1 DEF FindAtom
    <3>2. CASE \E c \in Codes : FindAtomHashCode(t, c)
      BY <3>2 DEF FindAtomHashCode
    <3>3. CASE InsertStatic(t)
      BY <3>3 DEF InsertStatic
    <3>4. ASSUME NEW q \in Objects,
                 CopyHandle(t, q) \/ GetStrA(t, q) \/ SearchStatic(t, q) \/ SetEmptyA(t, q)
          PROVE  UNCHANGED nameOf /\ UNCHANGED aNames
      BY <3>4 DEF CopyHandle, GetStrA, SearchStatic, SetEmptyA, SetEmptyWhen
    <3> QED BY <1>9, <3>1, <3>2, <3>3, <3>4
  <2> QED BY <1>2, <2>1
<1> QED BY <1>4, <1>5, <1>6, <1>7, <1>8, <1>9 DEF Next

(* An object that the lookup of its name finds stays the one found, until   *)
(* the last of those that had it when SetEmptyA counted takes it out.       *)
THEOREM AtomFound == Spec => AtomStaysFound
<1>1. IInv /\ [Next]_vars =>
        [\A o \in Objects : IsFound(o) =>
           \/ IsFound(o)'
           \/ \E t \in Threads : LastOneTakesOut(t, o)
           \/ Users(o) = 0 /\ HasTwin(nameOf[o])]_vars
  BY StaysFound
<1> QED BY <1>1, Inductive, PTL DEF Spec, AtomStaysFound
=============================================================================
