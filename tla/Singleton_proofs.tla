--------------------------- MODULE Singleton_proofs ---------------------------
(***************************************************************************)
(* Machine-checked proofs about Singleton, for all sets of threads, types   *)
(* and modules.                                                             *)
(***************************************************************************)
EXTENDS Singleton, FiniteSetTheorems, SequenceTheorems, TLAPS

(* One call makes another: a constructor or a destructor calls get_Single() *)
(* of what it needs, and ReleaseModule deletes an object.                   *)
CalledBy(f, g) ==
  \/ /\ f.at = "ctor" /\ g.at \in OnType \ {"dtor"}
     /\ f.i - 1 \in 1..Len(Uses[f.of]) /\ g.of = Uses[f.of][f.i - 1]
  \/ /\ f.at = "dtor" /\ g.at \in OnType \ {"dtor"}
     /\ f.i - 1 \in 1..Len(DtorUses[f.of]) /\ g.of = DtorUses[f.of][f.i - 1]
  \/ f.at = "rmRestart" /\ g.at = "dtor" /\ g.of \in Types

Stacks ==
  /\ \A t \in Threads : \A k \in 1..Len(calls[t]) :
       IF calls[t][k].at \in OnType THEN calls[t][k].of \in Types /\ calls[t][k].i > 0
                                    ELSE calls[t][k].of \in Modules \cup {AllModules}
  /\ \A t \in Threads : calls[t] # <<>> => calls[t][1].at # "dtor"
  /\ \A t \in Threads : \A k \in 1..(Len(calls[t]) - 1) : CalledBy(calls[t][k], calls[t][k + 1])

OneHolder == \A t, u \in Threads : lockAll[t] > 0 /\ lockAll[u] > 0 => t = u

(* The calls that make or delete an object know what has become of it, it   *)
(* is not in the list meanwhile, and no two of them are about one object.   *)
Making == {"ctor", "register", "dtor"}

Objects ==
  /\ \A y \in Types : pThe[y] <=> life[y] # "none"
  /\ \A k \in 1..Len(registry) : life[registry[k]] = "ready"
  /\ \A t \in Threads : \A k \in 1..Len(calls[t]) :
       /\ calls[t][k].at = "ctor" => life[calls[t][k].of] = "building"
       /\ calls[t][k].at = "register" => life[calls[t][k].of] = "ready"
       /\ calls[t][k].at = "dtor" => life[calls[t][k].of] = "dying"
       /\ calls[t][k].at \in Making => ~ Contains(registry, calls[t][k].of)
  /\ \A t \in Threads : \A j, k \in 1..Len(calls[t]) :
       /\ calls[t][j].at \in Making /\ calls[t][k].at \in Making
       /\ calls[t][j].of = calls[t][k].of
       => j = k

(* What ReleaseModule has passed by is of other modules.                    *)
Loop ==
  \A t \in Threads : In(t, "rmLoop") =>
    /\ Top(t).i <= Len(registry)
    /\ \A j \in (Top(t).i + 1)..Len(registry) :
         Top(t).of # AllModules /\ ModuleOf[registry[j]] # Top(t).of

Base == TypeOK /\ Stacks /\ OneHolder /\ Objects /\ Loop

-----------------------------------------------------------------------------
(* The frames of a stack that hold sm_LockAll.                              *)
Held(s) == {k \in 1..Len(s) : s[k].at \in Inside}

(* Two subsets of a finite set that differ at most in d.                    *)
LEMMA OneElement ==
  ASSUME NEW D, IsFiniteSet(D), NEW S \in SUBSET D, NEW T \in SUBSET D, NEW d \in D,
         \A e \in D : e # d => (e \in S <=> e \in T)
  PROVE  /\ Cardinality(S) \in Nat
         /\ Cardinality(T) = Cardinality(S) + (IF d \in T THEN 1 ELSE 0)
                                            - (IF d \in S THEN 1 ELSE 0)
<1>1. IsFiniteSet(S) /\ IsFiniteSet(T) /\ Cardinality(S) \in Nat /\ Cardinality(T) \in Nat
  BY FS_Subset, FS_CardinalityType
<1>2. CASE d \in S /\ d \notin T
  <2>1. T = S \ {d}
    BY <1>2
  <2> QED BY <1>1, <1>2, <2>1, FS_RemoveElement
<1>3. CASE d \notin S /\ d \in T
  <2>1. T = S \cup {d}
    BY <1>3
  <2> QED BY <1>1, <1>3, <2>1, FS_AddElement
<1>4. CASE d \in S <=> d \in T
  <2>1. S = T
    BY <1>4
  <2> QED BY <1>1, <1>4, <2>1
<1> QED BY <1>2, <1>3, <1>4

(* How often a stack holds the lock, when its last frame changes, and when  *)
(* one is put on top.                                                       *)
LEMMA HeldReplaced ==
  ASSUME NEW s \in Seq(Frames), NEW n \in Seq(Frames), Len(n) = Len(s), Len(s) > 0,
         \A k \in 1..(Len(s) - 1) : n[k] = s[k]
  PROVE  /\ Cardinality(Held(s)) \in Nat
         /\ Cardinality(Held(n)) = Cardinality(Held(s))
              + (IF n[Len(s)].at \in Inside THEN 1 ELSE 0)
              - (IF s[Len(s)].at \in Inside THEN 1 ELSE 0)
<1> DEFINE D == 1..Len(s)
<1>1. IsFiniteSet(D) /\ Len(s) \in D
  BY FS_Interval
<1>2. Held(s) \in SUBSET D /\ Held(n) \in SUBSET D
  BY DEF Held
<1>3. \A k \in D : k # Len(s) => (k \in Held(s) <=> k \in Held(n))
  BY DEF Held
<1>4. /\ Cardinality(Held(s)) \in Nat
      /\ Cardinality(Held(n)) = Cardinality(Held(s))
           + (IF Len(s) \in Held(n) THEN 1 ELSE 0) - (IF Len(s) \in Held(s) THEN 1 ELSE 0)
  <2> HIDE DEF D
  <2> QED BY <1>1, <1>2, <1>3, OneElement
<1> QED BY <1>1, <1>4 DEF Held

LEMMA HeldPushed ==
  ASSUME NEW s \in Seq(Frames), NEW n \in Seq(Frames), Len(n) = Len(s) + 1,
         \A k \in 1..Len(s) : n[k] = s[k]
  PROVE  /\ Cardinality(Held(s)) \in Nat /\ Cardinality(Held(n)) \in Nat
         /\ Cardinality(Held(n)) = Cardinality(Held(s))
              + (IF n[Len(n)].at \in Inside THEN 1 ELSE 0)
<1> DEFINE D == 1..Len(n)
<1>1. IsFiniteSet(D) /\ Len(n) \in D
  BY FS_Interval
<1>2. Held(s) \in SUBSET D /\ Held(n) \in SUBSET D
  BY DEF Held
<1>3. \A k \in D : k # Len(n) => (k \in Held(s) <=> k \in Held(n))
  BY DEF Held
<1>4. /\ Cardinality(Held(s)) \in Nat
      /\ Cardinality(Held(n)) = Cardinality(Held(s))
           + (IF Len(n) \in Held(n) THEN 1 ELSE 0) - (IF Len(n) \in Held(s) THEN 1 ELSE 0)
  <2> HIDE DEF D
  <2> QED BY <1>1, <1>2, <1>3, OneElement
<1> QED BY <1>1, <1>4 DEF Held

-----------------------------------------------------------------------------
(* All frames but the last.                                                 *)
LEMMA FrontOf ==
  ASSUME NEW s \in Seq(Frames), s # <<>>
  PROVE  /\ Len(s) \in Nat /\ Len(s) > 0
         /\ Front(s) \in Seq(Frames) /\ Len(Front(s)) = Len(s) - 1
         /\ \A k \in 1..(Len(s) - 1) : Front(s)[k] = s[k]
<1>1. Len(s) \in Nat /\ Len(s) > 0
  BY EmptySeq
<1> DEFINE m == 1
           n == Len(s) - 1
           b == SubSeq(s, m, n)
<1>2. m \in Int /\ n \in Int /\ \A k \in m..n : s[k] \in Frames
  BY <1>1, ElementOfSeq
<1>3. /\ b \in Seq(Frames)
      /\ Len(b) = IF m <= n THEN n - m + 1 ELSE 0
      /\ \A k \in 1..(n - m + 1) : b[k] = s[m + k - 1]
  <2> HIDE DEF m, n
  <2> QED BY <1>2, SubSeqProperties
<1> HIDE DEF b
<1>4. Len(b) = Len(s) - 1
  <2> DEFINE len == Len(s)
  <2>1. len \in Nat /\ len > 0
    BY <1>1
  <2>2. Len(b) = IF 1 <= len - 1 THEN (len - 1) - 1 + 1 ELSE 0
    BY <1>3
  <2> HIDE DEF len
  <2>3. Len(b) = len - 1
    BY <2>1, <2>2
  <2> QED BY <2>3 DEF len
<1>5. ASSUME NEW k \in 1..(Len(s) - 1)
      PROVE  b[k] = s[k]
  <2>1. b[k] = s[1 + k - 1] /\ 1 + k - 1 = k
    BY <1>1, <1>3
  <2> QED BY <2>1
<1>6. Front(s) = b
  BY DEF Front, b
<1> QED BY <1>1, <1>3, <1>4, <1>5, <1>6

(* What becomes of the stack of a thread t: the last frame changes.         *)
LEMMA AfterBecome ==
  ASSUME calls \in [Threads -> Seq(Frames)], NEW t \in Threads, calls[t] # <<>>,
         NEW f \in Frames, Become(t, f)
  PROVE  /\ calls' \in [Threads -> Seq(Frames)]
         /\ \A u \in Threads : u # t => calls'[u] = calls[u]
         /\ Len(calls[t]) \in Nat /\ Len(calls[t]) > 0 /\ Len(calls'[t]) = Len(calls[t])
         /\ calls'[t][Len(calls[t])] = f
         /\ \A k \in 1..(Len(calls[t]) - 1) : calls'[t][k] = calls[t][k]
<1> DEFINE s == calls[t]
           b == Front(s)
<1>1. s \in Seq(Frames) /\ Len(s) \in Nat /\ Len(s) > 0
  BY FrontOf
<1>2. b \in Seq(Frames) /\ Len(b) = Len(s) - 1 /\ \A k \in 1..(Len(s) - 1) : b[k] = s[k]
  BY <1>1, FrontOf
<1>3. calls' = [calls EXCEPT ![t] = Append(b, f)]
  BY DEF Become
<1>4. /\ Append(b, f) \in Seq(Frames) /\ Len(Append(b, f)) = Len(s)
      /\ Append(b, f)[Len(s)] = f
      /\ \A k \in 1..(Len(s) - 1) : Append(b, f)[k] = s[k]
  <2> HIDE DEF b, s
  <2> QED BY <1>1, <1>2
<1> HIDE DEF b
<1> QED BY <1>1, <1>3, <1>4

(* It changes, and another one is put on top.                               *)
LEMMA AfterCallFrom ==
  ASSUME calls \in [Threads -> Seq(Frames)], NEW t \in Threads, calls[t] # <<>>,
         NEW f \in Frames, NEW g \in Frames, CallFrom(t, f, g)
  PROVE  /\ calls' \in [Threads -> Seq(Frames)]
         /\ \A u \in Threads : u # t => calls'[u] = calls[u]
         /\ Len(calls[t]) \in Nat /\ Len(calls[t]) > 0 /\ Len(calls'[t]) = Len(calls[t]) + 1
         /\ calls'[t][Len(calls[t])] = f /\ calls'[t][Len(calls[t]) + 1] = g
         /\ \A k \in 1..(Len(calls[t]) - 1) : calls'[t][k] = calls[t][k]
<1> DEFINE s == calls[t]
           b == Front(s)
           n == Append(Append(b, f), g)
<1>1. s \in Seq(Frames) /\ Len(s) \in Nat /\ Len(s) > 0
  BY FrontOf
<1>2. b \in Seq(Frames) /\ Len(b) = Len(s) - 1 /\ \A k \in 1..(Len(s) - 1) : b[k] = s[k]
  BY <1>1, FrontOf
<1>3. calls' = [calls EXCEPT ![t] = n]
  BY DEF CallFrom
<1>4. /\ n \in Seq(Frames) /\ Len(n) = Len(s) + 1
      /\ n[Len(s)] = f /\ n[Len(s) + 1] = g
      /\ \A k \in 1..(Len(s) - 1) : n[k] = s[k]
  <2> HIDE DEF b, s
  <2> QED BY <1>1, <1>2
<1> HIDE DEF n
<1> QED BY <1>1, <1>3, <1>4

(* It goes.                                                                 *)
LEMMA AfterReturn ==
  ASSUME calls \in [Threads -> Seq(Frames)], NEW t \in Threads, calls[t] # <<>>, Return(t)
  PROVE  /\ calls' \in [Threads -> Seq(Frames)]
         /\ \A u \in Threads : u # t => calls'[u] = calls[u]
         /\ Len(calls[t]) \in Nat /\ Len(calls[t]) > 0 /\ Len(calls'[t]) = Len(calls[t]) - 1
         /\ \A k \in 1..(Len(calls[t]) - 1) : calls'[t][k] = calls[t][k]
<1> DEFINE s == calls[t]
           b == Front(s)
<1>1. s \in Seq(Frames) /\ Len(s) \in Nat /\ Len(s) > 0
  BY FrontOf
<1>2. b \in Seq(Frames) /\ Len(b) = Len(s) - 1 /\ \A k \in 1..(Len(s) - 1) : b[k] = s[k]
  BY <1>1, FrontOf
<1>3. calls' = [calls EXCEPT ![t] = b]
  BY DEF Return
<1> HIDE DEF b
<1> QED BY <1>1, <1>2, <1>3

(* There is one, where there was none.                                      *)
LEMMA AfterStart ==
  ASSUME calls \in [Threads -> Seq(Frames)], NEW t \in Threads, calls[t] = <<>>,
         NEW f \in Frames, calls' = [calls EXCEPT ![t] = <<f>>]
  PROVE  /\ calls' \in [Threads -> Seq(Frames)]
         /\ \A u \in Threads : u # t => calls'[u] = calls[u]
         /\ Len(calls[t]) = 0 /\ Len(calls'[t]) = 1 /\ calls'[t][1] = f
<1>1. <<f>> \in Seq(Frames) /\ Len(<<f>>) = 1 /\ <<f>>[1] = f
  OBVIOUS
<1> QED BY <1>1, EmptySeq

-----------------------------------------------------------------------------
(* The stacks stay as they should when the last frame changes its place,    *)
(* when it calls another one, returns, or is the first.                     *)
LEMMA StacksBecome ==
  ASSUME TypeOK, Stacks, NEW t \in Threads, calls[t] # <<>>, NEW f \in Frames, Become(t, f),
         f.of = Top(t).of, f.at = "dtor" <=> Top(t).at = "dtor",
         f.at \in OnType <=> Top(t).at \in OnType, f.at \in OnType => f.i > 0
  PROVE  Stacks'
<1> DEFINE L == Len(calls[t])
<1>1. /\ \A u \in Threads : u # t => calls'[u] = calls[u]
      /\ L > 0 /\ L \in Nat /\ Len(calls'[t]) = L /\ calls'[t][L] = f
      /\ \A k \in 1..(L - 1) : calls'[t][k] = calls[t][k]
  BY AfterBecome DEF TypeOK
<1>2. calls[t][L].of = f.of /\ (calls[t][L].at = "dtor" <=> f.at = "dtor")
      /\ (calls[t][L].at \in OnType <=> f.at \in OnType)
  BY DEF Top, Last
<1> HIDE DEF L
<1>3. ASSUME NEW k \in 1..Len(calls'[t])
      PROVE  IF calls'[t][k].at \in OnType THEN calls'[t][k].of \in Types /\ calls'[t][k].i > 0
                                           ELSE calls'[t][k].of \in Modules \cup {AllModules}
  <2>1. CASE k = L
    BY <1>1, <1>2, <2>1 DEF Stacks, L
  <2>2. CASE k # L
    BY <1>1, <2>2 DEF Stacks, L
  <2> QED BY <2>1, <2>2
<1>4. calls'[t][1].at # "dtor"
  <2>1. calls[t][1].at # "dtor"
    BY DEF Stacks
  <2>2. CASE L = 1
    BY <1>1, <1>2, <2>1, <2>2
  <2>3. CASE L # 1
    BY <1>1, <2>1, <2>3
  <2> QED BY <2>2, <2>3
<1>5. ASSUME NEW k \in 1..(Len(calls'[t]) - 1)
      PROVE  CalledBy(calls'[t][k], calls'[t][k + 1])
  <2>1. CalledBy(calls[t][k], calls[t][k + 1]) /\ calls'[t][k] = calls[t][k]
    BY <1>1 DEF Stacks, L
  <2>2. CASE k + 1 = L
    <3>1. calls'[t][k + 1] = f /\ calls[t][k + 1] = calls[t][L]
      BY <1>1, <2>2
    <3> QED BY <1>2, <2>1, <3>1 DEF CalledBy
  <2>3. CASE k + 1 # L
    <3>1. calls'[t][k + 1] = calls[t][k + 1]
      BY <1>1, <2>3
    <3> QED BY <2>1, <3>1
  <2> QED BY <2>2, <2>3
<1> QED BY <1>1, <1>3, <1>4, <1>5 DEF Stacks

LEMMA StacksCallFrom ==
  ASSUME TypeOK, Stacks, NEW t \in Threads, calls[t] # <<>>,
         NEW f \in Frames, NEW g \in Frames, CallFrom(t, f, g),
         f.of = Top(t).of, f.at = "dtor" <=> Top(t).at = "dtor",
         f.at \in OnType <=> Top(t).at \in OnType, f.at \in OnType => f.i > 0,
         CalledBy(f, g), g.i > 0, g.of \in Types
  PROVE  Stacks'
<1> DEFINE L == Len(calls[t])
<1>1. /\ \A u \in Threads : u # t => calls'[u] = calls[u]
      /\ L > 0 /\ L \in Nat /\ Len(calls'[t]) = L + 1
      /\ calls'[t][L] = f /\ calls'[t][L + 1] = g
      /\ \A k \in 1..(L - 1) : calls'[t][k] = calls[t][k]
  BY AfterCallFrom DEF TypeOK
<1>2. calls[t][L].of = f.of /\ (calls[t][L].at = "dtor" <=> f.at = "dtor")
      /\ (calls[t][L].at \in OnType <=> f.at \in OnType)
  BY DEF Top, Last
<1> HIDE DEF L
<1>3. ASSUME NEW k \in 1..Len(calls'[t])
      PROVE  IF calls'[t][k].at \in OnType THEN calls'[t][k].of \in Types /\ calls'[t][k].i > 0
                                           ELSE calls'[t][k].of \in Modules \cup {AllModules}
  <2>1. CASE k = L
    BY <1>1, <1>2, <2>1 DEF Stacks, L
  <2>2. CASE k = L + 1
    BY <1>1, <2>2 DEF CalledBy, OnType
  <2>3. CASE k # L /\ k # L + 1
    BY <1>1, <2>3 DEF Stacks, L
  <2> QED BY <2>1, <2>2, <2>3
<1>4. calls'[t][1].at # "dtor"
  <2>1. calls[t][1].at # "dtor"
    BY DEF Stacks
  <2>2. CASE L = 1
    BY <1>1, <1>2, <2>1, <2>2
  <2>3. CASE L # 1
    BY <1>1, <2>1, <2>3
  <2> QED BY <2>2, <2>3
<1>5. ASSUME NEW k \in 1..(Len(calls'[t]) - 1)
      PROVE  CalledBy(calls'[t][k], calls'[t][k + 1])
  <2>1. k < L => CalledBy(calls[t][k], calls[t][k + 1]) /\ calls'[t][k] = calls[t][k]
    BY <1>1 DEF Stacks, L
  <2>2. CASE k = L
    BY <1>1, <2>2
  <2>3. CASE k + 1 = L
    <3>1. calls'[t][k + 1] = f /\ calls[t][k + 1] = calls[t][L] /\ k < L
      BY <1>1, <2>3
    <3> QED BY <1>2, <2>1, <3>1 DEF CalledBy
  <2>4. CASE k # L /\ k + 1 # L
    <3>1. calls'[t][k + 1] = calls[t][k + 1] /\ k < L
      BY <1>1, <2>4
    <3> QED BY <2>1, <3>1
  <2> QED BY <2>2, <2>3, <2>4
<1> QED BY <1>1, <1>3, <1>4, <1>5 DEF Stacks

LEMMA StacksReturn ==
  ASSUME TypeOK, Stacks, NEW t \in Threads, calls[t] # <<>>, Return(t)
  PROVE  Stacks'
<1> DEFINE L == Len(calls[t])
<1>1. /\ calls' \in [Threads -> Seq(Frames)]
      /\ \A u \in Threads : u # t => calls'[u] = calls[u]
      /\ L > 0 /\ L \in Nat /\ Len(calls'[t]) = L - 1
      /\ \A k \in 1..(L - 1) : calls'[t][k] = calls[t][k]
  BY AfterReturn DEF TypeOK
<1>2. calls'[t] # <<>> => calls'[t][1] = calls[t][1]
  BY <1>1, EmptySeq
<1>3. \A k \in 1..Len(calls'[t]) : k \in 1..Len(calls[t]) /\ calls'[t][k] = calls[t][k]
  BY <1>1
<1>4. \A k \in 1..(Len(calls'[t]) - 1) :
        /\ k \in 1..(Len(calls[t]) - 1)
        /\ calls'[t][k] = calls[t][k] /\ calls'[t][k + 1] = calls[t][k + 1]
  BY <1>1
<1>5. ASSUME NEW k \in 1..(Len(calls'[t]) - 1)
      PROVE  CalledBy(calls'[t][k], calls'[t][k + 1])
  BY <1>4 DEF Stacks
<1>6. calls'[t] # <<>> => calls'[t][1].at # "dtor"
  BY <1>2 DEF Stacks
<1>7. ASSUME NEW k \in 1..Len(calls'[t])
      PROVE  IF calls'[t][k].at \in OnType THEN calls'[t][k].of \in Types /\ calls'[t][k].i > 0
                                           ELSE calls'[t][k].of \in Modules \cup {AllModules}
  BY <1>3 DEF Stacks
<1> QED BY <1>1, <1>5, <1>6, <1>7 DEF Stacks

LEMMA StacksStart ==
  ASSUME TypeOK, Stacks, NEW t \in Threads, calls[t] = <<>>, NEW f \in Frames,
         calls' = [calls EXCEPT ![t] = <<f>>], f.at # "dtor",
         IF f.at \in OnType THEN f.of \in Types /\ f.i > 0
                            ELSE f.of \in Modules \cup {AllModules}
  PROVE  Stacks'
<1>1. /\ \A u \in Threads : u # t => calls'[u] = calls[u]
      /\ Len(calls'[t]) = 1 /\ calls'[t][1] = f
  BY AfterStart DEF TypeOK
<1> QED BY <1>1 DEF Stacks

-----------------------------------------------------------------------------
Nested ==
  /\ lockAll \in [Threads -> 0..MaxNest]
  /\ \A t \in Threads : lockAll[t] = Cardinality(Held(calls[t]))

(* A call that makes or deletes an object, or is inside the lock, has it.   *)
LEMMA Holder ==
  ASSUME TypeOK, Stacks, NEW t \in Threads, NEW k \in 1..Len(calls[t]),
         calls[t][k].at \in Inside \cup Making
  PROVE  lockAll[t] > 0
<1> DEFINE s == calls[t]
<1>1. PICK j \in 1..Len(s) : s[j].at \in Inside
  <2>1. CASE calls[t][k].at \in Inside
    BY <2>1
  <2>2. CASE calls[t][k].at = "dtor"
    <3>1. k # 1 /\ Len(s) \in Nat
      <4>1. s \in Seq(Frames) /\ s # <<>>
        BY EmptySeq DEF TypeOK
      <4> QED BY <2>2, <4>1 DEF Stacks
    <3>2. k - 1 \in 1..(Len(s) - 1) /\ (k - 1) + 1 = k
      BY <3>1
    <3>3. CalledBy(s[k - 1], s[(k - 1) + 1])
      BY <3>2 DEF Stacks
    <3>4. s[k - 1].at = "rmRestart"
      BY <2>2, <3>2, <3>3 DEF CalledBy, OnType
    <3> QED BY <3>2, <3>4 DEF Inside
  <2> QED BY <2>1, <2>2 DEF Making, Inside
<1>2. Held(s) \in SUBSET (1..Len(s)) /\ j \in Held(s)
  BY <1>1 DEF Held
<1>3. IsFiniteSet(1..Len(s))
  BY FS_Interval DEF TypeOK
<1>4. Cardinality(Held(s)) \in Nat /\ Cardinality(Held(s)) # 0
  BY <1>2, <1>3, FS_Subset, FS_CardinalityType, FS_EmptySet
<1>5. lockAll[t] = Cardinality(Held(s))
  BY DEF TypeOK, Held
<1> QED BY <1>4, <1>5

(* Only one thread has such calls.                                          *)
LEMMA SameHolder ==
  ASSUME TypeOK, Stacks, OneHolder, NEW t \in Threads, NEW u \in Threads,
         NEW k \in 1..Len(calls[t]), calls[t][k].at \in Inside \cup Making,
         NEW j \in 1..Len(calls[u]), calls[u][j].at \in Inside \cup Making
  PROVE  t = u
BY Holder DEF OneHolder

(* The lock is held once for each call inside it, when a stack changes.     *)
LEMMA LockAfter ==
  ASSUME TypeOK, OneHolder, NEW t \in Threads,
         \A u \in Threads : u # t => calls'[u] = calls[u],
         \/ /\ lockAll' = lockAll
            /\ Cardinality(Held(calls'[t])) = Cardinality(Held(calls[t]))
         \/ /\ R!Acquire(t)
            /\ Cardinality(Held(calls'[t])) = Cardinality(Held(calls[t])) + 1
         \/ /\ R!Release(t)
            /\ Cardinality(Held(calls'[t])) = Cardinality(Held(calls[t])) - 1
  PROVE  OneHolder' /\ Nested'
<1> DEFINE n == lockAll'[t]
           held == Cardinality(Held(calls[t]))
           now == Cardinality(Held(calls'[t]))
<1>1. /\ lockAll \in [Threads -> 0..MaxNest] /\ MaxNest \in Nat
      /\ \A u \in Threads : lockAll[u] = Cardinality(Held(calls[u]))
      /\ lockAll[t] = held
  BY SingletonAssumption DEF TypeOK, Held
<1>2. /\ \A u \in Threads : u # t => lockAll'[u] = lockAll[u]
      /\ n = now /\ n \in 0..MaxNest /\ lockAll' \in [Threads -> 0..MaxNest]
  <2>1. CASE lockAll' = lockAll /\ now = held
    BY <1>1, <2>1
  <2>2. CASE R!Acquire(t) /\ now = held + 1
    <3> HIDE DEF held, now
    <3> QED BY <1>1, <2>2 DEF R!Acquire
  <2>3. CASE R!Release(t) /\ now = held - 1
    <3> HIDE DEF held, now
    <3> QED BY <1>1, <2>3 DEF R!Release
  <2> QED BY <2>1, <2>2, <2>3
<1>3. n > 0 => lockAll[t] > 0 \/ \A u \in Threads \ {t} : lockAll[u] = 0
  BY <1>1 DEF R!Acquire, R!Release
<1>4. Nested'
  BY <1>1, <1>2 DEF Nested
<1>5. OneHolder'
  BY <1>1, <1>2, <1>3 DEF OneHolder
<1> QED BY <1>4, <1>5

(* A step that makes or deletes nothing.                                    *)
LEMMA ObjectsAfter ==
  ASSUME Objects, NEW t \in Threads, UNCHANGED <<pThe, life, registry>>,
         \A u \in Threads : u # t => calls'[u] = calls[u],
         \A k \in 1..Len(calls'[t]) : calls'[t][k].at \in Making =>
           /\ k \in 1..Len(calls[t])
           /\ calls'[t][k].at = calls[t][k].at /\ calls'[t][k].of = calls[t][k].of
  PROVE  Objects'
<1>1. ASSUME NEW u \in Threads, NEW k \in 1..Len(calls'[u]), calls'[u][k].at \in Making
      PROVE  /\ k \in 1..Len(calls[u])
             /\ calls'[u][k].at = calls[u][k].at /\ calls'[u][k].of = calls[u][k].of
  BY <1>1
<1>2. /\ \A y \in Types : pThe'[y] <=> life'[y] # "none"
      /\ \A k \in 1..Len(registry') : life'[registry'[k]] = "ready"
  BY DEF Objects
<1>3. ASSUME NEW u \in Threads, NEW k \in 1..Len(calls'[u]), calls'[u][k].at \in Making
      PROVE  /\ calls'[u][k].at = "ctor" => life'[calls'[u][k].of] = "building"
             /\ calls'[u][k].at = "register" => life'[calls'[u][k].of] = "ready"
             /\ calls'[u][k].at = "dtor" => life'[calls'[u][k].of] = "dying"
             /\ ~ Contains(registry', calls'[u][k].of)
  BY <1>1, <1>3 DEF Objects
<1>4. ASSUME NEW u \in Threads, NEW j \in 1..Len(calls'[u]), NEW k \in 1..Len(calls'[u]),
             calls'[u][j].at \in Making, calls'[u][k].at \in Making,
             calls'[u][j].of = calls'[u][k].of
      PROVE  j = k
  BY <1>1, <1>4 DEF Objects
<1>5. \A at : at \in {"ctor", "register", "dtor"} <=> at \in Making
  BY DEF Making
<1>6. \A u \in Threads : \A k \in 1..Len(calls'[u]) :
       /\ calls'[u][k].at = "ctor" => life'[calls'[u][k].of] = "building"
       /\ calls'[u][k].at = "register" => life'[calls'[u][k].of] = "ready"
       /\ calls'[u][k].at = "dtor" => life'[calls'[u][k].of] = "dying"
       /\ calls'[u][k].at \in Making => ~ Contains(registry', calls'[u][k].of)
  BY <1>3, <1>5
<1>7. \A u \in Threads : \A j, k \in 1..Len(calls'[u]) :
       /\ calls'[u][j].at \in Making /\ calls'[u][k].at \in Making
       /\ calls'[u][j].of = calls'[u][k].of
       => j = k
  BY <1>4
<1> QED BY <1>2, <1>6, <1>7 DEF Objects

-----------------------------------------------------------------------------
(* What the loop of ReleaseModule has passed by, for a frame on top.        *)
PassedBy(f) ==
  f.at = "rmLoop" =>
    /\ f.i <= Len(registry)
    /\ \A j \in (f.i + 1)..Len(registry) : f.of # AllModules /\ ModuleOf[registry[j]] # f.of

TypesBut(t) ==
  /\ pThe' \in [Types -> BOOLEAN]
  /\ life' \in [Types -> {"none", "building", "ready", "dying"}]
  /\ registry' \in Seq(Types) /\ IsInjective(registry')
  /\ mgr' \in BOOLEAN /\ inExit' \in BOOLEAN
  /\ unloaded' \subseteq Modules

(* A step of t keeps the invariant if it keeps what it changes.             *)
LEMMA BaseAfter ==
  ASSUME Base, NEW t \in Threads, TypesBut(t), Stacks', OneHolder', Nested', Objects',
         calls' \in [Threads -> Seq(Frames)],
         \A u \in Threads : u # t => calls'[u] = calls[u],
         \A u \in Threads : u # t /\ In(u, "rmLoop") => registry' = registry,
         calls'[t] # <<>> => PassedBy(Top(t))'
  PROVE  Base'
<1>1. TypeOK'
  BY DEF TypeOK, TypesBut, Nested, Held
<1>2. Loop'
  <2> SUFFICES ASSUME NEW u \in Threads, In(u, "rmLoop")'
               PROVE  /\ Top(u)'.i <= Len(registry')
                      /\ \A j \in (Top(u)'.i + 1)..Len(registry') :
                           Top(u)'.of # AllModules /\ ModuleOf[registry'[j]] # Top(u)'.of
    BY DEF Loop
  <2>1. CASE u = t
    BY <2>1 DEF In, Top, PassedBy
  <2>2. CASE u # t
    <3>1. In(u, "rmLoop") /\ Top(u)' = Top(u) /\ registry' = registry
      BY <2>2 DEF In, Top
    <3> QED BY <3>1 DEF Base, Loop
  <2> QED BY <2>1, <2>2
<1> QED BY <1>1, <1>2 DEF Base

data == <<pThe, life, registry, inExit, unloaded>>

(* The lock is held as often as there are calls inside it.                  *)
LEMMA LockBecome ==
  ASSUME TypeOK, OneHolder, NEW t \in Threads, calls[t] # <<>>, NEW f \in Frames, Become(t, f),
         \/ lockAll' = lockAll /\ (f.at \in Inside <=> Top(t).at \in Inside)
         \/ R!Acquire(t) /\ f.at \in Inside /\ Top(t).at \notin Inside
         \/ R!Release(t) /\ f.at \notin Inside /\ Top(t).at \in Inside
  PROVE  OneHolder' /\ Nested'
<1> DEFINE L == Len(calls[t])
           held == Cardinality(Held(calls[t]))
           now == Cardinality(Held(calls'[t]))
<1>1. /\ \A u \in Threads : u # t => calls'[u] = calls[u]
      /\ L \in Nat /\ L > 0 /\ Len(calls'[t]) = L /\ calls'[t][L] = f
      /\ \A k \in 1..(L - 1) : calls'[t][k] = calls[t][k]
      /\ calls[t] \in Seq(Frames) /\ calls'[t] \in Seq(Frames)
  BY AfterBecome DEF TypeOK
<1>2. calls[t][L] = Top(t)
  BY DEF Top, Last
<1>3. held \in Nat /\ now = held + (IF f.at \in Inside THEN 1 ELSE 0)
                                 - (IF Top(t).at \in Inside THEN 1 ELSE 0)
  BY <1>1, <1>2, HeldReplaced
<1>4. \/ lockAll' = lockAll /\ now = held
      \/ R!Acquire(t) /\ now = held + 1
      \/ R!Release(t) /\ now = held - 1
  <2> HIDE DEF held, now
  <2> QED BY <1>3
<1> QED BY <1>1, <1>4, LockAfter

LEMMA LockCallFrom ==
  ASSUME TypeOK, OneHolder, NEW t \in Threads, calls[t] # <<>>,
         NEW f \in Frames, NEW g \in Frames, CallFrom(t, f, g),
         f.at \in Inside <=> Top(t).at \in Inside, g.at \notin Inside, lockAll' = lockAll
  PROVE  OneHolder' /\ Nested'
<1> DEFINE L == Len(calls[t])
           m == [k \in 1..L |-> calls'[t][k]]
           held == Cardinality(Held(calls[t]))
           mid == Cardinality(Held(m))
<1>1. /\ \A u \in Threads : u # t => calls'[u] = calls[u]
      /\ L \in Nat /\ L > 0 /\ Len(calls'[t]) = L + 1
      /\ calls'[t][L] = f /\ calls'[t][L + 1] = g
      /\ \A k \in 1..(L - 1) : calls'[t][k] = calls[t][k]
      /\ calls[t] \in Seq(Frames) /\ calls'[t] \in Seq(Frames)
  BY AfterCallFrom DEF TypeOK
<1>2. calls[t][L] = Top(t)
  BY DEF Top, Last
<1>3. m \in Seq(Frames) /\ Len(m) = L /\ \A k \in 1..L : m[k] = calls'[t][k]
  BY <1>1
<1> HIDE DEF m
<1>4. m[L] = f /\ \A k \in 1..(L - 1) : m[k] = calls[t][k]
  BY <1>1, <1>3
<1>5. /\ held \in Nat
      /\ mid = held + (IF m[L].at \in Inside THEN 1 ELSE 0)
                    - (IF calls[t][L].at \in Inside THEN 1 ELSE 0)
  BY <1>1, <1>3, <1>4, HeldReplaced
<1>6. mid = held /\ mid \in Nat
  <2> HIDE DEF held, mid
  <2> QED BY <1>2, <1>4, <1>5
<1>7. Len(calls'[t]) = Len(m) + 1 /\ calls'[t][Len(calls'[t])] = g
  BY <1>1, <1>3
<1>8. Cardinality(Held(calls'[t])) = mid + (IF g.at \in Inside THEN 1 ELSE 0)
  BY <1>1, <1>3, <1>7, HeldPushed
<1>9. Cardinality(Held(calls'[t])) = held
  <2> HIDE DEF held, mid
  <2> QED BY <1>6, <1>8
<1> QED BY <1>1, <1>9, LockAfter

LEMMA LockReturn ==
  ASSUME TypeOK, OneHolder, NEW t \in Threads, calls[t] # <<>>, Return(t),
         \/ lockAll' = lockAll /\ Top(t).at \notin Inside
         \/ R!Release(t) /\ Top(t).at \in Inside
  PROVE  OneHolder' /\ Nested'
<1> DEFINE L == Len(calls[t])
           held == Cardinality(Held(calls[t]))
           now == Cardinality(Held(calls'[t]))
<1>1. /\ \A u \in Threads : u # t => calls'[u] = calls[u]
      /\ L \in Nat /\ L > 0 /\ Len(calls'[t]) = L - 1
      /\ \A k \in 1..(L - 1) : calls'[t][k] = calls[t][k]
      /\ calls[t] \in Seq(Frames) /\ calls'[t] \in Seq(Frames)
  BY AfterReturn DEF TypeOK
<1>2. calls[t][L] = Top(t)
  BY DEF Top, Last
<1>3. now \in Nat /\ held = now + (IF Top(t).at \in Inside THEN 1 ELSE 0)
  <2>1. /\ Len(calls[t]) = Len(calls'[t]) + 1
        /\ \A k \in 1..Len(calls'[t]) : calls[t][k] = calls'[t][k]
    BY <1>1
  <2> QED BY <1>1, <1>2, <2>1, HeldPushed
<1>4. \/ lockAll' = lockAll /\ now = held
      \/ R!Release(t) /\ now = held - 1
  <2> HIDE DEF held, now
  <2> QED BY <1>3
<1> QED BY <1>1, <1>4, LockAfter

(* A call goes on to another place.                                         *)
LEMMA QuietBecome ==
  ASSUME Base, NEW t \in Threads, calls[t] # <<>>, NEW f \in Frames, Become(t, f),
         UNCHANGED <<data, mgr>>,
         f.of = Top(t).of, f.at = "dtor" <=> Top(t).at = "dtor",
         f.at \in OnType <=> Top(t).at \in OnType, f.at \in OnType => f.i > 0,
         f.at \in Making => f.at = Top(t).at,
         \/ lockAll' = lockAll /\ (f.at \in Inside <=> Top(t).at \in Inside)
         \/ R!Acquire(t) /\ f.at \in Inside /\ Top(t).at \notin Inside
         \/ R!Release(t) /\ f.at \notin Inside /\ Top(t).at \in Inside,
         PassedBy(f)
  PROVE  Base'
<1> DEFINE L == Len(calls[t])
<1>1. /\ calls' \in [Threads -> Seq(Frames)]
      /\ \A u \in Threads : u # t => calls'[u] = calls[u]
      /\ L \in Nat /\ L > 0 /\ Len(calls'[t]) = L /\ calls'[t][L] = f
      /\ \A k \in 1..(L - 1) : calls'[t][k] = calls[t][k]
      /\ calls[t] \in Seq(Frames) /\ calls'[t] \in Seq(Frames)
  BY AfterBecome DEF TypeOK, Base
<1>2. calls[t][L] = Top(t)
  BY DEF Top, Last
<1>3. Stacks'
  BY StacksBecome DEF Base
<1>5. OneHolder' /\ Nested'
  BY LockBecome DEF Base
<1>6. Objects'
  <2>1. ASSUME NEW k \in 1..Len(calls'[t]), calls'[t][k].at \in Making
        PROVE  /\ k \in 1..Len(calls[t])
               /\ calls'[t][k].at = calls[t][k].at /\ calls'[t][k].of = calls[t][k].of
    <3>1. CASE k = L
      BY <1>1, <1>2, <2>1, <3>1
    <3>2. CASE k # L
      BY <1>1, <3>2
    <3> QED BY <3>1, <3>2
  <2> QED BY <1>1, <2>1, ObjectsAfter DEF Base, data
<1>7. TypesBut(t)
  BY DEF TypesBut, Base, TypeOK, data
<1>8. Top(t)' = f
  BY <1>1 DEF Top, Last
<1>9. PassedBy(Top(t))'
  BY <1>8 DEF PassedBy, data
<1> QED BY <1>1, <1>3, <1>5, <1>6, <1>7, <1>9, BaseAfter DEF data

(* A constructor or a destructor calls get_Single().                        *)
LEMMA QuietCallFrom ==
  ASSUME Base, NEW t \in Threads, calls[t] # <<>>, NEW f \in Frames, NEW y \in Types,
         CallFrom(t, f, GetSingle(y)),
         UNCHANGED <<data, mgr, lockAll>>,
         f.of = Top(t).of, f.at = Top(t).at, f.i > 0, CalledBy(f, GetSingle(y))
  PROVE  Base'
<1> DEFINE L == Len(calls[t])
           g == GetSingle(y)
<1>0. g \in Frames /\ g.at = "check" /\ g.of \in Types /\ g.i > 0
  BY DEF GetSingle, Frame, Frames, OnType
<1> HIDE DEF g
<1>1. /\ calls' \in [Threads -> Seq(Frames)]
      /\ \A u \in Threads : u # t => calls'[u] = calls[u]
      /\ L \in Nat /\ L > 0 /\ Len(calls'[t]) = L + 1
      /\ calls'[t][L] = f /\ calls'[t][L + 1] = g
      /\ \A k \in 1..(L - 1) : calls'[t][k] = calls[t][k]
      /\ calls[t] \in Seq(Frames) /\ calls'[t] \in Seq(Frames)
  BY <1>0, AfterCallFrom DEF TypeOK, Base, g
<1>2. calls[t][L] = Top(t)
  BY DEF Top, Last
<1>3. Stacks'
  BY <1>0, StacksCallFrom DEF Base, g
<1>5. OneHolder' /\ Nested'
  BY <1>0, LockCallFrom DEF Base, Inside, g
<1>6. Objects'
  <2>1. ASSUME NEW k \in 1..Len(calls'[t]), calls'[t][k].at \in Making
        PROVE  /\ k \in 1..Len(calls[t])
               /\ calls'[t][k].at = calls[t][k].at /\ calls'[t][k].of = calls[t][k].of
    <3>1. CASE k = L
      BY <1>1, <1>2, <2>1, <3>1
    <3>2. CASE k = L + 1
      BY <1>0, <1>1, <2>1, <3>2 DEF Making
    <3>3. CASE k # L /\ k # L + 1
      BY <1>1, <3>3
    <3> QED BY <3>1, <3>2, <3>3
  <2> QED BY <1>1, <2>1, ObjectsAfter DEF Base, data
<1>7. TypesBut(t)
  BY DEF TypesBut, Base, TypeOK, data
<1>8. Top(t)' = g
  BY <1>1 DEF Top, Last
<1>9. PassedBy(Top(t))'
  BY <1>0, <1>8 DEF PassedBy
<1> QED BY <1>1, <1>3, <1>5, <1>6, <1>7, <1>9, BaseAfter DEF data

(* A call returns.                                                          *)
LEMMA QuietReturn ==
  ASSUME Base, NEW t \in Threads, calls[t] # <<>>, Return(t), UNCHANGED data, mgr' \in BOOLEAN,
         \/ lockAll' = lockAll /\ Top(t).at \notin Inside
         \/ R!Release(t) /\ Top(t).at \in Inside
  PROVE  Base'
<1> DEFINE L == Len(calls[t])
<1>1. /\ calls' \in [Threads -> Seq(Frames)]
      /\ \A u \in Threads : u # t => calls'[u] = calls[u]
      /\ L \in Nat /\ L > 0 /\ Len(calls'[t]) = L - 1
      /\ \A k \in 1..(L - 1) : calls'[t][k] = calls[t][k]
      /\ calls[t] \in Seq(Frames) /\ calls'[t] \in Seq(Frames)
  BY AfterReturn DEF TypeOK, Base
<1>2. calls[t][L] = Top(t)
  BY DEF Top, Last
<1>3. Stacks'
  BY StacksReturn DEF Base
<1>4. OneHolder' /\ Nested'
  BY LockReturn DEF Base
<1>5. Objects'
  <2>1. \A k \in 1..Len(calls'[t]) : k \in 1..Len(calls[t]) /\ calls'[t][k] = calls[t][k]
    BY <1>1
  <2> QED BY <1>1, <2>1, ObjectsAfter DEF Base, data
<1>6. TypesBut(t)
  BY DEF TypesBut, Base, TypeOK, data
<1>7. ASSUME calls'[t] # <<>>
      PROVE  PassedBy(Top(t))'
  <2>1. L - 1 \in 1..(L - 1) /\ (L - 1) + 1 = L
    BY <1>1, <1>7, EmptySeq
  <2>2. CalledBy(calls[t][L - 1], calls[t][(L - 1) + 1])
    BY <2>1 DEF Base, Stacks
  <2>3. Top(t)' = calls[t][L - 1]
    BY <1>1, <2>1 DEF Top, Last
  <2> QED BY <2>2, <2>3 DEF CalledBy, PassedBy
<1> QED BY <1>1, <1>3, <1>4, <1>5, <1>6, <1>7, BaseAfter DEF data

(* A thread that is in no call makes one.                                   *)
LEMMA QuietStart ==
  ASSUME Base, NEW t \in Threads, calls[t] = <<>>, NEW f \in Frames,
         calls' = [calls EXCEPT ![t] = <<f>>], f.at \in {"check", "rmLock"},
         IF f.at \in OnType THEN f.of \in Types /\ f.i > 0
                            ELSE f.of \in Modules \cup {AllModules},
         UNCHANGED <<pThe, life, registry, mgr, lockAll, inExit>>, unloaded' \subseteq Modules
  PROVE  Base'
<1>1. /\ calls' \in [Threads -> Seq(Frames)]
      /\ \A u \in Threads : u # t => calls'[u] = calls[u]
      /\ Len(calls[t]) = 0 /\ Len(calls'[t]) = 1 /\ calls'[t][1] = f
      /\ calls[t] \in Seq(Frames) /\ calls'[t] \in Seq(Frames)
  BY AfterStart DEF TypeOK, Base
<1>2. Stacks'
  BY StacksStart DEF Base
<1>3. Cardinality(Held(calls'[t])) = Cardinality(Held(calls[t]))
  <2> DEFINE held == Cardinality(Held(calls[t]))
  <2>1. /\ held \in Nat
        /\ Cardinality(Held(calls'[t])) = held
             + (IF calls'[t][Len(calls'[t])].at \in Inside THEN 1 ELSE 0)
    <3>1. /\ Len(calls'[t]) = Len(calls[t]) + 1
          /\ \A k \in 1..Len(calls[t]) : calls'[t][k] = calls[t][k]
      BY <1>1
    <3> DEFINE was == calls[t]
               n == calls'[t]
    <3>2. was \in Seq(Frames) /\ n \in Seq(Frames) /\ Len(n) = Len(was) + 1
          /\ \A k \in 1..Len(was) : n[k] = was[k]
      BY <1>1, <3>1
    <3> HIDE DEF was, n
    <3>3. /\ Cardinality(Held(was)) \in Nat
          /\ Cardinality(Held(n)) = Cardinality(Held(was))
               + (IF n[Len(n)].at \in Inside THEN 1 ELSE 0)
      BY <3>2, HeldPushed
    <3> QED BY <3>3 DEF was, n
  <2> HIDE DEF held
  <2>2. Cardinality(Held(calls'[t])) = held
    BY <1>1, <2>1 DEF Inside
  <2> QED BY <2>2 DEF held
<1>4. OneHolder' /\ Nested'
  BY <1>1, <1>3, LockAfter DEF Base
<1>5. Objects'
  <2>1. \A k \in 1..Len(calls'[t]) : calls'[t][k].at \notin Making
    BY <1>1 DEF Making
  <2> QED BY <1>1, <2>1, ObjectsAfter DEF Base
<1>6. TypesBut(t)
  BY DEF TypesBut, Base, TypeOK
<1>7. PassedBy(Top(t))'
  BY <1>1 DEF Top, Last, PassedBy
<1> QED BY <1>1, <1>2, <1>4, <1>5, <1>6, <1>7, BaseAfter

-----------------------------------------------------------------------------
(* The frame on top is what its place in the code makes it.                 *)
LEMMA TopIs ==
  ASSUME Base, NEW t \in Threads, calls[t] # <<>>
  PROVE  /\ Top(t) \in Frames /\ Top(t).i \in Nat
         /\ Len(calls[t]) \in 1..Len(calls[t]) /\ calls[t][Len(calls[t])] = Top(t)
         /\ IF Top(t).at \in OnType THEN Top(t).of \in Types /\ Top(t).i > 0
                                    ELSE Top(t).of \in Modules \cup {AllModules}
         /\ PassedBy(Top(t))
<1>1. /\ calls[t] \in Seq(Frames) /\ Len(calls[t]) \in Nat /\ Len(calls[t]) > 0
  BY EmptySeq DEF Base, TypeOK
<1>2. Len(calls[t]) \in 1..Len(calls[t]) /\ calls[t][Len(calls[t])] = Top(t)
  BY <1>1 DEF Top, Last
<1>3. Top(t) \in Frames
  BY <1>1, <1>2, ElementOfSeq
<1>4. Top(t).i \in Nat
  BY <1>3 DEF Frames
<1>5. PassedBy(Top(t))
  BY DEF Base, Loop, PassedBy, In, Top
<1> QED BY <1>2, <1>3, <1>4, <1>5 DEF Base, Stacks

(* A frame that has moved to another place.                                 *)
LEMMA Moved ==
  ASSUME NEW f \in Frames, NEW at \in OnType \cup OnModule
  PROVE  /\ [f EXCEPT !.at = at] \in Frames
         /\ [f EXCEPT !.at = at].at = at /\ [f EXCEPT !.at = at].of = f.of
         /\ [f EXCEPT !.at = at].i = f.i
BY DEF Frames

LEMMA StepGoesOn ==
  ASSUME Base, NEW t \in Threads,
         \/ Check(t) \/ LockAll(t) \/ UnlockAll(t) \/ ReleaseModule(t)
         \/ ReleaseSkip(t) \/ ReleaseRestart(t)
         \/ Recheck(t) /\ pThe[Top(t).of]
  PROVE  Base'
<1> DEFINE f == Top(t)
<1>1. calls[t] # <<>>
  BY DEF Check, LockAll, UnlockAll, ReleaseModule, ReleaseSkip, ReleaseRestart, Recheck, In
<1>2. /\ f \in Frames /\ f.i \in Nat
      /\ IF f.at \in OnType THEN f.of \in Types /\ f.i > 0 ELSE f.of \in Modules \cup {AllModules}
      /\ PassedBy(f)
  BY <1>1, TopIs
<1>3. ASSUME NEW at \in OnType \cup OnModule, Move(t, at), UNCHANGED <<data, mgr>>,
             at \in OnType \ Making, f.at \in OnType \ {"dtor"},
             \/ lockAll' = lockAll /\ (at \in Inside <=> f.at \in Inside)
             \/ R!Acquire(t) /\ at \in Inside /\ f.at \notin Inside
             \/ R!Release(t) /\ at \notin Inside /\ f.at \in Inside
      PROVE  Base'
  <2> DEFINE g == [f EXCEPT !.at = at]
  <2>1. g \in Frames /\ g.at = at /\ g.of = f.of /\ g.i = f.i
    BY <1>2, Moved
  <2>2. Become(t, g)
    BY <1>3 DEF Move
  <2>3. f.i > 0 /\ at # "dtor" /\ at # "rmLoop"
    BY <1>2, <1>3 DEF Making, OnType
  <2> HIDE DEF g
  <2> QED BY <1>1, <1>3, <2>1, <2>2, <2>3, QuietBecome DEF PassedBy
<1>4. CASE Check(t)
  <2>1. f.at = "check" /\ Move(t, IF pThe[f.of] THEN "return" ELSE "lock")
    BY <1>4 DEF Check, In, Top
  <2> QED BY <1>3, <1>4, <2>1 DEF Check, data, OnType, OnModule, Making, Inside
<1>5. CASE LockAll(t)
  BY <1>3, <1>5 DEF LockAll, In, Top, data, OnType, OnModule, Making, Inside
<1>6. CASE UnlockAll(t)
  BY <1>3, <1>6 DEF UnlockAll, In, Top, data, OnType, OnModule, Making, Inside
<1>7. CASE Recheck(t) /\ pThe[f.of]
  BY <1>3, <1>7 DEF Recheck, In, Top, data, OnType, OnModule, Making, Inside
<1>8. ASSUME NEW at \in OnModule, NEW i \in Nat, Become(t, Frame(at, f.of, i)), f.at \in OnModule,
             UNCHANGED <<data, mgr>>,
             \/ lockAll' = lockAll /\ (at \in Inside <=> f.at \in Inside)
             \/ R!Acquire(t) /\ at \in Inside /\ f.at \notin Inside,
             PassedBy(Frame(at, f.of, i))
      PROVE  Base'
  <2> DEFINE g == Frame(at, f.of, i)
  <2>1. g \in Frames /\ g.at = at /\ g.of = f.of
    BY <1>2 DEF Frame, Frames
  <2>2. at \notin OnType /\ f.at \notin OnType /\ at # "dtor" /\ f.at # "dtor" /\ at \notin Making
    BY <1>8 DEF OnModule, OnType, Making
  <2> HIDE DEF g
  <2> QED BY <1>1, <1>8, <2>1, <2>2, QuietBecome DEF g
<1>9. Len(registry) \in Nat
  BY DEF Base, TypeOK
<1>10. PassedBy(Frame("rmLoop", f.of, Len(registry)))
  BY <1>9 DEF PassedBy, Frame
<1>11. CASE ReleaseModule(t)
  BY <1>8, <1>9, <1>10, <1>11 DEF ReleaseModule, In, Top, data, OnModule, Inside
<1>12. CASE ReleaseRestart(t)
  BY <1>8, <1>9, <1>10, <1>12 DEF ReleaseRestart, In, Top, data, OnModule, Inside
<1>13. CASE ReleaseSkip(t)
  <2>1. /\ f.at = "rmLoop" /\ f.i > 0 /\ f.of # AllModules /\ ModuleOf[registry[f.i]] # f.of
        /\ Become(t, [f EXCEPT !.i = @ - 1])
    BY <1>13 DEF ReleaseSkip, In, Top
  <2>2. [f EXCEPT !.i = @ - 1] = Frame("rmLoop", f.of, f.i - 1)
    BY <1>2, <2>1 DEF Frames, Frame
  <2>3. PassedBy(Frame("rmLoop", f.of, f.i - 1))
    BY <1>2, <1>9, <2>1 DEF PassedBy, Frame
  <2> QED BY <1>2, <1>8, <1>13, <2>1, <2>2, <2>3 DEF ReleaseSkip, data, OnModule, Inside
<1> QED BY <1>4, <1>5, <1>6, <1>7, <1>11, <1>12, <1>13

(* What a constructor or a destructor calls for.                            *)
LEMMA StepCallsFor ==
  ASSUME Base, NEW t \in Threads,
         \/ Construct(t) /\ Top(t).i <= Len(Uses[Top(t).of])
         \/ Destruct(t) /\ Top(t).i <= Len(DtorUses[Top(t).of])
  PROVE  Base'
<1> DEFINE f == Top(t)
           g == [f EXCEPT !.i = @ + 1]
<1>1. calls[t] # <<>> /\ f.at \in {"ctor", "dtor"}
  BY DEF Construct, Destruct, In, Top
<1>2. f \in Frames /\ f.i \in Nat /\ f.of \in Types /\ f.i > 0
  BY <1>1, TopIs DEF OnType
<1>3. g \in Frames /\ g.at = f.at /\ g.of = f.of /\ g.i = f.i + 1
  BY <1>2 DEF Frames
<1> HIDE DEF g
<1>4. CASE Construct(t) /\ f.i <= Len(Uses[f.of])
  <2> DEFINE y == Uses[f.of][f.i]
  <2>1. f.at = "ctor" /\ CallFrom(t, g, GetSingle(y)) /\ UNCHANGED <<data, mgr, lockAll>>
    BY <1>4 DEF Construct, In, Top, data, g
  <2>2. Uses[f.of] \in Seq(Types) /\ f.i \in 1..Len(Uses[f.of])
    BY <1>2, <1>4, SingletonAssumption
  <2>3. y \in Types
    BY <2>2, ElementOfSeq
  <2>4. CalledBy(g, GetSingle(y))
    BY <1>2, <1>3, <2>1, <2>2 DEF CalledBy, GetSingle, Frame, OnType
  <2> HIDE DEF y
  <2> QED BY <1>1, <1>2, <1>3, <2>1, <2>3, <2>4, QuietCallFrom
<1>5. CASE Destruct(t) /\ f.i <= Len(DtorUses[f.of])
  <2> DEFINE y == DtorUses[f.of][f.i]
  <2>1. f.at = "dtor" /\ CallFrom(t, g, GetSingle(y)) /\ UNCHANGED <<data, mgr, lockAll>>
    BY <1>5 DEF Destruct, In, Top, data, g
  <2>2. DtorUses[f.of] \in Seq(Types) /\ f.i \in 1..Len(DtorUses[f.of])
    BY <1>2, <1>5, SingletonAssumption
  <2>3. y \in Types
    BY <2>2, ElementOfSeq
  <2>4. CalledBy(g, GetSingle(y))
    BY <1>2, <1>3, <2>1, <2>2 DEF CalledBy, GetSingle, Frame, OnType
  <2> HIDE DEF y
  <2> QED BY <1>1, <1>2, <1>3, <2>1, <2>3, <2>4, QuietCallFrom
<1> QED BY <1>4, <1>5

LEMMA StepReturns ==
  ASSUME Base, NEW t \in Threads, ReturnSingle(t) \/ ReleaseDone(t)
  PROVE  Base'
<1>1. calls[t] # <<>> /\ Return(t) /\ UNCHANGED data
  BY DEF ReturnSingle, ReleaseDone, In, data
<1>2. mgr' \in BOOLEAN
  BY DEF ReturnSingle, ReleaseDone, Base, TypeOK
<1>3. \/ lockAll' = lockAll /\ Top(t).at \notin Inside
      \/ R!Release(t) /\ Top(t).at \in Inside
  BY DEF ReturnSingle, ReleaseDone, In, Top, Inside
<1> QED BY <1>1, <1>2, <1>3, QuietReturn

LEMMA StepStarts ==
  ASSUME Base, NEW t \in Threads,
         \/ \E y \in Types : Call(t, y)
         \/ \E hMod \in Modules : UnloadModule(t, hMod)
         \/ t = Main /\ DestructMgr
  PROVE  Base'
<1>1. CASE \E y \in Types : Call(t, y)
  <2>1. PICK y \in Types : Call(t, y)
    BY <1>1
  <2> DEFINE f == GetSingle(y)
  <2>2. f \in Frames /\ f.at = "check" /\ f.of \in Types /\ f.i > 0 /\ f.at \in OnType
    BY DEF GetSingle, Frame, Frames, OnType
  <2>3. /\ calls[t] = <<>> /\ calls' = [calls EXCEPT ![t] = <<f>>]
        /\ UNCHANGED <<pThe, life, registry, mgr, lockAll, inExit>> /\ unloaded' \subseteq Modules
    BY <2>1 DEF Call, Base, TypeOK
  <2> HIDE DEF f
  <2> QED BY <2>2, <2>3, QuietStart
<1>2. ASSUME NEW hMod \in Modules \cup {AllModules}, calls[t] = <<>>,
             calls' = [calls EXCEPT ![t] = <<Frame("rmLock", hMod, 0)>>],
             UNCHANGED <<pThe, life, registry, mgr, lockAll, inExit>>, unloaded' \subseteq Modules
      PROVE  Base'
  <2> DEFINE f == Frame("rmLock", hMod, 0)
  <2>1. f \in Frames /\ f.at = "rmLock" /\ f.of = hMod /\ f.at \notin OnType
    BY DEF Frame, Frames, OnType, OnModule
  <2>2. calls' = [calls EXCEPT ![t] = <<f>>]
    BY <1>2
  <2> HIDE DEF f
  <2> QED BY <1>2, <2>1, <2>2, QuietStart
<1>3. CASE \E hMod \in Modules : UnloadModule(t, hMod)
  <2>1. PICK hMod \in Modules : UnloadModule(t, hMod)
    BY <1>3
  <2>2. /\ calls[t] = <<>> /\ UNCHANGED <<pThe, life, registry, mgr, lockAll, inExit>>
        /\ unloaded' \subseteq Modules
    BY <2>1 DEF UnloadModule, Base, TypeOK
  <2>3. CASE mgr
    BY <1>2, <2>1, <2>2, <2>3 DEF UnloadModule
  <2>4. CASE ~ mgr
    <3>1. UNCHANGED calls
      BY <2>1, <2>4 DEF UnloadModule
    <3>2. TypeOK' /\ Stacks' /\ OneHolder' /\ Objects' /\ Loop'
      BY <2>2, <3>1 DEF Base, TypeOK, Stacks, OneHolder, Objects, Loop, In, Top
    <3> QED BY <3>2 DEF Base
  <2> QED BY <2>3, <2>4
<1>4. CASE t = Main /\ DestructMgr
  BY <1>2, <1>4 DEF DestructMgr, Base, TypeOK
<1> QED BY <1>1, <1>3, <1>4

-----------------------------------------------------------------------------
(* Nobody else is inside the lock, nor makes or deletes anything.           *)
LEMMA Alone ==
  ASSUME Base, NEW t \in Threads, calls[t] # <<>>, Top(t).at \in Inside \cup Making,
         NEW u \in Threads, u # t
  PROVE  /\ \A k \in 1..Len(calls[u]) : calls[u][k].at \notin Inside \cup Making
         /\ ~ In(u, "rmLoop")
<1>1. \A k \in 1..Len(calls[u]) : calls[u][k].at \notin Inside \cup Making
  BY TopIs, SameHolder DEF Base
<1>2. ASSUME In(u, "rmLoop")
      PROVE  FALSE
  <2>1. calls[u] # <<>> /\ Top(u).at = "rmLoop"
    BY <1>2 DEF In, Top
  <2>2. Len(calls[u]) \in 1..Len(calls[u]) /\ calls[u][Len(calls[u])] = Top(u)
    BY <2>1, TopIs
  <2> QED BY <1>1, <2>1, <2>2 DEF Inside
<1> QED BY <1>1, <1>2

Stage == [ctor |-> "building", register |-> "ready", dtor |-> "dying"]

(* A step of the thread that is inside the lock, about the object of y:     *)
(* the other objects stay as they are, the list may have y from now on, and *)
(* y may have one call, at place m of the stack.                            *)
OnlyObject(y) ==
  /\ \A z \in Types : z # y => pThe'[z] = pThe[z] /\ life'[z] = life[z]
  /\ pThe'[y] <=> life'[y] # "none"
  /\ \A k \in 1..Len(registry') :
       IF registry'[k] = y THEN life'[y] = "ready" ELSE Contains(registry, registry'[k])

OnlyCall(t, y, m) ==
  \A k \in 1..Len(calls'[t]) : calls'[t][k].at \in Making =>
    \/ k \in 1..Len(calls[t]) /\ calls'[t][k] = calls[t][k] /\ calls[t][k].of # y
    \/ /\ k = m /\ calls'[t][k].of = y /\ ~ Contains(registry', y)
       /\ life'[y] = Stage[calls'[t][k].at]

LEMMA ObjectsMade ==
  ASSUME Base, NEW t \in Threads, calls[t] # <<>>, Top(t).at \in Inside \cup Making,
         \A u \in Threads : u # t => calls'[u] = calls[u],
         NEW y \in Types, NEW m \in Nat, registry' \in Seq(Types),
         OnlyObject(y), OnlyCall(t, y, m)
  PROVE  Objects'
<1>1. ASSUME NEW u \in Threads, NEW k \in 1..Len(calls'[u]), calls'[u][k].at \in Making
      PROVE  /\ u = t
             /\ \/ /\ k \in 1..Len(calls[t]) /\ calls'[u][k] = calls[t][k]
                   /\ calls[t][k].of \in Types \ {y}
                \/ /\ k = m /\ calls'[u][k].of = y /\ ~ Contains(registry', y)
                   /\ life'[y] = Stage[calls'[u][k].at]
  <2>1. u = t
    BY <1>1, Alone
  <2>2. ASSUME k \in 1..Len(calls[t]), calls'[t][k] = calls[t][k]
        PROVE  calls[t][k].of \in Types
    BY <1>1, <2>1, <2>2 DEF Base, Stacks, Making, OnType
  <2> QED BY <1>1, <2>1, <2>2 DEF OnlyCall
<1>2. \A z \in Types : pThe'[z] <=> life'[z] # "none"
  BY DEF Base, Objects, OnlyObject
<1>3. \A k \in 1..Len(registry') : life'[registry'[k]] = "ready"
  <2> SUFFICES ASSUME NEW k \in 1..Len(registry'), registry'[k] # y
               PROVE  life'[registry'[k]] = "ready"
    BY DEF OnlyObject
  <2>1. registry'[k] \in Types /\ Contains(registry, registry'[k])
    BY ElementOfSeq DEF OnlyObject
  <2>2. PICK j \in 1..Len(registry) : registry[j] = registry'[k]
    BY <2>1 DEF Contains
  <2>3. life[registry'[k]] = "ready"
    BY <2>2 DEF Base, Objects
  <2> QED BY <2>1, <2>3 DEF OnlyObject
<1>4. ASSUME NEW u \in Threads, NEW k \in 1..Len(calls'[u])
      PROVE  /\ calls'[u][k].at = "ctor" => life'[calls'[u][k].of] = "building"
             /\ calls'[u][k].at = "register" => life'[calls'[u][k].of] = "ready"
             /\ calls'[u][k].at = "dtor" => life'[calls'[u][k].of] = "dying"
             /\ calls'[u][k].at \in Making => ~ Contains(registry', calls'[u][k].of)
  <2>1. CASE calls'[u][k].at \notin Making
    BY <2>1 DEF Making
  <2>2. CASE calls'[u][k].at \in Making /\ calls'[u][k].of = y
    <3>1. calls'[u][k].of = y /\ ~ Contains(registry', y)
          /\ life'[y] = Stage[calls'[u][k].at]
      BY <1>1, <2>2
    <3> QED BY <3>1 DEF Stage
  <2>3. CASE calls'[u][k].at \in Making /\ calls'[u][k].of # y
    <3>1. /\ k \in 1..Len(calls[t]) /\ calls'[u][k] = calls[t][k]
          /\ calls[t][k].of \in Types \ {y}
      BY <1>1, <2>3
    <3>2. life'[calls[t][k].of] = life[calls[t][k].of]
      BY <3>1 DEF OnlyObject
    <3>3. ~ Contains(registry, calls[t][k].of)
      BY <2>3, <3>1 DEF Base, Objects
    <3>4. ~ Contains(registry', calls[t][k].of)
      <4> DEFINE z == calls[t][k].of
      <4>1. z # y /\ ~ Contains(registry, z)
        BY <3>1, <3>3
      <4> HIDE DEF z
      <4>2. ~ Contains(registry', z)
        BY <4>1 DEF Contains, OnlyObject
      <4> QED BY <4>2 DEF z
    <3> QED BY <3>1, <3>2, <3>4 DEF Base, Objects
  <2> QED BY <2>1, <2>2, <2>3
<1>5. ASSUME NEW u \in Threads, NEW j \in 1..Len(calls'[u]), NEW k \in 1..Len(calls'[u]),
             calls'[u][j].at \in Making, calls'[u][k].at \in Making,
             calls'[u][j].of = calls'[u][k].of
      PROVE  j = k
  <2>1. CASE calls'[u][j].of = y
    <3>1. \A n \in 1..Len(calls'[u]) : calls'[u][n].at \in Making /\ calls'[u][n].of = y => n = m
      BY <1>1
    <3> QED BY <1>5, <2>1, <3>1
  <2>2. CASE calls'[u][j].of # y
    <3>1. /\ j \in 1..Len(calls[t]) /\ calls'[u][j] = calls[t][j]
          /\ k \in 1..Len(calls[t]) /\ calls'[u][k] = calls[t][k]
      BY <1>1, <1>5, <2>2
    <3> QED BY <1>5, <3>1 DEF Base, Objects
  <2> QED BY <2>1, <2>2
<1> QED BY <1>2, <1>3, <1>4, <1>5 DEF Objects

(* The calls below the one on top are about other objects.                  *)
LEMMA OthersBelow ==
  ASSUME Base, NEW t \in Threads, calls[t] # <<>>, Top(t).at \in Making \/ life[Top(t).of] = "none",
         NEW k \in 1..(Len(calls[t]) - 1), calls[t][k].at \in Making
  PROVE  calls[t][k].of # Top(t).of
<1>1. /\ Len(calls[t]) \in 1..Len(calls[t]) /\ calls[t][Len(calls[t])] = Top(t)
      /\ k \in 1..Len(calls[t]) /\ k # Len(calls[t])
  BY TopIs DEF Base, TypeOK
<1>2. life[calls[t][k].of] # "none"
  BY <1>1 DEF Base, Objects, Making
<1> QED BY <1>1, <1>2 DEF Base, Objects

(* new TYPE(): there is no object, so no other call is about one.           *)
LEMMA StepMakes ==
  ASSUME Base, NEW t \in Threads, Recheck(t), ~ pThe[Top(t).of]
  PROVE  Base'
<1> DEFINE f == Top(t)
           y == f.of
           g == [f EXCEPT !.at = "ctor"]
           L == Len(calls[t])
<1>1. /\ calls[t] # <<>> /\ f.at = "recheck" /\ Become(t, g)
      /\ pThe' = [pThe EXCEPT ![y] = TRUE] /\ life' = [life EXCEPT ![y] = "building"]
      /\ UNCHANGED <<registry, mgr, lockAll, inExit, unloaded>>
  BY DEF Recheck, In, Top, Move
<1>2. f \in Frames /\ f.i > 0 /\ y \in Types /\ L \in 1..L /\ calls[t][L] = f
  BY <1>1, TopIs DEF OnType
<1>3. g \in Frames /\ g.at = "ctor" /\ g.of = y /\ g.i = f.i
  BY <1>2, Moved DEF OnType
<1> HIDE DEF f, g
<1>4. /\ calls' \in [Threads -> Seq(Frames)]
      /\ \A u \in Threads : u # t => calls'[u] = calls[u]
      /\ L \in Nat /\ Len(calls'[t]) = L /\ calls'[t][L] = g
      /\ \A k \in 1..(L - 1) : calls'[t][k] = calls[t][k]
  BY <1>1, <1>3, AfterBecome DEF Base, TypeOK
<1>5. Stacks'
  BY <1>1, <1>2, <1>3, StacksBecome DEF Base, OnType, f
<1>6. OneHolder' /\ Nested'
  BY <1>1, <1>3, LockBecome DEF Base, Inside, f
<1>7. \A u \in Threads : u # t => ~ In(u, "rmLoop")
  BY <1>1, Alone DEF Inside, f
<1>8. life[y] = "none" /\ ~ Contains(registry, y)
  BY <1>2 DEF Base, Objects, Contains, f
<1>9. TypesBut(t)
  BY <1>1, <1>2 DEF TypesBut, Base, TypeOK
<1>10. Objects'
  <2>1. /\ \A z \in Types : z # y => pThe'[z] = pThe[z] /\ life'[z] = life[z]
        /\ pThe'[y] = TRUE /\ life'[y] = "building"
    BY <1>1, <1>2 DEF Base, TypeOK
  <2>2. \A k \in 1..Len(registry') : registry'[k] # y /\ Contains(registry, registry'[k])
    BY <1>1, <1>8 DEF Contains
  <2>3. ASSUME NEW k \in 1..Len(calls'[t]), calls'[t][k].at \in Making, k # L
        PROVE  k \in 1..L /\ calls'[t][k] = calls[t][k] /\ calls[t][k].of # y
    <3>1. k \in 1..(L - 1) /\ k \in 1..L /\ calls'[t][k] = calls[t][k]
      BY <1>4, <2>3
    <3> QED BY <1>1, <1>8, <2>3, <3>1, OthersBelow DEF f
  <2>4. ~ Contains(registry', y) /\ Top(t).at \in Inside
    BY <1>1, <1>8 DEF Inside, f
  <2>5. OnlyCall(t, y, L)
    BY <1>3, <1>4, <2>1, <2>3, <2>4 DEF OnlyCall, Stage
  <2>6. OnlyObject(y)
    BY <2>1, <2>2 DEF OnlyObject
  <2>7. registry' \in Seq(Types) /\ Top(t).at \in Inside \cup Making
    BY <1>9, <2>4 DEF TypesBut
  <2> QED BY <1>1, <1>2, <1>4, <2>5, <2>6, <2>7, ObjectsMade
<1>11. PassedBy(Top(t))'
  BY <1>3, <1>4 DEF Top, Last, PassedBy
<1> QED BY <1>4, <1>5, <1>6, <1>7, <1>9, <1>10, <1>11, BaseAfter

(* The constructor has run.                                                 *)
LEMMA StepBuilt ==
  ASSUME Base, NEW t \in Threads, Construct(t), ~ (Top(t).i <= Len(Uses[Top(t).of]))
  PROVE  Base'
<1> DEFINE f == Top(t)
           y == f.of
           g == [f EXCEPT !.at = "register"]
           L == Len(calls[t])
<1>1. /\ calls[t] # <<>> /\ f.at = "ctor" /\ Become(t, g)
      /\ life' = [life EXCEPT ![y] = "ready"]
      /\ UNCHANGED <<pThe, registry, mgr, lockAll, inExit, unloaded>>
  BY DEF Construct, In, Top, Move
<1>2. f \in Frames /\ f.i > 0 /\ y \in Types /\ L \in 1..L /\ calls[t][L] = f
  BY <1>1, TopIs DEF OnType
<1>3. g \in Frames /\ g.at = "register" /\ g.of = y /\ g.i = f.i
  BY <1>2, Moved DEF OnType
<1> HIDE DEF f, g
<1>4. /\ calls' \in [Threads -> Seq(Frames)]
      /\ \A u \in Threads : u # t => calls'[u] = calls[u]
      /\ L \in Nat /\ Len(calls'[t]) = L /\ calls'[t][L] = g
      /\ \A k \in 1..(L - 1) : calls'[t][k] = calls[t][k]
  BY <1>1, <1>3, AfterBecome DEF Base, TypeOK
<1>5. Stacks'
  BY <1>1, <1>2, <1>3, StacksBecome DEF Base, OnType, f
<1>6. OneHolder' /\ Nested'
  BY <1>1, <1>3, LockBecome DEF Base, Inside, f
<1>7. \A u \in Threads : u # t => ~ In(u, "rmLoop")
  BY <1>1, Alone DEF Inside, f
<1>8. life[y] = "building" /\ pThe[y] /\ ~ Contains(registry, y)
  BY <1>1, <1>2 DEF Base, Objects, Making
<1>9. TypesBut(t)
  BY <1>1, <1>2 DEF TypesBut, Base, TypeOK
<1>10. Objects'
  <2>1. /\ \A z \in Types : z # y => pThe'[z] = pThe[z] /\ life'[z] = life[z]
        /\ pThe'[y] = TRUE /\ life'[y] = "ready"
    BY <1>1, <1>2, <1>8 DEF Base, TypeOK
  <2>2. \A k \in 1..Len(registry') : registry'[k] # y /\ Contains(registry, registry'[k])
    BY <1>1, <1>8 DEF Contains
  <2>3. ASSUME NEW k \in 1..Len(calls'[t]), calls'[t][k].at \in Making, k # L
        PROVE  k \in 1..L /\ calls'[t][k] = calls[t][k] /\ calls[t][k].of # y
    <3>1. k \in 1..(L - 1) /\ k \in 1..L /\ calls'[t][k] = calls[t][k]
      BY <1>4, <2>3
    <3> QED BY <1>1, <2>3, <3>1, OthersBelow DEF f, Making
  <2>4. ~ Contains(registry', y) /\ Top(t).at \in Inside
    BY <1>1, <1>8 DEF Inside, f
  <2>5. OnlyCall(t, y, L)
    BY <1>3, <1>4, <2>1, <2>3, <2>4 DEF OnlyCall, Stage
  <2>6. OnlyObject(y)
    BY <2>1, <2>2 DEF OnlyObject
  <2>7. registry' \in Seq(Types) /\ Top(t).at \in Inside \cup Making
    BY <1>9, <2>4 DEF TypesBut
  <2> QED BY <1>1, <1>2, <1>4, <2>5, <2>6, <2>7, ObjectsMade
<1>11. PassedBy(Top(t))'
  BY <1>3, <1>4 DEF Top, Last, PassedBy
<1> QED BY <1>4, <1>5, <1>6, <1>7, <1>9, <1>10, <1>11, BaseAfter

(* What is added to the list is not there yet.                              *)
LEMMA Added ==
  ASSUME Base, NEW y \in Types, ~ Contains(registry, y)
  PROVE  /\ Append(registry, y) \in Seq(Types) /\ IsInjective(Append(registry, y))
         /\ Len(registry) \in Nat /\ Len(Append(registry, y)) = Len(registry) + 1
         /\ Append(registry, y)[Len(registry) + 1] = y
         /\ \A k \in 1..Len(registry) : Append(registry, y)[k] = registry[k]
<1>1. registry \in Seq(Types) /\ IsInjective(registry) /\ Len(registry) \in Nat
  BY DEF Base, TypeOK
<1> DEFINE n == Append(registry, y)
<1>2. /\ n \in Seq(Types) /\ Len(n) = Len(registry) + 1 /\ n[Len(registry) + 1] = y
      /\ \A k \in 1..Len(registry) : n[k] = registry[k]
  BY <1>1
<1> HIDE DEF n
<1>3. \A j, k \in 1..Len(registry) : registry[j] = registry[k] => j = k
  BY <1>1 DEF IsInjective
<1>4. DOMAIN n = 1..Len(n)
  BY <1>2
<1>5. IsInjective(n)
  <2> SUFFICES ASSUME NEW j \in 1..Len(n), NEW k \in 1..Len(n), n[j] = n[k]
               PROVE  j = k
    BY <1>4 DEF IsInjective
  <2>1. j \in 1..Len(registry) => n[j] = registry[j] /\ n[j] # y
    BY <1>2 DEF Contains
  <2>2. k \in 1..Len(registry) => n[k] = registry[k] /\ n[k] # y
    BY <1>2 DEF Contains
  <2> QED BY <1>1, <1>2, <1>3, <2>1, <2>2
<1> QED BY <1>1, <1>2, <1>5 DEF n

(* The object is put into the list, but for the time of the exit.           *)
LEMMA StepRegisters ==
  ASSUME Base, NEW t \in Threads, RegisterSingleton(t)
  PROVE  Base'
<1> DEFINE f == Top(t)
           y == f.of
           g == [f EXCEPT !.at = "unlock"]
           L == Len(calls[t])
<1>1. /\ calls[t] # <<>> /\ f.at = "register" /\ Become(t, g)
      /\ IF inExit THEN UNCHANGED <<registry, mgr>>
         ELSE /\ registry' = IF Contains(registry, y) THEN registry ELSE Append(registry, y)
              /\ mgr' = TRUE
      /\ UNCHANGED <<pThe, life, lockAll, inExit, unloaded>>
  BY DEF RegisterSingleton, In, Top, Move
<1>2. f \in Frames /\ f.i > 0 /\ y \in Types /\ L \in 1..L /\ calls[t][L] = f
  BY <1>1, TopIs DEF OnType
<1>3. g \in Frames /\ g.at = "unlock" /\ g.of = y /\ g.i = f.i
  BY <1>2, Moved DEF OnType
<1> HIDE DEF f, g
<1>4. /\ calls' \in [Threads -> Seq(Frames)]
      /\ \A u \in Threads : u # t => calls'[u] = calls[u]
      /\ L \in Nat /\ Len(calls'[t]) = L /\ calls'[t][L] = g
      /\ \A k \in 1..(L - 1) : calls'[t][k] = calls[t][k]
  BY <1>1, <1>3, AfterBecome DEF Base, TypeOK
<1>5. Stacks'
  BY <1>1, <1>2, <1>3, StacksBecome DEF Base, OnType, f
<1>6. OneHolder' /\ Nested'
  BY <1>1, <1>3, LockBecome DEF Base, Inside, f
<1>7. \A u \in Threads : u # t => ~ In(u, "rmLoop")
  BY <1>1, Alone DEF Inside, f
<1>8. life[y] = "ready" /\ pThe[y] /\ ~ Contains(registry, y)
  BY <1>1, <1>2 DEF Base, Objects, Making
<1>9. registry' = IF inExit THEN registry ELSE Append(registry, y)
  BY <1>1, <1>8
<1>10. registry' \in Seq(Types) /\ IsInjective(registry')
  BY <1>2, <1>8, <1>9, Added DEF Base, TypeOK
<1>11. TypesBut(t)
  BY <1>1, <1>10 DEF TypesBut, Base, TypeOK
<1>12. Objects'
  <2>1. \A k \in 1..Len(registry') : registry'[k] = y \/ Contains(registry, registry'[k])
    <3>1. CASE inExit
      BY <1>9, <3>1 DEF Contains
    <3>2. CASE ~ inExit
      BY <1>2, <1>8, <1>9, <3>2, Added DEF Contains
    <3> QED BY <3>1, <3>2
  <2>2. OnlyObject(y)
    BY <1>1, <1>2, <1>8, <2>1 DEF OnlyObject
  <2>3. ASSUME NEW k \in 1..Len(calls'[t]), calls'[t][k].at \in Making
        PROVE  k \in 1..L /\ calls'[t][k] = calls[t][k] /\ calls[t][k].of # y
    <3>1. k # L
      BY <1>3, <1>4, <2>3 DEF Making
    <3>2. k \in 1..(L - 1) /\ k \in 1..L /\ calls'[t][k] = calls[t][k]
      BY <1>4, <2>3, <3>1
    <3> QED BY <1>1, <2>3, <3>2, OthersBelow DEF f, Making
  <2>4. OnlyCall(t, y, L)
    BY <2>3 DEF OnlyCall
  <2>5. Top(t).at \in Inside \cup Making
    BY <1>1 DEF Inside, f
  <2> QED BY <1>1, <1>2, <1>4, <1>10, <2>2, <2>4, <2>5, ObjectsMade
<1>13. PassedBy(Top(t))'
  BY <1>3, <1>4 DEF Top, Last, PassedBy
<1> QED BY <1>4, <1>5, <1>6, <1>7, <1>11, <1>12, <1>13, BaseAfter

(* What is left of the list when an entry is taken out.                     *)
LEMMA Removed ==
  ASSUME NEW s \in Seq(Types), IsInjective(s), NEW i \in 1..Len(s)
  PROVE  LET n == RemoveAt(s, i)
         IN  /\ n \in Seq(Types) /\ IsInjective(n) /\ Len(n) = Len(s) - 1
             /\ \A k \in 1..Len(n) : n[k] = IF k < i THEN s[k] ELSE s[k + 1]
             /\ \A k \in 1..Len(n) : Contains(s, n[k]) /\ n[k] # s[i]
<1> DEFINE len == Len(s)
           low == i - 1
           high == i + 1
           a == SubSeq(s, 1, low)
           b == SubSeq(s, high, len)
           n == a \o b
<1>1. len \in Nat /\ i \in 1..len /\ low \in Int /\ high \in Int
  OBVIOUS
<1>2. \A k \in 1..len : s[k] \in Types
  BY ElementOfSeq
<1>3. /\ a \in Seq(Types) /\ Len(a) = (IF 1 <= low THEN low - 1 + 1 ELSE 0)
      /\ \A k \in 1..(low - 1 + 1) : a[k] = s[1 + k - 1]
  <2>1. 1 \in Int /\ \A k \in 1..low : s[k] \in Types
    BY <1>1, <1>2
  <2> HIDE DEF low
  <2> QED BY <1>1, <2>1, SubSeqProperties
<1>4. /\ b \in Seq(Types) /\ Len(b) = (IF high <= len THEN len - high + 1 ELSE 0)
      /\ \A k \in 1..(len - high + 1) : b[k] = s[high + k - 1]
  <2>1. len \in Int /\ \A k \in high..len : s[k] \in Types
    BY <1>1, <1>2
  <2> HIDE DEF high, len
  <2> QED BY <1>1, <2>1, SubSeqProperties
<1> HIDE DEF a, b
<1>5. Len(a) = i - 1 /\ \A k \in 1..(i - 1) : a[k] = s[k]
  BY <1>1, <1>3
<1>6. Len(b) = len - i /\ \A k \in 1..(len - i) : b[k] = s[i + k]
  <2>1. Len(b) = len - i
    <3> HIDE DEF len
    <3> QED BY <1>1, <1>4
  <2>2. ASSUME NEW k \in 1..(len - i)
        PROVE  b[k] = s[i + k]
    <3>1. k \in 1..(len - high + 1) /\ high + k - 1 = i + k
      <4> HIDE DEF len
      <4> QED BY <1>1
    <3> QED BY <1>4, <3>1
  <2> QED BY <2>1, <2>2
<1>7. /\ n \in Seq(Types) /\ Len(n) = Len(a) + Len(b)
      /\ \A k \in 1..(Len(a) + Len(b)) : n[k] = IF k <= Len(a) THEN a[k] ELSE b[k - Len(a)]
  BY <1>3, <1>4, ConcatProperties
<1> HIDE DEF n
<1>8. Len(n) = len - 1
  <2> HIDE DEF len
  <2> QED BY <1>1, <1>5, <1>6, <1>7
<1>9. ASSUME NEW k \in 1..Len(n)
      PROVE  /\ n[k] = IF k < i THEN s[k] ELSE s[k + 1]
             /\ (IF k < i THEN k ELSE k + 1) \in 1..len \ {i}
  <2>1. k \in 1..(Len(a) + Len(b)) /\ k \in Nat
    BY <1>7
  <2>2. CASE k < i
    <3>1. k <= Len(a) /\ k \in 1..(i - 1)
      BY <1>1, <1>5, <2>1, <2>2
    <3> QED BY <1>1, <1>5, <1>7, <2>1, <2>2, <3>1
  <2>3. CASE ~ (k < i)
    <3>1. /\ ~ (k <= Len(a)) /\ k - Len(a) \in 1..(len - i) /\ i + (k - Len(a)) = k + 1
          /\ k + 1 \in 1..len \ {i}
      <4> HIDE DEF len
      <4> QED BY <1>1, <1>5, <1>8, <2>1, <2>3
    <3> QED BY <1>6, <1>7, <2>1, <2>3, <3>1
  <2> QED BY <2>2, <2>3
<1>10. \A j, k \in 1..len : s[j] = s[k] => j = k
  BY DEF IsInjective
<1>11. ASSUME NEW j \in 1..Len(n), NEW k \in 1..Len(n), n[j] = n[k]
       PROVE  j = k
  <2>1. (IF j < i THEN j ELSE j + 1) = (IF k < i THEN k ELSE k + 1)
    BY <1>9, <1>10, <1>11
  <2> QED BY <1>1, <2>1
<1>12. IsInjective(n)
  <2>1. DOMAIN n = 1..Len(n)
    BY <1>7
  <2> QED BY <1>11, <2>1 DEF IsInjective
<1>13. \A k \in 1..Len(n) : Contains(s, n[k]) /\ n[k] # s[i]
  BY <1>9, <1>10 DEF Contains
<1>14. RemoveAt(s, i) = n
  BY DEF RemoveAt, n, a, b
<1> QED BY <1>7, <1>8, <1>9, <1>12, <1>13, <1>14

(* ReleaseModule takes an entry out of the list, and deletes the object if  *)
(* nobody has a reference to it.                                            *)
LEMMA StepReleases ==
  ASSUME Base, NEW t \in Threads, ReleaseOne(t)
  PROVE  Base'
<1> DEFINE f == Top(t)
           y == registry[f.i]
           g == [f EXCEPT !.at = "rmRestart"]
           d == Frame("dtor", y, 1)
           L == Len(calls[t])
<1>1. /\ calls[t] # <<>> /\ f.at = "rmLoop" /\ f.i > 0
      /\ registry' = RemoveAt(registry, f.i)
      /\ IF y \in Referenced THEN Become(t, g) /\ UNCHANGED life
         ELSE CallFrom(t, g, d) /\ life' = [life EXCEPT ![y] = "dying"]
      /\ UNCHANGED <<pThe, mgr, lockAll, inExit, unloaded>>
  BY DEF ReleaseOne, In, Top, Move
<1>2. /\ f \in Frames /\ f.i \in Nat /\ L \in 1..L /\ calls[t][L] = f
      /\ f.at \notin OnType /\ f.i <= Len(registry)
  BY <1>1, TopIs DEF OnType, PassedBy
<1>3. registry \in Seq(Types) /\ IsInjective(registry) /\ f.i \in 1..Len(registry)
  BY <1>1, <1>2 DEF Base, TypeOK
<1>4. y \in Types /\ Contains(registry, y) /\ life[y] = "ready" /\ pThe[y]
  <2>1. y \in Types
    BY <1>3, ElementOfSeq
  <2> QED BY <1>3, <2>1 DEF Contains, Base, Objects
<1>5. /\ registry' \in Seq(Types) /\ IsInjective(registry')
      /\ \A k \in 1..Len(registry') : Contains(registry, registry'[k]) /\ registry'[k] # y
  BY <1>1, <1>3, Removed
<1>6. g \in Frames /\ g.at = "rmRestart" /\ g.of = f.of /\ g.i = f.i /\ g.at \notin OnType
  BY <1>2, Moved DEF OnType, OnModule
<1>7. d \in Frames /\ d.at = "dtor" /\ d.of = y /\ d.i > 0 /\ d.at \notin Inside
  BY <1>4 DEF Frame, Frames, OnType, Inside
<1>8. CalledBy(g, d)
  BY <1>4, <1>6, <1>7 DEF CalledBy
<1> HIDE DEF f, g, d, y
<1>9. \A u \in Threads : u # t => ~ In(u, "rmLoop")
  BY <1>1, Alone DEF Inside, f
<1>10. /\ pThe' = pThe /\ (life' = life \/ life' = [life EXCEPT ![y] = "dying"])
  BY <1>1
<1>11. TypesBut(t)
  BY <1>1, <1>4, <1>5 DEF TypesBut, Base, TypeOK
<1>12. OnlyObject(y)
  <2>1. /\ \A z \in Types : z # y => pThe'[z] = pThe[z] /\ life'[z] = life[z]
        /\ pThe'[y] /\ life'[y] # "none"
    BY <1>4, <1>10 DEF Base, TypeOK
  <2> QED BY <1>5, <2>1 DEF OnlyObject
<1>13. \A k \in 1..L : calls[t][k].at \in Making => calls[t][k].of # y
  BY <1>4 DEF Base, Objects
<1>14. ~ Contains(registry', y) /\ Top(t).at \in Inside \cup Making
  BY <1>1, <1>5 DEF Contains, Inside, f
<1>15. CASE y \in Referenced
  <2>1. Become(t, g)
    BY <1>1, <1>15
  <2>2. /\ calls' \in [Threads -> Seq(Frames)]
        /\ \A u \in Threads : u # t => calls'[u] = calls[u]
        /\ L \in Nat /\ Len(calls'[t]) = L /\ calls'[t][L] = g
        /\ \A k \in 1..(L - 1) : calls'[t][k] = calls[t][k]
    BY <1>1, <1>6, <2>1, AfterBecome DEF Base, TypeOK
  <2>3. Stacks'
    BY <1>1, <1>2, <1>6, <2>1, StacksBecome DEF Base, f
  <2>4. OneHolder' /\ Nested'
    BY <1>1, <1>6, <2>1, LockBecome DEF Base, Inside, f
  <2>5. ASSUME NEW k \in 1..Len(calls'[t]), calls'[t][k].at \in Making
        PROVE  k \in 1..L /\ calls'[t][k] = calls[t][k] /\ calls[t][k].of # y
    <3>1. k # L
      BY <1>6, <2>2, <2>5 DEF Making
    <3>2. k \in 1..(L - 1) /\ k \in 1..L /\ calls'[t][k] = calls[t][k]
      BY <2>2, <2>5, <3>1
    <3> QED BY <1>13, <2>5, <3>2
  <2>6. OnlyCall(t, y, L)
    BY <2>5 DEF OnlyCall
  <2>7. Objects'
    BY <1>1, <1>2, <1>4, <1>5, <1>12, <1>14, <2>2, <2>6, ObjectsMade
  <2>8. PassedBy(Top(t))'
    BY <1>6, <2>2 DEF Top, Last, PassedBy
  <2> QED BY <1>9, <1>11, <2>2, <2>3, <2>4, <2>7, <2>8, BaseAfter
<1>16. CASE y \notin Referenced
  <2>1. CallFrom(t, g, d) /\ life' = [life EXCEPT ![y] = "dying"]
    BY <1>1, <1>16
  <2>2. /\ calls' \in [Threads -> Seq(Frames)]
        /\ \A u \in Threads : u # t => calls'[u] = calls[u]
        /\ L \in Nat /\ Len(calls'[t]) = L + 1 /\ calls'[t][L] = g /\ calls'[t][L + 1] = d
        /\ \A k \in 1..(L - 1) : calls'[t][k] = calls[t][k]
    BY <1>1, <1>6, <1>7, <2>1, AfterCallFrom DEF Base, TypeOK
  <2>3. Stacks'
    BY <1>1, <1>2, <1>4, <1>6, <1>7, <1>8, <2>1, StacksCallFrom DEF Base, f
  <2>4. OneHolder' /\ Nested'
    BY <1>1, <1>6, <1>7, <2>1, LockCallFrom DEF Base, Inside, f
  <2>5. ASSUME NEW k \in 1..Len(calls'[t]), calls'[t][k].at \in Making, k # L + 1
        PROVE  k \in 1..L /\ calls'[t][k] = calls[t][k] /\ calls[t][k].of # y
    <3>1. k # L
      BY <1>6, <2>2, <2>5 DEF Making
    <3>2. k \in 1..(L - 1) /\ k \in 1..L /\ calls'[t][k] = calls[t][k]
      BY <2>2, <2>5, <3>1
    <3> QED BY <1>13, <2>5, <3>2
  <2>6. life'[y] = "dying"
    BY <1>4, <2>1 DEF Base, TypeOK
  <2>7. OnlyCall(t, y, L + 1)
    BY <1>7, <1>14, <2>2, <2>5, <2>6 DEF OnlyCall, Stage
  <2>8. Objects' 
    BY <1>1, <1>2, <1>4, <1>5, <1>12, <1>14, <2>2, <2>7, ObjectsMade
  <2>9. PassedBy(Top(t))'
    BY <1>7, <2>2 DEF Top, Last, PassedBy
  <2> QED BY <1>9, <1>11, <2>2, <2>3, <2>4, <2>8, <2>9, BaseAfter
<1> QED BY <1>15, <1>16

(* ~cDependRegister finds no entry, and ~cSingletonType forgets the object. *)
LEMMA StepDestroyed ==
  ASSUME Base, NEW t \in Threads, Destruct(t), ~ (Top(t).i <= Len(DtorUses[Top(t).of]))
  PROVE  Base'
<1> DEFINE f == Top(t)
           y == f.of
           L == Len(calls[t])
<1>1. /\ calls[t] # <<>> /\ f.at = "dtor" /\ Return(t)
      /\ registry' = RemoveFirst(registry, y)
      /\ pThe' = [pThe EXCEPT ![y] = FALSE] /\ life' = [life EXCEPT ![y] = "none"]
      /\ UNCHANGED <<mgr, lockAll, inExit, unloaded>>
  BY DEF Destruct, In, Top
<1>2. f \in Frames /\ y \in Types /\ L \in 1..L /\ calls[t][L] = f
  BY <1>1, TopIs DEF OnType
<1> HIDE DEF f
<1>3. ~ Contains(registry, y)
  BY <1>1, <1>2 DEF Base, Objects, Making
<1>4. registry' = registry
  BY <1>1, <1>3 DEF RemoveFirst, Contains
<1>5. /\ calls' \in [Threads -> Seq(Frames)]
      /\ \A u \in Threads : u # t => calls'[u] = calls[u]
      /\ L \in Nat /\ L > 0 /\ Len(calls'[t]) = L - 1
      /\ \A k \in 1..(L - 1) : calls'[t][k] = calls[t][k]
  BY <1>1, AfterReturn DEF Base, TypeOK
<1>6. Stacks'
  BY <1>1, StacksReturn DEF Base
<1>7. OneHolder' /\ Nested'
  BY <1>1, LockReturn DEF Base, Inside, f
<1>8. TypesBut(t)
  BY <1>1, <1>2, <1>4 DEF TypesBut, Base, TypeOK
<1>9. Objects'
  <2>1. /\ \A z \in Types : z # y => pThe'[z] = pThe[z] /\ life'[z] = life[z]
        /\ pThe'[y] = FALSE /\ life'[y] = "none"
    BY <1>1, <1>2 DEF Base, TypeOK
  <2>2. \A k \in 1..Len(registry') : registry'[k] # y /\ Contains(registry, registry'[k])
    BY <1>3, <1>4 DEF Contains
  <2>3. OnlyObject(y)
    BY <2>1, <2>2 DEF OnlyObject
  <2>4. ASSUME NEW k \in 1..Len(calls'[t]), calls'[t][k].at \in Making
        PROVE  k \in 1..L /\ calls'[t][k] = calls[t][k] /\ calls[t][k].of # y
    <3>1. k \in 1..(L - 1) /\ k \in 1..L /\ calls'[t][k] = calls[t][k]
      BY <1>5, <2>4
    <3> QED BY <1>1, <2>4, <3>1, OthersBelow DEF f, Making
  <2>5. OnlyCall(t, y, L)
    BY <2>4 DEF OnlyCall
  <2>6. registry' \in Seq(Types) /\ Top(t).at \in Inside \cup Making
    BY <1>1, <1>8 DEF TypesBut, Making, f
  <2> QED BY <1>1, <1>2, <1>5, <2>3, <2>5, <2>6, ObjectsMade
<1>10. ASSUME calls'[t] # <<>>
       PROVE  PassedBy(Top(t))'
  <2>1. L - 1 \in 1..(L - 1) /\ (L - 1) + 1 = L
    BY <1>5, <1>10, EmptySeq
  <2>2. CalledBy(calls[t][L - 1], calls[t][(L - 1) + 1])
    BY <2>1 DEF Base, Stacks
  <2>3. Top(t)' = calls[t][L - 1]
    BY <1>5, <2>1 DEF Top, Last
  <2> QED BY <2>2, <2>3 DEF CalledBy, PassedBy
<1> QED BY <1>4, <1>5, <1>6, <1>7, <1>8, <1>9, <1>10, BaseAfter

LEMMA InitBase == Init => Base
<1> SUFFICES ASSUME Init PROVE Base
  OBVIOUS
<1>1. /\ \A t \in Threads : calls[t] = <<>> /\ lockAll[t] = 0 /\ Len(calls[t]) = 0
      /\ registry = <<>> /\ Len(registry) = 0
  BY DEF Init, R!Init
<1>2. \A t \in Threads : Held(calls[t]) = {}
  BY <1>1 DEF Held
<1>3. Cardinality({}) = 0
  BY FS_EmptySet
<1>4. Nested
  <2>1. lockAll = [t \in Threads |-> 0] /\ 0 \in 0..MaxNest
    BY SingletonAssumption DEF Init, R!Init
  <2>2. \A t \in Threads : Cardinality(Held(calls[t])) = 0
    BY <1>2, <1>3
  <2> QED BY <2>1, <2>2 DEF Nested
<1>5. calls \in [Threads -> Seq(Frames)] /\ registry \in Seq(Types) /\ IsInjective(registry)
  BY <1>1 DEF Init, IsInjective
<1>6. TypeOK
  BY <1>4, <1>5 DEF TypeOK, Nested, Held, Init
<1>7. Stacks /\ OneHolder /\ Loop
  BY <1>1 DEF Stacks, OneHolder, Loop, In
<1>8. Objects
  BY <1>1 DEF Objects, Init
<1> QED BY <1>6, <1>7, <1>8 DEF Base

(* A step of a thread keeps the invariant.                                  *)
LEMMA StepBase ==
  ASSUME Base, NEW t \in Threads, Step(t)
  PROVE  Base'
<1>1. CASE \/ Check(t) \/ LockAll(t) \/ UnlockAll(t) \/ ReleaseModule(t)
           \/ ReleaseSkip(t) \/ ReleaseRestart(t)
  BY <1>1, StepGoesOn
<1>2. CASE Recheck(t)
  BY <1>2, StepGoesOn, StepMakes
<1>3. CASE Construct(t)
  BY <1>3, StepCallsFor, StepBuilt
<1>4. CASE RegisterSingleton(t)
  BY <1>4, StepRegisters
<1>5. CASE ReturnSingle(t) \/ ReleaseDone(t)
  BY <1>5, StepReturns
<1>6. CASE ReleaseOne(t)
  BY <1>6, StepReleases
<1>7. CASE Destruct(t)
  BY <1>7, StepCallsFor, StepDestroyed
<1> QED BY <1>1, <1>2, <1>3, <1>4, <1>5, <1>6, <1>7 DEF Step

(* The invariant is inductive.                                              *)
LEMMA NextBase == Base /\ [Next]_vars => Base'
<1> SUFFICES ASSUME Base, [Next]_vars PROVE Base'
  OBVIOUS
<1>1. CASE \E t \in Threads : \/ \E y \in Types : Call(t, y)
                              \/ \E hMod \in Modules : UnloadModule(t, hMod)
                              \/ Step(t)
  BY <1>1, StepStarts, StepBase
<1>2. CASE BeginExit
  <2>1. TypeOK' /\ Stacks' /\ OneHolder' /\ Objects' /\ Loop'
    BY <1>2 DEF BeginExit, Base, TypeOK, Stacks, OneHolder, Objects, Loop, In, Top
  <2> QED BY <2>1 DEF Base
<1>3. CASE DestructMgr
  BY <1>3, StepStarts, SingletonAssumption
<1>4. CASE UNCHANGED vars
  <2>1. TypeOK' /\ Stacks' /\ OneHolder' /\ Objects' /\ Loop'
    BY <1>4 DEF vars, Base, TypeOK, Stacks, OneHolder, Objects, Loop, In, Top
  <2> QED BY <2>1 DEF Base
<1> QED BY <1>1, <1>2, <1>3, <1>4 DEF Next

(* Every step of get_Single, of the constructors and of ReleaseModule keeps *)
(* the stacks, the lock, the objects and the list as Base has them.         *)
THEOREM Inductive == Spec => []Base
<1>1. Init => Base
  BY InitBase
<1>2. Base /\ [Next]_vars => Base'
  BY NextBase
<1> QED BY <1>1, <1>2, PTL DEF Spec

(* Types; the lock is held once for each call that is inside it; and what   *)
(* is registered is constructed and can be deleted.                         *)
THEOREM Registered == Spec => []RegisteredIsReady
<1>1. Base => RegisteredIsReady
  <2> SUFFICES ASSUME Base, NEW k \in 1..Len(registry)
               PROVE  life[registry[k]] = "ready" /\ pThe[registry[k]]
    BY DEF RegisteredIsReady, Base
  <2>1. registry[k] \in Types
    BY ElementOfSeq DEF Base, TypeOK
  <2> QED BY <2>1 DEF Base, Objects
<1> QED BY <1>1, Inductive, PTL

(* No second object of a type is made while there is one.                   *)
THEOREM OneObject == Spec => OneObjectPerType
<1> DEFINE A == \A y \in Types : life[y] # "building" /\ life'[y] = "building" => life[y] = "none"
<1>1. ASSUME Base, Next
      PROVE  A
  <2> SUFFICES ASSUME NEW y \in Types, life[y] # "building", life'[y] = "building"
               PROVE  life[y] = "none"
    OBVIOUS
  <2>1. life \in [Types -> {"none", "building", "ready", "dying"}]
    BY <1>1 DEF Base, TypeOK
  <2>2. PICK t \in Threads : Recheck(t) /\ ~ pThe[Top(t).of]
    BY <1>1, <2>1 DEF Next, Step, Call, Check, LockAll, Recheck, Construct, RegisterSingleton,
       UnlockAll, ReturnSingle, UnloadModule, BeginExit, DestructMgr, ReleaseModule,
       ReleaseSkip, ReleaseOne, ReleaseRestart, ReleaseDone, Destruct
  <2>3. life' = [life EXCEPT ![Top(t).of] = "building"]
    BY <2>2 DEF Recheck
  <2>4. y = Top(t).of
    BY <2>1, <2>3
  <2> QED BY <1>1, <2>2, <2>4 DEF Base, Objects
<1>2. Base /\ [Next]_vars => [A]_vars
  BY <1>1
<1> QED BY <1>2, Inductive, PTL DEF Spec, OneObjectPerType

(* ReleaseModule leaves no entry of the module.                             *)
THEOREM NothingLeft == Spec => []NothingLeftOfModule
<1>1. Base => NothingLeftOfModule
  BY DEF Base, Loop, NothingLeftOfModule, TypeOK
<1> QED BY <1>1, Inductive, PTL

-----------------------------------------------------------------------------
(* "destroyed in proper order" needs more: how calls and objects depend on  *)
(* each other, and which modules may be gone.                               *)
Rank == CHOOSE rank \in [Types -> 1..Cardinality(Types)] :
          \A y \in Types : \A z \in Needs(y) : rank[z] < rank[y]

(* Each object under construction or in destruction is so by some call.     *)
Maker(y, at) == \E t \in Threads : \E k \in 1..Len(calls[t]) :
                  calls[t][k].at = at /\ calls[t][k].of = y

Makers == \A y \in Types : /\ life[y] = "building" => Maker(y, "ctor")
                           /\ life[y] = "dying" => Maker(y, "dtor")

(* A call is about a type that those of the calls below it need.            *)
Descends ==
  \A t \in Threads : \A j, k \in 1..Len(calls[t]) :
    j < k /\ calls[t][j].at \in OnType => Rank[calls[t][k].of] < Rank[calls[t][j].of]

(* What a constructor has got so far, and the call that it is in, is built. *)
BuiltFrame(t, k) ==
  LET f == calls[t][k]
  IN  /\ f.at \in {"check", "lock", "recheck"} => f.i = 1
      /\ f.at = "ctor" => \A j \in 1..Len(Uses[f.of]) :
           j < f.i => (j = f.i - 1 /\ k < Len(calls[t])) \/ life[Uses[f.of][j]] = "ready"
      /\ f.at = "register" => \A j \in 1..Len(Uses[f.of]) : life[Uses[f.of][j]] = "ready"
      /\ f.at \in {"unlock", "return"} /\ k > 1 /\ calls[t][k - 1].at = "ctor" =>
           life[f.of] = "ready"

Built == \A t \in Threads : \A k \in 1..Len(calls[t]) : BuiltFrame(t, k)

(* No registered object needs that of y to go after it.                     *)
Unused(y) == \A k \in 1..Len(registry) : \A j \in 1..Len(Uses[registry[k]]) :
               Uses[registry[k]][j] = y => Orphaned(registry[k], y)

(* An object is registered after those that it was built upon, unless they  *)
(* went with their module and were made again.                              *)
Ordered ==
  /\ \A k, l \in 1..Len(registry) : \A j \in 1..Len(Uses[registry[k]]) :
       registry[l] = Uses[registry[k]][j] => l < k \/ Orphaned(registry[k], registry[l])
  /\ \A t \in Threads : \A k \in 1..Len(calls[t]) :
       calls[t][k].at = "register" => Unused(calls[t][k].of)

(* The modules that are released were told to unload.                       *)
HostedFrame(t, k) ==
  LET f == calls[t][k]
  IN  f.at \in OnModule /\ f.of # AllModules => f.of \in unloaded

Hosted == \A t \in Threads : \A k \in 1..Len(calls[t]) : HostedFrame(t, k)

Deep == Makers /\ Descends /\ Built /\ Ordered /\ Hosted /\ UsedOutlivesUser

-----------------------------------------------------------------------------
LEMMA Ranks ==
  /\ \A y \in Types : Rank[y] \in Nat
  /\ \A y \in Types : \A z \in Needs(y) : z \in Types /\ Rank[z] < Rank[y]
<1>1. /\ Rank \in [Types -> 1..Cardinality(Types)]
      /\ \A y \in Types : \A z \in Needs(y) : Rank[z] < Rank[y]
  BY OrderAssumption DEF Rank
<1>2. Cardinality(Types) \in Nat
  BY OrderAssumption, FS_CardinalityType
<1>3. \A y \in Types : Uses[y] \in Seq(Types) /\ DtorUses[y] \in Seq(Types)
  BY SingletonAssumption
<1>4. \A y \in Types : \A z \in Needs(y) : z \in Types
  <2> SUFFICES ASSUME NEW y \in Types, NEW z \in Needs(y)
               PROVE  z \in Types
    OBVIOUS
  <2>1. \/ \E j \in 1..Len(Uses[y]) : z = Uses[y][j]
        \/ \E j \in 1..Len(DtorUses[y]) : z = DtorUses[y][j]
    BY <1>3 DEF Needs, Range
  <2> QED BY <1>3, <2>1, ElementOfSeq
<1>5. \A y \in Types : Rank[y] \in Nat
  BY <1>1, <1>2
<1> QED BY <1>1, <1>4, <1>5

(* What the calls of get_Single() in a constructor are for.                 *)
LEMMA UsesAreNeeded ==
  ASSUME NEW y \in Types
  PROVE  /\ Uses[y] \in Seq(Types) /\ DtorUses[y] \in Seq(Types)
         /\ \A j \in 1..Len(Uses[y]) : Uses[y][j] \in Needs(y)
         /\ \A j \in 1..Len(DtorUses[y]) : DtorUses[y][j] \in Needs(y)
BY SingletonAssumption DEF Needs, Range

(* What a step of t leaves as it is in the stacks.                          *)
Others(t) == \A u \in Threads : u # t => calls'[u] = calls[u]

Same(t, k) ==
  /\ k \in 1..Len(calls[t]) /\ k \in 1..Len(calls'[t])
  /\ calls'[t][k].of = calls[t][k].of
  /\ calls'[t][k].at \in OnType <=> calls[t][k].at \in OnType
  /\ calls'[t][k].at \in OnModule <=> calls[t][k].at \in OnModule

LEMMA StackLen ==
  ASSUME Base, NEW t \in Threads
  PROVE  Len(calls[t]) \in Nat
<1>1. calls[t] \in Seq(Frames)
  BY DEF Base, TypeOK
<1> QED BY <1>1

LEMMA BecomeShape ==
  ASSUME Base, NEW t \in Threads, calls[t] # <<>>, NEW f \in Frames, Become(t, f),
         f.of = Top(t).of, f.at \in OnType <=> Top(t).at \in OnType
  PROVE  /\ Others(t) /\ Len(calls[t]) \in Nat /\ Len(calls[t]) > 0
         /\ Len(calls'[t]) = Len(calls[t]) /\ calls'[t][Len(calls[t])] = f
         /\ \A k \in 1..(Len(calls[t]) - 1) : calls'[t][k] = calls[t][k]
         /\ \A k \in 1..Len(calls[t]) : Same(t, k)
<1> DEFINE L == Len(calls[t])
<1>1. /\ Others(t) /\ L \in Nat /\ L > 0 /\ Len(calls'[t]) = L /\ calls'[t][L] = f
      /\ \A k \in 1..(L - 1) : calls'[t][k] = calls[t][k]
  BY AfterBecome DEF Base, TypeOK, Others
<1>2. calls[t][L] = Top(t) /\ Top(t) \in Frames
  BY TopIs
<1>3. f.at \in OnModule <=> Top(t).at \in OnModule
  BY <1>2 DEF Frames, OnType, OnModule
<1> HIDE DEF L
<1>4. ASSUME NEW k \in 1..L
      PROVE  Same(t, k)
  <2>1. CASE k = L
    BY <1>1, <1>2, <1>3, <2>1 DEF Same, L
  <2>2. CASE k # L
    BY <1>1, <2>2 DEF Same, L
  <2> QED BY <2>1, <2>2
<1> QED BY <1>1, <1>4 DEF L

LEMMA CallShape ==
  ASSUME Base, NEW t \in Threads, calls[t] # <<>>, NEW f \in Frames, NEW g \in Frames,
         CallFrom(t, f, g), f.of = Top(t).of, f.at \in OnType <=> Top(t).at \in OnType
  PROVE  /\ Others(t) /\ Len(calls[t]) \in Nat /\ Len(calls[t]) > 0
         /\ Len(calls'[t]) = Len(calls[t]) + 1
         /\ calls'[t][Len(calls[t])] = f /\ calls'[t][Len(calls[t]) + 1] = g
         /\ \A k \in 1..(Len(calls[t]) - 1) : calls'[t][k] = calls[t][k]
         /\ \A k \in 1..Len(calls[t]) : Same(t, k)
<1> DEFINE L == Len(calls[t])
<1>1. /\ Others(t) /\ L \in Nat /\ L > 0 /\ Len(calls'[t]) = L + 1
      /\ calls'[t][L] = f /\ calls'[t][L + 1] = g
      /\ \A k \in 1..(L - 1) : calls'[t][k] = calls[t][k]
  BY AfterCallFrom DEF Base, TypeOK, Others
<1>2. calls[t][L] = Top(t) /\ Top(t) \in Frames
  BY TopIs
<1>3. f.at \in OnModule <=> Top(t).at \in OnModule
  BY <1>2 DEF Frames, OnType, OnModule
<1> HIDE DEF L
<1>4. ASSUME NEW k \in 1..L
      PROVE  Same(t, k)
  <2>1. CASE k = L
    BY <1>1, <1>2, <1>3, <2>1 DEF Same, L
  <2>2. CASE k # L
    BY <1>1, <2>2 DEF Same, L
  <2> QED BY <2>1, <2>2
<1> QED BY <1>1, <1>4 DEF L

LEMMA ReturnShape ==
  ASSUME Base, NEW t \in Threads, calls[t] # <<>>, Return(t)
  PROVE  /\ Others(t) /\ Len(calls[t]) \in Nat /\ Len(calls[t]) > 0
         /\ Len(calls'[t]) = Len(calls[t]) - 1
         /\ \A k \in 1..Len(calls'[t]) : calls'[t][k] = calls[t][k] /\ Same(t, k)
<1>1. /\ Others(t) /\ Len(calls[t]) \in Nat /\ Len(calls[t]) > 0
      /\ Len(calls'[t]) = Len(calls[t]) - 1
      /\ \A k \in 1..(Len(calls[t]) - 1) : calls'[t][k] = calls[t][k]
  BY AfterReturn DEF Base, TypeOK, Others
<1> QED BY <1>1 DEF Same

(* The calls that have made another one.                                    *)
LEMMA Below ==
  ASSUME Base, NEW t \in Threads, NEW k \in 1..(Len(calls[t]) - 1)
  PROVE  /\ k \in 1..Len(calls[t]) /\ k + 1 \in 1..Len(calls[t])
         /\ CalledBy(calls[t][k], calls[t][k + 1])
         /\ calls[t][k].at \in {"ctor", "dtor", "rmRestart"}
         /\ calls[t][k + 1].at \in OnType /\ calls[t][k + 1].at \notin OnModule
         /\ calls[t][k].at = "rmRestart" => k = 1
<1>1. Len(calls[t]) \in Nat /\ k \in 1..Len(calls[t]) /\ k + 1 \in 1..Len(calls[t])
  BY DEF Base, TypeOK
<1>2. CalledBy(calls[t][k], calls[t][k + 1])
  BY DEF Base, Stacks
<1>3. /\ calls[t][k].at \in {"ctor", "dtor", "rmRestart"}
      /\ calls[t][k + 1].at \in OnType /\ calls[t][k + 1].at \notin OnModule
  BY <1>2 DEF CalledBy, OnType, OnModule
<1>4. ASSUME calls[t][k].at = "rmRestart", k # 1
      PROVE  FALSE
  <2>1. k - 1 \in 1..(Len(calls[t]) - 1) /\ (k - 1) + 1 = k
    BY <1>1, <1>4
  <2>2. CalledBy(calls[t][k - 1], calls[t][(k - 1) + 1])
    BY <2>1 DEF Base, Stacks
  <2> QED BY <1>4, <2>1, <2>2 DEF CalledBy, OnType
<1> QED BY <1>1, <1>2, <1>3, <1>4

(* ReleaseModule is never called by another call.                           *)
LEMMA AtBottom ==
  ASSUME Base, NEW t \in Threads, NEW k \in 1..Len(calls[t]), calls[t][k].at \notin OnType
  PROVE  k = 1
<1>1. Len(calls[t]) \in Nat
  BY DEF Base, TypeOK
<1> SUFFICES ASSUME k # 1 PROVE FALSE
  OBVIOUS
<1>2. k - 1 \in 1..(Len(calls[t]) - 1) /\ (k - 1) + 1 = k
  BY <1>1
<1>3. calls[t][(k - 1) + 1].at \in OnType
  BY <1>2, Below
<1> QED BY <1>2, <1>3

-----------------------------------------------------------------------------
(* When each part of the invariant is kept.                                 *)
LEMMA DescendsAfter ==
  ASSUME Descends, NEW t \in Threads, Others(t), \A k \in 1..Len(calls'[t]) : Same(t, k)
  PROVE  Descends'
<1> SUFFICES ASSUME NEW u \in Threads, NEW j \in 1..Len(calls'[u]), NEW k \in 1..Len(calls'[u]),
                    j < k, calls'[u][j].at \in OnType
             PROVE  Rank[calls'[u][k].of] < Rank[calls'[u][j].of]
  BY DEF Descends
<1>1. CASE u = t
  <2>1. Same(t, j) /\ Same(t, k)
    BY <1>1
  <2> QED BY <1>1, <2>1 DEF Same, Descends
<1>2. CASE u # t
  BY <1>2 DEF Others, Descends
<1> QED BY <1>1, <1>2

LEMMA DescendsPushed ==
  ASSUME Base, Descends, NEW t \in Threads, Others(t), calls[t] # <<>>,
         Len(calls'[t]) = Len(calls[t]) + 1, \A k \in 1..Len(calls[t]) : Same(t, k),
         NEW g, g = calls'[t][Len(calls[t]) + 1], g.of \in Types,
         Top(t).at \in OnType => Rank[g.of] < Rank[Top(t).of]
  PROVE  Descends'
<1> DEFINE L == Len(calls[t])
<1>1. L \in 1..L /\ calls[t][L] = Top(t) /\ L \in Nat
  BY TopIs DEF Base, TypeOK
<1>2. ASSUME NEW j \in 1..L, calls[t][j].at \in OnType
      PROVE  Rank[g.of] < Rank[calls[t][j].of]
  <2>1. CASE j = L
    BY <1>1, <1>2, <2>1
  <2>2. CASE j # L
    <3>1. calls[t][L].at \in OnType
      BY <1>1, <2>2, AtBottom
    <3>2. Rank[calls[t][L].of] < Rank[calls[t][j].of] /\ Rank[g.of] < Rank[calls[t][L].of]
      BY <1>1, <1>2, <2>2, <3>1 DEF Descends
    <3>3. calls[t][L].of \in Types /\ calls[t][j].of \in Types
      BY <1>1, <1>2, <3>1 DEF Base, Stacks
    <3>4. Rank[calls[t][L].of] \in Nat /\ Rank[calls[t][j].of] \in Nat /\ Rank[g.of] \in Nat
      BY <3>3, Ranks
    <3> QED BY <3>2, <3>4
  <2> QED BY <2>1, <2>2
<1> SUFFICES ASSUME NEW u \in Threads, NEW j \in 1..Len(calls'[u]), NEW k \in 1..Len(calls'[u]),
                    j < k, calls'[u][j].at \in OnType
             PROVE  Rank[calls'[u][k].of] < Rank[calls'[u][j].of]
  BY DEF Descends
<1>3. CASE u # t
  BY <1>3 DEF Others, Descends
<1>4. CASE u = t /\ k = L + 1
  <2>1. j \in 1..L
    BY <1>1, <1>4
  <2>2. Same(t, j)
    BY <2>1
  <2>3. calls'[t][j].of = calls[t][j].of /\ calls[t][j].at \in OnType
    BY <1>4, <2>2 DEF Same
  <2> QED BY <1>2, <1>4, <2>1, <2>3
<1>5. CASE u = t /\ k # L + 1
  <2>1. j \in 1..L /\ k \in 1..L
    BY <1>1, <1>5
  <2>2. Same(t, j) /\ Same(t, k)
    BY <2>1
  <2> QED BY <1>5, <2>1, <2>2 DEF Same, Descends
<1> QED BY <1>3, <1>4, <1>5

LEMMA MakersAfter ==
  ASSUME Base, Makers, NEW t \in Threads, Others(t), NEW y \in Types,
         \A z \in Types : z # y => life'[z] = life[z],
         life'[y] = "building" => Maker(y, "ctor")',
         life'[y] = "dying" => Maker(y, "dtor")',
         \A k \in 1..Len(calls[t]) :
           calls[t][k].at \in {"ctor", "dtor"} /\ calls[t][k].of # y =>
             /\ k \in 1..Len(calls'[t])
             /\ calls'[t][k].at = calls[t][k].at /\ calls'[t][k].of = calls[t][k].of
  PROVE  Makers'
<1>1. ASSUME NEW z \in Types, z # y, NEW at \in {"ctor", "dtor"}, Maker(z, at)
      PROVE  Maker(z, at)'
  <2>0. PICK u \in Threads : \E k \in 1..Len(calls[u]) : calls[u][k].at = at /\ calls[u][k].of = z
    BY <1>1 DEF Maker
  <2>1. PICK k \in 1..Len(calls[u]) : calls[u][k].at = at /\ calls[u][k].of = z
    BY <2>0
  <2>2. k \in 1..Len(calls'[u]) /\ calls'[u][k].at = at /\ calls'[u][k].of = z
    BY <1>1, <2>1 DEF Others
  <2> QED BY <2>2 DEF Maker
<1>2. \A z \in Types : z # y => /\ life'[z] = "building" => Maker(z, "ctor")'
                                /\ life'[z] = "dying" => Maker(z, "dtor")'
  BY <1>1 DEF Makers
<1> QED BY <1>2 DEF Makers

(* Objects that are ready stay so.                                          *)
StayReady == \A z \in Types : life[z] = "ready" => life'[z] = "ready"

LEMMA BuiltAfter ==
  ASSUME Base, Built, NEW t \in Threads, Others(t), StayReady,
         \A k \in 1..Len(calls'[t]) :
           \/ BuiltFrame(t, k)'
           \/ /\ k \in 1..Len(calls[t]) /\ calls'[t][k] = calls[t][k]
              /\ k > 1 => calls'[t][k - 1].at = calls[t][k - 1].at
              /\ k = Len(calls'[t]) => k = Len(calls[t])
  PROVE  Built'
<1> SUFFICES ASSUME NEW u \in Threads, NEW k \in 1..Len(calls'[u])
             PROVE  BuiltFrame(u, k)'
  BY DEF Built
<1>1. \/ u = t /\ BuiltFrame(t, k)'
      \/ /\ k \in 1..Len(calls[u]) /\ calls'[u][k] = calls[u][k]
         /\ k > 1 => calls'[u][k - 1].at = calls[u][k - 1].at
         /\ k = Len(calls'[u]) => k = Len(calls[u])
  BY DEF Others
<1> SUFFICES ASSUME k \in 1..Len(calls[u]), calls'[u][k] = calls[u][k],
                    k > 1 => calls'[u][k - 1].at = calls[u][k - 1].at,
                    k = Len(calls'[u]) => k = Len(calls[u])
             PROVE  BuiltFrame(u, k)'
  BY <1>1
<1> DEFINE f == calls[u][k]
<1>2. BuiltFrame(u, k)
  BY DEF Built
<1>3. f.at \in OnType => f.of \in Types
  BY DEF Base, Stacks
<1>4. k < Len(calls[u]) => k < Len(calls'[u])
  <2> DEFINE was == Len(calls[u])
             now == Len(calls'[u])
  <2>1. was \in Nat /\ k <= was /\ k \in Nat /\ (k = now => k = was)
    BY DEF Base, TypeOK
  <2>2. now \in Nat /\ k <= now
    <3>1. CASE now \in Nat
      BY <3>1
    <3> QED BY <3>1
  <2> HIDE DEF was, now
  <2>3. k < was => k < now
    BY <2>1, <2>2
  <2> QED BY <2>3 DEF was, now
<1>5. \A z \in Types : life[z] = "ready" => life'[z] = "ready"
  BY DEF StayReady
<1>6. ASSUME f.at = "ctor", NEW j \in 1..Len(Uses[f.of]), j < f.i
      PROVE  (j = f.i - 1 /\ k < Len(calls'[u])) \/ life'[Uses[f.of][j]] = "ready"
  <2>1. Uses[f.of][j] \in Types
    BY <1>3, <1>6, UsesAreNeeded, ElementOfSeq DEF OnType
  <2>2. (j = f.i - 1 /\ k < Len(calls[u])) \/ life[Uses[f.of][j]] = "ready"
    BY <1>2, <1>6 DEF BuiltFrame
  <2> QED BY <1>4, <1>5, <2>1, <2>2
<1>7. ASSUME f.at = "register", NEW j \in 1..Len(Uses[f.of])
      PROVE  life'[Uses[f.of][j]] = "ready"
  <2>1. Uses[f.of][j] \in Types
    BY <1>3, <1>7, UsesAreNeeded, ElementOfSeq DEF OnType
  <2> QED BY <1>2, <1>5, <1>7, <2>1 DEF BuiltFrame
<1>8. ASSUME f.at \in {"unlock", "return"}, k > 1, calls'[u][k - 1].at = "ctor"
      PROVE  life'[f.of] = "ready"
  BY <1>2, <1>3, <1>5, <1>8 DEF BuiltFrame, OnType
<1>9. f.at \in {"check", "lock", "recheck"} => f.i = 1
  BY <1>2 DEF BuiltFrame
<1> HIDE DEF f
<1>10. calls'[u][k] = f
  BY DEF f
<1> QED BY <1>6, <1>7, <1>8, <1>9, <1>10 DEF BuiltFrame

LEMMA OrderedAfter ==
  ASSUME Ordered, registry' = registry, unloaded \subseteq unloaded',
         NEW t \in Threads, Others(t),
         \A k \in 1..Len(calls'[t]) : calls'[t][k].at = "register" =>
           \/ Unused(calls'[t][k].of)
           \/ k \in 1..Len(calls[t]) /\ calls'[t][k] = calls[t][k]
  PROVE  Ordered'
<1>1. \A k, l \in 1..Len(registry') : \A j \in 1..Len(Uses[registry'[k]]) :
        registry'[l] = Uses[registry'[k]][j] => l < k \/ Orphaned(registry[k], registry[l])'
  BY DEF Ordered, Orphaned
<1>2. ASSUME NEW u \in Threads, NEW k \in 1..Len(calls'[u]), calls'[u][k].at = "register",
             NEW y, y = calls'[u][k].of
      PROVE  Unused(y)'
  <2>1. Unused(y)
    BY <1>2 DEF Others, Ordered
  <2> QED BY <2>1 DEF Unused, Orphaned
<1> QED BY <1>1, <1>2 DEF Ordered, Orphaned

LEMMA UsedAfter ==
  ASSUME Base, UsedOutlivesUser, StayReady, unloaded \subseteq unloaded', registry' \in Seq(Types),
         \A k \in 1..Len(registry') : Contains(registry, registry'[k])
  PROVE  UsedOutlivesUser'
<1> SUFFICES ASSUME NEW k \in 1..Len(registry'), NEW j \in 1..Len(Uses[registry'[k]])
             PROVE  \/ life'[Uses[registry'[k]][j]] = "ready"
                    \/ /\ ModuleOf[Uses[registry'[k]][j]] # ModuleOf[registry'[k]]
                       /\ ModuleOf[Uses[registry'[k]][j]] \in unloaded'
  BY DEF UsedOutlivesUser, Orphaned
<1>1. PICK l \in 1..Len(registry) : registry[l] = registry'[k]
  BY DEF Contains
<1>2. registry'[k] \in Types
  BY ElementOfSeq
<1>3. Uses[registry'[k]][j] \in Types
  BY <1>2, UsesAreNeeded, ElementOfSeq
<1>4. \/ life[Uses[registry'[k]][j]] = "ready"
      \/ /\ ModuleOf[Uses[registry'[k]][j]] # ModuleOf[registry'[k]]
         /\ ModuleOf[Uses[registry'[k]][j]] \in unloaded
  BY <1>1 DEF UsedOutlivesUser, Orphaned
<1> QED BY <1>3, <1>4 DEF StayReady

LEMMA HostedAfter ==
  ASSUME Hosted, NEW t \in Threads, Others(t), unloaded \subseteq unloaded',
         \A k \in 1..Len(calls'[t]) : Same(t, k) \/ HostedFrame(t, k)'
  PROVE  Hosted'
<1> SUFFICES ASSUME NEW u \in Threads, NEW k \in 1..Len(calls'[u])
             PROVE  HostedFrame(u, k)'
  BY DEF Hosted
<1>1. CASE u # t
  BY <1>1 DEF Others, Hosted, HostedFrame
<1>2. CASE u = t /\ Same(t, k)
  BY <1>2 DEF Hosted, HostedFrame, Same
<1> QED BY <1>1, <1>2

LEMMA MakersKept ==
  ASSUME Makers, NEW t \in Threads, Others(t), life' = life,
         \A k \in 1..Len(calls[t]) : calls[t][k].at \in {"ctor", "dtor"} =>
             /\ k \in 1..Len(calls'[t])
             /\ calls'[t][k].at = calls[t][k].at /\ calls'[t][k].of = calls[t][k].of
  PROVE  Makers'
<1>1. ASSUME NEW z \in Types, NEW at \in {"ctor", "dtor"}, Maker(z, at)
      PROVE  Maker(z, at)'
  <2>1. PICK u \in Threads : \E k \in 1..Len(calls[u]) : calls[u][k].at = at /\ calls[u][k].of = z
    BY <1>1 DEF Maker
  <2>2. PICK k \in 1..Len(calls[u]) : calls[u][k].at = at /\ calls[u][k].of = z
    BY <2>1
  <2>3. k \in 1..Len(calls'[u]) /\ calls'[u][k].at = at /\ calls'[u][k].of = z
    BY <1>1, <2>2 DEF Others
  <2> QED BY <2>3 DEF Maker
<1> QED BY <1>1 DEF Makers

-----------------------------------------------------------------------------
(* What get_Single() finds when a constructor calls it is built: whoever    *)
(* makes or deletes it has the lock, so it is the thread itself, in a call  *)
(* further down, which would need what it is needed for.                    *)
LEMMA ReadyThere ==
  ASSUME Base, Makers, Descends, NEW t \in Threads, calls[t] # <<>>, Top(t).at \in OnType \ Making,
         Len(calls[t]) > 1, calls[t][Len(calls[t]) - 1].at = "ctor", pThe[Top(t).of]
  PROVE  life[Top(t).of] = "ready"
<1> DEFINE L == Len(calls[t])
           y == Top(t).of
<1>1. L \in Nat /\ L \in 1..L /\ L - 1 \in 1..L /\ calls[t][L] = Top(t) /\ y \in Types
  BY TopIs DEF Base, TypeOK
<1>2. life[y] \in {"building", "ready", "dying"}
  BY <1>1 DEF Base, TypeOK, Objects
<1>3. ASSUME NEW at \in {"ctor", "dtor"}, Maker(y, at)
      PROVE  FALSE
  <2>1. PICK u \in Threads : \E k \in 1..Len(calls[u]) : calls[u][k].at = at /\ calls[u][k].of = y
    BY <1>3 DEF Maker
  <2>2. PICK k \in 1..Len(calls[u]) : calls[u][k].at = at /\ calls[u][k].of = y
    BY <2>1
  <2>3. at \in Making /\ at \in OnType /\ calls[t][L - 1].at \in Making
    BY DEF Making, OnType
  <2>4. t = u
    BY <1>1, <2>2, <2>3, SameHolder DEF Base
  <2>5. k # L /\ k < L
    BY <1>1, <2>2, <2>3, <2>4
  <2>6. Rank[y] < Rank[y]
    BY <1>1, <2>2, <2>3, <2>4, <2>5 DEF Descends
  <2>7. Rank[y] \in Nat
    BY <1>1, Ranks
  <2> QED BY <2>6, <2>7
<1> QED BY <1>1, <1>2, <1>3 DEF Makers

(* A call goes on to another place.                                         *)
LEMMA DeepBecome ==
  ASSUME Base, Deep, NEW t \in Threads, calls[t] # <<>>, NEW f \in Frames, Become(t, f),
         UNCHANGED <<data, mgr>>, f.of = Top(t).of, f.at \in OnType <=> Top(t).at \in OnType,
         f.at \notin Making, Top(t).at \notin Making,
         f.at \in {"check", "lock", "recheck"} => f.i = 1,
         /\ f.at \in {"unlock", "return"} /\ Len(calls[t]) > 1
         /\ calls[t][Len(calls[t]) - 1].at = "ctor"
         => life[f.of] = "ready"
  PROVE  Deep'
<1> DEFINE L == Len(calls[t])
<1>1. /\ Others(t) /\ L \in Nat /\ L > 0 /\ Len(calls'[t]) = L /\ calls'[t][L] = f
      /\ \A k \in 1..(L - 1) : calls'[t][k] = calls[t][k]
      /\ \A k \in 1..L : Same(t, k)
  BY BecomeShape
<1>2. calls[t][L] = Top(t)
  BY TopIs
<1>3. /\ pThe' = pThe /\ life' = life /\ registry' = registry /\ mgr' = mgr
      /\ inExit' = inExit /\ unloaded' = unloaded
  BY DEF data
<1>4. StayReady
  BY <1>3 DEF StayReady
<1> HIDE DEF L
<1>5. \A k \in 1..Len(calls'[t]) : Same(t, k)
  BY <1>1
<1>6. \A k \in 1..Len(calls[t]) : Same(t, k)
  BY <1>1 DEF L
<1>7. \A k \in 1..L : k # L => k \in 1..(L - 1)
  BY <1>1
<1>8. Makers'
  <2>1. \A k \in 1..L : calls[t][k].at \in {"ctor", "dtor"} =>
             /\ k \in 1..Len(calls'[t])
             /\ calls'[t][k].at = calls[t][k].at /\ calls'[t][k].of = calls[t][k].of
    BY <1>1, <1>2, <1>7 DEF Making
  <2> QED BY <1>1, <1>3, <2>1, MakersKept DEF Deep, L
<1>9. Descends'
  BY <1>1, <1>5, DescendsAfter DEF Deep
<1>10. Built'
  <2>1. ASSUME NEW k \in 1..Len(calls'[t])
        PROVE  \/ BuiltFrame(t, k)'
               \/ /\ k \in 1..Len(calls[t]) /\ calls'[t][k] = calls[t][k]
                  /\ k > 1 => calls'[t][k - 1].at = calls[t][k - 1].at
                  /\ k = Len(calls'[t]) => k = Len(calls[t])
    <3>1. CASE k = L
      <4>1. calls'[t][k] = f /\ (k > 1 => calls'[t][k - 1] = calls[t][k - 1])
        BY <1>1, <3>1
      <4> QED BY <1>3, <3>1, <4>1 DEF BuiltFrame, Making, L
    <3>2. CASE k # L
      <4>1. k \in 1..(L - 1) /\ (k > 1 => k - 1 \in 1..(L - 1)) /\ k \in 1..L
        BY <1>1, <3>2
      <4> QED BY <1>1, <3>2, <4>1 DEF L
    <3> QED BY <3>1, <3>2
  <2> QED BY <1>1, <1>4, <2>1, BuiltAfter DEF Deep
<1>11. Ordered'
  <2>1. \A k \in 1..Len(calls'[t]) : calls'[t][k].at = "register" =>
           k \in 1..Len(calls[t]) /\ calls'[t][k] = calls[t][k]
    BY <1>1, <1>7 DEF Making, L
  <2> QED BY <1>1, <1>3, <2>1, OrderedAfter DEF Deep
<1>12. Hosted'
  BY <1>1, <1>3, <1>5, HostedAfter DEF Deep
<1>13. UsedOutlivesUser'
  BY <1>3 DEF Deep, UsedOutlivesUser, Orphaned
<1> QED BY <1>8, <1>9, <1>10, <1>11, <1>12, <1>13 DEF Deep

(* The calls that only go on.                                               *)
LEMMA DeepGoesOn ==
  ASSUME Base, Deep, NEW t \in Threads,
         \/ Check(t) \/ LockAll(t) \/ UnlockAll(t) \/ ReleaseModule(t)
         \/ ReleaseSkip(t) \/ ReleaseRestart(t)
         \/ Recheck(t) /\ pThe[Top(t).of]
  PROVE  Deep'
<1> DEFINE f == Top(t)
           L == Len(calls[t])
<1>1. calls[t] # <<>>
  BY DEF Check, LockAll, UnlockAll, ReleaseModule, ReleaseSkip, ReleaseRestart, Recheck, In
<1>2. /\ f \in Frames /\ f.i \in Nat /\ L \in 1..L /\ calls[t][L] = f
      /\ IF f.at \in OnType THEN f.of \in Types /\ f.i > 0 ELSE f.of \in Modules \cup {AllModules}
  BY <1>1, TopIs
<1>3. BuiltFrame(t, L)
  BY <1>2 DEF Deep, Built
<1>4. f.at \in {"check", "lock", "recheck"} => f.i = 1
  BY <1>2, <1>3 DEF BuiltFrame
<1>5. ASSUME f.at \in {"check", "recheck"}, pThe[f.of], L > 1, calls[t][L - 1].at = "ctor"
      PROVE  life[f.of] = "ready"
  BY <1>1, <1>5, ReadyThere DEF Deep, OnType, Making
<1>6. ASSUME f.at = "unlock", L > 1, calls[t][L - 1].at = "ctor"
      PROVE  life[f.of] = "ready"
  BY <1>2, <1>3, <1>6 DEF BuiltFrame
<1>7. ASSUME NEW at \in OnType \ Making, Move(t, at), f.at \in OnType \ Making,
             UNCHANGED <<data, mgr>>, at \in {"check", "lock", "recheck"} => f.i = 1,
             at \in {"unlock", "return"} /\ L > 1 /\ calls[t][L - 1].at = "ctor" =>
               life[f.of] = "ready"
      PROVE  Deep'
  <2> DEFINE g == [f EXCEPT !.at = at]
  <2>1. g \in Frames /\ g.at = at /\ g.of = f.of /\ g.i = f.i
    BY <1>2, Moved
  <2>2. Become(t, g)
    BY <1>7 DEF Move
  <2> HIDE DEF g
  <2> QED BY <1>1, <1>7, <2>1, <2>2, DeepBecome
<1>8. CASE Check(t)
  <2>1. /\ f.at = "check" /\ Move(t, IF pThe[f.of] THEN "return" ELSE "lock")
        /\ UNCHANGED <<data, mgr>>
    BY <1>8 DEF Check, In, Top, data
  <2>2. CASE pThe[f.of]
    BY <1>5, <1>7, <2>1, <2>2 DEF OnType, Making
  <2>3. CASE ~ pThe[f.of]
    BY <1>4, <1>7, <2>1, <2>3 DEF OnType, Making
  <2> QED BY <2>2, <2>3
<1>9. CASE LockAll(t)
  BY <1>4, <1>7, <1>9 DEF LockAll, In, Top, data, OnType, Making
<1>10. CASE UnlockAll(t)
  BY <1>6, <1>7, <1>10 DEF UnlockAll, In, Top, data, OnType, Making
<1>11. CASE Recheck(t) /\ pThe[f.of]
  BY <1>5, <1>7, <1>11 DEF Recheck, In, Top, data, OnType, Making
<1>12. ASSUME NEW at \in OnModule, NEW i \in Nat, Become(t, Frame(at, f.of, i)),
              f.at \in OnModule, UNCHANGED <<data, mgr>>
       PROVE  Deep'
  <2> DEFINE g == Frame(at, f.of, i)
  <2>1. g \in Frames /\ g.at = at /\ g.of = f.of
    BY <1>2 DEF Frame, Frames
  <2>2. /\ at \notin OnType /\ f.at \notin OnType /\ at \notin Making /\ f.at \notin Making
        /\ at \notin {"check", "lock", "recheck", "unlock", "return"}
    BY <1>12 DEF OnModule, OnType, Making
  <2> HIDE DEF g
  <2>3. Become(t, g)
    BY <1>12 DEF g
  <2> QED BY <1>1, <1>12, <2>1, <2>2, <2>3, DeepBecome
<1>13. Len(registry) \in Nat
  BY DEF Base, TypeOK
<1>14. CASE ReleaseModule(t)
  BY <1>12, <1>13, <1>14 DEF ReleaseModule, In, Top, data, OnModule
<1>15. CASE ReleaseRestart(t)
  BY <1>12, <1>13, <1>15 DEF ReleaseRestart, In, Top, data, OnModule
<1>16. CASE ReleaseSkip(t)
  <2>1. f.at = "rmLoop" /\ f.i > 0 /\ Become(t, [f EXCEPT !.i = @ - 1])
    BY <1>16 DEF ReleaseSkip, In, Top
  <2>2. [f EXCEPT !.i = @ - 1] = Frame("rmLoop", f.of, f.i - 1) /\ f.i - 1 \in Nat
    BY <1>2, <2>1 DEF Frames, Frame
  <2> QED BY <1>12, <1>16, <2>1, <2>2 DEF ReleaseSkip, data, OnModule
<1> QED BY <1>8, <1>9, <1>10, <1>11, <1>14, <1>15, <1>16

(* A constructor or a destructor calls get_Single().                        *)
LEMMA DeepCallFrom ==
  ASSUME Base, Deep, NEW t \in Threads, calls[t] # <<>>, NEW f \in Frames, NEW y \in Types,
         CallFrom(t, f, GetSingle(y)), UNCHANGED <<data, mgr>>,
         f.of = Top(t).of, f.at = Top(t).at, f.at \in {"ctor", "dtor"}, f.i = Top(t).i + 1,
         y \in Needs(f.of)
  PROVE  Deep'
<1> DEFINE g == GetSingle(y)
<1>l. PICK L \in Nat : L = Len(calls[t])
  BY StackLen
<1>0. g \in Frames /\ g.at = "check" /\ g.of = y /\ g.i = 1
  BY DEF GetSingle, Frame, Frames, OnType
<1> HIDE DEF g
<1>1. /\ Others(t) /\ L \in Nat /\ L > 0 /\ Len(calls'[t]) = L + 1
      /\ calls'[t][L] = f /\ calls'[t][L + 1] = g
      /\ \A k \in 1..(L - 1) : calls'[t][k] = calls[t][k]
      /\ \A k \in 1..L : Same(t, k)
  BY <1>l, <1>0, CallShape DEF g
<1>2. calls[t][L] = Top(t) /\ f.of \in Types /\ f.at \in OnType /\ Top(t).i \in Nat /\ L \in 1..L
  BY <1>l, TopIs DEF OnType
<1>3. /\ pThe' = pThe /\ life' = life /\ registry' = registry /\ mgr' = mgr
      /\ inExit' = inExit /\ unloaded' = unloaded
  BY DEF data
<1>4. StayReady
  BY <1>3 DEF StayReady
<1>5. \A k \in 1..Len(calls'[t]) : k = L + 1 \/ k = L \/ (k \in 1..(L - 1) /\ k \in 1..L)
  BY <1>1
<1>6. \A k \in 1..Len(calls[t]) : Same(t, k)
  BY <1>l, <1>1
<1>7. \A k \in 1..L : k # L => k \in 1..(L - 1)
  BY <1>1
<1>8. Makers'
  <2>1. \A k \in 1..L : /\ k \in 1..Len(calls'[t])
                        /\ calls'[t][k].at = calls[t][k].at /\ calls'[t][k].of = calls[t][k].of
    <3>1. Len(calls'[t]) = L + 1 /\ calls'[t][L] = f /\ calls[t][L] = Top(t)
      BY <1>1, <1>2
    <3>2. \A k \in 1..L : k # L => calls'[t][k] = calls[t][k]
      BY <1>1, <1>7
    <3>3. \A k \in 1..L : k \in 1..Len(calls'[t])
      BY <1>l, <3>1
    <3>4. \A k \in 1..L : calls'[t][k].at = calls[t][k].at /\ calls'[t][k].of = calls[t][k].of
      <4> SUFFICES ASSUME NEW k \in 1..L
                   PROVE  calls'[t][k].at = calls[t][k].at /\ calls'[t][k].of = calls[t][k].of
        OBVIOUS
      <4>1. CASE k = L
        BY <3>1, <4>1
      <4>2. CASE k # L
        BY <3>2, <4>2
      <4> QED BY <4>1, <4>2
    <3> QED BY <3>3, <3>4
  <2> QED BY <1>l, <1>1, <1>3, <2>1, MakersKept DEF Deep
<1>9. Descends'
  <2>1. Rank[g.of] < Rank[Top(t).of] /\ g.of \in Types
    BY <1>0, <1>2, Ranks
  <2> QED BY <1>l, <1>1, <1>6, <2>1, DescendsPushed DEF Deep
<1>10. Built'
  <2>1. BuiltFrame(t, L)'
    <3>1. BuiltFrame(t, L)
      BY <1>l, <1>2 DEF Deep, Built
    <3>2. ASSUME f.at = "ctor", NEW j \in 1..Len(Uses[f.of]), j < f.i, j # f.i - 1
          PROVE  life[Uses[f.of][j]] = "ready"
      <4>1. j < Top(t).i
        BY <1>2, <3>2
      <4>2. ~ (L < Len(calls[t]))
        BY <1>l, <1>1
      <4> QED BY <1>2, <3>1, <3>2, <4>1, <4>2 DEF BuiltFrame
    <3>3. /\ L < Len(calls'[t])
          /\ f.at \notin {"check", "lock", "recheck", "register", "unlock", "return"}
      BY <1>1
    <3> QED BY <1>1, <1>3, <3>2, <3>3 DEF BuiltFrame
  <2>2. BuiltFrame(t, L + 1)'
    BY <1>0, <1>1 DEF BuiltFrame
  <2>3. ASSUME NEW k \in 1..Len(calls'[t])
        PROVE  \/ BuiltFrame(t, k)'
               \/ /\ k \in 1..Len(calls[t]) /\ calls'[t][k] = calls[t][k]
                  /\ k > 1 => calls'[t][k - 1].at = calls[t][k - 1].at
                  /\ k = Len(calls'[t]) => k = Len(calls[t])
    <3>1. CASE k = L \/ k = L + 1
      BY <2>1, <2>2, <3>1
    <3>2. CASE k # L /\ k # L + 1
      <4>1. k \in 1..(L - 1) /\ (k > 1 => k - 1 \in 1..(L - 1)) /\ k \in 1..L /\ k # L + 1
        BY <1>1, <3>2
      <4> QED BY <1>l, <1>1, <4>1
    <3> QED BY <3>1, <3>2
  <2> QED BY <1>1, <1>4, <2>3, BuiltAfter DEF Deep
<1>11. Ordered'
  <2>1. \A k \in 1..Len(calls'[t]) : calls'[t][k].at = "register" =>
           k \in 1..Len(calls[t]) /\ calls'[t][k] = calls[t][k]
    BY <1>l, <1>0, <1>1, <1>5
  <2> QED BY <1>1, <1>3, <2>1, OrderedAfter DEF Deep
<1>12. Hosted'
  <2>1. HostedFrame(t, L + 1)'
    BY <1>0, <1>1 DEF HostedFrame, OnModule
  <2>2. \A k \in 1..Len(calls'[t]) : Same(t, k) \/ HostedFrame(t, k)'
    BY <1>1, <1>5, <2>1
  <2> QED BY <1>1, <1>3, <2>2, HostedAfter DEF Deep
<1>13. UsedOutlivesUser'
  BY <1>3 DEF Deep, UsedOutlivesUser, Orphaned
<1> QED BY <1>8, <1>9, <1>10, <1>11, <1>12, <1>13 DEF Deep

LEMMA DeepCallsFor ==
  ASSUME Base, Deep, NEW t \in Threads,
         \/ Construct(t) /\ Top(t).i <= Len(Uses[Top(t).of])
         \/ Destruct(t) /\ Top(t).i <= Len(DtorUses[Top(t).of])
  PROVE  Deep'
<1> DEFINE f == Top(t)
           g == [f EXCEPT !.i = @ + 1]
<1>1. calls[t] # <<>> /\ f.at \in {"ctor", "dtor"}
  BY DEF Construct, Destruct, In, Top
<1>2. f \in Frames /\ f.i \in Nat /\ f.of \in Types /\ f.i > 0
  BY <1>1, TopIs DEF OnType
<1>3. g \in Frames /\ g.at = f.at /\ g.of = f.of /\ g.i = f.i + 1
  BY <1>2 DEF Frames
<1> HIDE DEF g
<1>4. PICK y \in Needs(f.of) : CallFrom(t, g, GetSingle(y)) /\ UNCHANGED <<data, mgr>>
  <2>1. CASE Construct(t) /\ f.i <= Len(Uses[f.of])
    <3>1. /\ CallFrom(t, g, GetSingle(Uses[f.of][f.i])) /\ UNCHANGED <<data, mgr>>
          /\ f.i \in 1..Len(Uses[f.of])
      BY <1>2, <2>1, SingletonAssumption DEF Construct, In, Top, data, g
    <3> QED BY <1>2, <3>1, UsesAreNeeded
  <2>2. CASE Destruct(t) /\ f.i <= Len(DtorUses[f.of])
    <3>1. /\ CallFrom(t, g, GetSingle(DtorUses[f.of][f.i])) /\ UNCHANGED <<data, mgr>>
          /\ f.i \in 1..Len(DtorUses[f.of])
      BY <1>2, <2>2, SingletonAssumption DEF Destruct, In, Top, data, g
    <3> QED BY <1>2, <3>1, UsesAreNeeded
  <2> QED BY <2>1, <2>2
<1>5. y \in Types
  BY <1>2, Ranks
<1> QED BY <1>1, <1>2, <1>3, <1>4, <1>5, DeepCallFrom

(* get_Single() returns: the constructor that called it has got what it     *)
(* asked for.                                                               *)
LEMMA DeepReturns ==
  ASSUME Base, Deep, NEW t \in Threads, ReturnSingle(t)
  PROVE  Deep'
<1> DEFINE f == Top(t)
<1>l. PICK L \in Nat : L = Len(calls[t])
  BY StackLen
<1>1. /\ calls[t] # <<>> /\ f.at = "return" /\ Return(t)
      /\ pThe' = pThe /\ life' = life /\ registry' = registry /\ mgr' = mgr
      /\ inExit' = inExit /\ unloaded' = unloaded
  BY DEF ReturnSingle, In, Top
<1>2. /\ Others(t) /\ L \in Nat /\ L > 0 /\ Len(calls'[t]) = L - 1
      /\ \A k \in 1..Len(calls'[t]) : calls'[t][k] = calls[t][k] /\ Same(t, k)
  BY <1>l, <1>1, ReturnShape
<1>3. calls[t][L] = f /\ L \in 1..L
  BY <1>l, <1>1, TopIs
<1>4. StayReady
  BY <1>1 DEF StayReady
<1> HIDE DEF f
<1>5. \A k \in 1..L : k = L \/ k \in 1..Len(calls'[t])
  BY <1>2
<1>6. Makers'
  <2>1. \A k \in 1..L : calls[t][k].at \in {"ctor", "dtor"} =>
             k \in 1..Len(calls'[t]) /\ calls'[t][k] = calls[t][k]
    BY <1>1, <1>2, <1>3, <1>5
  <2> QED BY <1>l, <1>1, <1>2, <2>1, MakersKept DEF Deep
<1>7. Descends'
  BY <1>2, DescendsAfter DEF Deep
<1>8. Built'
  <2>1. ASSUME L > 1
        PROVE  BuiltFrame(t, L - 1)'
    <3> DEFINE m == L - 1
               x == calls[t][m]
    <3>1. m \in 1..(L - 1) /\ m + 1 = L /\ m \in 1..L /\ m \in 1..Len(calls'[t])
      BY <1>2, <2>1
    <3>2. CalledBy(x, f) /\ x.at \in {"ctor", "dtor", "rmRestart"}
      BY <1>l, <1>3, <3>1, Below
    <3>3. BuiltFrame(t, m) /\ BuiltFrame(t, L)
      BY <1>l, <1>3, <3>1 DEF Deep, Built
    <3> HIDE DEF m
    <3>4. x.at = "ctor" => life[f.of] = "ready" /\ f.of = Uses[x.of][x.i - 1]
      <4>1. x.at = "ctor" => life[f.of] = "ready"
        BY <1>1, <1>3, <2>1, <3>3 DEF BuiltFrame, m
      <4> QED BY <3>2, <4>1 DEF CalledBy
    <3>5. x.at = "ctor" => \A j \in 1..Len(Uses[x.of]) : j < x.i => life[Uses[x.of][j]] = "ready"
      BY <3>3, <3>4 DEF BuiltFrame
    <3>6. calls'[t][m] = x
      BY <1>2, <3>1
    <3> QED BY <1>1, <3>2, <3>5, <3>6 DEF BuiltFrame, m
  <2>2. ASSUME NEW k \in 1..Len(calls'[t])
        PROVE  \/ BuiltFrame(t, k)'
               \/ /\ k \in 1..Len(calls[t]) /\ calls'[t][k] = calls[t][k]
                  /\ k > 1 => calls'[t][k - 1].at = calls[t][k - 1].at
                  /\ k = Len(calls'[t]) => k = Len(calls[t])
    <3>1. CASE k = L - 1
      BY <1>2, <2>1, <3>1
    <3>2. CASE k # L - 1
      <4>1. (k > 1 => k - 1 \in 1..Len(calls'[t])) /\ k \in 1..L /\ k # Len(calls'[t])
        BY <1>2, <3>2
      <4> QED BY <1>l, <1>2, <4>1
    <3> QED BY <3>1, <3>2
  <2> QED BY <1>2, <1>4, <2>2, BuiltAfter DEF Deep
<1>9. Ordered'
  <2>1. \A k \in 1..Len(calls'[t]) : k \in 1..Len(calls[t]) /\ calls'[t][k] = calls[t][k]
    BY <1>l, <1>2
  <2> QED BY <1>1, <1>2, <2>1, OrderedAfter DEF Deep
<1>10. Hosted'
  BY <1>1, <1>2, HostedAfter DEF Deep
<1>11. UsedOutlivesUser'
  BY <1>1 DEF Deep, UsedOutlivesUser, Orphaned
<1> QED BY <1>6, <1>7, <1>8, <1>9, <1>10, <1>11 DEF Deep

(* ReleaseModule returns.                                                   *)
LEMMA DeepReleased ==
  ASSUME Base, Deep, NEW t \in Threads, ReleaseDone(t)
  PROVE  Deep'
<1> DEFINE f == Top(t)
<1>1. /\ calls[t] # <<>> /\ f.at = "rmLoop" /\ f.i = 0 /\ Return(t)
      /\ pThe' = pThe /\ life' = life /\ registry' = registry
      /\ inExit' = inExit /\ unloaded' = unloaded
  BY DEF ReleaseDone, In, Top
<1>2. /\ Len(calls[t]) \in 1..Len(calls[t]) /\ calls[t][Len(calls[t])] = f
      /\ f.at \notin OnType
  BY <1>1, TopIs DEF OnType
<1>3. Len(calls[t]) = 1 /\ calls[t][1] = f
  BY <1>2, AtBottom
<1>4. Others(t) /\ Len(calls'[t]) = 0
  <2>1. Others(t) /\ Len(calls'[t]) = Len(calls[t]) - 1
    BY <1>1, ReturnShape
  <2> QED BY <1>3, <2>1
<1>5. StayReady
  BY <1>1 DEF StayReady
<1> HIDE DEF f
<1>6. Makers'
  BY <1>1, <1>3, <1>4, MakersKept DEF Deep
<1>7. Descends'
  BY <1>4, DescendsAfter DEF Deep
<1>8. Built'
  BY <1>4, <1>5, BuiltAfter DEF Deep
<1>9. Ordered'
  BY <1>1, <1>4, OrderedAfter DEF Deep
<1>10. Hosted'
  BY <1>1, <1>4, HostedAfter DEF Deep
<1>11. UsedOutlivesUser'
  BY <1>1 DEF Deep, UsedOutlivesUser, Orphaned
<1> QED BY <1>6, <1>7, <1>8, <1>9, <1>10, <1>11 DEF Deep

-----------------------------------------------------------------------------
(* A thread that is in no call makes one.                                   *)
LEMMA DeepStart ==
  ASSUME Base, Deep, NEW t \in Threads, calls[t] = <<>>, NEW f \in Frames,
         calls' = [calls EXCEPT ![t] = <<f>>], f.at \in {"check", "rmLock"},
         f.at = "check" => f.i = 1, UNCHANGED <<life, registry>>, unloaded \subseteq unloaded'
  PROVE  /\ Others(t) /\ Len(calls[t]) = 0 /\ Len(calls'[t]) = 1 /\ calls'[t][1] = f
         /\ Makers' /\ Descends' /\ Built' /\ Ordered' /\ UsedOutlivesUser'
<1>1. Others(t) /\ Len(calls[t]) = 0 /\ Len(calls'[t]) = 1 /\ calls'[t][1] = f
  BY AfterStart DEF Base, TypeOK, Others
<1>2. StayReady
  BY DEF StayReady
<1>3. Makers'
  BY <1>1, MakersKept DEF Deep
<1>4. Descends'
  BY <1>1 DEF Others, Deep, Descends
<1>5. Built'
  <2>1. BuiltFrame(t, 1)'
    BY <1>1 DEF BuiltFrame
  <2> QED BY <1>1, <1>2, <2>1, BuiltAfter DEF Deep
<1>6. Ordered'
  BY <1>1, OrderedAfter DEF Deep
<1>7. UsedOutlivesUser'
  BY DEF Deep, UsedOutlivesUser, Orphaned
<1> QED BY <1>1, <1>3, <1>4, <1>5, <1>6, <1>7

LEMMA DeepCall ==
  ASSUME Base, Deep, NEW t \in Threads, NEW y \in Types, Call(t, y)
  PROVE  Deep'
<1> DEFINE f == GetSingle(y)
<1>1. f \in Frames /\ f.at = "check" /\ f.of = y /\ f.i = 1 /\ f.at \notin OnModule
  BY DEF GetSingle, Frame, Frames, OnType, OnModule
<1>2. /\ calls[t] = <<>> /\ calls' = [calls EXCEPT ![t] = <<f>>]
      /\ life' = life /\ registry' = registry /\ unloaded' = unloaded
  BY DEF Call
<1> HIDE DEF f
<1>3. /\ Others(t) /\ Len(calls[t]) = 0 /\ Len(calls'[t]) = 1 /\ calls'[t][1] = f
      /\ Makers' /\ Descends' /\ Built' /\ Ordered' /\ UsedOutlivesUser'
  BY <1>1, <1>2, DeepStart
<1>4. Hosted'
  BY <1>1, <1>2, <1>3 DEF Others, Deep, Hosted, HostedFrame
<1> QED BY <1>3, <1>4 DEF Deep

(* A module begins to unload, or all of them at the exit.                   *)
LEMMA DeepRelease ==
  ASSUME Base, Deep, NEW t \in Threads, calls[t] = <<>>, NEW hMod \in Modules \cup {AllModules},
         calls' = [calls EXCEPT ![t] = <<Frame("rmLock", hMod, 0)>>],
         UNCHANGED <<life, registry>>, unloaded \subseteq unloaded',
         hMod = AllModules \/ hMod \in unloaded'
  PROVE  Deep'
<1> DEFINE f == Frame("rmLock", hMod, 0)
<1>1. f \in Frames /\ f.at = "rmLock" /\ f.of = hMod
  BY DEF Frame, Frames, OnModule
<1>2. calls' = [calls EXCEPT ![t] = <<f>>]
  OBVIOUS
<1> HIDE DEF f
<1>3. /\ Others(t) /\ Len(calls[t]) = 0 /\ Len(calls'[t]) = 1 /\ calls'[t][1] = f
      /\ Makers' /\ Descends' /\ Built' /\ Ordered' /\ UsedOutlivesUser'
  BY <1>1, <1>2, DeepStart
<1>4. HostedFrame(t, 1)'
  BY <1>1, <1>3 DEF HostedFrame
<1>5. Hosted'
  BY <1>3, <1>4, HostedAfter DEF Deep
<1> QED BY <1>3, <1>5 DEF Deep

LEMMA DeepStarts ==
  ASSUME Base, Deep, NEW t \in Threads,
         \/ \E y \in Types : Call(t, y)
         \/ \E hMod \in Modules : UnloadModule(t, hMod)
         \/ t = Main /\ DestructMgr
  PROVE  Deep'
<1>1. CASE \E y \in Types : Call(t, y)
  BY <1>1, DeepCall
<1>2. ASSUME NEW hMod \in Modules, UnloadModule(t, hMod)
      PROVE  Deep'
  <2>1. /\ calls[t] = <<>> /\ life' = life /\ registry' = registry
        /\ unloaded \subseteq unloaded' /\ hMod \in unloaded'
    BY <1>2 DEF UnloadModule
  <2>2. CASE mgr
    <3>1. calls' = [calls EXCEPT ![t] = <<Frame("rmLock", hMod, 0)>>]
      BY <1>2, <2>2 DEF UnloadModule
    <3> QED BY <2>1, <3>1, DeepRelease
  <2>3. CASE ~ mgr
    <3>1. calls' = calls
      BY <1>2, <2>3 DEF UnloadModule
    <3>2. Makers' /\ Descends'
      BY <2>1, <3>1 DEF Deep, Makers, Maker, Descends
    <3>3. Built'
      BY <2>1, <3>1 DEF Deep, Built, BuiltFrame
    <3>4. Ordered' /\ UsedOutlivesUser'
      BY <2>1, <3>1 DEF Deep, Ordered, Unused, UsedOutlivesUser, Orphaned
    <3>5. Hosted'
      BY <2>1, <3>1 DEF Deep, Hosted, HostedFrame
    <3> QED BY <3>2, <3>3, <3>4, <3>5 DEF Deep
  <2> QED BY <2>2, <2>3
<1>3. CASE t = Main /\ DestructMgr
  <2>1. /\ calls[t] = <<>> /\ calls' = [calls EXCEPT ![t] = <<Frame("rmLock", AllModules, 0)>>]
        /\ UNCHANGED <<life, registry>> /\ unloaded' = unloaded
    BY <1>3 DEF DestructMgr
  <2> QED BY <2>1, DeepRelease
<1> QED BY <1>1, <1>2, <1>3

-----------------------------------------------------------------------------
(* What only follows from the stack, when a call goes on.                   *)
LEMMA StackKept ==
  ASSUME Base, Deep, NEW t \in Threads, calls[t] # <<>>, NEW f \in Frames, Become(t, f),
         f.of = Top(t).of, f.at \in OnType <=> Top(t).at \in OnType,
         unloaded' = unloaded
  PROVE  Descends' /\ Hosted'
<1>1. /\ Others(t) /\ Len(calls[t]) > 0 /\ Len(calls'[t]) = Len(calls[t])
      /\ \A k \in 1..Len(calls[t]) : Same(t, k)
  BY BecomeShape
<1>2. \A k \in 1..Len(calls'[t]) : Same(t, k)
  BY <1>1
<1>3. Descends'
  BY <1>1, <1>2, DescendsAfter DEF Deep
<1>4. Hosted'
  BY <1>1, <1>2, HostedAfter DEF Deep
<1> QED BY <1>3, <1>4

(* The frame on top goes on; the frames below it keep what they have.       *)
LEMMA BuiltBecome ==
  ASSUME Base, Deep, NEW t \in Threads, calls[t] # <<>>, NEW f \in Frames, Become(t, f), StayReady,
         f.of = Top(t).of, f.at \in OnType <=> Top(t).at \in OnType,
         NEW L \in Nat, L = Len(calls[t]), BuiltFrame(t, L)'
  PROVE  Built'
<1>1. /\ Others(t) /\ L > 0 /\ Len(calls'[t]) = L
      /\ \A k \in 1..(L - 1) : calls'[t][k] = calls[t][k]
  BY BecomeShape
<1>2. ASSUME NEW k \in 1..Len(calls'[t])
      PROVE  \/ BuiltFrame(t, k)'
             \/ /\ k \in 1..Len(calls[t]) /\ calls'[t][k] = calls[t][k]
                /\ k > 1 => calls'[t][k - 1].at = calls[t][k - 1].at
                /\ k = Len(calls'[t]) => k = Len(calls[t])
  <2>1. CASE k = L
    BY <2>1
  <2>2. CASE k # L
    <3>1. k \in 1..(L - 1) /\ (k > 1 => k - 1 \in 1..(L - 1)) /\ k \in 1..L
      BY <1>1, <2>2
    <3> QED BY <1>1, <3>1
  <2> QED BY <2>1, <2>2
<1> QED BY <1>1, <1>2, BuiltAfter DEF Deep

(* new TYPE()                                                               *)
LEMMA DeepMakes ==
  ASSUME Base, Deep, NEW t \in Threads, Recheck(t), ~ pThe[Top(t).of]
  PROVE  Deep'
<1>l. PICK L \in Nat : L = Len(calls[t])
  BY StackLen
<1>y. PICK y : y = Top(t).of
  OBVIOUS
<1> DEFINE f == Top(t)
           g == [f EXCEPT !.at = "ctor"]
<1>1. /\ calls[t] # <<>> /\ f.at = "recheck" /\ Become(t, g)
      /\ life' = [life EXCEPT ![y] = "building"] /\ registry' = registry /\ mgr' = mgr
      /\ inExit' = inExit /\ unloaded' = unloaded
  BY <1>y DEF Recheck, In, Top, Move
<1>2. f \in Frames /\ f.i > 0 /\ y \in Types /\ L \in 1..L /\ calls[t][L] = f /\ f.at \in OnType
  BY <1>l, <1>y, <1>1, TopIs DEF OnType
<1>3. g \in Frames /\ g.at = "ctor" /\ g.of = y /\ g.i = f.i /\ g.at \in OnType
  BY <1>y, <1>2, Moved DEF OnType
<1> HIDE DEF f, g
<1>4. /\ Others(t) /\ L > 0 /\ Len(calls'[t]) = L /\ calls'[t][L] = g
      /\ \A k \in 1..(L - 1) : calls'[t][k] = calls[t][k]
  BY <1>l, <1>y, <1>1, <1>2, <1>3, BecomeShape DEF f
<1>5. life[y] = "none" /\ StayReady
  <2>1. life[y] = "none"
    BY <1>y, <1>2 DEF Base, Objects
  <2> QED BY <1>1, <1>2, <2>1 DEF StayReady, Base, TypeOK
<1>6. Descends' /\ Hosted'
  BY <1>y, <1>1, <1>2, <1>3, StackKept DEF f
<1>7. Makers'
  <2>1. \A z \in Types : z # y => life'[z] = life[z]
    BY <1>1 DEF Base, TypeOK
  <2>2. life'[y] = "building"
    BY <1>1, <1>2 DEF Base, TypeOK
  <2>3. Maker(y, "ctor")'
    <3>1. L \in 1..Len(calls'[t]) /\ calls'[t][L].at = "ctor" /\ calls'[t][L].of = y
      BY <1>2, <1>3, <1>4
    <3> QED BY <3>1 DEF Maker
  <2>4. \A k \in 1..Len(calls[t]) : calls[t][k].at \in {"ctor", "dtor"} =>
             k \in 1..Len(calls'[t]) /\ calls'[t][k] = calls[t][k]
    <3>1. \A k \in 1..L : k # L => k \in 1..(L - 1)
      OBVIOUS
    <3> QED BY <1>l, <1>1, <1>2, <1>4, <3>1
  <2> QED BY <1>2, <1>4, <2>1, <2>2, <2>3, <2>4, MakersAfter DEF Deep
<1>8. Built'
  <2>1. BuiltFrame(t, L)
    BY <1>l, <1>2 DEF Deep, Built
  <2>2. g.i = 1
    BY <1>1, <1>2, <1>3, <2>1 DEF BuiltFrame
  <2>3. \A j \in 1..Len(Uses[y]) : ~ (j < 1)
    OBVIOUS
  <2>4. BuiltFrame(t, L)'
    BY <1>3, <1>4, <2>2, <2>3 DEF BuiltFrame
  <2> QED BY <1>l, <1>y, <1>1, <1>2, <1>3, <1>5, <2>4, BuiltBecome DEF f
<1>9. Ordered'
  <2>1. \A k \in 1..Len(calls'[t]) : calls'[t][k].at = "register" =>
           k \in 1..Len(calls[t]) /\ calls'[t][k] = calls[t][k]
    <3>1. \A k \in 1..L : k # L => k \in 1..(L - 1)
      OBVIOUS
    <3> QED BY <1>l, <1>3, <1>4, <3>1
  <2> QED BY <1>1, <1>4, <2>1, OrderedAfter DEF Deep
<1>10. UsedOutlivesUser'
  <2>1. registry' \in Seq(Types) /\ \A k \in 1..Len(registry') : Contains(registry, registry'[k])
    BY <1>1 DEF Base, TypeOK, Contains
  <2> QED BY <1>1, <1>5, <2>1, UsedAfter DEF Deep
<1> QED BY <1>6, <1>7, <1>8, <1>9, <1>10 DEF Deep

(* The constructor has run: it has got all that it uses.                    *)
LEMMA DeepBuilt ==
  ASSUME Base, Deep, NEW t \in Threads, Construct(t), ~ (Top(t).i <= Len(Uses[Top(t).of]))
  PROVE  Deep'
<1>l. PICK L \in Nat : L = Len(calls[t])
  BY StackLen
<1>y. PICK y : y = Top(t).of
  OBVIOUS
<1> DEFINE f == Top(t)
           g == [f EXCEPT !.at = "register"]
<1>1. /\ calls[t] # <<>> /\ f.at = "ctor" /\ Become(t, g)
      /\ life' = [life EXCEPT ![y] = "ready"] /\ registry' = registry /\ mgr' = mgr
      /\ inExit' = inExit /\ unloaded' = unloaded
  BY <1>y DEF Construct, In, Top, Move
<1>2. /\ f \in Frames /\ f.i \in Nat /\ y \in Types /\ L \in 1..L /\ calls[t][L] = f
      /\ f.at \in OnType
  BY <1>l, <1>y, <1>1, TopIs DEF OnType
<1>3. g \in Frames /\ g.at = "register" /\ g.of = y /\ g.at \in OnType
  BY <1>y, <1>2, Moved DEF OnType
<1> HIDE DEF f, g
<1>4. /\ Others(t) /\ L > 0 /\ Len(calls'[t]) = L /\ calls'[t][L] = g
      /\ \A k \in 1..(L - 1) : calls'[t][k] = calls[t][k]
  BY <1>l, <1>y, <1>1, <1>2, <1>3, BecomeShape DEF f
<1>5. life[y] = "building"
  BY <1>l, <1>y, <1>1, <1>2 DEF Base, Objects, f
<1>6. StayReady /\ life'[y] = "ready" /\ \A z \in Types : z # y => life'[z] = life[z]
  BY <1>1, <1>2 DEF StayReady, Base, TypeOK
<1>7. Descends' /\ Hosted'
  BY <1>y, <1>1, <1>2, <1>3, StackKept DEF f
<1>8. \A k \in 1..L : k # L => k \in 1..(L - 1)
  OBVIOUS
<1>9. Makers'
  <2>1. \A k \in 1..Len(calls[t]) : calls[t][k].at \in {"ctor", "dtor"} /\ calls[t][k].of # y =>
             k \in 1..Len(calls'[t]) /\ calls'[t][k] = calls[t][k]
    BY <1>l, <1>y, <1>2, <1>4, <1>8 DEF f
  <2> QED BY <1>2, <1>4, <1>6, <2>1, MakersAfter DEF Deep
<1>10. Built'
  <2>1. BuiltFrame(t, L)
    BY <1>l, <1>2 DEF Deep, Built
  <2>2. ASSUME NEW j \in 1..Len(Uses[y])
        PROVE  life'[Uses[y][j]] = "ready"
    <3>1. Uses[y] \in Seq(Types)
      BY <1>2, UsesAreNeeded
    <3>2. j < f.i /\ ~ (L < Len(calls[t])) /\ Uses[y][j] \in Types
      <4>1. Len(Uses[y]) \in Nat /\ ~ (f.i <= Len(Uses[y]))
        BY <1>y, <3>1 DEF f
      <4>2. Uses[y][j] \in Types
        BY <3>1, ElementOfSeq
      <4> QED BY <1>l, <1>2, <4>1, <4>2
    <3>3. life[Uses[y][j]] = "ready"
      BY <1>y, <1>1, <1>2, <2>1, <3>2 DEF BuiltFrame, f
    <3> QED BY <1>6, <3>2, <3>3 DEF StayReady
  <2>3. BuiltFrame(t, L)'
    BY <1>3, <1>4, <2>2 DEF BuiltFrame
  <2> QED BY <1>l, <1>y, <1>1, <1>2, <1>3, <1>6, <2>3, BuiltBecome DEF f
<1>11. Ordered'
  <2>1. Unused(y)
    BY <1>5 DEF Deep, UsedOutlivesUser, Unused, Orphaned
  <2>2. \A k \in 1..Len(calls'[t]) : calls'[t][k].at = "register" =>
           \/ Unused(calls'[t][k].of)
           \/ k \in 1..Len(calls[t]) /\ calls'[t][k] = calls[t][k]
    BY <1>l, <1>3, <1>4, <1>8, <2>1
  <2> QED BY <1>1, <1>4, <2>2, OrderedAfter DEF Deep
<1>12. UsedOutlivesUser'
  <2>1. registry' \in Seq(Types) /\ \A k \in 1..Len(registry') : Contains(registry, registry'[k])
    BY <1>1 DEF Base, TypeOK, Contains
  <2> QED BY <1>1, <1>6, <2>1, UsedAfter DEF Deep
<1> QED BY <1>7, <1>9, <1>10, <1>11, <1>12 DEF Deep

(* The object is put at the end of the list: nobody needs it yet, and       *)
(* what it uses is in the list before it, or in none.                       *)
LEMMA DeepRegisters ==
  ASSUME Base, Deep, NEW t \in Threads, RegisterSingleton(t)
  PROVE  Deep'
<1>l. PICK L \in Nat : L = Len(calls[t])
  BY StackLen
<1>y. PICK y : y = Top(t).of
  OBVIOUS
<1> DEFINE f == Top(t)
           g == [f EXCEPT !.at = "unlock"]
<1>1. /\ calls[t] # <<>> /\ f.at = "register" /\ Become(t, g)
      /\ life' = life /\ inExit' = inExit /\ unloaded' = unloaded
  BY DEF RegisterSingleton, In, Top, Move
<1>2. f \in Frames /\ y \in Types /\ L \in 1..L /\ calls[t][L] = f /\ f.at \in OnType
  BY <1>l, <1>y, <1>1, TopIs DEF OnType
<1>3. g \in Frames /\ g.at = "unlock" /\ g.of = y /\ g.at \in OnType
  BY <1>y, <1>2, Moved DEF OnType
<1> HIDE DEF f, g
<1>4. /\ Others(t) /\ L > 0 /\ Len(calls'[t]) = L /\ calls'[t][L] = g
      /\ \A k \in 1..(L - 1) : calls'[t][k] = calls[t][k]
  BY <1>l, <1>y, <1>1, <1>2, <1>3, BecomeShape DEF f
<1>5. life[y] = "ready" /\ ~ Contains(registry, y) /\ Unused(y)
  <2>1. life[y] = "ready" /\ ~ Contains(registry, y)
    BY <1>l, <1>y, <1>1, <1>2 DEF Base, Objects, Making, f
  <2>2. Unused(y)
    BY <1>l, <1>y, <1>1, <1>2 DEF Deep, Ordered, f
  <2> QED BY <2>1, <2>2
<1>6. registry' = registry \/ registry' = Append(registry, y)
  BY <1>y, <1>5 DEF RegisterSingleton
<1>7. StayReady
  BY <1>1 DEF StayReady
<1>8. Descends' /\ Hosted'
  BY <1>y, <1>1, <1>2, <1>3, StackKept DEF f
<1>9. \A k \in 1..L : k # L => k \in 1..(L - 1)
  OBVIOUS
<1>10. BuiltFrame(t, L)
  BY <1>l, <1>2 DEF Deep, Built
<1>11. Makers'
  <2>1. \A k \in 1..Len(calls[t]) : calls[t][k].at \in {"ctor", "dtor"} =>
             k \in 1..Len(calls'[t]) /\ calls'[t][k] = calls[t][k]
    BY <1>l, <1>1, <1>2, <1>4, <1>9
  <2> QED BY <1>1, <1>4, <2>1, MakersKept DEF Deep
<1>12. Built'
  <2>1. BuiltFrame(t, L)'
    BY <1>1, <1>3, <1>4, <1>5 DEF BuiltFrame
  <2> QED BY <1>l, <1>y, <1>1, <1>2, <1>3, <1>7, <2>1, BuiltBecome DEF f
<1>13. CASE registry' = registry
  <2>1. Ordered'
    <3>1. \A k \in 1..Len(calls'[t]) : calls'[t][k].at = "register" =>
             k \in 1..Len(calls[t]) /\ calls'[t][k] = calls[t][k]
      BY <1>l, <1>3, <1>4, <1>9
    <3> QED BY <1>1, <1>4, <1>13, <3>1, OrderedAfter DEF Deep
  <2>2. UsedOutlivesUser'
    BY <1>1, <1>13 DEF Deep, UsedOutlivesUser, Orphaned
  <2> QED BY <1>8, <1>11, <1>12, <2>1, <2>2 DEF Deep
<1>14. CASE registry' = Append(registry, y)
  <2>n. PICK n \in Nat : n = Len(registry)
    BY DEF Base, TypeOK
  <2>1. /\ registry' \in Seq(Types) /\ Len(registry') = n + 1 /\ registry'[n + 1] = y
        /\ \A k \in 1..n : registry'[k] = registry[k]
    BY <1>2, <1>5, <1>14, <2>n, Added
  <2>2. \A k \in 1..Len(registry') : k = n + 1 \/ k \in 1..n
    BY <2>1
  <2>3. \A j \in 1..Len(Uses[y]) : Uses[y][j] # y /\ life[Uses[y][j]] = "ready"
    <3>1. \A j \in 1..Len(Uses[y]) : Rank[Uses[y][j]] < Rank[y]
      BY <1>2, UsesAreNeeded, Ranks
    <3>2. Rank[y] \in Nat
      BY <1>2, Ranks
    <3>3. \A j \in 1..Len(Uses[y]) : life[Uses[y][j]] = "ready"
      BY <1>y, <1>1, <1>2, <1>10 DEF BuiltFrame, f
    <3> QED BY <3>1, <3>2, <3>3
  <2>4. Ordered'
    <3>1. ASSUME NEW k \in 1..Len(registry'), NEW l \in 1..Len(registry'),
                 NEW j \in 1..Len(Uses[registry'[k]]), registry'[l] = Uses[registry'[k]][j]
          PROVE  l < k \/ Orphaned(registry[k], registry[l])'
      <4>1. CASE k \in 1..n /\ l \in 1..n
        BY <1>1, <2>n, <2>1, <3>1, <4>1 DEF Deep, Ordered, Orphaned
      <4>2. CASE k \in 1..n /\ l = n + 1
        BY <1>1, <1>5, <2>n, <2>1, <3>1, <4>2 DEF Unused, Orphaned
      <4>3. CASE k = n + 1
        <5>1. registry'[k] = y /\ l # n + 1
          BY <2>1, <2>3, <3>1, <4>3
        <5> QED BY <2>1, <2>2, <4>3, <5>1
      <4> QED BY <2>2, <4>1, <4>2, <4>3
    <3>2. ASSUME NEW u \in Threads, NEW k \in 1..Len(calls'[u]), calls'[u][k].at = "register"
          PROVE  FALSE
      <4>1. CASE u # t
        BY <1>1, <1>4, <3>2, <4>1, Alone DEF Others, Making, Inside, f
      <4>2. CASE u = t
        <5>1. k \in 1..(L - 1) /\ calls[t][k].at = "register"
          BY <1>3, <1>4, <1>9, <3>2, <4>2
        <5> QED BY <1>l, <5>1, Below
      <4> QED BY <4>1, <4>2
    <3> QED BY <3>1, <3>2 DEF Ordered, Orphaned
  <2>5. UsedOutlivesUser'
    <3>1. ASSUME NEW k \in 1..Len(registry'), NEW j \in 1..Len(Uses[registry'[k]])
          PROVE  \/ life'[Uses[registry'[k]][j]] = "ready"
                 \/ Orphaned(registry[k], Uses[registry[k]][j])'
      <4>1. CASE k \in 1..n
        BY <1>1, <2>n, <2>1, <3>1, <4>1 DEF Deep, UsedOutlivesUser, Orphaned
      <4>2. CASE k = n + 1
        BY <1>1, <2>1, <2>3, <3>1, <4>2
      <4> QED BY <2>2, <4>1, <4>2
    <3> QED BY <3>1 DEF UsedOutlivesUser, Orphaned
  <2> QED BY <1>8, <1>11, <1>12, <2>4, <2>5 DEF Deep
<1> QED BY <1>6, <1>13, <1>14

(* The object is forgotten: it was in no list, and used by none in it.      *)
LEMMA DeepDestroyed ==
  ASSUME Base, Deep, NEW t \in Threads, Destruct(t), ~ (Top(t).i <= Len(DtorUses[Top(t).of]))
  PROVE  Deep'
<1>l. PICK L \in Nat : L = Len(calls[t])
  BY StackLen
<1>y. PICK y : y = Top(t).of
  OBVIOUS
<1> DEFINE f == Top(t)
<1>1. /\ calls[t] # <<>> /\ f.at = "dtor" /\ Return(t)
      /\ registry' = RemoveFirst(registry, y) /\ life' = [life EXCEPT ![y] = "none"]
      /\ mgr' = mgr /\ inExit' = inExit /\ unloaded' = unloaded
  BY <1>y DEF Destruct, In, Top
<1>2. f \in Frames /\ y \in Types /\ L \in 1..L /\ calls[t][L] = f
  BY <1>l, <1>y, <1>1, TopIs DEF OnType
<1> HIDE DEF f
<1>3. life[y] = "dying" /\ ~ Contains(registry, y)
  BY <1>l, <1>y, <1>1, <1>2 DEF Base, Objects, Making, f
<1>4. registry' = registry
  BY <1>1, <1>3 DEF RemoveFirst, Contains
<1>5. /\ Others(t) /\ L > 0 /\ Len(calls'[t]) = L - 1
      /\ \A k \in 1..Len(calls'[t]) : calls'[t][k] = calls[t][k] /\ Same(t, k)
  BY <1>l, <1>1, ReturnShape
<1>6. StayReady /\ life'[y] = "none" /\ \A z \in Types : z # y => life'[z] = life[z]
  BY <1>1, <1>2, <1>3 DEF StayReady, Base, TypeOK
<1>7. \A k \in 1..L : k = L \/ k \in 1..Len(calls'[t])
  BY <1>5
<1>8. Makers'
  <2>1. \A k \in 1..Len(calls[t]) : calls[t][k].at \in {"ctor", "dtor"} /\ calls[t][k].of # y =>
             k \in 1..Len(calls'[t]) /\ calls'[t][k] = calls[t][k]
    BY <1>l, <1>y, <1>2, <1>5, <1>7 DEF f
  <2> QED BY <1>2, <1>5, <1>6, <2>1, MakersAfter DEF Deep
<1>9. Descends'
  BY <1>5, DescendsAfter DEF Deep
<1>10. Built'
  <2>1. ASSUME L > 1
        PROVE  BuiltFrame(t, L - 1)'
    <3>1. L - 1 \in 1..(L - 1) /\ (L - 1) + 1 = L /\ L - 1 \in 1..Len(calls'[t])
      BY <1>5, <2>1
    <3>2. CalledBy(calls[t][L - 1], calls[t][(L - 1) + 1])
      BY <1>l, <3>1, Below
    <3>3. calls'[t][L - 1].at = "rmRestart"
      BY <1>1, <1>2, <1>5, <3>1, <3>2 DEF CalledBy
    <3> QED BY <3>3 DEF BuiltFrame
  <2>2. ASSUME NEW k \in 1..Len(calls'[t])
        PROVE  \/ BuiltFrame(t, k)'
               \/ /\ k \in 1..Len(calls[t]) /\ calls'[t][k] = calls[t][k]
                  /\ k > 1 => calls'[t][k - 1].at = calls[t][k - 1].at
                  /\ k = Len(calls'[t]) => k = Len(calls[t])
    <3>1. CASE k = L - 1
      BY <1>5, <2>1, <3>1
    <3>2. CASE k # L - 1
      <4>1. (k > 1 => k - 1 \in 1..Len(calls'[t])) /\ k \in 1..L /\ k # Len(calls'[t])
        BY <1>5, <3>2
      <4> QED BY <1>l, <1>5, <4>1
    <3> QED BY <3>1, <3>2
  <2> QED BY <1>5, <1>6, <2>2, BuiltAfter DEF Deep
<1>11. Ordered'
  <2>1. \A k \in 1..Len(calls'[t]) : k \in 1..Len(calls[t]) /\ calls'[t][k] = calls[t][k]
    BY <1>l, <1>5
  <2> QED BY <1>1, <1>4, <1>5, <2>1, OrderedAfter DEF Deep
<1>12. Hosted'
  BY <1>1, <1>5, HostedAfter DEF Deep
<1>13. UsedOutlivesUser'
  <2>1. registry' \in Seq(Types) /\ \A k \in 1..Len(registry') : Contains(registry, registry'[k])
    BY <1>4 DEF Base, TypeOK, Contains
  <2> QED BY <1>1, <1>6, <2>1, UsedAfter DEF Deep
<1> QED BY <1>8, <1>9, <1>10, <1>11, <1>12, <1>13 DEF Deep

(* ReleaseModule takes the entry out that is the last one of its module:    *)
(* what comes after it is of other modules, and loses what it used because  *)
(* this one was told to unload; what comes before it was not built upon it. *)
LEMMA NotUsedYet ==
  ASSUME Base, Deep, NEW t \in Threads, ReleaseOne(t)
  PROVE  \A l \in 1..Len(registry) : \A j \in 1..Len(Uses[registry[l]]) :
           l # Top(t).i /\ Uses[registry[l]][j] = registry[Top(t).i] =>
             Orphaned(registry[l], registry[Top(t).i])
<1> DEFINE f == Top(t)
           y == registry[f.i]
<1>1. /\ calls[t] # <<>> /\ f.at = "rmLoop" /\ f.i > 0
      /\ f.of = AllModules \/ ModuleOf[y] = f.of
  BY DEF ReleaseOne, In, Top
<1>2. /\ Len(calls[t]) \in 1..Len(calls[t]) /\ calls[t][Len(calls[t])] = f
      /\ PassedBy(f) /\ f.i \in Nat
  BY <1>1, TopIs
<1>3. f.i \in 1..Len(registry) /\ registry \in Seq(Types)
  BY <1>1, <1>2 DEF PassedBy, Base, TypeOK
<1> SUFFICES ASSUME NEW l \in 1..Len(registry), NEW j \in 1..Len(Uses[registry[l]]),
                    l # f.i, Uses[registry[l]][j] = y, ~ Orphaned(registry[l], y)
             PROVE  FALSE
  OBVIOUS
<1>4. f.i < l
  BY <1>3 DEF Deep, Ordered
<1>5. f.of # AllModules /\ ModuleOf[registry[l]] # f.of
  <2>1. l \in (f.i + 1)..Len(registry)
    BY <1>3, <1>4
  <2> QED BY <1>1, <1>2, <2>1 DEF PassedBy
<1>6. f.of \in unloaded
  BY <1>1, <1>2, <1>5 DEF Deep, Hosted, HostedFrame, OnModule
<1> QED BY <1>1, <1>5, <1>6 DEF Orphaned

(* No constructor is at work, and nothing waits to be registered.           *)
LEMMA NoneBuilding ==
  ASSUME Base, NEW t \in Threads, calls[t] # <<>>, Top(t).at = "rmLoop",
         NEW u \in Threads, NEW k \in 1..Len(calls[u])
  PROVE  calls[u][k].at \notin Making /\ (u = t => k = 1)
<1>1. Len(calls[t]) = 1 /\ calls[t][1] = Top(t)
  <2>1. /\ Len(calls[t]) \in 1..Len(calls[t]) /\ calls[t][Len(calls[t])] = Top(t)
        /\ Top(t).at \notin OnType
    BY TopIs DEF OnType
  <2> QED BY <2>1, AtBottom
<1>2. CASE u = t
  BY <1>1, <1>2 DEF Making
<1>3. CASE u # t
  BY <1>3, Alone DEF Inside
<1> QED BY <1>2, <1>3

LEMMA DeepReleases ==
  ASSUME Base, Deep, NEW t \in Threads, ReleaseOne(t)
  PROVE  Deep'
<1>y. PICK y : y = registry[Top(t).i]
  OBVIOUS
<1> DEFINE f == Top(t)
           g == [f EXCEPT !.at = "rmRestart"]
           d == Frame("dtor", y, 1)
<1>1. /\ calls[t] # <<>> /\ f.at = "rmLoop" /\ f.i > 0
      /\ f.of = AllModules \/ ModuleOf[y] = f.of
      /\ registry' = RemoveAt(registry, f.i)
      /\ IF y \in Referenced THEN Become(t, g) /\ life' = life
         ELSE CallFrom(t, g, d) /\ life' = [life EXCEPT ![y] = "dying"]
      /\ mgr' = mgr /\ inExit' = inExit /\ unloaded' = unloaded
  BY <1>y DEF ReleaseOne, In, Top, Move
<1>2. /\ f \in Frames /\ f.i \in Nat /\ Len(calls[t]) \in 1..Len(calls[t])
      /\ calls[t][Len(calls[t])] = f /\ f.at \notin OnType /\ f.i <= Len(registry)
  BY <1>1, TopIs DEF OnType, PassedBy
<1>3. registry \in Seq(Types) /\ IsInjective(registry) /\ f.i \in 1..Len(registry)
  BY <1>1, <1>2 DEF Base, TypeOK
<1>4. y \in Types /\ life[y] = "ready"
  <2>1. y \in Types
    BY <1>y, <1>3, ElementOfSeq
  <2> QED BY <1>y, <1>3, <2>1 DEF Base, Objects
<1>5. /\ registry' \in Seq(Types) /\ Len(registry') = Len(registry) - 1
      /\ \A k \in 1..Len(registry') :
           registry'[k] = IF k < f.i THEN registry[k] ELSE registry[k + 1]
      /\ \A k \in 1..Len(registry') : Contains(registry, registry'[k]) /\ registry'[k] # y
  BY <1>y, <1>1, <1>3, Removed
<1>6. g \in Frames /\ g.at = "rmRestart" /\ g.of = f.of /\ g.at \notin OnType
  BY <1>2, Moved DEF OnType, OnModule
<1>7. d \in Frames /\ d.at = "dtor" /\ d.of = y /\ d.at \notin OnModule
  BY <1>4 DEF Frame, Frames, OnType, OnModule
<1>8. Len(calls[t]) = 1 /\ calls[t][1] = f
  BY <1>2, AtBottom
<1>9. \A l \in 1..Len(registry) : \A j \in 1..Len(Uses[registry[l]]) :
         l # f.i /\ Uses[registry[l]][j] = y => Orphaned(registry[l], y)
  BY <1>y, NotUsedYet
<1> HIDE DEF f, g, d
<1>10. /\ Others(t) /\ Len(calls'[t]) \in {1, 2} /\ calls'[t][1] = g /\ Same(t, 1)
       /\ Len(calls'[t]) = 2 => calls'[t][2] = d /\ y \notin Referenced
       /\ Len(calls'[t]) = 1 => y \in Referenced
  <2>1. CASE y \in Referenced
    <3>1. Become(t, g)
      BY <1>1, <2>1
    <3>2. /\ Others(t) /\ Len(calls'[t]) = Len(calls[t]) /\ calls'[t][Len(calls[t])] = g
          /\ \A k \in 1..Len(calls[t]) : Same(t, k)
      BY <1>1, <1>2, <1>6, <3>1, BecomeShape DEF f
    <3>3. 1 \in 1..Len(calls[t])
      BY <1>8
    <3> QED BY <1>8, <2>1, <3>2, <3>3
  <2>2. CASE y \notin Referenced
    <3>1. CallFrom(t, g, d)
      BY <1>1, <2>2
    <3>2. /\ Others(t) /\ Len(calls'[t]) = Len(calls[t]) + 1
          /\ calls'[t][Len(calls[t])] = g /\ calls'[t][Len(calls[t]) + 1] = d
          /\ \A k \in 1..Len(calls[t]) : Same(t, k)
      BY <1>1, <1>2, <1>6, <1>7, <3>1, CallShape DEF f
    <3>3. 1 \in 1..Len(calls[t]) /\ Len(calls[t]) + 1 = 2
      BY <1>8
    <3>4. Len(calls'[t]) = 2 /\ calls'[t][1] = g /\ calls'[t][2] = d /\ Same(t, 1)
      BY <1>8, <3>2, <3>3
    <3> QED BY <2>2, <3>2, <3>4
  <2> QED BY <2>1, <2>2
<1>11. \A k \in 1..Len(calls'[t]) : k = 1 \/ (k = 2 /\ Len(calls'[t]) = 2)
  <2>1. CASE Len(calls'[t]) = 1
    BY <2>1
  <2>2. CASE Len(calls'[t]) = 2
    BY <2>2
  <2> QED BY <1>10, <2>1, <2>2
<1>12. /\ \A z \in Types : z # y => life'[z] = life[z]
       /\ life'[y] = IF Len(calls'[t]) = 2 THEN "dying" ELSE "ready"
  <2>1. CASE Len(calls'[t]) = 2
    BY <1>1, <1>4, <1>10, <2>1 DEF Base, TypeOK
  <2>2. CASE Len(calls'[t]) # 2
    BY <1>1, <1>4, <1>10, <2>2
  <2> QED BY <2>1, <2>2
<1>13. Makers'
  <2>1. Len(calls'[t]) = 2 => Maker(y, "dtor")'
    <3>1. Len(calls'[t]) = 2 =>
            2 \in 1..Len(calls'[t]) /\ calls'[t][2].at = "dtor" /\ calls'[t][2].of = y
      BY <1>7, <1>10
    <3> QED BY <3>1 DEF Maker
  <2>2. \A k \in 1..Len(calls[t]) : calls[t][k].at \notin {"ctor", "dtor"}
    BY <1>1, <1>8
  <2> QED BY <1>4, <1>10, <1>12, <2>1, <2>2, MakersAfter DEF Deep
<1>14. Descends'
  <2>1. ASSUME NEW u \in Threads, NEW j \in 1..Len(calls'[u]), NEW k \in 1..Len(calls'[u]),
               j < k, calls'[u][j].at \in OnType
        PROVE  Rank[calls'[u][k].of] < Rank[calls'[u][j].of]
    <3>1. CASE u = t
      <4>1. j = 1
        BY <1>11, <2>1, <3>1
      <4> QED BY <1>6, <1>10, <2>1, <3>1, <4>1
    <3>2. CASE u # t
      BY <1>10, <2>1, <3>2 DEF Others, Deep, Descends
    <3> QED BY <3>1, <3>2
  <2> QED BY <2>1 DEF Descends
<1>15. Built'
  <2> SUFFICES ASSUME NEW u \in Threads, NEW k \in 1..Len(calls'[u])
               PROVE  BuiltFrame(u, k)'
    BY DEF Built
  <2>1. CASE u = t
    <3>1. calls'[t][k].at \in {"rmRestart", "dtor"}
      BY <1>6, <1>7, <1>10, <1>11, <2>1
    <3> QED BY <2>1, <3>1 DEF BuiltFrame
  <2>2. CASE u # t
    <3>1. calls'[u] = calls[u]
      BY <1>10, <2>2 DEF Others
    <3>2. \A m \in 1..Len(calls[u]) : calls[u][m].at \notin {"ctor", "register"}
      BY <1>1, NoneBuilding DEF Making, f
    <3>3. k \in 1..Len(calls[u]) /\ (k > 1 => k - 1 \in 1..Len(calls[u]))
      <4>1. Len(calls[u]) \in Nat
        BY DEF Base, TypeOK
      <4> QED BY <3>1, <4>1
    <3>4. BuiltFrame(u, k)
      BY <3>3 DEF Deep, Built
    <3> QED BY <3>1, <3>2, <3>3, <3>4 DEF BuiltFrame
  <2> QED BY <2>1, <2>2
<1>16. Ordered'
  <2>1. ASSUME NEW k \in 1..Len(registry'), NEW l \in 1..Len(registry'),
               NEW j \in 1..Len(Uses[registry'[k]]), registry'[l] = Uses[registry'[k]][j]
        PROVE  l < k \/ Orphaned(registry[k], registry[l])'
    <3> DEFINE k0 == IF k < f.i THEN k ELSE k + 1
               l0 == IF l < f.i THEN l ELSE l + 1
    <3>1. /\ k0 \in 1..Len(registry) /\ l0 \in 1..Len(registry)
          /\ registry'[k] = registry[k0] /\ registry'[l] = registry[l0]
      BY <1>3, <1>5
    <3>2. l0 < k0 \/ Orphaned(registry[k0], registry[l0])
      <4> HIDE DEF k0, l0
      <4> QED BY <2>1, <3>1 DEF Deep, Ordered
    <3>3. l0 < k0 => l < k
      BY <1>3
    <3> HIDE DEF k0, l0
    <3> QED BY <1>1, <3>1, <3>2, <3>3 DEF Orphaned
  <2>2. ASSUME NEW u \in Threads, NEW k \in 1..Len(calls'[u]), calls'[u][k].at = "register"
        PROVE  FALSE
    <3>1. CASE u = t
      BY <1>6, <1>7, <1>10, <1>11, <2>2, <3>1
    <3>2. CASE u # t
      BY <1>1, <1>10, <2>2, <3>2, NoneBuilding DEF Others, Making, f
    <3> QED BY <3>1, <3>2
  <2> QED BY <2>1, <2>2 DEF Ordered, Orphaned
<1>17. Hosted'
  <2>1. ASSUME Len(calls'[t]) = 2
        PROVE  HostedFrame(t, 2)'
    BY <1>7, <1>10, <2>1 DEF HostedFrame
  <2>2. \A k \in 1..Len(calls'[t]) : Same(t, k) \/ HostedFrame(t, k)'
    BY <1>10, <1>11, <2>1
  <2> QED BY <1>1, <1>10, <2>2, HostedAfter DEF Deep
<1>18. UsedOutlivesUser'
  <2> SUFFICES ASSUME NEW k \in 1..Len(registry'), NEW j \in 1..Len(Uses[registry'[k]]),
                      ~ Orphaned(registry[k], Uses[registry[k]][j])'
               PROVE  life'[Uses[registry'[k]][j]] = "ready"
    BY DEF UsedOutlivesUser, Orphaned
  <2>1. PICK l \in 1..Len(registry) : registry[l] = registry'[k]
    BY <1>5 DEF Contains
  <2>2. registry'[k] \in Types /\ registry'[k] # y
    BY <1>5, ElementOfSeq
  <2>3. Uses[registry'[k]][j] \in Types
    BY <2>2, UsesAreNeeded, ElementOfSeq
  <2>4. ~ Orphaned(registry[l], Uses[registry[l]][j])
    BY <1>1, <2>1 DEF Orphaned
  <2>5. life[Uses[registry'[k]][j]] = "ready"
    BY <2>1, <2>4 DEF Deep, UsedOutlivesUser
  <2>6. l # f.i
    BY <1>y, <2>1, <2>2 DEF f
  <2>7. Uses[registry'[k]][j] # y
    BY <1>9, <2>1, <2>4, <2>6
  <2> QED BY <1>12, <2>3, <2>5, <2>7
<1> QED BY <1>13, <1>14, <1>15, <1>16, <1>17, <1>18 DEF Deep

-----------------------------------------------------------------------------
LEMMA InitDeep == Init => Deep
<1> SUFFICES ASSUME Init PROVE Deep
  OBVIOUS
<1>1. /\ \A t \in Threads : calls[t] = <<>> /\ Len(calls[t]) = 0
      /\ registry = <<>> /\ Len(registry) = 0 /\ unloaded = {}
      /\ \A y \in Types : life[y] = "none"
  BY DEF Init
<1>2. Makers /\ Descends /\ Built /\ Hosted
  BY <1>1 DEF Makers, Descends, Built, Hosted
<1>3. Ordered /\ UsedOutlivesUser
  BY <1>1 DEF Ordered, UsedOutlivesUser
<1> QED BY <1>2, <1>3 DEF Deep

LEMMA StepDeep ==
  ASSUME Base, Deep, NEW t \in Threads, Step(t)
  PROVE  Deep'
<1>1. CASE \/ Check(t) \/ LockAll(t) \/ UnlockAll(t) \/ ReleaseModule(t)
           \/ ReleaseSkip(t) \/ ReleaseRestart(t)
  BY <1>1, DeepGoesOn
<1>2. CASE Recheck(t)
  BY <1>2, DeepGoesOn, DeepMakes
<1>3. CASE Construct(t)
  BY <1>3, DeepCallsFor, DeepBuilt
<1>4. CASE RegisterSingleton(t)
  BY <1>4, DeepRegisters
<1>5. CASE ReturnSingle(t)
  BY <1>5, DeepReturns
<1>6. CASE ReleaseDone(t)
  BY <1>6, DeepReleased
<1>7. CASE ReleaseOne(t)
  BY <1>7, DeepReleases
<1>8. CASE Destruct(t)
  BY <1>8, DeepCallsFor, DeepDestroyed
<1> QED BY <1>1, <1>2, <1>3, <1>4, <1>5, <1>6, <1>7, <1>8 DEF Step

LEMMA NextDeep == Base /\ Deep /\ [Next]_vars => Deep'
<1> SUFFICES ASSUME Base, Deep, [Next]_vars PROVE Deep'
  OBVIOUS
<1>1. CASE \E t \in Threads : \/ \E y \in Types : Call(t, y)
                              \/ \E hMod \in Modules : UnloadModule(t, hMod)
                              \/ Step(t)
  BY <1>1, DeepStarts, StepDeep
<1>2. ASSUME calls' = calls, life' = life, registry' = registry,
             unloaded' = unloaded
      PROVE  Deep'
  <2>1. Makers' /\ Descends'
    BY <1>2 DEF Deep, Makers, Maker, Descends
  <2>2. Built'
    BY <1>2 DEF Deep, Built, BuiltFrame
  <2>3. Ordered' /\ UsedOutlivesUser'
    BY <1>2 DEF Deep, Ordered, Unused, UsedOutlivesUser, Orphaned
  <2>4. Hosted'
    BY <1>2 DEF Deep, Hosted, HostedFrame
  <2> QED BY <2>1, <2>2, <2>3, <2>4 DEF Deep
<1>3. CASE BeginExit
  BY <1>2, <1>3 DEF BeginExit
<1>4. CASE DestructMgr
  BY <1>4, DeepStarts, SingletonAssumption
<1>5. CASE UNCHANGED vars
  BY <1>2, <1>5 DEF vars
<1> QED BY <1>1, <1>3, <1>4, <1>5 DEF Next

(* As long as a registered object lives, what its constructor used lives,   *)
(* unless the module of that one was told to unload before.                 *)
THEOREM DestroyedInOrder == Spec => []UsedOutlivesUser
<1>1. Init => Base /\ Deep
  BY InitBase, InitDeep
<1>2. Base /\ Deep /\ [Next]_vars => Base' /\ Deep'
  BY NextBase, NextDeep
<1>3. Deep => UsedOutlivesUser
  BY DEF Deep
<1> QED BY <1>1, <1>2, <1>3, PTL DEF Spec

=============================================================================
