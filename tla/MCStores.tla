------------------------------ MODULE MCStores -------------------------------
(***************************************************************************)
(* What the library stores things in, and what it reads from files: arrays,*)
(* lists, queues, sorted arrays and tables, settings, readers, directories, *)
(* and the owners of Owners.  A behaviour picks a kind of store and then    *)
(* makes any calls on it.  x is the store as the code keeps it, r is what   *)
(* its caller has asked it to hold, and the invariants compare them.  The   *)
(* kinds that only have initial states put the inputs of one call on trial. *)
(***************************************************************************)
EXTENDS Owners, TLC

(* The texts of the owners' strings, and the bytes of a static block.       *)
MCUpper == <<2, 2>>
MCStatic == [p \in {9} |-> <<1, 2>>]

Positions(s, e) == {k \in DOMAIN s : s[k] = e}
Image(s) == {s[k] : k \in DOMAIN s}
IsSet(s) == Cardinality(Image(s)) = Len(s)

-----------------------------------------------------------------------------
(* cArray of up to MaxSize elements, one spare slot per two.                *)
MaxSize == 4
Node == 1..4         \* of two lists
List == {11, 12}
A == INSTANCE Arrays WITH Chunk <- 2
InitArray == Start("array", A!Empty, <<>>)
SetSize == \E n \in 0..MaxSize : Do("array", A!SetSize(x, n), Padded(r, n, A!Fresh))
RemoveAll == Do("array", A!RemoveAll(x), <<>>)
SetAtGrow == \E i \in 0..(MaxSize - 1), e \in Item :
  Do("array", A!SetAtGrow(x, i, e),
     [Padded(r, IF i < Len(r) THEN Len(r) ELSE i + 1, A!Fresh) EXCEPT ![i + 1] = e])
AddArrayItem == \E e \in Item : kind = "array" /\ Len(r) < MaxSize /\ Do("array", A!Add(x, e), Append(r, e))
InsertAt == \E i \in 0..(MaxSize - 1), e \in Item :
  /\ kind = "array" /\ Len(r) < MaxSize
  /\ Do("array", A!InsertAt(x, i, e), Inserted(Padded(r, IF i > Len(r) THEN i ELSE Len(r), A!Fresh), i, <<e>>))
InsertArray == \E i \in -1..MaxSize, src \in SeqsTo(Item, 2) :
  /\ kind = "array" /\ Len(r) + Len(src) <= MaxSize
  /\ Do("array", A!InsertArray(x, i, src), Inserted(r, IF i \in 0..Len(r) THEN i ELSE Len(r), src))
RemoveQty == \E i \in -1..MaxSize, qty \in -1..MaxSize :
  Do("array", A!RemoveQty(x, i, qty), IF i < 0 \/ qty < 0 THEN r ELSE Without(r, i, qty))
RemoveArg == \E e \in Item :
  /\ kind = "array"
  /\ LET at == Positions(r, e)
         last == CHOOSE k \in at : \A j \in at : j <= k
     IN Do("array", A!RemoveArg(x, e), IF at = {} THEN r ELSE Without(r, last - 1, 1))
PopHead == kind = "array" /\ Do("array", A!PopHead(x), After(r, 1))
PopTail == kind = "array" /\ Do("array", A!PopTail(x), Before(r, Len(r) - 1))
SetCopy == \E src \in SeqsTo(Item, 2) :
  Do("array", A!SetCopy(x, A!InsertArray(A!Empty, 0, src)), src)
ReverseSpan == kind = "array" /\ Do("array", A!ReverseSpan(x), [k \in DOMAIN r |-> r[Len(r) + 1 - k]])

(* What an array holds is what was put there, in order; a constructor has   *)
(* run on each element in use and on no other; the block is large enough.   *)
ArrayAgrees == /\ A!Used(x) = r
               /\ x.alive = x.size
               /\ A!IsValidHeapSize(x)

(* cArrayString::AddUniqueMax keeps the latest MaxUnique different strings; *)
(* 1 and 2 differ only by case.                                             *)
MaxUnique == 2
Fold == <<1, 1, 3, 4>>
InitUnique == Start("unique", A!Empty, <<>>)
AddUniqueMax == \E e \in DOMAIN Fold :
  /\ kind = "unique"
  /\ LET n == Len(r) + 1 - MaxUnique
         known == \E k \in DOMAIN r : Fold[r[k]] = Fold[e]
     IN Do("unique", A!AddUniqueMax(x, e, MaxUnique, Fold),
           IF known THEN r ELSE After(r, IF n > 0 THEN n ELSE 0) \o <<e>>)

(* Deleting all objects of an array, while objects that are deleted take    *)
(* others out of it.                                                        *)
Object == 1..3
Chains == {t \in [Object -> SUBSET Object] : \A o \in Object : o \notin t[o]}
InitObjects == \E t \in Chains, s \in {<<1, 2, 3>>, <<2, A!Null, 1>>} : Start("objects", [s |-> s, takes |-> t], <<>>)
(* Nothing is deleted twice or after it was taken out, and nothing stays.   *)
ObjectsAgree ==
  LET gone == A!DeleteAll(x.s, x.takes)
      disposed == A!DisposeAll(SelectSeq(x.s, LAMBDA o : o # A!Null), x.takes)
      Takers(s, o) == {k \in DOMAIN s : o \in x.takes[s[k]]}
      objects == Image(x.s) \ {A!Null}
  IN /\ IsSet(gone)
     /\ \A k \in DOMAIN gone : \A j \in Takers(gone, gone[k]) : k < j
     /\ \A o \in objects : o \in Image(gone) \/ Takers(gone, o) # {}
     /\ \A o \in objects : o \in Image(disposed) \/ Takers(disposed, o) # {}

-----------------------------------------------------------------------------
(* Two lists of four nodes.                                                 *)
InitLists == Start("lists", A!NoLinks, [p \in List |-> <<>>])
NotIn(n) == [p \in List |-> SelectSeq(r[p], LAMBDA m : m # n)]
Put(p, n, i) == IF n \in Image(r[p]) THEN r ELSE [NotIn(n) EXCEPT ![p] = Inserted(@, i, <<n>>)]
Place(p, n) == CHOOSE i \in DOMAIN r[p] : r[p][i] = n
InsertHead == \E p \in List, n \in Node : kind = "lists" /\ Do("lists", A!InsertHead(x, p, n), Put(p, n, 0))
InsertTail == \E p \in List, n \in Node :
  kind = "lists" /\ Do("lists", A!InsertTail(x, p, n), Put(p, n, Len(r[p])))
InsertAfter == \E p \in List, n \in Node :
  /\ kind = "lists"
  /\ \E m \in Image(r[p]) \ {n} : Do("lists", A!InsertListNode(x, p, n, m), Put(p, n, Place(p, m)))
InsertBefore == \E p \in List, n \in Node :
  /\ kind = "lists"
  /\ \E m \in Image(r[p]) \ {n} : Do("lists", A!InsertBefore(x, p, n, m), Put(p, n, Place(p, m) - 1))
RemoveFromParent == \E n \in Node : kind = "lists" /\ Do("lists", A!RemoveFromParent(x, n), NotIn(n))
MoveListNodes == \E p, q \in List :
  /\ kind = "lists" /\ p # q
  /\ \E at \in 0..Len(r[p]) :
       Do("lists", A!MoveListNodes(x, p, q, IF at = 0 THEN 0 ELSE r[p][at]),
          [r EXCEPT ![p] = Inserted(@, at, r[q]), ![q] = <<>>])
SetEmptyList == \E p \in List :
  kind = "lists" /\ Do("lists", A!SetEmptyList(x, p), [r EXCEPT ![p] = <<>>])

(* Both walks of a list find it as it was put together, its count and       *)
(* GetAt say the same, and each node knows the list it is in.               *)
ListsAgree ==
  /\ \A p \in List : /\ A!Forward(x, x.head[p]) = r[p]
                     /\ A!Backward(x, x.tail[p]) = r[p]
                     /\ x.count[p] = Len(r[p])
                     /\ \A i \in 0..Len(r[p]) :
                          A!GetAt(x, p, i) = IF i = Len(r[p]) THEN 0 ELSE r[p][i + 1]
  /\ \A n \in Node : \A p \in List : A!IsMyChild(x, p, n) <=> n \in Image(r[p])

(* A chunked queue with chunks of two, of at most MaxWritten writes.  Once  *)
(* the last chunk has been read to its end the indexes of the next one are  *)
(* wrong and the code asserts: here the reader leaves it in use.            *)
MaxWritten == 7
Q == INSTANCE QueueChunked WITH Chunk <- 2
InitChunks == Start("chunks", Q!NoChunks, <<>>)
Write1 == \E e \in Item :
  /\ kind = "chunks" /\ x.nWrite < MaxWritten
  /\ Do("chunks", Q!Write1(x, e), Append(r, e))
WriteSpanQ == \E src \in SeqsTo(Item, 3) :
  /\ kind = "chunks" /\ x.nWrite + Len(src) <= MaxWritten
  /\ Do("chunks", Q!WriteSpanQ(x, src), r \o src)
ReadSpanQ == \E n \in 1..3 :
  /\ kind = "chunks" /\ r # <<>>
  /\ LET read == Q!ReadSpanQ(x, n, <<>>)
     IN /\ read.q.chunks # <<>>
        /\ Do("chunks", [read.q EXCEPT !.fault = @ \/ read.got # Before(r, Len(read.got))],
              After(r, n))
AdvanceRead ==
  /\ kind = "chunks" /\ r # <<>>
  /\ LET span == Q!get_SpanRead(x)
         read == Q!AdvanceRead(x, Len(span))
     IN /\ read.chunks # <<>>
        /\ Do("chunks", [read EXCEPT !.fault = @ \/ span # Before(r, Len(span))], After(r, Len(span)))
(* Bytes come out in the order they went in, and no assertion of the queue  *)
(* fails.  (fault also records a read that answered something else.)        *)
ChunksAgree == /\ ~x.fault
               /\ x.nWrite - x.nRead = Len(r)
               /\ LET span == Q!get_SpanRead(x)
                  IN span = Before(r, Len(span)) /\ (span = <<>> <=> r = <<>>)

(* INVARIANT (cArray.h, cList.cpp, cQueueChunked.h): arrays, lists and      *)
(* queues hold what was put into them, in its order, after any calls.       *)
ArraysAgree == /\ kind \in {"array", "unique"} => ArrayAgrees
               /\ kind = "objects" => ObjectsAgree
               /\ kind = "lists" => ListsAgree
               /\ kind = "chunks" => ChunksAgree

-----------------------------------------------------------------------------
(* Sorted arrays of objects in the order of their addresses, whose keys are *)
(* in KeyOf.  A caller of AddAfter gives it an object that lies behind      *)
(* those of the same key; of any other object the array loses track.        *)
Thing == 1..4
ND == INSTANCE SortedArrays WITH Dupes <- FALSE, Buckets <- 2
SV == INSTANCE SortedArrays WITH Dupes <- TRUE, Buckets <- 2
KeyOf == {<<1, 2, 2, 1>>, <<2, 1, 2, 2>>, <<3, 1, 2, 1>>, <<4, 3, 2, 1>>, <<1, 1, 1, 1>>}
Keys == 0..5
InitSorted == \E k \in KeyOf : Start("sorted", <<>>, [key |-> k, has |-> {}])
InitValues == \E k \in KeyOf : Start("dupes", <<>>, [key |-> k, has |-> {}])
Has(S) == [r EXCEPT !.has = S]
SameKey(S, e) == {y \in S : r.key[y] = r.key[e]}
Replaced(S, e) == (S \ SameKey(S, e)) \cup {e}
AddSort == \E e \in Thing, collide \in {0, 1} :
  \/ /\ kind = "sorted"
     /\ Do("sorted", ND!AddSort(r.key, x, e, collide),
           IF SameKey(r.has, e) # {} /\ collide = 0 THEN r ELSE Has(Replaced(r.has, e)))
  \/ kind = "dupes" /\ Do("dupes", SV!AddSort(r.key, x, e, collide), Has(r.has \cup {e}))
AddArray == \E e, f \in Thing :
  \/ /\ kind = "sorted"
     /\ Do("sorted", ND!AddArray(r.key, x, <<e, f>>), Has(Replaced(Replaced(r.has, e), f)))
  \/ kind = "dupes" /\ Do("dupes", SV!AddArray(r.key, x, <<e, f>>), Has(r.has \cup {e, f}))
AddAfter == \E e \in Thing :
  /\ kind = "dupes" /\ \A y \in SameKey(r.has, e) : y < e
  /\ Do("dupes", SV!AddAfter(r.key, x, e), Has(r.has \cup {e}))
RemoveKey == \E k \in Keys :
  /\ kind = "sorted"
  /\ Do("sorted", ND!RemoveKey(r.key, x, k), Has({e \in r.has : r.key[e] # k}))
RemoveArgKey == \E e \in Thing :
  \/ kind = "sorted" /\ Do("sorted", ND!RemoveArgKey(r.key, x, e), Has(r.has \ {e}))
  \/ kind = "dupes" /\ Do("dupes", SV!RemoveArgKey(r.key, x, e), Has(r.has \ {e}))

(* The array is sorted, holds what was added, and is searched correctly:    *)
(* a key is found if it is there, with the first and the last of its kind.  *)
SortedAgrees ==
  LET dupes == kind = "dupes"
      At(e) == CHOOSE i \in DOMAIN x : x[i] = e
      Here(k) == {i - 1 : i \in {j \in DOMAIN x : r.key[x[j]] = k}}
  IN /\ IsSet(x) /\ Image(x) = r.has
     /\ IF dupes THEN SV!isSpanSorted(r.key, x) ELSE ND!isSpanSortedND(r.key, x)
     /\ \A k \in Keys :
          LET found == SV!FindIForKey(r.key, x, k)
              first == SV!FindIFirstForKey(r.key, x, k)
              last == SV!FindILastForKey(r.key, x, k)
          IN IF Here(k) = {} THEN found = SV!None /\ first = SV!None /\ last = SV!None
             ELSE found \in Here(k) /\ Here(k) = first..last
     /\ \A e \in Thing : /\ dupes => SV!HasArgS(r.key, x, e) = (e \in r.has)
                         /\ dupes => SV!FindIForAK(r.key, x, e) = IF e \in r.has THEN At(e) - 1 ELSE SV!None

(* The factories of two modules, by the names of their types.               *)
F == INSTANCE Factories WITH Dupes <- FALSE, Buckets <- 2
Module == <<1, 2, 1, 2>>
InitFactories == \E k \in KeyOf, exiting \in BOOLEAN :
  Start("factories", <<>>, [key |-> k, has |-> {}, live |-> {}, exiting |-> exiting])
ConstructFactory == \E f \in Thing :
  /\ kind = "factories" /\ f \notin r.live \cup r.has
  /\ Do("factories", F!ConstructFactory(r.key, x, f),
        [r EXCEPT !.live = @ \cup {f}, !.has = IF SameKey(@, f) = {} THEN @ \cup {f} ELSE @])
DestructFactory == \E f \in Thing :
  /\ kind = "factories" /\ f \in r.live
  /\ Do("factories", F!DestructFactory(x, f, r.exiting),
        [r EXCEPT !.live = @ \ {f}, !.has = IF r.exiting THEN @ ELSE @ \ {f}])
ReleaseFactories == \E m \in {1, 2} :
  /\ kind = "factories"
  /\ Do("factories", F!ReleaseModuleChildren(Module, x, m), Has({f \in r.has : Module[f] # m}))

(* The unit tests of two modules.  r has the tests that are registered, the *)
(* order they came in, what was last asked for and whether any run failed.  *)
Ask(level, patterns, wild) == [level |-> level, patterns |-> patterns, wild |-> wild]
Asks == {Ask(0, <<>>, TRUE), Ask(4, <<>>, TRUE), Ask(6, <<>>, TRUE), Ask(4, <<{1, 4}>>, TRUE),
         Ask(4, <<{1}>>, FALSE), Ask(4, <<{9}>>, FALSE), Ask(6, <<{3}, {1}>>, FALSE)}
LevelOf == <<1, 5, 4, 4>>
InitTests == Start("tests", [u |-> F!NoTests, ran |-> <<>>],
                   [order |-> <<>>, then |-> <<>>, ask |-> Ask(0, <<>>, TRUE), bad |-> {}, failed |-> FALSE])
Tests(u, order) == Do("tests", [u |-> u, ran |-> <<>>],
                      [r EXCEPT !.order = order, !.then = <<>>, !.ask = Ask(0, <<>>, TRUE), !.bad = {}])
RegisterUnitTest == \E f \in Thing :
  /\ kind = "tests" /\ Len(r.order) < 3
  /\ Tests(F!RegisterUnitTest(x.u, f), IF f \in Image(r.order) THEN r.order ELSE Append(r.order, f))
DestructUnitTest == \E f \in Thing :
  kind = "tests" /\ Tests(F!DestructUnitTest(x.u, f), SelectSeq(r.order, LAMBDA g : g # f))
ReleaseUnitTests == \E m \in {1, 2} :
  kind = "tests" /\ Tests(F!ReleaseUnitTests(Module, x.u, m), SelectSeq(r.order, LAMBDA g : Module[g] # m))
(* A name that is no wildcard matches one test, or none; BOUND: two runs    *)
(* that fail, each of which leaves its log file attached.                   *)
RunUnitTests == \E ask \in Asks, bad \in {{}, {1}} :
  /\ kind = "tests" /\ x.u.sinks < 2
  /\ LET run == F!RunUnitTests(LevelOf, x.u, ask.level, ask.patterns, ask.wild, bad)
     IN Do("tests", run, [r EXCEPT !.then = r.order, !.ask = ask, !.bad = bad,
                                   !.failed = @ \/ \E k \in DOMAIN run.ran : run.ran[k] \in bad])
(* A run runs what its level and its patterns say, each once and in order,  *)
(* to the first that fails; by names, also what comes after the last name.  *)
(* If none ever failed, nothing of a run is left behind.                    *)
TestsAgree ==
  LET ask == r.ask
      ran == Image(x.ran)
      Stops == {k \in DOMAIN r.then : r.then[k] \in r.bad /\ r.then[k] \in ran}
      Tried == IF Stops = {} THEN r.then ELSE Before(r.then, CHOOSE k \in Stops : \A j \in Stops : k <= j)
      Named(f) == ask.patterns = <<>> \/ \E k \in DOMAIN ask.patterns : f \in ask.patterns[k]
      Wanted == {f \in Image(Tried) : LevelOf[f] <= ask.level /\ Named(f)}
      Unmet == {k \in DOMAIN ask.patterns : \A f \in Wanted : f \notin ask.patterns[k]}
  IN /\ x.u.tests = r.order
     /\ ask.level > 0 => Wanted \subseteq ran
     /\ ask.level = 0 => ran = {}
     /\ x.ran = SelectSeq(Tried, LAMBDA f : f \in ran)
     /\ ask.wild \/ Unmet # {} => ran \subseteq Wanted
     /\ \A f \in ran : LevelOf[f] <= ask.level
     /\ x.u.running => r.failed
     /\ ~r.failed => x.u.callback = "default" /\ x.u.sinks = 0 /\ x.u.failures = 0

(* QSort of unsorted arrays of two elements and more.                       *)
InitUnsorted == \E k \in KeyOf, s \in SeqsTo(Thing, 4) :
  Len(s) >= 2 /\ Start("unsorted", s, [key |-> k])
QSortAgrees ==
  LET s == SV!QSort(r.key, x)
      t == ND!QSort(r.key, x)
  IN /\ SV!isSpanSorted(r.key, s) /\ ND!isSpanSorted(r.key, t)
     /\ \A e \in Thing : /\ Cardinality(Positions(s, e)) = Cardinality(Positions(x, e))
                         /\ Cardinality(Positions(t, e)) = Cardinality(Positions(x, e))

(* Hash tables of two buckets.                                              *)
InitHash == \E k \in KeyOf : Start("hash", ND!NoTable, [key |-> k, has |-> {}])
AddHash == \E e \in Thing, collide \in {0, 1} :
  /\ kind = "hash"
  /\ Do("hash", ND!AddHash(r.key, x, e, collide),
        IF SameKey(r.has, e) # {} /\ collide = 0 THEN r ELSE Has(Replaced(r.has, e)))
AddSpecial == \E e \in Thing :
  /\ kind = "hash"
  /\ Do("hash", ND!AddSpecial(r.key, x, e), IF SameKey(r.has, e) # {} THEN r ELSE Has(r.has \cup {e}))
DeleteKey == \E k \in Keys :
  /\ kind = "hash"
  /\ Do("hash", ND!DeleteKey(r.key, x, k), Has({e \in r.has : r.key[e] # k}))
DeleteArg == \E e \in Thing :
  kind = "hash" /\ Do("hash", ND!DeleteArg(r.key, x, e), Has(r.has \ {e}))
VisitAndRemove == \E drop \in SUBSET Thing :
  kind = "hash" /\ Do("hash", ND!Visit(x, 0, 0, drop, <<>>).t, Has(r.has \ drop))

(* The table finds each key there is and no other; a walk that removes some *)
(* of the elements on its way still comes to each of them once.             *)
HashAgrees ==
  /\ ND!isHashSorted(r.key, x)
  /\ ND!get_TotalCount(x) = Cardinality(r.has) /\ (ND!IsEmpty(x) <=> r.has = {})
  /\ \A k \in Keys :
       LET found == ND!FindArgForKey(r.key, x, k)
       IN IF \E e \in r.has : r.key[e] = k THEN found \in r.has /\ r.key[found] = k ELSE found = ND!None
  /\ \A drop \in SUBSET r.has :
       LET seen == ND!Visit(x, 0, 0, drop, <<>>).seen IN IsSet(seen) /\ Image(seen) = r.has

(* INVARIANT (cArraySort.h, cArraySortRef.h, cSpan.h, cHashTable.h,         *)
(* cObjectService.cpp): sorted arrays stay sorted and are searched          *)
(* correctly, tables find their keys, and no factory that is gone, or whose *)
(* module is, is still registered.                                          *)
SortedAgree == /\ kind \in {"sorted", "dupes", "factories"} => SortedAgrees
               /\ kind = "tests" => TestsAgree
               /\ kind = "factories" => r.exiting \/ r.has \subseteq r.live
               /\ kind = "unsorted" => QSortAgrees
               /\ kind = "hash" => HashAgrees

-----------------------------------------------------------------------------
InitStores == \/ InitArray \/ InitUnique \/ InitObjects \/ InitLists \/ InitChunks
              \/ InitSorted \/ InitValues \/ InitFactories \/ InitTests \/ InitUnsorted \/ InitHash
              \/ InitOwners
NextStores == \/ SetSize \/ RemoveAll \/ SetAtGrow \/ AddArrayItem \/ InsertAt \/ InsertArray
              \/ RemoveQty \/ RemoveArg \/ PopHead \/ PopTail \/ SetCopy \/ ReverseSpan \/ AddUniqueMax
              \/ InsertHead \/ InsertTail \/ InsertAfter \/ InsertBefore \/ RemoveFromParent
              \/ MoveListNodes \/ SetEmptyList
              \/ Write1 \/ WriteSpanQ \/ ReadSpanQ \/ AdvanceRead
              \/ AddSort \/ AddArray \/ AddAfter \/ RemoveKey \/ RemoveArgKey
              \/ ConstructFactory \/ DestructFactory \/ ReleaseFactories
              \/ RegisterUnitTest \/ DestructUnitTest \/ ReleaseUnitTests \/ RunUnitTests
              \/ AddHash \/ AddSpecial \/ DeleteKey \/ DeleteArg \/ VisitAndRemove
              \/ NextOwners
-----------------------------------------------------------------------------
SX == INSTANCE SequencesExt

I == INSTANCE Sections WITH LineMax <- 5, SectionMax <- 48
RECURSIVE SplitLines(_)
SplitLines(text) ==                      \* each with its line end
  LET n == SX!SelectInSeq(text, LAMBDA ch : ch = I!NL)
  IN IF text = <<>> THEN <<>>
     ELSE IF n = 0 THEN <<text>> ELSE <<Before(text, n)>> \o SplitLines(After(text, n))

-----------------------------------------------------------------------------
(* A section of up to three lines: "a", "a=b", "b " and an empty line.    *)
Lines == {<<97>>, <<97, 61, 98>>, <<98, 32>>, <<>>}
MaxUsed == 8                             \* the 0 of a line that is removed stays
(* What is in the buffer behind the part in use is never read.              *)
Clean(s) == [s EXCEPT !.buf = [i \in DOMAIN @ |-> IF i > s.used THEN I!Junk ELSE @[i]]]
CleanFile(f) == [i \in DOMAIN f |-> [f[i] EXCEPT !.data = Clean(@)]]
InitSection == Start("section", I!NewSection, <<>>)
Trimmed(line) == I!TrimWhitespaceEnd(line)
Fits == kind = "section" /\ x.used < MaxUsed
AddLine == \E line \in Lines :
  Fits /\ Len(r) < 3 /\ Do("section", Clean(I!AddLine(x, line)), Append(r, Trimmed(line)))
(* A line that is replaced keeps the white space at its end.                *)
SetLine == \E i \in 0..2, line \in Lines :
  /\ Fits /\ i < Len(r)
  /\ Do("section", Clean(I!SetLine(x, i, line)), IF line = <<>> THEN Without(r, i, 1) ELSE [r EXCEPT ![i + 1] = line])
RemoveLine == \E i \in 0..3 : Fits /\ Do("section", Clean(I!RemoveLine(x, i)), Without(r, i, 1))
AllocComplete == kind = "section" /\ Do("section", Clean(I!AllocComplete(x)), r)
ClearLineQty == kind = "section" /\ x.at # <<>> /\ Do("section", Clean(I!ClearLineQty(x)), <<>>)

(* The lines are those asked for, each in its own part of what is used of   *)
(* the buffer, and the key of a line is found on the first that has it.     *)
SectionAgrees ==
  /\ I!LinesOf(x) = r
  /\ x.used <= Len(x.buf)
  /\ \A i \in DOMAIN r : x.at[i] + Len(r[i]) + 1 <= IF i = Len(r) THEN x.used ELSE x.at[i + 1]
  /\ I!GetStringAll(x, <<47>>) = SX!FoldLeft(LAMBDA all, i : all \o (IF i = 1 THEN <<>> ELSE <<47>>) \o r[i],
                                          <<>>, [i \in DOMAIN r |-> i])
  /\ \A key \in {<<65>>, <<98>>} :
       LET i == I!FindKeyLine(x, key, FALSE)
           here == {k \in DOMAIN r : r[k] # <<>> /\ I!ToLowerA(key[1]) = r[k][1]}
       IN IF here = {} THEN i = I!None ELSE i + 1 \in here /\ \A k \in here : i < k

(* A value is written in quotes into a section, in which lines of its raw   *)
(* text stand before it, a copy of the section is taken, and titles and     *)
(* lists are made of it.                                                    *)
J == INSTANCE Sections WITH LineMax <- 16, SectionMax <- 200
InitLine == \E key \in {<<97>>, <<97, 95>>}, value \in SeqsTo({97, 61, 34, 92, 47, 32}, 3) :
  Start("line", [key |-> key, value |-> value], <<>>)
LineAgrees ==
  LET quoted == J!EscSeqAddQ(x.value)
      plain == \A k \in DOMAIN x.value : x.value[k] \in {97, 61}
      raw == J!AddLine(J!NewSection, <<64>> \o x.value)
      s == J!AddKeyArg(J!AddLine(raw, <<64>> \o x.key), x.key, quoted)
      list == x.key \o <<44>> \o x.value
      title == x.key \o <<32>> \o x.value
  IN (* It is read back whole, whatever signs are in it.                    *)
     /\ J!WriteKeyStrQ(x.key, x.value) = J!LinesOf(s)[3] \o J!NLCR
     /\ J!EscSeqDecodeQ(J!PropGet(s, x.key)).text = x.value
     /\ J!GetLineParse3(J!LinesOf(s)[3]) = [key |-> Append(x.key, J!Equal), arg |-> quoted]
     /\ plain /\ x.value # <<>> /\ x.value[1] = 97 => J!GetLineParse2(title) = [key |-> x.key, arg |-> x.value]
     /\ J!FindTriggerName(s, x.key) = IF J!TrimWhitespaceEnd(x.value) = x.key THEN 0 ELSE 1
     /\ J!LinesOf(J!SetLinesCopy(s)) = J!LinesOf(s)
     /\ plain /\ x.value # <<>> => J!GetStringAll(J!SetLinesParse(list, <<44>>, J!STRP_DEF), <<44>>) = list
     /\ J!GetSectionTitleParse(title) = [tag |-> x.key, value |-> x.value]
     /\ J!IsSectionTypeMatch(title, x.key) /\ ~J!IsSectionTypeMatch(<<>>, x.key) /\ ~J!IsSectionTypeMatch(x.key, <<98>>)

(* A part of a file is read up to the next header, into the buffer that the *)
(* lines read so far are copied to.                                         *)
Raw == {<<97, 61, 98>>, <<32, 97, 32, 47, 47, 32>>, <<35, 97>>, <<>>, <<91, 98, 93>>}
InitScript == \E lines \in SeqsTo(Raw, 3), strip \in BOOLEAN :
  Start("script", [lines |-> [k \in DOMAIN lines |-> lines[k] \o I!NLCR], strip |-> strip], lines)
ReadsLines(read) ==
  LET headers == {k \in DOMAIN r : r[k] = <<91, 98, 93>>}
      n == IF headers = {} THEN Len(r) ELSE CHOOSE k \in headers : (\A j \in headers : k <= j)
      Bare(line) == IF ~x.strip THEN Trimmed(line) ELSE IF line = <<35, 97>> THEN <<>>
                    ELSE IF Len(line) = 6 THEN <<97>> ELSE line
      body == Before(r, IF headers = {} THEN n ELSE n - 1)
  IN /\ I!LinesOf(read.s) = [k \in DOMAIN body |-> Bare(body[k])]
     /\ read.rest = After(x.lines, n)
     /\ read.next = IF headers = {} THEN <<>> ELSE <<98>>
     /\ Len(read.s.buf) = read.s.used + 1
ScriptAgrees == ReadsLines(I!ReadSectionData(I!NewSection, x.lines, x.strip))

-----------------------------------------------------------------------------
(* A file of sections, the first of which may have no title; a section      *)
(* without a title that is added later would be read back as part of the    *)
(* one before it.                                                           *)
MaxIniUsed == 11                         \* in all sections
Titles == {<<>>, <<116>>, <<117, 32, 118>>}
Sets == {[key |-> <<97>>, arg |-> <<49>>], [key |-> <<97>>, arg |-> <<50, 51>>], [key |-> <<98>>, arg |-> <<49>>]}
IniUsed == SX!FoldLeft(LAMBDA n, e : n + e.data.used, 0, x)
InitIni == Start("inifile", <<>>, <<>>)
Has_(title) == {i \in DOMAIN r : r[i].title = title}
At(title) == IF Has_(title) = {} THEN Len(r) + 1 ELSE CHOOSE i \in Has_(title) : TRUE
Section(title) == IF Has_(title) = {} THEN [title |-> title, sets |-> <<>>] ELSE r[At(title)]
KeyAt(s, key) == {i \in DOMAIN s : s[i].key = key}
Known(s, set) == LET at == KeyAt(s, set.key)
                 IN IF at = {} THEN Append(s, set) ELSE [s EXCEPT ![CHOOSE i \in at : TRUE] = set]
PutSection(e) == IF At(e.title) > Len(r) THEN Append(r, e) ELSE [r EXCEPT ![At(e.title)] = e]
SetKeyArg == \E title \in Titles, set \in Sets :
  /\ kind = "inifile" /\ IniUsed < MaxIniUsed /\ (title # <<>> \/ r = <<>> \/ Has_(title) # {})
  /\ Do("inifile", CleanFile(I!SetFileKeyArg(x, title, set.key, set.arg)),
        LET e == Section(title) IN PutSection([e EXCEPT !.sets = Known(@, set)]))
DropKey == \E title \in Titles, key \in {<<97>>} :
  /\ kind = "inifile" /\ Has_(title) # {}
  /\ IniUsed < MaxIniUsed
  /\ Do("inifile", CleanFile(I!SetKeyLine(x, title, key, <<>>)),
        LET e == Section(title) IN PutSection([e EXCEPT !.sets = SelectSeq(@, LAMBDA s : s.key # key)]))

(* Each key has the value it was last given, in memory and once the file    *)
(* has been written and read again.                                         *)
HoldsSettings(f) ==
  /\ Len(f) = Len(r)
  /\ \A i \in DOMAIN r :
       /\ f[i].title = r[i].title
       /\ I!LinesOf(f[i].data) = [k \in DOMAIN r[i].sets |-> I!MakeLine(r[i].sets[k].key, r[i].sets[k].arg)]
       /\ \A k \in DOMAIN r[i].sets : I!PropGet(f[i].data, r[i].sets[k].key) = r[i].sets[k].arg
ReadsSettings(again) ==
  again.ok /\ (HoldsSettings(again.f) \/ (\E i \in DOMAIN r : r[i] = [title |-> <<>>, sets |-> <<>>]))
IniAgrees == HoldsSettings(x) /\ ReadsSettings(I!ReadIniStream(<<>>, SplitLines(I!WriteIniFile(x)), TRUE))

(* Values by name, in any case.                                             *)
Names == {<<97>>, <<65>>, <<98>>}
InitMap == Start("map", I!SetMapCopy(<<>>, <<>>), [n \in {<<97>>, <<98>>} |-> <<>>])
SetVal == \E name \in Names, v \in {<<1>>, <<2>>} :
  kind = "map" /\ Do("map", I!SetVal(x, name, v), [r EXCEPT ![I!MakeLowerCase(name)] = v])
MapAgrees == \A name \in Names : I!GetVal(x, name) = r[I!MakeLowerCase(name)]

(* The properties of an object that are to be saved.  r is the set of those *)
(* whose saving has failed: they are no longer marked.                      *)
Prop == 0..2
InitObject == Start("object", [dirty |-> {}, value |-> [p \in Prop |-> 0], out |-> [p \in Prop |-> 0]], {})
Change == \E p \in Prop :
  /\ kind = "object"
  /\ Do("object", [x EXCEPT !.value[p] = 1 - @, !.dirty = @ \cup {p}], r \ {p})
FileWriteN == \E p \in Prop, ok \in BOOLEAN :
  kind = "object" /\ Do("object", I!FileWriteN(x, p, ok), IF p \in x.dirty /\ ~ok THEN r \cup {p} ELSE r)
FileWriteAll == \E oks \in 0..3 :
  /\ kind = "object"
  /\ LET failed == {p \in x.dirty : Cardinality({q \in x.dirty : q < p}) = oks}
     IN Do("object", I!FileWriteAll(x, 3, 0, oks), r \cup failed)
(* What is not marked has been saved, but for those.                        *)
ObjectAgrees == \A p \in Prop : p \in x.dirty \/ p \in r \/ x.out[p] = x.value[p]

(* INVARIANT (cIniSection.cpp, cIniFile.cpp, cIniMap.cpp, cIniObject.cpp):  *)
(* lines stay whole and in their places however the buffer below them is    *)
(* moved, and settings are what they were last set to, also after the file  *)
(* has been written and read.                                               *)
SettingsAgree == /\ kind = "section" => SectionAgrees
                 /\ kind = "line" => LineAgrees
                 /\ kind = "script" => ScriptAgrees
                 /\ kind = "inifile" => IniAgrees
                 /\ kind = "map" => MapAgrees
                 /\ kind = "object" => ObjectAgrees

-----------------------------------------------------------------------------
(* A text reader with a buffer of 8 on a file whose lines fit into it, but  *)
(* for one.  r is the place it has been read to, the number of lines read   *)
(* since the start, and what came last.                                     *)
R == INSTANCE Readers WITH ChunkMin <- 4
File == <<1, 10, 2, 2, 10, 10, 3, 3, 3, 3, 3, 3, 3, 3, 3, 10, 4>>
Room_ == 8
InitReader == Start("reader", [t |-> R!NewReader(Room_), text |-> <<>>], [pos |-> 0, line |-> 0, text |-> <<>>])
Known_ == r.line >= 0
ReadStringLine == \E max \in {1, 8} :
  /\ kind = "reader" /\ r.pos < Len(File)
  /\ LET rest == After(File, r.pos)
         n == SX!SelectInSeq(rest, LAMBDA ch : ch = R!NL)
         line == Before(rest, IF n \in 1..Room_ THEN n ELSE Room_)
     IN Do("reader", R!ReadStringLine(File, x.t, max),
           [pos |-> r.pos + Len(line), line |-> IF Known_ THEN r.line + 1 ELSE -1, text |-> Before(line, max)])
(* A seek by less than what is buffered, or out of the buffer; one to a     *)
(* place inside the buffer goes astray.  Such a caller gives the number of  *)
(* the line up ("The caller must manage that themselves").                  *)
SeekTo(t, pos) == Do("reader", [t |-> t, text |-> <<>>],
                     [pos |-> pos, line |-> IF pos = 0 THEN 0 ELSE -1, text |-> <<>>])
SeekCur == \E offset \in -3..3 :
  /\ kind = "reader" /\ r.pos + offset \in 0..Len(File) /\ offset # 0
  /\ SeekTo([R!SeekCur(x.t, offset) EXCEPT !.line = IF r.pos + offset = 0 THEN 0 ELSE -1], r.pos + offset)
Buffered == (x.t.pos - R!WriteIndex(x.t.q))..x.t.pos
SeekSet == \E offset \in DOMAIN File \cup {0} :
  kind = "reader" /\ offset \notin Buffered /\ SeekTo(R!SeekSet(x.t, offset), offset)
SeekEnd == \E offset \in {0, -1} :
  /\ kind = "reader" /\ Len(File) + offset \notin Buffered
  /\ SeekTo(R!SeekEnd(File, x.t, offset), Len(File) + offset)
(* The buffer is the part of the file before the place the file is at, the  *)
(* reader is where its caller thinks it is, and answers whole lines.        *)
ReaderAgrees ==
  LET q == x.t.q
      ahead == R!SpanRead(q)
  IN /\ q.read <= Len(q.data) /\ Len(q.data) <= q.alloc /\ q.alloc <= Room_
     /\ x.t.pos - Len(ahead) = r.pos /\ x.text = r.text
     /\ ahead = SubSeq(File, r.pos + 1, x.t.pos)
     /\ x.t.line >= 0 /\ Known_ => x.t.line = r.line

(* A FILE, in lines and in bytes.  Where it is sought by some distance the  *)
(* number of the line is given up, and by the caller where he reads bytes;  *)
(* a caller who seeks a place he came from gives it back.                   *)
InitFileText == Start("filetext", R!NewFile, [pos |-> 0, line |-> 0])
Starts == {k \in 0..Len(File) : k = 0 \/ File[k] = R!NL}
LineAt(pos) == Cardinality({k \in 1..pos : File[k] = R!NL})
TextReadLine ==
  /\ kind = "filetext" /\ r.pos \in Starts /\ r.pos < Len(File)
  /\ LET n == SX!SelectInSeq(After(File, r.pos), LAMBDA ch : ch = R!NL)
         got == IF n = 0 THEN Len(File) - r.pos ELSE n
     IN Do("filetext", R!TextReadLine(File, x, 12).f,
           [pos |-> r.pos + got, line |-> IF r.line < 0 THEN -1 ELSE r.line + 1])
TextReadX == \E n \in 1..4 :
  /\ kind = "filetext" /\ ~x.eof
  /\ Do("filetext", [R!TextReadX(File, x, n) EXCEPT !.line = -1], [pos |-> Least(r.pos + n, Len(File)), line |-> -1])
TextSeek == \E pos \in Starts :
  /\ kind = "filetext"
  /\ \/ Do("filetext", R!put_TextPos(x, pos, LineAt(pos)), [pos |-> pos, line |-> LineAt(pos)])
     \/ Do("filetext", R!TextSeekCur(x, pos - r.pos), [pos |-> pos, line |-> -1])
     \/ pos = 0 /\ Do("filetext", R!TextSeekSet(x, pos), [pos |-> 0, line |-> 0])
(* At the end of the file it knows so only after a read that wanted more.   *)
FileTextAgrees == /\ x.pos = r.pos /\ x.line = r.line
                  /\ x.eof => x.pos = Len(File)
                  /\ r.line >= 0 /\ r.pos \in Starts => r.line = LineAt(r.pos)

(* A stream is written and read back; one is copied with failures.          *)
Sizes == {0, 1, 127, 128, 300, 16383, 16384, 2097151, 2097152}
Bytes == {<<>>, <<1>>, <<1, 10>>, <<1, 2, 10, 3>>, [k \in 1..130 |-> k % 100]}
InitStream ==
  \/ \E n \in Sizes, b \in Bytes, pos \in 0..2 :
       Start("stream", [n |-> n, bytes |-> b, pos |-> pos], <<>>)
  \/ \E n, oks, calls, pos \in 0..4, block \in 1..3 :
       Start("copy", [n |-> n, oks |-> oks, calls |-> calls, pos |-> pos, block |-> block], <<>>)
(* What was written is read, behind anything; what ends early, what is too  *)
(* long or what is only a part of it fails.                                 *)
StreamAgrees ==
  LET pad == SubSeq(<<200, 201>>, 1, x.pos)
      sized == pad \o R!WriteSize(x.n)
      blob == pad \o R!WriteBlob(x.bytes)
      end == Len(blob)
      line == R!ReadLineSlow(pad \o x.bytes, x.pos, 4)
      nl == SX!SelectInSeq(x.bytes, LAMBDA ch : ch = R!NL)
  IN /\ R!ReadSize(sized, x.pos) = [res |-> 0, pos |-> Len(sized), got |-> x.n]
     /\ R!ReadSize(Before(sized, Len(sized) - 1), x.pos).res = R!Incomplete
     /\ R!ReadBlob(blob, x.pos, 130) = [res |-> Len(x.bytes), pos |-> end, got |-> x.bytes]
     /\ x.bytes # <<>> => /\ R!ReadBlob(Before(blob, end - 1), x.pos, 130).res = R!Incomplete
                          /\ R!ReadBlob(blob, x.pos, Len(x.bytes) - 1).res = R!Corrupt
     /\ Len(x.bytes) < 130 => R!ReadBlobStr(blob, x.pos, 130).res = Len(x.bytes) + 1
     /\ R!ReadPeek(blob, x.pos, 2) = [R!ReadX(blob, x.pos, 2) EXCEPT !.pos = x.pos]
     /\ x.bytes # <<>> => R!ReadAll(x.bytes, 0, 1).got = Append(x.bytes, 0)
     /\ line = IF nl \in 1..4 THEN [res |-> nl, pos |-> x.pos + nl, got |-> Before(x.bytes, nl)]
               ELSE [res |-> IF Len(x.bytes) < 4 THEN R!Incomplete ELSE R!TooLong,
                     pos |-> x.pos + Least(4, Len(x.bytes)), got |-> Before(x.bytes, 4)]
(* A copy that fails has written a part of the whole; the place it stopped  *)
(* reading at is behind that by no more than a block.                       *)
CopyAgrees ==
  LET data == <<1, 2, 3, 4>>
      c == R!WriteStream(data, x.pos, x.n, x.block, x.oks, x.calls)
      whole == Before(After(data, x.pos), x.n)
  IN /\ c.out = Before(whole, Len(c.out))
     /\ c.res = "S_OK" <=> /\ c.out = whole
                           /\ whole # <<>> => x.oks * x.block >= Len(whole)
                           /\ ~(x.calls \in 1..x.oks /\ (x.calls - 1) * x.block < Len(whole))
     /\ c.pos - x.pos - Len(c.out) \in 0..(IF c.res = "WRITE_FAULT" THEN x.block ELSE 0)

(* Where a parser is in its text: line ends of one and of two characters,   *)
(* and tabs of four columns.                                                *)
Sample == <<97, 13, 10, 98, 9, 99, 10, 13, 9, 97>>
InitCursor == Start("cursor", R!InitTop, 0)
IncCursor ==
  /\ kind = "cursor" /\ r < Len(Sample)
  /\ LET ch == Sample[r + 1]
         next == IF ch = 13 THEN R!IncLineCR(Sample, x)
                 ELSE IF ch = 10 THEN R!IncLine(x, 1)
                 ELSE IF ch = 9 THEN R!IncTab(x, 4) ELSE R!IncChar(x, 1)
     IN Do("cursor", next, IF ch = 13 /\ r + 1 < Len(Sample) /\ Sample[r + 2] = 10 THEN r + 2 ELSE r + 1)
IncToks == \E n \in 1..2 :
  /\ kind = "cursor" /\ r + n <= Len(Sample) /\ \A k \in (r + 1)..(r + n) : Sample[k] > 13
  /\ Do("cursor", R!IncToks(x, n), r + n)
CursorAgrees ==
  LET ends == {k \in 1..r : Sample[k] = 10 \/ (Sample[k] = 13 /\ Sample[k + 1] # 10)}
      top == IF ends = {} THEN 0 ELSE CHOOSE k \in ends : \A j \in ends : j <= k
      Col(k, col) == IF Sample[k] = 9 THEN 4 * (col \div 4 + 1) ELSE col + 1
  IN /\ x.off = r /\ x.line = Cardinality(ends)
     /\ x.col = SX!FoldLeft(LAMBDA col, k : Col(k, col), 0, [k \in 1..(r - top) |-> top + k])

(* Tasks in tasks.  r is the stack of those that run: what each found, how  *)
(* many parts it has and has done; a task counts as one part of its parent. *)
InitProgress == Start("progress", R!InitPercent, <<>>)
Innermost == r[Len(r)]
BeginChunk == \E parts \in 1..3 :
  /\ kind = "progress" /\ Len(r) < 2 /\ x.cur < R!Whole
  /\ r # <<>> => Innermost.done < Innermost.parts
  /\ Do("progress", R!BeginChunk(x, parts, 1), Append(r, [prev |-> x, parts |-> parts, done |-> 0]))
IncChunk ==
  /\ kind = "progress" /\ r # <<>> /\ Innermost.done < Innermost.parts
  /\ Do("progress", R!IncChunk(x, 1), [r EXCEPT ![Len(r)].done = @ + 1])
EndChunk ==
  /\ kind = "progress" /\ r # <<>> /\ Innermost.done = Innermost.parts
  /\ LET outer == Before(r, Len(r) - 1)
         ended == R!EndChunk(Innermost.prev)
     IN IF outer = <<>> THEN Do("progress", ended, outer)
        ELSE /\ Do("progress", R!IncChunk(ended, 1), [outer EXCEPT ![Len(outer)].done = @ + 1])
             /\ x'.cur = x.cur
(* It never goes beyond the whole, and is there when all parts are done.    *)
ProgressAgrees ==
  /\ x.cur <= R!Whole
  /\ (x.cur = R!Whole) <=> /\ \A k \in DOMAIN r : r[k].done = r[k].parts - (IF k < Len(r) THEN 1 ELSE 0)
                           /\ r # <<>> \/ x.cur > 0

(* INVARIANT (cTextReader.cpp, cFileText.cpp, cStream.cpp, cTextPos.h,      *)
(* cStreamProgress.h): a reader is where its caller takes it to be and      *)
(* knows its line, what was written is read back, a copy that fails has     *)
(* copied a part of the whole, and progress ends at the whole.              *)
ReadersAgree == /\ kind = "reader" => ReaderAgrees
                /\ kind = "filetext" => FileTextAgrees
                /\ kind = "stream" => StreamAgrees
                /\ kind = "copy" => CopyAgrees
                /\ kind = "cursor" => CursorAgrees
                /\ kind = "progress" => ProgressAgrees

-----------------------------------------------------------------------------
(* Operations on a directory "s", whose result goes to "d", where calls on  *)
(* up to two paths fail.  What d holds before is nothing, or a file that    *)
(* one of s may replace.                                                    *)
DW == INSTANCE Directories WITH Os <- "windows"
DL == INSTANCE Directories WITH Os <- "linux"
Src == <<"s">>
Dst == <<"d">>
AsFile(n) == DW!FileOf(<<n>>)
Dir == DW!Directory
TreesOf(p, n) ==          \* what may be at p: nothing, a file, a directory with or without files
  {<<>>, (p :> AsFile(n)), (p :> Dir), (p :> Dir) @@ (Append(p, "a") :> AsFile(n + 1)),
   (p :> Dir) @@ (Append(p, "a") :> AsFile(n + 1)) @@ (Append(p, "b") :> AsFile(n + 2))}
Root == (<<>> :> Dir) @@ (Src :> Dir) @@ (<<"o">> :> Dir) @@ (<<"o", "a">> :> AsFile(9))
Dests == {<<>>, (Dst :> Dir), (Dst :> Dir) @@ (Append(Dst, "a") :> AsFile(8))}
FileSystems == {Root @@ a @@ b @@ d : a \in TreesOf(<<"s", "a">>, 1), b \in TreesOf(<<"s", "b">>, 4), d \in Dests}
Ops == {"Move", "Copy", "Delete", "Rename"}
Paths_(fs) == DOMAIN fs \cup {<<"d">>, <<"d", "a">>, <<"d", "b">>}
Failing(fs) == {p \in Paths_(fs) : Len(p) > 1} \cup {Dst}
InitDirs == \E fs \in FileSystems, op \in Ops, wild \in {{}, {{"a"}}}, filesOnly \in BOOLEAN :
  \E bad \in {{p, q} : p, q \in Failing(fs)} \cup {{}} :
    (filesOnly => wild = {}) /\ Start("dirs", [w |-> [fs |-> fs, bad |-> bad, order |-> <<"b", "a", "d", "s">>],
                   op |-> op, wild |-> wild, filesOnly |-> filesOnly], <<>>)

Files(fs, d) == {p \in DOMAIN fs : ~fs[p].dir /\ SX!IsPrefix(d, p)}
There(p) == Dst \o After(p, 1)
(* Whatever fails: only s and d are touched, and no directory is lost with  *)
(* what is in it.                                                           *)
StaysWithin(before, after) ==
  /\ \A p \in DOMAIN before \cup DOMAIN after :
       p # <<>> /\ p[1] \notin {"s", "d"} => p \in DOMAIN before /\ p \in DOMAIN after /\ before[p] = after[p]
  /\ \A p \in DOMAIN after : p = <<>> \/ (SX!Front(p) \in DOMAIN after /\ after[SX!Front(p)].dir)
(* A file that is moved is at one place or the other; one that is copied is *)
(* still there, and what has come to d is such a copy.                      *)
NothingIsLost(op, before, after) ==
  \A p \in Files(before, Src) :
    LET stays == p \in DOMAIN after /\ after[p] = before[p]
        came == There(p) \in DOMAIN after /\ after[There(p)] = before[p]
    IN IF op \in {"Move", "Rename"} THEN (stays \/ came) /\ ~(p \in DOMAIN after /\ came) ELSE op = "Copy" => stays
OnlyCopies(before, after) ==
  \A q \in Files(after, Dst) : \/ q \in DOMAIN before /\ after[q] = before[q]
                               \/ \E p \in Files(before, Src) : There(p) = q /\ after[q] = before[p]
(* Done where no file is in the way of a directory.                         *)
InTheWay(fs) == \E p \in DOMAIN fs : p # <<>> /\ p[1] = "s" /\ There(p) \in DOMAIN fs /\ fs[p].dir # fs[There(p)].dir
Done(op, before, after) ==
  InTheWay(before) \/ \A p \in Files(before, Src) :
    /\ op # "Copy" => p \notin DOMAIN after
    /\ op # "Delete" => There(p) \in DOMAIN after /\ after[There(p)] = before[p]
OpOn(w) == DW!DirFileOps(w, x.op, Src, Dst, x.wild, x.filesOnly)
OpOnLinux(w) == DL!DirFileOps(w, x.op, Src, Dst, x.wild, x.filesOnly)
SafeOn(after, copies) ==
  StaysWithin(x.w.fs, after) /\ NothingIsLost(x.op, x.w.fs, after) /\ (copies => OnlyCopies(x.w.fs, after))
(* In linux what is copied is empty.                                        *)
DirsAgree ==
  /\ SafeOn(OpOn(x.w).w.fs, TRUE)
  /\ SafeOn(OpOnLinux(x.w).w.fs, x.op # "Copy")
  /\ x.wild = {} /\ ~x.filesOnly /\ x.op # "Rename" =>
       Done(x.op, x.w.fs, OpOn([OpOn(x.w).w EXCEPT !.bad = {}]).w.fs)

(* One file is sent to, or asked of, a place below a root, and one path is  *)
(* thrown away.  (windows, from the start: a copy that goes on from an      *)
(* offset, like any copy in linux, has emptied what it should add to.)      *)
InitTransfer == \E d \in Dests, remote \in {<<>>, <<"a">>, <<"n", "a">>}, local \in {<<>>, <<"s", "a">>, <<"n", "a">>} :
  \E bad \in {{}} \cup {{p} : p \in {<<"s", "a">>, <<"d">>, <<"d", "a">>, <<"d", "n">>, <<"d", "n", "a">>}} :
    Start("transfer", [w |-> [fs |-> Root @@ (<<"s", "a">> :> AsFile(1)) @@ d, bad |-> bad, order |-> <<"a", "n">>],
                       remote |-> remote, local |-> local], <<>>)
(* An answer that is no failure is kept; a failure has changed no file.     *)
Kept(r1, fs, src, dst) ==
  IF r1.res >= 0 THEN dst \in DOMAIN r1.w.fs /\ r1.w.fs[dst] = fs[src]
  ELSE \A p \in DOMAIN fs \cup DOMAIN r1.w.fs :
         IF p \in DOMAIN fs THEN p \in DOMAIN r1.w.fs /\ fs[p] = r1.w.fs[p] ELSE r1.w.fs[p].dir
TransferAgrees ==
  \A sent \in {DW!SendFile(x.w, Dst, x.local, x.remote, 0)}, got \in {DW!RequestFile(x.w, Dst, x.remote, x.local, 0)},
     gone \in {DW!DeletePathX(x.w, Src, FALSE)}, trash \in {DW!MovePathToTrash(x.w, <<"s", "a">>, Dst)}, fs \in {x.w.fs} :
     /\ StaysWithin(fs, sent.w.fs)
     /\ x.local # <<>> => Kept(sent, fs, x.local, Dst \o x.remote) /\ Kept(got, fs, Dst \o x.remote, x.local)
     /\ x.local = <<>> /\ x.remote # <<>> /\ sent.res >= 0 => Dst \o x.remote \notin DOMAIN sent.w.fs
     /\ gone.res > 0 /\ x.w.bad = {} => Src \notin DOMAIN gone.w.fs
     /\ Files(fs, Src) # {} => Kept(trash, fs, <<"s", "a">>, <<"d", "a">>) /\ NothingIsLost("Move", fs, trash.w.fs)

(* Of several files of one name the one whose extension comes first in the  *)
(* list is taken.                                                           *)
Exts == SeqsTo({1, 2, 3}, 3)
InitExts == \E exts, preferred \in Exts : Start("exts", [exts |-> exts, preferred |-> preferred], <<>>)
ExtsAgree ==
  LET n == DW!ReadDirPreferredExt(x.exts, x.preferred)
      Rank(ext) == SX!SelectInSeq(x.preferred, LAMBDA e : e = ext)
  IN IF n = 0 THEN \A k \in DOMAIN x.exts : Rank(x.exts[k]) = 0
     ELSE /\ Rank(x.exts[n]) > 0
          /\ \A k \in DOMAIN x.exts : Rank(x.exts[k]) = 0 \/ Rank(x.exts[n]) <= Rank(x.exts[k])

(* Two file objects of the process.  r is what their users have open with   *)
(* them: <<>> is nothing.                                                   *)
OpenFlags == {{}, {"WRITE"}, {"WRITE", "CREATE"}, {"READWRITE", "CREATE", "EXIST"}}
OpenPaths == {<<>>, <<"o", "a">>, <<"o", "n", "a">>}
InitHandles == \E bad \in {{}, {<<"o", "a">>}, {<<"o", "n">>}} :
  Start("handles", [w |-> [fs |-> (<<>> :> Dir) @@ (<<"o">> :> Dir), bad |-> bad, order |-> <<>>], n |-> 0,
                    f |-> [i \in {1, 2} |-> DW!Closed]], [i \in {1, 2} |-> <<>>])
OpenX == \E i \in {1, 2}, p \in OpenPaths, flags \in OpenFlags :
  /\ kind = "handles"
  /\ LET o == DW!OpenX(x.w, x.n, x.f[i], p, flags)
     IN Do("handles", [w |-> o.w, n |-> o.n, f |-> [x.f EXCEPT ![i] = o.f]], [r EXCEPT ![i] = IF o.res < 0 THEN <<>> ELSE IF p = <<>> THEN x.f[i].path ELSE p])
CloseFile == \E i \in {1, 2} :
  /\ kind = "handles"
  /\ LET c == DW!Close(x.n, x.f[i])
     IN Do("handles", [x EXCEPT !.n = c.n, !.f[i] = c.f], [r EXCEPT ![i] = <<>>])
(* What is open is there, is what was asked for, and is counted once.       *)
HandlesAgree ==
  /\ \A i \in {1, 2} : /\ x.f[i].valid <=> r[i] # <<>>
                       /\ r[i] # <<>> => x.f[i].path = r[i] /\ r[i] \in DOMAIN x.w.fs /\ ~x.w.fs[r[i]].dir
  /\ x.n = Cardinality({i \in {1, 2} : r[i] # <<>>})

(* INVARIANT (cFileDir.cpp, cFileCopier.cpp, cFile.cpp): whichever calls of  *)
(* the system fail on the way, an operation on a directory loses no file,   *)
(* touches nothing elsewhere and can be done again to the end; a file sent  *)
(* or asked for is the one that arrives; and each open file is counted.     *)
DirectoriesAgree == /\ kind = "dirs" => DirsAgree
                    /\ kind = "transfer" => TransferAgrees
                    /\ kind = "exts" => ExtsAgree
                    /\ kind = "handles" => HandlesAgree

-----------------------------------------------------------------------------
InitFiles == \/ InitSection \/ InitLine \/ InitScript \/ InitIni \/ InitMap \/ InitObject
             \/ InitReader \/ InitFileText \/ InitStream \/ InitCursor \/ InitProgress
             \/ InitDirs \/ InitTransfer \/ InitExts \/ InitHandles
NextFiles == \/ AddLine \/ SetLine \/ RemoveLine \/ AllocComplete \/ ClearLineQty
             \/ SetKeyArg \/ DropKey \/ SetVal \/ Change \/ FileWriteN \/ FileWriteAll
             \/ ReadStringLine \/ SeekCur \/ SeekSet \/ SeekEnd
             \/ TextReadLine \/ TextReadX \/ TextSeek \/ IncCursor \/ IncToks
             \/ BeginChunk \/ IncChunk \/ EndChunk \/ OpenX \/ CloseFile
Init == InitStores \/ InitFiles
Next == NextStores \/ NextFiles
Spec == Init /\ [][Next]_vars
=============================================================================
