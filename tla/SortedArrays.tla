---------------------------- MODULE SortedArrays ----------------------------
(***************************************************************************)
(* The sorted arrays of cArraySort.h and cArraySortRef.h over cSpanSorted  *)
(* (cSpan.h), and the hash tables of cHashTable.h, whose buckets are such  *)
(* arrays.  Elements are pointers to objects, numbers in the order of      *)
(* their addresses; key[x] is what object x is sorted by (its hash code,   *)
(* its name, or its sort value).                                           *)
(***************************************************************************)
EXTENDS Integers, Sequences, FiniteSets
CONSTANTS Dupes,       \* cArraySortValue: equal keys are told apart by address
          Buckets      \* k_HASH_BUCKET_QTY

None == -1             \* k_ITERATE_BAD
Put(s, i, x) == SubSeq(s, 1, i) \o <<x>> \o SubSeq(s, i + 1, Len(s))
Drop(s, i) == SubSeq(s, 1, i) \o SubSeq(s, i + 2, Len(s))
Compare(a, b) == IF a < b THEN -1 ELSE IF a > b THEN 1 ELSE 0
CompareKey(key, k, y) == Compare(k, key[y])
CompareElems(key, x, y) ==
  IF Dupes /\ key[x] = key[y] THEN Compare(x, y) ELSE Compare(key[x], key[y])

(* The binary search: cmp[i] is how what is sought compares with element i. *)
RECURSIVE Search(_, _, _, _, _)
Search(cmp, low, high, at, res) ==
  LET i == (high + low) \div 2
      c == cmp[i + 1]
  IN IF low > high THEN [i |-> at, res |-> res]
     ELSE IF c = 0 THEN [i |-> i, res |-> 0]
     ELSE IF c > 0 THEN Search(cmp, i + 1, high, i, c) ELSE Search(cmp, low, i - 1, i, c)
FindINear(cmp) == IF cmp = <<>> THEN [i |-> 0, res |-> -1] ELSE Search(cmp, 0, Len(cmp) - 1, 0, -1)
FindINearS(key, s, x) == FindINear([k \in DOMAIN s |-> CompareElems(key, x, s[k])])
FindINearKey(key, s, k) == FindINear([j \in DOMAIN s |-> CompareKey(key, k, s[j])])
FindIForKey(key, s, k) ==
  LET near == FindINearKey(key, s, k) IN IF near.res = 0 THEN near.i ELSE None
HasArgS(key, s, x) == FindINearS(key, s, x).res = 0

(* Walk from a match to the first and to the last one of the same key.      *)
RECURSIVE WalkSame(_, _, _, _)
WalkSame(key, s, i, step) ==
  LET j == i + step
  IN IF j < 0 \/ j >= Len(s) \/ key[s[j + 1]] # key[s[i + 1]] THEN i
     ELSE WalkSame(key, s, j, step)
FindIFirstForKey(key, s, k) ==
  LET i == FindIForKey(key, s, k) IN IF i < 0 THEN None ELSE WalkSame(key, s, i, -1)
FindILastForKey(key, s, k) ==
  LET i == FindIForKey(key, s, k) IN IF i < 0 THEN None ELSE WalkSame(key, s, i, 1)
FindIForAK(key, s, x) ==
  LET first == FindIFirstForKey(key, s, key[x])
      here == {i \in first..(Len(s) - 1) : s[i + 1] = x}
  IN IF first < 0 \/ here = {} THEN None ELSE CHOOSE i \in here : \A j \in here : i <= j

AddPresortedAt(s, near, x) == Put(s, near.i, x)                  \* (a mutant)
AddPresorted(s, near, x) == Put(s, IF near.res > 0 THEN near.i + 1 ELSE near.i, x)
AddSort(key, s, x, collideAction) ==
  LET near == FindINearS(key, s, x)
  IN IF near.res # 0 THEN AddPresorted(s, near, x)
     ELSE IF s[near.i + 1] # x /\ collideAction = 1 THEN [s EXCEPT ![near.i + 1] = x] ELSE s
AddArray(key, s, src) ==
  LET Add[n \in 0..Len(src)] == IF n = 0 THEN s ELSE AddSort(key, Add[n - 1], src[n], 1)
  IN Add[Len(src)]
(* AddAfter puts x after all of its key, whatever its address.              *)
AddAfter(key, s, x) ==
  LET i == FindILastForKey(key, s, key[x])
  IN IF i < 0 THEN AddSort(key, s, x, 0) ELSE Put(s, i + 1, x)
RemoveKey(key, s, k) ==
  LET i == FindIForKey(key, s, k) IN IF i = None THEN s ELSE Drop(s, i)
RemoveArgKey(key, s, x) ==
  LET i == IF Dupes THEN FindIForAK(key, s, x) ELSE FindIForKey(key, s, key[x])
  IN IF i = None \/ s[i + 1] # x THEN s ELSE Drop(s, i)

isSpanSorted(key, s) == \A i \in 1..(Len(s) - 1) : CompareElems(key, s[i], s[i + 1]) <= 0
isSpanSortedND(key, s) == \A i \in 1..(Len(s) - 1) : CompareElems(key, s[i], s[i + 1]) < 0

-----------------------------------------------------------------------------
(* QSort, of two elements and more: the element that starts on the left is  *)
(* swapped to and fro until the partition's ends meet at it.                *)
Swap(s, i, j) == [s EXCEPT ![i + 1] = s[j + 1], ![j + 1] = s[i + 1]]
InOrder(key, s, i, j) == CompareElems(key, s[i + 1], s[j + 1]) <= 0
RECURSIVE QSortPartition(_, _, _, _, _)
QSortPartition(key, s, left, right, side) ==
  IF left >= right THEN [s |-> s, mid |-> left]
  ELSE IF InOrder(key, s, left, right)
  THEN IF side = "right" THEN QSortPartition(key, s, left, right - 1, side)
       ELSE QSortPartition(key, s, left + 1, right, side)
  ELSE QSortPartition(key, Swap(s, left, right), left, right, IF side = "right" THEN "left" ELSE "right")
RECURSIVE QSortRange(_, _, _, _)
QSortRange(key, s, left, right) ==
  LET p == QSortPartition(key, s, left, right, "right")
      lower == IF left < p.mid - 1 THEN QSortRange(key, p.s, left, p.mid - 1) ELSE p.s
  IN IF p.mid + 1 < right THEN QSortRange(key, lower, p.mid + 1, right) ELSE lower
QSort(key, s) == IF s = <<>> THEN s ELSE QSortRange(key, s, 0, Len(s) - 1)

-----------------------------------------------------------------------------
(* The hash table t is a function from bucket numbers to sorted arrays.     *)
NoTable == [b \in 0..(Buckets - 1) |-> <<>>]
GetBucketNum(k) == k % Buckets
Bucket(key, t, x) == t[GetBucketNum(key[x])]
FindArgForKey(key, t, k) ==
  LET s == t[GetBucketNum(k)]
      i == FindIForKey(key, s, k)
  IN IF i < 0 THEN None ELSE s[i + 1]
AddHash(key, t, x, collideAction) ==
  [t EXCEPT ![GetBucketNum(key[x])] = AddSort(key, @, x, collideAction)]
AddSpecial(key, t, x) ==
  LET near == FindINearS(key, Bucket(key, t, x), x)
  IN IF near.res = 0 THEN t ELSE [t EXCEPT ![GetBucketNum(key[x])] = AddPresorted(@, near, x)]
DeleteKey(key, t, k) == [t EXCEPT ![GetBucketNum(k)] = RemoveKey(key, @, k)]
DeleteArg(key, t, x) == [t EXCEPT ![GetBucketNum(key[x])] = RemoveArgKey(key, @, x)]
get_TotalCount(t) ==
  LET Sum[b \in 0..Buckets] == IF b = 0 THEN 0 ELSE Sum[b - 1] + Len(t[b - 1]) IN Sum[Buckets]
IsEmpty(t) == \A b \in DOMAIN t : t[b] = <<>>
isHashSorted(key, t) == \A b \in DOMAIN t : isSpanSortedND(key, t[b])
(* FOREACH_HASH_TABLE with RemoveAt of what it comes to, for those in drop: *)
(* SkipRemoved steps back so that the next one is not missed.               *)
RECURSIVE Visit(_, _, _, _, _)
Visit(t, b, j, drop, seen) ==
  IF b = Buckets THEN [t |-> t, seen |-> seen]
  ELSE IF j >= Len(t[b]) THEN Visit(t, b + 1, 0, drop, seen)
  ELSE LET x == t[b][j + 1]
       IN IF x \in drop THEN Visit([t EXCEPT ![b] = Drop(@, j)], b, j, drop, Append(seen, x))
          ELSE Visit(t, b, j + 1, drop, Append(seen, x))
=============================================================================
