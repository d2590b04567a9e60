---------------------------- MODULE Queues_proofs -----------------------------
(***************************************************************************)
(* Machine-checked proofs about the two queues of bytes that threads and    *)
(* streams share: the ring of QueueStatic, for a ring of any size and any   *)
(* elements, and the queue of StreamPipe, for all sizes of the buffers,     *)
(* blocks and packets, and any number of nested transactions.               *)
(***************************************************************************)
EXTENDS QueueStatic, StreamPipe, SequenceTheorems, TLAPS

Indexes == 0..(QTY - 1)

(* Between its test and its publication a Write1 has room, since only the   *)
(* reader moves meanwhile, and nobody touches the slot it stores into.      *)
WriteHasRoom ==
  wpc \in {"store", "publish"} => wIndex = writeIndex /\ wVal \in Values /\ Used < QTY - 1

StoredIsThere == wpc = "publish" => data[writeIndex] = wVal

(* Nobody overwrites what a Read1 has loaded before it gives the slot back. *)
LoadedIsHead == rpc = "take" => rAvail > 0 /\ rVal = data[readIndex]

CountIsThere == rpc = "advance" => rCount <= Used

QueueIInv ==
  /\ QueueTypeOK
  /\ WriteHasRoom
  /\ StoredIsThere
  /\ LoadedIsHead
  /\ CountIsThere
  /\ RoomIsThere
  /\ AvailIsThere

-----------------------------------------------------------------------------
(* The arithmetic of the ring. *)

(* Up to twice the size of the ring, wrapping is one subtraction.           *)
LEMMA Wrap ==
  ASSUME NEW i \in Nat, i < 2 * QTY
  PROVE  /\ GetWrapIndex(i) = IF i < QTY THEN i ELSE i - QTY
         /\ GetWrapIndex(i) \in Indexes
BY QtyAssumption DEF GetWrapIndex, Indexes

(* The ring is never counted as holding _QTY elements: one slot stays free. *)
LEMMA QtyInRing ==
  ASSUME NEW r \in Indexes, NEW w \in Indexes
  PROVE  ReadQtyT(r, w) \in 0..(QTY - 1)
BY QtyAssumption DEF ReadQtyT, Indexes

(* The test of Write1.                                                      *)
LEMMA NextIsFree ==
  ASSUME NEW r \in Indexes, NEW w \in Indexes
  PROVE  GetWrapIndex(w + 1) # r <=> ReadQtyT(r, w) < QTY - 1
<1>1. GetWrapIndex(w + 1) = IF w + 1 < QTY THEN w + 1 ELSE w + 1 - QTY
  BY QtyAssumption, Wrap DEF Indexes
<1> QED BY <1>1, QtyAssumption DEF ReadQtyT, Indexes

(* One index on in a ring with room is one element more.                    *)
LEMMA QtyAfterWrite ==
  ASSUME NEW r \in Indexes, NEW w \in Indexes, ReadQtyT(r, w) < QTY - 1
  PROVE  ReadQtyT(r, GetWrapIndex(w + 1)) = ReadQtyT(r, w) + 1
<1>1. GetWrapIndex(w + 1) = IF w + 1 < QTY THEN w + 1 ELSE w + 1 - QTY
  BY QtyAssumption, Wrap DEF Indexes
<1> QED BY <1>1, QtyAssumption DEF ReadQtyT, Indexes

(* The read index moved over n elements leaves the others.                  *)
LEMMA QtyAfterRead ==
  ASSUME NEW r \in Indexes, NEW w \in Indexes, NEW n \in 0..ReadQtyT(r, w)
  PROVE  ReadQtyT(GetWrapIndex(r + n), w) = ReadQtyT(r, w) - n
<1>1. n \in 0..(QTY - 1)
  BY QtyInRing, QtyAssumption DEF Indexes
<1>2. GetWrapIndex(r + n) = IF r + n < QTY THEN r + n ELSE r + n - QTY
  BY <1>1, QtyAssumption, Wrap DEF Indexes
<1> QED BY <1>1, <1>2, QtyAssumption DEF ReadQtyT, Indexes

(* The slot the writer stores into follows the last element, and is none of *)
(* those of the elements.                                                   *)
LEMMA SlotOfWriter ==
  ASSUME NEW r \in Indexes, NEW w \in Indexes, NEW i \in 0..ReadQtyT(r, w)
  PROVE  GetWrapIndex(r + i) = w <=> i = ReadQtyT(r, w)
<1>1. i \in 0..(QTY - 1)
  BY QtyInRing, QtyAssumption DEF Indexes
<1>2. GetWrapIndex(r + i) = IF r + i < QTY THEN r + i ELSE r + i - QTY
  BY <1>1, QtyAssumption, Wrap DEF Indexes
<1> QED BY <1>1, <1>2, QtyAssumption DEF ReadQtyT, Indexes

(* The elements that are left are in the slots they were in.                *)
LEMMA SlotAfterRead ==
  ASSUME NEW r \in Indexes, NEW n \in Nat, NEW i \in Nat, n + i < QTY
  PROVE  GetWrapIndex(GetWrapIndex(r + n) + i) = GetWrapIndex(r + (i + n))
<1>1. GetWrapIndex(r + n) = IF r + n < QTY THEN r + n ELSE r + n - QTY
  BY QtyAssumption, Wrap DEF Indexes
<1>2. GetWrapIndex(r + (i + n))
        = IF r + (i + n) < QTY THEN r + (i + n) ELSE r + (i + n) - QTY
  BY QtyAssumption, Wrap DEF Indexes
<1>3. GetWrapIndex(r + n) \in Nat /\ GetWrapIndex(r + n) + i < 2 * QTY
  BY <1>1, QtyAssumption DEF Indexes
<1>4. GetWrapIndex(GetWrapIndex(r + n) + i)
        = IF GetWrapIndex(r + n) + i < QTY THEN GetWrapIndex(r + n) + i
          ELSE GetWrapIndex(r + n) + i - QTY
  BY <1>3, QtyAssumption, Wrap DEF Indexes
<1> QED BY <1>1, <1>2, <1>4, QtyAssumption DEF Indexes

-----------------------------------------------------------------------------
(* The new ring satisfies the invariant.                                    *)
LEMMA QueueInitIInv == QueueInit => QueueIInv
BY QtyAssumption
   DEF QueueInit, QueueIInv, QueueTypeOK, WriteHasRoom, StoredIsThere, LoadedIsHead, CountIsThere,
       RoomIsThere, AvailIsThere, Used, ReadQtyT

(* The writer changes Used only in WritePublish, where WriteHasRoom says    *)
(* that there is room; what it stores is in none of the reader's slots.     *)
LEMMA StepWriter == QueueIInv /\ Writer => QueueIInv'
<1> SUFFICES ASSUME QueueIInv, Writer PROVE QueueIInv'
  OBVIOUS
<1> USE QtyAssumption
    DEF QueueIInv, QueueTypeOK, WriteHasRoom, StoredIsThere, LoadedIsHead, CountIsThere,
        RoomIsThere, AvailIsThere, readerVars
<1>1. readIndex \in Indexes /\ writeIndex \in Indexes /\ Used \in 0..(QTY - 1)
  BY QtyInRing DEF Indexes, Used
<1>2. ASSUME NEW v \in Values, WriteStart(v) PROVE QueueIInv'
  <2>1. Used < QTY - 1
    BY <1>1, <1>2, NextIsFree DEF WriteStart, Used
  <2>2. Used' = Used
    BY <1>2 DEF WriteStart, Used
  <2> QED BY <1>2, <2>1, <2>2 DEF WriteStart
<1>3. CASE WriteStore
  <2>1. Used' = Used
    BY <1>3 DEF WriteStore, Used
  <2>2. rpc = "take" => writeIndex # readIndex
    BY <1>1 DEF Used, ReadQtyT
  <2> QED BY <1>1, <1>3, <2>1, <2>2 DEF WriteStore
<1>4. CASE WritePublish
  <2>1. writeIndex' = GetWrapIndex(writeIndex + 1) /\ Used < QTY - 1
    BY <1>4 DEF WritePublish
  <2>2. Used' = Used + 1
    BY <1>1, <1>4, <2>1, QtyAfterWrite DEF WritePublish, Used
  <2>3. writeIndex' \in 0..(QTY - 1)
    BY <1>1, <2>1, Wrap DEF Indexes
  <2> QED BY <1>1, <1>4, <2>2, <2>3 DEF WritePublish, AtLeast0
<1>5. CASE GetWriteQtyT
  <2>1. Used' = Used /\ wRoom' = (QTY - 1) - Used
    BY <1>5 DEF GetWriteQtyT, Used
  <2> QED BY <1>1, <1>5, <2>1 DEF GetWriteQtyT
<1> QED BY <1>2, <1>3, <1>4, <1>5 DEF Writer

(* The reader only makes room; LoadedIsHead and CountIsThere say that it    *)
(* takes no more than there is.                                             *)
LEMMA StepReader == QueueIInv /\ Reader => QueueIInv'
<1> SUFFICES ASSUME QueueIInv, Reader PROVE QueueIInv'
  OBVIOUS
<1> USE QtyAssumption
    DEF QueueIInv, QueueTypeOK, WriteHasRoom, StoredIsThere, LoadedIsHead, CountIsThere,
        RoomIsThere, AvailIsThere, writerVars
<1>1. readIndex \in Indexes /\ writeIndex \in Indexes /\ Used \in 0..(QTY - 1)
  BY QtyInRing DEF Indexes, Used
<1>2. CASE GetReadQtyT
  <2>1. Used' = Used /\ rAvail' = Used
    BY <1>2 DEF GetReadQtyT, Used
  <2> QED BY <1>1, <1>2, <2>1 DEF GetReadQtyT
<1>3. CASE IsNotEmpty
  <2>1. Used' = Used /\ Used >= 1
    BY <1>1, <1>3 DEF IsNotEmpty, Used, ReadQtyT, Indexes
  <2> QED BY <1>1, <1>3, <2>1 DEF IsNotEmpty
<1>4. CASE ReadLoad
  <2>1. Used' = Used
    BY <1>4 DEF ReadLoad, Used
  <2> QED BY <1>1, <1>4, <2>1 DEF ReadLoad
<1>5. CASE ReadTake
  <2>1. Used' = Used - 1
    BY <1>1, <1>5, QtyAfterRead DEF ReadTake, Used
  <2>2. readIndex' \in 0..(QTY - 1)
    BY <1>1, <1>5, Wrap DEF ReadTake, Indexes
  <2> QED BY <1>1, <1>5, <2>1, <2>2 DEF ReadTake
<1>6. ASSUME NEW n \in 1..QTY, AdvanceCount(n) PROVE QueueIInv'
  <2>1. Used' = Used /\ rCount' \in 0..Used
    BY <1>1, <1>6 DEF AdvanceCount, Used, Least
  <2> QED BY <1>1, <1>6, <2>1 DEF AdvanceCount
<1>7. CASE AdvanceRead
  <2>1. Used' = Used - rCount
    BY <1>1, <1>7, QtyAfterRead DEF AdvanceRead, Used
  <2>2. readIndex' \in 0..(QTY - 1)
    BY <1>1, <1>7, Wrap DEF AdvanceRead, Indexes
  <2> QED BY <1>1, <1>7, <2>1, <2>2 DEF AdvanceRead, AtLeast0
<1> QED BY <1>2, <1>3, <1>4, <1>5, <1>6, <1>7 DEF Reader

(* Where nothing changes the invariant stays.                               *)
LEMMA StutterIInv == QueueIInv /\ UNCHANGED queueVars => QueueIInv'
BY DEF queueVars, writerVars, readerVars, QueueIInv, QueueTypeOK, WriteHasRoom, StoredIsThere,
       LoadedIsHead, CountIsThere, RoomIsThere, AvailIsThere, Used

(* The ring's invariant holds in every state of every behaviour.            *)
THEOREM QueueInductive == QueueSpec => []QueueIInv
<1>1. QueueIInv /\ [QueueNext]_queueVars => QueueIInv'
  BY StepWriter, StepReader, StutterIInv DEF QueueNext
<1> QED BY QueueInitIInv, <1>1, PTL DEF QueueSpec

-----------------------------------------------------------------------------
(* Indexes and counters stay inside of the ring.                            *)
THEOREM TypeCorrect == QueueSpec => []QueueTypeOK
BY QueueInductive, PTL DEF QueueIInv

(* What get_WriteQtyT answered is a promise: the reader only adds to it.    *)
THEOREM RoomStaysThere == QueueSpec => []RoomIsThere
BY QueueInductive, PTL DEF QueueIInv

(* So is what get_ReadQtyT or isEmptyQ answered.                            *)
THEOREM AvailStaysThere == QueueSpec => []AvailIsThere
BY QueueInductive, PTL DEF QueueIInv

-----------------------------------------------------------------------------
(* What is in the ring, in the order in which it will be read. *)

Elements == Values \cup {Nothing}
Rings == [Indexes -> Elements]

RingItems(d, r, w) == [i \in 1..ReadQtyT(r, w) |-> d[GetWrapIndex(r + i - 1)]]

(* The elements of a ring are a sequence of as many as the indexes say.     *)
LEMMA RingItemsAreSeq ==
  ASSUME NEW d \in Rings, NEW r \in Indexes, NEW w \in Indexes
  PROVE  /\ RingItems(d, r, w) \in Seq(Elements)
         /\ Len(RingItems(d, r, w)) = ReadQtyT(r, w)
         /\ \A i \in 1..ReadQtyT(r, w) :
              RingItems(d, r, w)[i] = d[GetWrapIndex(r + (i - 1))]
<1>1. ReadQtyT(r, w) \in 0..(QTY - 1)
  BY QtyInRing
<1>2. ASSUME NEW i \in 1..ReadQtyT(r, w)
      PROVE  /\ r + i - 1 = r + (i - 1)
             /\ d[GetWrapIndex(r + i - 1)] \in Elements
  <2>1. r + i - 1 = r + (i - 1) /\ i - 1 \in Nat /\ i - 1 < QTY
    BY <1>1, QtyAssumption DEF Indexes
  <2>2. GetWrapIndex(r + (i - 1)) \in Indexes
    BY <2>1, Wrap, QtyAssumption DEF Indexes
  <2> QED BY <2>1, <2>2 DEF Rings
<1>3. RingItems(d, r, w) \in [1..ReadQtyT(r, w) -> Elements]
  BY <1>2 DEF RingItems
<1>4. RingItems(d, r, w) \in Seq(Elements) /\ Len(RingItems(d, r, w)) = ReadQtyT(r, w)
  BY <1>1, <1>3, LenProperties, SeqDef
<1> QED BY <1>2, <1>4 DEF RingItems

(* A store into the slot behind the last element changes none of them.      *)
LEMMA StoreKeepsItems ==
  ASSUME NEW d \in Rings, NEW r \in Indexes, NEW w \in Indexes, NEW v \in Elements
  PROVE  RingItems([d EXCEPT ![w] = v], r, w) = RingItems(d, r, w)
<1> DEFINE e == [d EXCEPT ![w] = v]
<1>1. e \in Rings
  BY DEF Rings
<1>2. ASSUME NEW i \in 1..ReadQtyT(r, w)
      PROVE  RingItems(e, r, w)[i] = RingItems(d, r, w)[i]
  <2>1. i - 1 \in 0..ReadQtyT(r, w) /\ i - 1 # ReadQtyT(r, w) /\ i - 1 < QTY
    BY QtyInRing, QtyAssumption
  <2>2. GetWrapIndex(r + (i - 1)) \in Indexes \ {w}
    BY <2>1, SlotOfWriter, Wrap, QtyAssumption DEF Indexes
  <2>3. e[GetWrapIndex(r + (i - 1))] = d[GetWrapIndex(r + (i - 1))]
    BY <2>2 DEF Rings
  <2> QED BY <1>1, <2>3, RingItemsAreSeq, ZenonT(60)
<1> HIDE DEF e
<1>3. RingItems(e, r, w) = RingItems(d, r, w)
  BY <1>1, <1>2, RingItemsAreSeq, SeqEqual
<1> QED BY <1>3 DEF e

(* To publish the next index is to append what was stored.                  *)
LEMMA PublishAppends ==
  ASSUME NEW d \in Rings, NEW r \in Indexes, NEW w \in Indexes, ReadQtyT(r, w) < QTY - 1
  PROVE  RingItems(d, r, GetWrapIndex(w + 1)) = Append(RingItems(d, r, w), d[w])
<1> DEFINE old == RingItems(d, r, w)
           new == RingItems(d, r, GetWrapIndex(w + 1))
<1>1. GetWrapIndex(w + 1) \in Indexes /\ ReadQtyT(r, GetWrapIndex(w + 1)) = ReadQtyT(r, w) + 1
  BY QtyAfterWrite, Wrap, QtyAssumption DEF Indexes
<1>2. /\ new \in Seq(Elements) /\ Len(new) = ReadQtyT(r, w) + 1
      /\ \A i \in 1..(ReadQtyT(r, w) + 1) : new[i] = d[GetWrapIndex(r + (i - 1))]
  BY <1>1, RingItemsAreSeq
<1>3. /\ old \in Seq(Elements) /\ Len(old) = ReadQtyT(r, w)
      /\ \A i \in 1..ReadQtyT(r, w) : old[i] = d[GetWrapIndex(r + (i - 1))]
  BY RingItemsAreSeq
<1>4. ReadQtyT(r, w) \in Nat /\ GetWrapIndex(r + ReadQtyT(r, w)) = w /\ d[w] \in Elements
  BY QtyInRing, SlotOfWriter, QtyAssumption DEF Rings
<1> HIDE DEF old, new
<1>5. /\ Append(old, d[w]) \in Seq(Elements)
      /\ Len(Append(old, d[w])) = ReadQtyT(r, w) + 1
      /\ \A i \in 1..ReadQtyT(r, w) : Append(old, d[w])[i] = old[i]
      /\ Append(old, d[w])[ReadQtyT(r, w) + 1] = d[w]
  BY <1>3, <1>4, AppendProperties
<1>6. ASSUME NEW i \in 1..(ReadQtyT(r, w) + 1) PROVE new[i] = Append(old, d[w])[i]
  BY <1>2, <1>3, <1>4, <1>5
<1>7. new = Append(old, d[w])
  BY <1>2, <1>5, <1>6, SeqEqual
<1> QED BY <1>7 DEF old, new

(* To advance the read index is to drop the first elements.                 *)
LEMMA AdvanceDrops ==
  ASSUME NEW d \in Rings, NEW r \in Indexes, NEW w \in Indexes, NEW n \in 0..ReadQtyT(r, w)
  PROVE  RingItems(d, GetWrapIndex(r + n), w)
           = SubSeq(RingItems(d, r, w), n + 1, ReadQtyT(r, w))
<1> DEFINE old == RingItems(d, r, w)
           new == RingItems(d, GetWrapIndex(r + n), w)
           len == ReadQtyT(r, w)
<1>1. len \in 0..(QTY - 1) /\ n \in 0..(QTY - 1)
  BY QtyInRing, QtyAssumption
<1>2. GetWrapIndex(r + n) \in Indexes /\ ReadQtyT(GetWrapIndex(r + n), w) = len - n
  BY <1>1, QtyAfterRead, Wrap, QtyAssumption DEF Indexes
<1>3. /\ new \in Seq(Elements) /\ Len(new) = len - n
      /\ \A i \in 1..(len - n) : new[i] = d[GetWrapIndex(GetWrapIndex(r + n) + (i - 1))]
  BY <1>2, RingItemsAreSeq
<1>4. /\ old \in Seq(Elements) /\ Len(old) = len
      /\ \A i \in 1..len : old[i] \in Elements
      /\ \A i \in 1..len : old[i] = d[GetWrapIndex(r + (i - 1))]
  BY RingItemsAreSeq, ElementOfSeq
<1>5. ASSUME NEW i \in 1..(len - n) PROVE new[i] = old[n + 1 + i - 1]
  <2>1. i - 1 \in Nat /\ n + (i - 1) < QTY /\ n + i \in 1..len /\ n + 1 + i - 1 = n + i
        /\ (n + i) - 1 = (i - 1) + n
    BY <1>1, QtyAssumption
  <2>2. new[i] = d[GetWrapIndex(r + ((i - 1) + n))]
    BY <1>1, <1>3, <2>1, SlotAfterRead
  <2> QED BY <1>4, <2>1, <2>2
<1> HIDE DEF old, new, len
<1>6. /\ SubSeq(old, n + 1, len) \in Seq(Elements)
      /\ Len(SubSeq(old, n + 1, len)) = len - n
      /\ \A i \in 1..(len - n) : SubSeq(old, n + 1, len)[i] = old[n + 1 + i - 1]
  <2>1. /\ n + 1 \in Int /\ len \in Int /\ len - (n + 1) + 1 = len - n
        /\ (IF n + 1 <= len THEN len - (n + 1) + 1 ELSE 0) = len - n
        /\ \A i \in (n + 1)..len : i \in 1..len
    BY <1>1 DEF len
  <2>2. \A i \in (n + 1)..len : old[i] \in Elements
    BY <1>4, <2>1
  <2> QED BY <2>1, <2>2, SubSeqProperties
<1>7. new = SubSeq(old, n + 1, len)
  BY <1>3, <1>5, <1>6, SeqEqual
<1> QED BY <1>7 DEF old, new, len

-----------------------------------------------------------------------------
(* The refinement. *)

\* The items of Fifo: RingItems and Used expand to what QueueStatic substitutes.
Items == RingItems(data, readIndex, writeIndex)

(* WritePublish is the step in which the element enters the abstract queue. *)
LEMMA PublishPuts ==
  ASSUME QueueIInv, WritePublish
  PROVE  Fifo!Put(wVal) /\ wVal \in Values
<1>1. /\ data \in Rings /\ readIndex \in Indexes /\ writeIndex \in Indexes
      /\ wVal \in Values /\ Used < QTY - 1 /\ data[writeIndex] = wVal
  BY DEF QueueIInv, QueueTypeOK, WriteHasRoom, StoredIsThere, WritePublish, Rings, Indexes, Elements
<1>2. /\ writeIndex' = GetWrapIndex(writeIndex + 1)
      /\ data' = data /\ readIndex' = readIndex /\ got' = got
  BY DEF QueueIInv, WriteHasRoom, WritePublish, readerVars
<1>3. Items' = Append(Items, wVal)
  BY <1>1, <1>2, PublishAppends DEF Items, Used
<1>4. Len(Items) < QTY - 1
  BY <1>1, RingItemsAreSeq DEF Items, Used
<1> QED BY <1>1, <1>2, <1>3, <1>4 DEF Fifo!Put, Items, RingItems, Used

(* ReadTake is the step in which it leaves it.                              *)
LEMMA TakeGets ==
  ASSUME QueueIInv, ReadTake
  PROVE  Fifo!Get
<1>1. /\ data \in Rings /\ readIndex \in Indexes /\ writeIndex \in Indexes
      /\ rVal = data[readIndex] /\ Used \in 1..(QTY - 1)
  <2>1. data \in Rings /\ readIndex \in Indexes /\ writeIndex \in Indexes
    BY DEF QueueIInv, QueueTypeOK, Rings, Indexes, Elements
  <2>2. Used \in 0..(QTY - 1)
    BY <2>1, QtyInRing DEF Used
  <2>3. rVal = data[readIndex] /\ rAvail \in 0..(QTY - 1) /\ rAvail > 0 /\ rAvail <= Used
    BY DEF QueueIInv, QueueTypeOK, LoadedIsHead, AvailIsThere, ReadTake
  <2> QED BY <2>1, <2>2, <2>3, QtyAssumption
<1>2. /\ readIndex' = GetWrapIndex(readIndex + 1)
      /\ data' = data /\ writeIndex' = writeIndex /\ got' = rVal
  BY DEF ReadTake, writerVars
<1>3. Items \in Seq(Elements) /\ Len(Items) = Used /\ Items[1] = data[readIndex]
  <2>1. GetWrapIndex(readIndex + (1 - 1)) = readIndex
    BY <1>1, Wrap, QtyAssumption DEF Indexes
  <2> QED BY <1>1, <2>1, RingItemsAreSeq DEF Items, Used
<1>4. Items # <<>> /\ Head(Items) = rVal
  BY <1>1, <1>3
<1>5. Items' = Tail(Items)
  <2>1. Items' = SubSeq(Items, 1 + 1, Used)
    BY <1>1, <1>2, AdvanceDrops DEF Items, Used
  <2> QED BY <1>3, <1>4, <2>1, TailIsSubSeq
<1> QED BY <1>2, <1>4, <1>5 DEF Fifo!Get, Items, RingItems, Used

(* AdvanceRead drops elements, or nothing when the ring was empty.          *)
LEMMA AdvanceDiscards ==
  ASSUME QueueIInv, AdvanceRead
  PROVE  (\E n \in 1..(QTY - 1) : Fifo!Discard(n)) \/ UNCHANGED Fifo!vars
<1>1. /\ data \in Rings /\ readIndex \in Indexes /\ writeIndex \in Indexes
      /\ Used \in 0..(QTY - 1) /\ rCount \in 0..Used
  BY QtyInRing
     DEF QueueIInv, QueueTypeOK, CountIsThere, AdvanceRead, Used, Rings, Indexes, Elements
<1>2. /\ readIndex' = GetWrapIndex(readIndex + rCount)
      /\ data' = data /\ writeIndex' = writeIndex /\ got' = got
  BY DEF AdvanceRead, writerVars
<1>3. CASE rCount = 0
  <2>1. readIndex' = readIndex
    BY <1>1, <1>2, <1>3, Wrap, QtyAssumption DEF Indexes
  <2> QED BY <1>2, <2>1 DEF Fifo!vars, Used
<1>4. CASE rCount # 0
  <2>1. Len(Items) = Used
    BY <1>1, RingItemsAreSeq DEF Items, Used
  <2>2. Items' = SubSeq(Items, rCount + 1, Len(Items))
    BY <1>1, <1>2, <2>1, AdvanceDrops DEF Items, Used
  <2>3. rCount <= Len(Items)
    BY <1>1, <2>1
  <2>4. Fifo!Discard(rCount)
    BY <1>2, <2>2, <2>3 DEF Fifo!Discard, Items, RingItems, Used
  <2>5. rCount \in 1..(QTY - 1)
    BY <1>1, <1>4, QtyAssumption
  <2> QED BY <2>4, <2>5
<1> QED BY <1>3, <1>4

(* The store of an element nobody can see yet is a stutter.                 *)
LEMMA StoreStutters ==
  ASSUME QueueIInv, WriteStore
  PROVE  UNCHANGED Fifo!vars
<1>1. /\ data \in Rings /\ readIndex \in Indexes /\ writeIndex \in Indexes
      /\ wVal \in Elements
  BY DEF QueueIInv, QueueTypeOK, WriteHasRoom, WriteStore, Rings, Indexes, Elements
<1>2. /\ data' = [data EXCEPT ![writeIndex] = wVal]
      /\ readIndex' = readIndex /\ writeIndex' = writeIndex /\ got' = got
  BY DEF QueueIInv, WriteHasRoom, WriteStore, readerVars
<1>3. Items' = Items
  BY <1>1, <1>2, StoreKeepsItems DEF Items
<1> QED BY <1>2, <1>3 DEF Fifo!vars, Items, RingItems, Used

(* Every other step leaves the ring, its indexes and got alone.             *)
LEMMA StepImplements ==
  QueueIInv /\ [QueueNext]_queueVars => [Fifo!Next]_(Fifo!vars)
<1> SUFFICES ASSUME QueueIInv, [QueueNext]_queueVars PROVE Fifo!Next \/ UNCHANGED Fifo!vars
  OBVIOUS
<1>1. CASE WritePublish
  BY <1>1, PublishPuts DEF Fifo!Next
<1>2. CASE ReadTake
  BY <1>2, TakeGets DEF Fifo!Next
<1>3. CASE AdvanceRead
  BY <1>3, AdvanceDiscards DEF Fifo!Next
<1>4. CASE WriteStore
  BY <1>4, StoreStutters
<1>5. CASE \/ \E v \in Values : WriteStart(v)
           \/ GetWriteQtyT \/ GetReadQtyT \/ IsNotEmpty \/ ReadLoad
           \/ \E n \in 1..QTY : AdvanceCount(n)
           \/ UNCHANGED queueVars
  <2>1. /\ data' = data /\ readIndex' = readIndex
        /\ writeIndex' = writeIndex /\ got' = got
    BY <1>5 DEF WriteStart, GetWriteQtyT, GetReadQtyT, IsNotEmpty, ReadLoad, AdvanceCount,
                queueVars, writerVars, readerVars
  <2> QED BY <2>1 DEF Fifo!vars, Used
<1> QED BY <1>1, <1>2, <1>3, <1>4, <1>5 DEF QueueNext, Writer, Reader

(* A cQueueStatic that one thread writes and one thread reads, without a    *)
(* lock, is a first-in first-out queue of _QTY - 1 elements.                *)
THEOREM Implements == QueueSpec => ImplementsFifo
<1>1. QueueInit => Fifo!Init
  BY DEF QueueInit, Fifo!Init, Used, ReadQtyT
<1> QED BY <1>1, StepImplements, QueueInductive, PTL DEF QueueSpec, ImplementsFifo, Fifo!Spec

-----------------------------------------------------------------------------
Bytes == 1..MaxBytes
Queues == [data : Seq(Bytes), read : Nat, alloc : Nat, commit : Nat, grow : Nat, max : Nat]

\* A queue between two calls.
Sound(q) == q \in Queues /\ IsNormal(q) /\ q.grow \in 1..q.max

\* A sequence of bytes that were accepted one after the other, behind byte n.
Numbered(s, n) == \A k \in 1..Len(s) : s[k] = n + k

\* The next byte that is read from q is n + 1; what q has still got of those
\* that were read comes before it.
Holds(q, n) == Numbered(q.data, n - q.read)

\* A queue of the same kind.
Alike(p, q) == p.grow = q.grow /\ p.max = q.max

-----------------------------------------------------------------------------
(* The operators of QueueBytes. *)

LEMMA Fields ==
    ASSUME NEW q, Sound(q)
    PROVE  /\ q.data \in Seq(Bytes) /\ Len(q.data) \in Nat
           /\ q.read \in Nat /\ q.read <= Len(q.data)
           /\ q.alloc \in Nat /\ Len(q.data) <= q.alloc
           /\ q.max \in Nat /\ q.alloc <= q.max
           /\ q.grow \in Nat /\ 1 <= q.grow /\ q.grow <= q.max
           /\ q.commit \in Nat /\ q.commit \in {0, q.grow \div 2}
           /\ ReadQty(q) = Len(q.data) - q.read /\ ReadQty(q) \in Nat
           /\ WriteSpaceQty(q) = q.alloc - Len(q.data) /\ WriteSpaceQty(q) \in Nat
BY DEF Sound, Queues, IsNormal, WriteIndex, ReadQty, WriteSpaceQty

LEMMA HalfIsLess ==
    ASSUME NEW n \in Nat
    PROVE  n \div 2 \in Nat /\ n \div 2 <= n
OBVIOUS

LEMMA Unread ==
    ASSUME NEW q, Sound(q), NEW n \in Int, Holds(q, n)
    PROVE  /\ SpanRead(q) \in Seq(Bytes) /\ Len(SpanRead(q)) = ReadQty(q)
           /\ Numbered(SpanRead(q), n)
<1> DEFINE d == q.data  r == q.read  L == Len(q.data)
<1>1. d \in Seq(Bytes) /\ L \in Nat /\ r \in Nat /\ r <= L /\ ReadQty(q) = L - r
    BY Fields
<1>2. SpanRead(q) = SubSeq(d, r + 1, L)
    BY DEF SpanRead, WriteIndex
<1>3. \A i \in (r + 1)..L : d[i] \in Bytes
    BY <1>1
<1>4. \A k \in 1..L : d[k] = n - r + k
    BY DEF Holds, Numbered
<1> HIDE DEF d, r, L
<1>5. /\ SubSeq(d, r + 1, L) \in Seq(Bytes) /\ Len(SubSeq(d, r + 1, L)) = L - r
      /\ \A i \in 1..(L - r) : SubSeq(d, r + 1, L)[i] = d[r + i]
    BY <1>1, <1>3, SubSeqProperties
<1>6. \A i \in 1..(L - r) : SubSeq(d, r + 1, L)[i] = n + i
    BY <1>1, <1>4, <1>5
<1> QED BY <1>1, <1>2, <1>5, <1>6 DEF Numbered

LEMMA ReadCommitNowKeeps ==
    ASSUME NEW q, Sound(q), NEW n \in Int, Holds(q, n)
    PROVE  LET p == ReadCommitNow(q)
           IN  /\ Sound(p) /\ Alike(p, q) /\ p.commit = q.commit
               /\ Holds(p, n) /\ ReadQty(p) = ReadQty(q)
<1> DEFINE s == SpanRead(q)  p == ReadCommitNow(q)
<1>1. s \in Seq(Bytes) /\ Len(s) = ReadQty(q) /\ Numbered(s, n)
    BY Unread
<1>2. q \in Queues
    BY DEF Sound
<1>3. p = [q EXCEPT !.data = s, !.read = 0]
    BY DEF ReadCommitNow
<1> HIDE DEF s, p
<1>4. p \in Queues /\ p.data = s /\ p.read = 0 /\ p.alloc = q.alloc
      /\ p.commit = q.commit /\ Alike(p, q)
    BY <1>1, <1>2, <1>3 DEF Queues, Alike
<1>5. ReadQty(p) = ReadQty(q) /\ IsNormal(p)
    BY <1>1, <1>4, Fields DEF ReadQty, IsNormal, WriteIndex, Alike
<1>6. Sound(p) /\ Holds(p, n)
    BY <1>1, <1>4, <1>5, Fields DEF Sound, Holds, Alike
<1> QED BY <1>4, <1>5, <1>6 DEF p

LEMMA ReadCommitCheckKeeps ==
    ASSUME NEW q, Sound(q), NEW n \in Int, Holds(q, n)
    PROVE  LET p == ReadCommitCheck(q)
           IN  /\ Sound(p) /\ Alike(p, q) /\ p.commit = q.commit
               /\ Holds(p, n) /\ ReadQty(p) = ReadQty(q)
               /\ q.commit = 0 => p = q
BY ReadCommitNowKeeps DEF ReadCommitCheck, Alike

LEMMA AutoReadCommitKeeps ==
    ASSUME NEW q, Sound(q), NEW n \in Int, Holds(q, n), NEW m \in {0, q.grow \div 2}
    PROVE  LET p == AutoReadCommit(q, m)
           IN  /\ Sound(p) /\ Alike(p, q) /\ p.commit = m
               /\ Holds(p, n) /\ ReadQty(p) = ReadQty(q)
               /\ m = 0 => p.data = q.data /\ p.read = q.read /\ p.alloc = q.alloc
<1> DEFINE c == [q EXCEPT !.commit = m]
<1>1. m \in Nat
    BY Fields, HalfIsLess
<1>2. c \in Queues /\ c.data = q.data /\ c.read = q.read /\ c.alloc = q.alloc
      /\ c.commit = m /\ Alike(c, q)
    BY <1>1 DEF Sound, Queues, Alike
<1> HIDE DEF c
<1>3. Sound(c) /\ Holds(c, n) /\ ReadQty(c) = ReadQty(q)
    BY <1>2, Fields DEF Sound, Holds, Alike, IsNormal, WriteIndex, ReadQty
<1>4. CASE q.commit = m
    <2>1. AutoReadCommit(q, m) = ReadCommitCheck(q)
        BY <1>4 DEF AutoReadCommit
    <2> QED BY <1>4, <2>1, ReadCommitCheckKeeps
<1>5. CASE q.commit # m /\ m # 0
    <2>1. AutoReadCommit(q, m) = ReadCommitNow(c)
        BY <1>5 DEF AutoReadCommit, c
    <2> QED BY <1>2, <1>3, <1>5, <2>1, ReadCommitNowKeeps DEF Alike
<1>6. CASE q.commit # m /\ m = 0
    <2>1. AutoReadCommit(q, m) = c
        BY <1>6 DEF AutoReadCommit, c
    <2> QED BY <1>2, <1>3, <1>6, <2>1
<1> QED BY <1>4, <1>5, <1>6

\* The index of a queue that keeps what was read is moved, within the buffer.
LEMMA ReadMoved ==
    ASSUME NEW q, Sound(q), NEW n \in Int, Holds(q, n), NEW i \in 0..Len(q.data)
    PROVE  LET p == [q EXCEPT !.read = i]
           IN  /\ Sound(p) /\ Alike(p, q) /\ p.commit = q.commit
               /\ p.data = q.data /\ p.read = i /\ p.alloc = q.alloc
               /\ Holds(p, n + i - q.read) /\ ReadQty(p) = Len(q.data) - i
<1> DEFINE p == [q EXCEPT !.read = i]
<1>1. i \in Nat /\ i <= Len(q.data)
    BY Fields
<1>2. p \in Queues /\ p.data = q.data /\ p.read = i /\ p.alloc = q.alloc
      /\ p.commit = q.commit /\ Alike(p, q)
    BY <1>1 DEF Sound, Queues, Alike
<1> HIDE DEF p
<1>3. Sound(p)
    BY <1>1, <1>2, Fields DEF Sound, IsNormal, WriteIndex, Alike
<1>4. ReadQty(p) = Len(q.data) - i
    BY <1>2 DEF ReadQty, WriteIndex
<1>5. (n + i - q.read) - p.read = n - q.read
    BY <1>1, <1>2, Fields
<1>6. Holds(p, n + i - q.read)
    <2>1. Numbered(q.data, n - q.read)
        BY DEF Holds
    <2> QED BY <1>2, <1>5, <2>1 DEF Holds
<1> QED BY <1>2, <1>3, <1>4, <1>6 DEF p

LEMMA SeekQMoves ==
    ASSUME NEW q, Sound(q), NEW n \in Int, Holds(q, n), NEW i \in 0..Len(q.data)
    PROVE  LET p == SeekQ(q, i)
           IN  /\ Sound(p) /\ Alike(p, q) /\ p.commit = q.commit
               /\ Holds(p, n + i - q.read) /\ ReadQty(p) = Len(q.data) - i
               /\ q.commit = 0 => p.data = q.data /\ p.read = i /\ p.alloc = q.alloc
<1> DEFINE m == [q EXCEPT !.read = i]
<1>1. Greater(0, Lesser(i, WriteIndex(q))) = i
    BY Fields DEF Greater, Lesser, WriteIndex
<1>2. SeekQ(q, i) = ReadCommitCheck(m)
    BY <1>1 DEF SeekQ
<1>3. /\ Sound(m) /\ Alike(m, q) /\ m.commit = q.commit
      /\ m.data = q.data /\ m.read = i /\ m.alloc = q.alloc
      /\ Holds(m, n + i - q.read) /\ ReadQty(m) = Len(q.data) - i
    BY ReadMoved
<1>4. n + i - q.read \in Int
    BY Fields
<1> HIDE DEF m
<1> QED BY <1>2, <1>3, <1>4, ReadCommitCheckKeeps DEF Alike

LEMMA ReadSpanQMoves ==
    ASSUME NEW q, Sound(q), NEW n \in Int, Holds(q, n), NEW w \in Nat
    PROVE  LET p == ReadSpanQ(q, w)
               c == Lesser(w, ReadQty(q))
           IN  /\ c \in Nat /\ c <= ReadQty(q)
               /\ Sound(p) /\ Alike(p, q) /\ p.commit = q.commit
               /\ Holds(p, n + c) /\ ReadQty(p) = ReadQty(q) - c
               /\ q.commit = 0 => p.data = q.data /\ p.read = q.read + c /\ p.alloc = q.alloc
<1> DEFINE c == Lesser(w, ReadQty(q))
           i == q.read + c
           m == [q EXCEPT !.read = i]
<1>1. c \in Nat /\ c <= ReadQty(q)
    BY Fields DEF Lesser
<1>2. i \in 0..Len(q.data)
    BY <1>1, Fields
<1>3. ReadSpanQ(q, w) = ReadCommitCheck(m)
    BY DEF ReadSpanQ
<1>4. n + i - q.read = n + c /\ Len(q.data) - i = ReadQty(q) - c
    BY <1>1, Fields
<1> HIDE DEF c, i
<1>5. /\ Sound(m) /\ Alike(m, q) /\ m.commit = q.commit
      /\ m.data = q.data /\ m.read = i /\ m.alloc = q.alloc
      /\ Holds(m, n + c) /\ ReadQty(m) = ReadQty(q) - c
    BY <1>2, <1>4, ReadMoved
<1> HIDE DEF m
<1> QED BY <1>1, <1>3, <1>5, ReadCommitCheckKeeps DEF Alike, i, c

LEMMA ChunksReach ==
    ASSUME NEW a \in Nat, NEW g \in Nat, g >= 1
    PROVE  /\ (a + g - 1) \div g \in Nat
           /\ ((a + g - 1) \div g) * g \in Nat
           /\ ((a + g - 1) \div g) * g >= a
<1> DEFINE x == a + g - 1
           d == x \div g
<1>1. x \in Nat
    OBVIOUS
<1>2. d \in Nat
    BY <1>1
<1>3. x % g \in 0..(g - 1) /\ x = (g * d) + (x % g)
    BY <1>1
<1> HIDE DEF d
<1>4. d * g = g * d /\ d * g \in Nat
    BY <1>2
<1> QED BY <1>2, <1>3, <1>4 DEF d

LEMMA GetWritePrepGrows ==
    ASSUME NEW q, Sound(q), NEW n \in Int, Holds(q, n), NEW w \in Nat
    PROVE  LET p == GetWritePrep(q, w)
           IN  /\ Sound(p) /\ Alike(p, q) /\ p.commit = q.commit
               /\ p.data = q.data /\ p.read = q.read
               /\ Holds(p, n) /\ ReadQty(p) = ReadQty(q)
<1> DEFINE g == q.grow
           a == q.alloc + w - WriteSpaceQty(q)
           c == ((a + g - 1) \div g) * g
           m == Lesser(c, q.max)
           p == [q EXCEPT !.alloc = m]
<1>1. CASE w > WriteSpaceQty(q) /\ q.alloc < q.max
    <2>1. g \in Nat /\ g >= 1 /\ a \in Nat /\ a >= q.alloc
        BY <1>1, Fields
    <2>2. GetWritePrep(q, w) = p
        BY <1>1 DEF GetWritePrep
    <2> HIDE DEF a, g
    <2>3. c \in Nat /\ c >= a
        BY <2>1, ChunksReach
    <2> HIDE DEF c
    <2>4. m \in Nat /\ q.alloc <= m /\ m <= q.max
        BY <1>1, <2>1, <2>3, Fields DEF Lesser
    <2> HIDE DEF m
    <2>5. p \in Queues /\ p.alloc = m /\ p.data = q.data /\ p.read = q.read
          /\ p.commit = q.commit /\ Alike(p, q)
        BY <2>4 DEF Sound, Queues, Alike
    <2> HIDE DEF p
    <2>6. Sound(p)
        BY <2>4, <2>5, Fields, SMTT(20) DEF Sound, IsNormal, WriteIndex, Alike
    <2>7. Holds(p, n) /\ ReadQty(p) = ReadQty(q)
        BY <2>5 DEF Holds, ReadQty, WriteIndex
    <2> QED BY <2>2, <2>5, <2>6, <2>7
<1>2. CASE ~ (w > WriteSpaceQty(q) /\ q.alloc < q.max)
    <2>1. GetWritePrep(q, w) = q
        BY <1>2 DEF GetWritePrep
    <2> QED BY <2>1 DEF Alike
<1> QED BY <1>1, <1>2

LEMMA AdvanceWriteAdds ==
    ASSUME NEW q, Sound(q), NEW n \in Int, Holds(q, n),
           NEW s \in Seq(Bytes), Len(s) <= WriteSpaceQty(q), Numbered(s, n + ReadQty(q))
    PROVE  LET p == AdvanceWrite(q, s)
           IN  /\ Sound(p) /\ Alike(p, q) /\ p.commit = q.commit
               /\ p.read = q.read
               /\ Holds(p, n) /\ ReadQty(p) = ReadQty(q) + Len(s)
<1> DEFINE d == q.data \o s
           p == [q EXCEPT !.data = d]
           L == Len(q.data)
           M == Len(s)
<1>1. AdvanceWrite(q, s) = p
    BY DEF AdvanceWrite
<1>2. /\ q.data \in Seq(Bytes) /\ L \in Nat /\ M \in Nat
      /\ q.read \in Nat /\ q.read <= L /\ q.alloc \in Nat /\ L + M <= q.alloc
      /\ q.max \in Nat /\ q.alloc <= q.max /\ q.commit \in {0, q.grow \div 2}
      /\ q.grow \in 1..q.max /\ ReadQty(q) = L - q.read
    BY Fields DEF Sound
<1>3. /\ d \in Seq(Bytes) /\ Len(d) = L + M
      /\ \A k \in 1..(L + M) : d[k] = IF k <= L THEN q.data[k] ELSE s[k - L]
    BY <1>2, ConcatProperties
<1>4. /\ \A k \in 1..L : q.data[k] = n - q.read + k
      /\ \A k \in 1..M : s[k] = n + (L - q.read) + k
    BY <1>2 DEF Holds, Numbered
<1> HIDE DEF d, L, M
<1>5. p \in Queues /\ p.data = d /\ p.read = q.read /\ p.alloc = q.alloc
      /\ p.commit = q.commit /\ Alike(p, q)
    BY <1>3 DEF Sound, Queues, Alike
<1> HIDE DEF p
<1>6. ReadQty(p) = ReadQty(q) + M
    <2>1. ReadQty(p) = Len(d) - q.read
        BY <1>5 DEF ReadQty, WriteIndex
    <2> QED BY <1>2, <1>3, <2>1
<1>7. Sound(p)
    BY <1>2, <1>3, <1>5 DEF Sound, IsNormal, WriteIndex, Alike
<1>8. ASSUME NEW k \in 1..(L + M)
      PROVE  d[k] = n - q.read + k
    <2>1. CASE k <= L
        <3>1. d[k] = q.data[k] /\ k \in 1..L
            BY <1>2, <1>3, <2>1
        <3> QED BY <1>4, <3>1
    <2>2. CASE k > L
        <3>1. PICK j \in 1..M : k = L + j /\ k - L = j
            <4>1. k - L \in 1..M /\ k = L + (k - L)
                BY <1>2, <2>2
            <4> QED BY <4>1
        <3>2. d[k] = s[j]
            <4>1. ~(k <= L)
                BY <1>2, <2>2
            <4>2. d[k] = s[k - L]
                BY <1>3, <4>1
            <4> QED BY <3>1, <4>2
        <3>3. s[j] = n + (L - q.read) + j
            BY <1>4, <3>1
        <3> QED BY <1>2, <3>1, <3>2, <3>3
    <2> QED BY <1>2, <2>1, <2>2
<1>9. Holds(p, n)
    BY <1>3, <1>5, <1>8 DEF Holds, Numbered
<1> QED BY <1>1, <1>5, <1>6, <1>7, <1>9 DEF M

\* The first m of numbered bytes.
LEMMA NumberedPart ==
    ASSUME NEW s \in Seq(Bytes), NEW n \in Int, Numbered(s, n), NEW m \in 0..Len(s)
    PROVE  /\ SubSeq(s, 1, m) \in Seq(Bytes) /\ Len(SubSeq(s, 1, m)) = m
           /\ Numbered(SubSeq(s, 1, m), n)
<1>1. Len(s) \in Nat /\ m \in Int /\ m <= Len(s) /\ \A i \in 1..m : s[i] \in Bytes
    OBVIOUS
<1>2. /\ SubSeq(s, 1, m) \in Seq(Bytes) /\ Len(SubSeq(s, 1, m)) = m
      /\ \A i \in 1..m : SubSeq(s, 1, m)[i] = s[i]
    BY <1>1, SubSeqProperties
<1> QED BY <1>1, <1>2 DEF Numbered

LEMMA WriteQtyFits ==
    ASSUME NEW q, Sound(q), NEW n \in Int, Holds(q, n), NEW w \in Nat, NEW atomic \in BOOLEAN
    PROVE  /\ WriteQty(q, w, atomic) \in 0..w
           /\ WriteQty(q, w, atomic) <= WriteSpaceQty(GetWritePrep(q, w))
           /\ atomic => WriteQty(q, w, atomic) \in {0, w}
<1>1. Sound(GetWritePrep(q, w))
    BY GetWritePrepGrows
<1>2. WriteSpaceQty(GetWritePrep(q, w)) \in Nat
    BY <1>1, Fields
<1> QED BY <1>2 DEF WriteQty

LEMMA WriteSpanQAdds ==
    ASSUME NEW q, Sound(q), NEW n \in Int, Holds(q, n),
           NEW s \in Seq(Bytes), Numbered(s, n + ReadQty(q)), NEW atomic \in BOOLEAN
    PROVE  LET p == WriteSpanQ(q, s, atomic)
           IN  /\ Sound(p) /\ Alike(p, q) /\ p.commit = q.commit
               /\ p.read = q.read
               /\ Holds(p, n) /\ ReadQty(p) = ReadQty(q) + WriteQty(q, Len(s), atomic)
<1> DEFINE g == GetWritePrep(q, Len(s))
           m == WriteQty(q, Len(s), atomic)
           part == SubSeq(s, 1, m)
<1>1. Len(s) \in Nat /\ n + ReadQty(q) \in Int
    BY Fields
<1>2. /\ Sound(g) /\ Alike(g, q) /\ g.commit = q.commit /\ g.read = q.read
      /\ Holds(g, n) /\ ReadQty(g) = ReadQty(q)
    BY <1>1, GetWritePrepGrows
<1>3. m \in 0..Len(s) /\ m <= WriteSpaceQty(g)
    BY <1>1, WriteQtyFits
<1>4. WriteSpanQ(q, s, atomic) = AdvanceWrite(g, part)
    BY DEF WriteSpanQ
<1> HIDE DEF g, m
<1>5. part \in Seq(Bytes) /\ Len(part) = m /\ Numbered(part, n + ReadQty(q))
    BY <1>1, <1>3, NumberedPart
<1> HIDE DEF part
<1> QED BY <1>2, <1>3, <1>4, <1>5, AdvanceWriteAdds DEF Alike, m

LEMMA NewQueueIsEmpty ==
    ASSUME NEW c \in Nat, NEW m \in Nat \ {0}
    PROVE  LET p == NewQueue(c, m)
           IN  /\ Sound(p) /\ p.commit = p.grow \div 2 /\ Holds(p, 0) /\ ReadQty(p) = 0
               /\ p.grow = Greater(c, 1) /\ p.max = Greater(m, Greater(c, 1))
<1> DEFINE g == Greater(c, 1)
           x == Greater(m, g)
           p == [data |-> <<>>, read |-> 0, alloc |-> g, commit |-> g \div 2,
                 grow |-> g, max |-> x]
<1>1. NewQueue(c, m) = p
    BY DEF NewQueue
<1>2. g \in Nat /\ g >= 1 /\ x \in Nat /\ g <= x
    BY DEF Greater
<1> HIDE DEF g, x
<1>3. g \div 2 \in Nat /\ <<>> \in Seq(Bytes) /\ Len(<<>>) = 0
    BY <1>2, HalfIsLess
<1>4. /\ p \in Queues /\ p.data = <<>> /\ p.read = 0 /\ p.alloc = g /\ p.commit = g \div 2
      /\ p.grow = g /\ p.max = x
    BY <1>2, <1>3 DEF Queues
<1> HIDE DEF p
<1>5. Sound(p)
    BY <1>2, <1>3, <1>4 DEF Sound, IsNormal, WriteIndex
<1>6. Holds(p, 0) /\ ReadQty(p) = 0
    BY <1>3, <1>4 DEF Holds, Numbered, ReadQty, WriteIndex
<1> QED BY <1>1, <1>4, <1>5, <1>6 DEF g, x

-----------------------------------------------------------------------------
(* The inductive invariant. *)

Types ==
    /\ Sound(out) /\ Sound(wire) /\ Sound(inp)
    /\ inp.max = InpMax
    /\ want \in Sizes \cup {0}
    /\ accepted \in Nat /\ accepted + want <= MaxBytes
    /\ position \in Nat
    /\ scopes \in Seq(Scopes) /\ Len(scopes) <= MaxScopes
    /\ broken \in BOOLEAN

\* Each queue goes on where the one behind it ends, and what a queue has kept
\* of what was read is what was read.
InPlace ==
    /\ Holds(inp, position)
    /\ Holds(wire, position + ReadQty(inp))
    /\ Holds(out, position + ReadQty(inp) + ReadQty(wire))
    /\ accepted = position + ReadQty(inp) + ReadQty(wire) + ReadQty(out)

\* The places that open transactions have noted are those they were opened at
\* (or have moved to), in the order in which they were opened.
Noted(i) == scopes[i].start # NotActive
Marks ==
    /\ \A i \in 1..Len(scopes) : Noted(i) =>
         /\ scopes[i].start <= inp.read
         /\ inp.read - scopes[i].start = position - scopes[i].mark
    /\ \A i, j \in 1..Len(scopes) :
         i < j /\ Noted(i) /\ Noted(j) => scopes[i].start <= scopes[j].start

\* Only the outermost transaction has anything to restore, and it does unless
\* it was declared failed.
Commits ==
    /\ CommitComesBack
    /\ scopes # <<>> => inp.commit = 0
    /\ scopes # <<>> /\ ~broken => scopes[1].hasInp /\ scopes[1].prev = inp.grow \div 2
    /\ \A i \in 1..Len(scopes) :
         /\ scopes[i].prev \in {0, inp.grow \div 2}
         /\ i > 1 => scopes[i].prev = 0

IInv == Types /\ InPlace /\ Marks /\ Commits

LEMMA InitIInv == Init => IInv
<1> SUFFICES ASSUME Init PROVE IInv
    OBVIOUS
<1> DEFINE h == InpMax \div 2
           c == Lesser(h, StackChunk)
<1>1. /\ StackChunk \in Nat \ {0} /\ OutMax \in Nat \ {0} /\ WireChunk \in Nat \ {0}
      /\ WireMax \in Nat \ {0} /\ InpMax \in Nat \ {0} /\ MaxBytes \in Nat \ {0}
      /\ InpMax >= 2 /\ MaxScopes \in Nat
    BY PipeAssumption
<1>2. h \in Nat /\ 1 <= h /\ h <= InpMax
    BY <1>1
<1> HIDE DEF h
<1>3. c \in Nat /\ c >= 1 /\ c <= InpMax
    BY <1>1, <1>2 DEF Lesser
<1>4. Greater(c, 1) = c /\ Greater(InpMax, c) = InpMax
    BY <1>1, <1>3 DEF Greater
<1>5. inp = NewQueue(c, InpMax)
    BY DEF Init, h
<1> HIDE DEF c
<1>6. /\ Sound(inp) /\ inp.commit = inp.grow \div 2 /\ Holds(inp, 0) /\ ReadQty(inp) = 0
      /\ inp.max = InpMax
    BY <1>1, <1>3, <1>4, <1>5, NewQueueIsEmpty
<1>7. Sound(out) /\ Holds(out, 0) /\ ReadQty(out) = 0
    BY <1>1, NewQueueIsEmpty DEF Init
<1>8. Sound(wire) /\ Holds(wire, 0) /\ ReadQty(wire) = 0 /\ wire.commit = wire.grow \div 2
    BY <1>1, NewQueueIsEmpty DEF Init
<1>9. /\ want = 0 /\ accepted = 0 /\ position = 0 /\ scopes = <<>>
      /\ scopes \in Seq(Scopes) /\ Len(scopes) = 0 /\ broken \in BOOLEAN
    <2>1. broken = FALSE
        BY DEF Init
    <2>2. broken \in BOOLEAN
        BY <2>1, Zenon
    <2> QED BY <2>2 DEF Init
<1>10. Types
    <2>1. accepted + want <= MaxBytes
        BY <1>1, <1>9
    <2> QED BY <1>1, <1>6, <1>7, <1>8, <1>9, <2>1 DEF Types
<1>11. InPlace
    BY <1>6, <1>7, <1>8, <1>9 DEF InPlace
<1>12. Marks /\ Commits
    BY <1>6, <1>8, <1>9 DEF Marks, Commits, CommitComesBack
<1> QED BY <1>10, <1>11, <1>12 DEF IInv

-----------------------------------------------------------------------------
(* The steps of the writer. *)

\* What is known of the queues and numbers in every state.
LEMMA Known ==
    ASSUME IInv
    PROVE  /\ Sound(out) /\ Sound(wire) /\ Sound(inp)
           /\ Holds(inp, position) /\ Holds(wire, position + ReadQty(inp))
           /\ Holds(out, position + ReadQty(inp) + ReadQty(wire))
           /\ position \in Int /\ position \in Nat /\ accepted \in Nat /\ want \in Nat
           /\ ReadQty(inp) \in Nat /\ ReadQty(wire) \in Nat /\ ReadQty(out) \in Nat
           /\ position + ReadQty(inp) \in Int
           /\ position + ReadQty(inp) + ReadQty(wire) \in Int
           /\ accepted = position + ReadQty(inp) + ReadQty(wire) + ReadQty(out)
           /\ accepted + want <= MaxBytes /\ MaxBytes \in Nat /\ InpMax \in Nat
<1>1. want \in Nat /\ MaxBytes \in Nat /\ InpMax \in Nat
    <2>1. Sizes \subseteq 1..OutMax /\ OutMax \in Nat
        BY PipeAssumption
    <2> QED BY <2>1, PipeAssumption DEF IInv, Types
<1>2. ReadQty(inp) \in Nat /\ ReadQty(wire) \in Nat /\ ReadQty(out) \in Nat
    BY Fields DEF IInv, Types
<1> QED BY <1>1, <1>2 DEF IInv, Types, InPlace

\* A step of the writer leaves the reader's part alone.
LEMMA ReaderIsLeft ==
    ASSUME Marks, Commits, UNCHANGED <<inp, position, scopes, broken>>,
           wire'.commit = wire.commit, wire'.grow = wire.grow
    PROVE  Marks' /\ Commits'
BY DEF Marks, Noted, Commits, CommitComesBack

LEMMA FlushMoves ==
    ASSUME IInv, NEW q, Sound(q), Holds(q, position + ReadQty(inp) + ReadQty(wire)), Flush(q)
    PROVE  /\ Sound(wire') /\ Sound(out')
           /\ wire'.commit = wire.commit /\ wire'.grow = wire.grow
           /\ Holds(wire', position + ReadQty(inp))
           /\ Holds(out', position + ReadQty(inp) + ReadQty(wire'))
           /\ ReadQty(wire') + ReadQty(out') = ReadQty(wire) + ReadQty(q)
<1> DEFINE a == position + ReadQty(inp)
           n == WriteQty(wire, ReadQty(q), FALSE)
           s == SpanRead(q)
           i == q.read + n
           m == [q EXCEPT !.read = i]
<1>1. /\ Sound(wire) /\ Holds(wire, a) /\ a \in Int /\ ReadQty(wire) \in Nat
      /\ a + ReadQty(wire) \in Int
    BY Known
<1>2. /\ wire' = WriteSpanQ(wire, s, FALSE)
      /\ out' = IF n = 0 THEN q ELSE ReadCommitCheck(m)
    BY DEF Flush
<1>3. s \in Seq(Bytes) /\ Len(s) = ReadQty(q) /\ Numbered(s, a + ReadQty(wire))
    BY <1>1, Unread
<1>4. q.read \in Nat /\ Len(q.data) \in Nat /\ ReadQty(q) = Len(q.data) - q.read /\ ReadQty(q) \in Nat
    BY Fields
<1>5. n \in 0..ReadQty(q)
    BY <1>1, <1>4, WriteQtyFits
<1> HIDE DEF a, s
<1>6. /\ Sound(wire') /\ Alike(wire', wire) /\ wire'.commit = wire.commit
      /\ Holds(wire', a) /\ ReadQty(wire') = ReadQty(wire) + n
    BY <1>1, <1>2, <1>3, WriteSpanQAdds
<1> HIDE DEF n
<1>7. /\ i \in 0..Len(q.data) /\ (a + ReadQty(wire)) + i - q.read = a + ReadQty(wire) + n
      /\ Len(q.data) - i = ReadQty(q) - n /\ a + ReadQty(wire) + n \in Int
    <2>1. n \in Nat /\ n <= ReadQty(q)
        BY <1>4, <1>5
    <2>2. i \in 0..Len(q.data) /\ Len(q.data) - i = ReadQty(q) - n
        BY <1>4, <2>1
    <2>3. a + ReadQty(wire) + n \in Int
        BY <1>1, <2>1
    <2>4. (a + ReadQty(wire)) + i - q.read = a + ReadQty(wire) + n
        BY <1>1, <1>4, <2>1
    <2> QED BY <2>2, <2>3, <2>4
<1>8. Holds(q, a + ReadQty(wire))
    BY DEF a
<1> HIDE DEF i
<1>9. Sound(m) /\ Holds(m, a + ReadQty(wire) + n) /\ ReadQty(m) = ReadQty(q) - n
    BY <1>1, <1>7, <1>8, ReadMoved
<1> HIDE DEF m
<1>10. Sound(out') /\ Holds(out', a + ReadQty(wire) + n) /\ ReadQty(out') = ReadQty(q) - n
    <2>1. CASE n = 0
        <3>1. out' = q /\ a + ReadQty(wire) + n = a + ReadQty(wire) /\ ReadQty(q) - n = ReadQty(q)
            BY <1>1, <1>2, <1>4, <2>1
        <3> QED BY <1>8, <3>1
    <2>2. CASE n # 0
        <3>1. out' = ReadCommitCheck(m)
            BY <1>2, <2>2
        <3> QED BY <1>7, <1>9, <3>1, ReadCommitCheckKeeps
    <2> QED BY <2>1, <2>2
<1>11. a + ReadQty(wire') = a + ReadQty(wire) + n
    BY <1>1, <1>5, <1>6
<1>12. ReadQty(wire') + ReadQty(out') = ReadQty(wire) + ReadQty(q)
    BY <1>1, <1>4, <1>5, <1>6, <1>10
<1> QED BY <1>6, <1>10, <1>11, <1>12 DEF a, Alike

LEMMA StepOffer ==
    ASSUME IInv, NEW n \in Sizes, Offer(n)
    PROVE  IInv'
<1>1. n \in Nat
    BY PipeAssumption
<1>2. UNCHANGED <<out, wire, inp, accepted, position, scopes, broken>> /\ want' = n
      /\ accepted + n <= MaxBytes
    BY DEF Offer
<1>3. Types'
    BY <1>1, <1>2 DEF IInv, Types
<1>4. InPlace' /\ Marks' /\ Commits'
    BY <1>2, ReaderIsLeft DEF IInv, InPlace
<1> QED BY <1>3, <1>4 DEF IInv

\* The numbers of the next bytes.
LEMMA NextBytesNumbered ==
    ASSUME IInv
    PROVE  /\ NextBytes(want) \in Seq(Bytes) /\ Len(NextBytes(want)) = want
           /\ Numbered(NextBytes(want), accepted)
<1>1. accepted \in Nat /\ want \in Nat /\ accepted + want <= MaxBytes /\ MaxBytes \in Nat
    BY Known
<1>2. \A i \in 1..want : accepted + i \in Bytes
    BY <1>1 DEF Bytes
<1> QED BY <1>1, <1>2 DEF NextBytes, Numbered

\* The packet's bytes are put behind what is in out already.
LEMMA PacketIsPut ==
    ASSUME IInv
    PROVE  LET p == WriteSpanQ(out, NextBytes(want), TRUE)
           IN  /\ Sound(p) /\ Holds(p, position + ReadQty(inp) + ReadQty(wire))
               /\ ReadQty(p) = ReadQty(out) + WriteQty(out, want, TRUE)
               /\ WriteQty(out, want, TRUE) \in {0, want}
<1> DEFINE a == position + ReadQty(inp) + ReadQty(wire)
<1>1. /\ Sound(out) /\ Holds(out, a) /\ a \in Int /\ want \in Nat /\ accepted = a + ReadQty(out)
    BY Known
<1> HIDE DEF a
<1>2. /\ NextBytes(want) \in Seq(Bytes) /\ Len(NextBytes(want)) = want
      /\ Numbered(NextBytes(want), a + ReadQty(out))
    BY <1>1, NextBytesNumbered
<1>3. WriteQty(out, want, TRUE) \in {0, want}
    BY <1>1, WriteQtyFits
<1> QED BY <1>1, <1>2, <1>3, WriteSpanQAdds DEF a

LEMMA StepWriteX ==
    ASSUME IInv, WriteX
    PROVE  IInv'
<1> DEFINE p == WriteSpanQ(out, NextBytes(want), TRUE)
<1>1. /\ WriteQty(out, want, TRUE) = want /\ Flush(p) /\ want' = 0 /\ accepted' = accepted + want
      /\ UNCHANGED <<inp, position, scopes, broken>>
    BY DEF WriteX
<1>2. Sound(p) /\ Holds(p, position + ReadQty(inp) + ReadQty(wire)) /\ ReadQty(p) = ReadQty(out) + want
    BY <1>1, PacketIsPut
<1> HIDE DEF p
<1>3. /\ Sound(wire') /\ Sound(out')
      /\ wire'.commit = wire.commit /\ wire'.grow = wire.grow
      /\ Holds(wire', position + ReadQty(inp))
      /\ Holds(out', position + ReadQty(inp) + ReadQty(wire'))
      /\ ReadQty(wire') + ReadQty(out') = ReadQty(wire) + ReadQty(p)
    BY <1>1, <1>2, FlushMoves
<1>4. ReadQty(wire') \in Nat /\ ReadQty(out') \in Nat
    BY <1>3, Fields
<1>5. accepted' \in Nat /\ accepted' + want' <= MaxBytes
    BY <1>1, Known
<1>6. Types'
    BY <1>1, <1>3, <1>5 DEF IInv, Types
<1>7. accepted' = position + ReadQty(inp) + ReadQty(wire') + ReadQty(out')
    BY <1>1, <1>2, <1>3, <1>4, Known
<1>8. InPlace'
    BY <1>1, <1>3, <1>7 DEF IInv, InPlace
<1>9. Marks' /\ Commits'
    BY <1>1, <1>3, ReaderIsLeft DEF IInv
<1> QED BY <1>6, <1>8, <1>9 DEF IInv

LEMMA StepWouldBlock ==
    ASSUME IInv, WouldBlock
    PROVE  IInv'
<1> DEFINE n == WriteQty(out, want, TRUE)
           p == WriteSpanQ(out, NextBytes(want), TRUE)
<1>1. /\ n < want /\ out' = p
      /\ UNCHANGED <<wire, inp, want, accepted, position, scopes, broken>>
    BY DEF WouldBlock
<1>2. want \in Nat /\ ReadQty(out) \in Nat
    BY Known
<1>3. /\ Sound(p) /\ Holds(p, position + ReadQty(inp) + ReadQty(wire))
      /\ ReadQty(p) = ReadQty(out) + n /\ n \in {0, want}
    BY PacketIsPut
<1> HIDE DEF n, p
<1>4. /\ Sound(out') /\ Holds(out', position + ReadQty(inp) + ReadQty(wire))
      /\ ReadQty(out') = ReadQty(out)
    BY <1>1, <1>2, <1>3
<1>5. Types' /\ InPlace'
    BY <1>1, <1>4 DEF IInv, Types, InPlace
<1>6. Marks' /\ Commits'
    BY <1>1, ReaderIsLeft DEF IInv
<1> QED BY <1>5, <1>6 DEF IInv

LEMMA StepWriteNothing ==
    ASSUME IInv, WriteNothing
    PROVE  IInv'
<1>1. Flush(out) /\ UNCHANGED <<inp, want, accepted, position, scopes, broken>>
    BY DEF WriteNothing
<1>2. /\ Sound(wire') /\ Sound(out')
      /\ wire'.commit = wire.commit /\ wire'.grow = wire.grow
      /\ Holds(wire', position + ReadQty(inp))
      /\ Holds(out', position + ReadQty(inp) + ReadQty(wire'))
      /\ ReadQty(wire') + ReadQty(out') = ReadQty(wire) + ReadQty(out)
    BY <1>1, Known, FlushMoves
<1>3. ReadQty(wire') \in Nat /\ ReadQty(out') \in Nat
    BY <1>2, Fields
<1>4. accepted = position + ReadQty(inp) + ReadQty(wire') + ReadQty(out')
    BY <1>2, <1>3, Known
<1>5. Types' /\ InPlace'
    BY <1>1, <1>2, <1>4 DEF IInv, Types, InPlace
<1>6. Marks' /\ Commits'
    BY <1>1, <1>2, ReaderIsLeft DEF IInv
<1> QED BY <1>5, <1>6 DEF IInv

-----------------------------------------------------------------------------
(* The steps of the reader's stack. *)

LEMMA OverIsPart ==
    ASSUME NEW n \in Nat
    PROVE  Over(n) \in 0..n
<1> DEFINE d == n \div Block
           e == n % Block
<1>1. Block \in Nat /\ Block >= 1
    BY PipeAssumption
<1>2. d \in Nat /\ e \in Nat /\ n = (Block * d) + e
    BY <1>1
<1> HIDE DEF d, e
<1>3. Block * d \in Nat
    BY <1>1, <1>2
<1>4. e <= n
    BY <1>2, <1>3
<1> QED BY <1>2, <1>4 DEF Over, e

\* A step that changes the reader's queue at its end only.
LEMMA MarksAreLeft ==
    ASSUME Marks, Commits, UNCHANGED <<position, scopes, broken>>,
           inp'.read = inp.read, inp'.commit = inp.commit, inp'.grow = inp.grow,
           wire'.commit = wire.commit, wire'.grow = wire.grow
    PROVE  Marks' /\ Commits'
BY DEF Marks, Noted, Commits, CommitComesBack

LEMMA StepReadFillAligned ==
    ASSUME IInv, ReadFillAligned
    PROVE  IInv'
<1> DEFINE g == GetWritePrep(inp, inp.grow)
           t == AutoReadCommit(wire, 0)
           room == WriteSpaceQty(g) - Over(WriteSpaceQty(g))
           qty == Lesser(room, ReadQty(t))
           done == ReadSpanQ(t, qty)
           i == done.read - PutBack(qty)
           backed == SeekQ(done, i)
           part == SubSeq(SpanRead(t), 1, Kept(qty))
           k == Kept(qty)
           a == position + ReadQty(inp)
<1>1. /\ inp' = AdvanceWrite(g, part)
      /\ wire' = IF room = 0 THEN wire ELSE AutoReadCommit(backed, wire.commit)
      /\ UNCHANGED <<out, want, accepted, position, scopes, broken>>
    BY DEF ReadFillAligned
<1>2. /\ Sound(inp) /\ Sound(wire) /\ Holds(inp, position) /\ Holds(wire, a)
      /\ position \in Int /\ ReadQty(inp) \in Nat /\ ReadQty(wire) \in Nat /\ a \in Int
      /\ inp.grow \in Nat
    BY Known, Fields
<1>3. /\ Sound(g) /\ Alike(g, inp) /\ g.commit = inp.commit /\ g.read = inp.read
      /\ Holds(g, position) /\ ReadQty(g) = ReadQty(inp)
    BY <1>2, GetWritePrepGrows
<1>4. /\ Sound(t) /\ Alike(t, wire) /\ t.commit = 0 /\ Holds(t, a)
      /\ ReadQty(t) = ReadQty(wire)
    BY <1>2, AutoReadCommitKeeps
<1>5. WriteSpaceQty(g) \in Nat
    BY <1>3, Fields
<1>6. room \in Nat /\ room <= WriteSpaceQty(g)
    BY <1>5, OverIsPart
<1>7. wire.commit = wire.grow \div 2
    BY DEF IInv, Commits, CommitComesBack
<1> HIDE DEF g, t, a
<1> HIDE DEF room
<1>8. qty \in Nat /\ qty <= room /\ qty <= ReadQty(t) /\ Lesser(qty, ReadQty(t)) = qty
    BY <1>2, <1>4, <1>6 DEF Lesser
<1>9. room = 0 => qty = 0
    BY <1>6, <1>8
<1> HIDE DEF qty
<1>10. Over(qty) \in Nat /\ Over(qty) <= qty
    BY <1>8, OverIsPart
<1>11. k \in Nat /\ k = qty - Over(qty) /\ k <= qty
    BY <1>8, <1>10 DEF Kept
<1>12. t.read \in Nat /\ Len(t.data) \in Nat /\ ReadQty(t) = Len(t.data) - t.read
    BY <1>4, Fields
<1>13. /\ Sound(done) /\ Alike(done, t) /\ done.commit = 0
       /\ Holds(done, a + qty) /\ done.data = t.data /\ done.read = t.read + qty
    <2>1. Sound(t) /\ Holds(t, a) /\ a \in Int /\ qty \in Nat
        BY <1>2, <1>4, <1>8
    <2>2. /\ Sound(done) /\ Alike(done, t) /\ done.commit = t.commit
          /\ Holds(done, a + Lesser(qty, ReadQty(t)))
          /\ t.commit = 0 =>
               done.data = t.data /\ done.read = t.read + Lesser(qty, ReadQty(t))
        BY <2>1, ReadSpanQMoves
    <2> HIDE DEF done
    <2> QED BY <1>4, <1>8, <2>2
<1> HIDE DEF done
<1>14. /\ i = t.read + k /\ i \in 0..Len(done.data)
       /\ a + qty + i - done.read = a + k /\ Len(done.data) - i = ReadQty(t) - k
       /\ a + qty \in Int /\ a + k \in Int
    <2>1. i = t.read + k
        BY <1>8, <1>10, <1>11, <1>12, <1>13 DEF PutBack
    <2>2. i \in 0..Len(done.data) /\ Len(done.data) - i = ReadQty(t) - k
        BY <1>8, <1>11, <1>12, <1>13, <2>1
    <2>3. a + qty + i - done.read = a + k
        BY <1>2, <1>8, <1>11, <1>12, <1>13, <2>1
    <2>4. a + qty \in Int /\ a + k \in Int
        BY <1>2, <1>8, <1>11
    <2> QED BY <2>1, <2>2, <2>3, <2>4
<1> HIDE DEF i
<1>15. /\ Sound(backed) /\ Alike(backed, done) /\ backed.commit = 0
       /\ Holds(backed, a + k) /\ ReadQty(backed) = ReadQty(t) - k
    BY <1>13, <1>14, SeekQMoves
<1> HIDE DEF backed
<1>16. /\ Sound(wire') /\ wire'.commit = wire.commit /\ wire'.grow = wire.grow
       /\ Holds(wire', a + k) /\ ReadQty(wire') = ReadQty(wire) - k
    <2>1. CASE room = 0
        <3>1. k = 0 /\ wire' = wire
            BY <1>1, <1>9, <1>10, <1>11, <2>1
        <3>2. a + k = a /\ ReadQty(wire) - k = ReadQty(wire)
            BY <1>2, <3>1
        <3> QED BY <1>2, <3>1, <3>2
    <2>2. CASE room # 0
        <3>1. wire' = AutoReadCommit(backed, wire.commit)
            BY <1>1, <2>2
        <3>2. wire.commit \in {0, backed.grow \div 2} /\ backed.grow = wire.grow
            BY <1>4, <1>7, <1>13, <1>15 DEF Alike
        <3> QED BY <1>4, <1>14, <1>15, <3>1, <3>2, AutoReadCommitKeeps DEF Alike
    <2> QED BY <2>1, <2>2
<1>17. SpanRead(t) \in Seq(Bytes) /\ Len(SpanRead(t)) = ReadQty(t) /\ Numbered(SpanRead(t), a)
    BY <1>2, <1>4, Unread
<1>18. k \in 0..ReadQty(t)
    BY <1>2, <1>4, <1>8, <1>11
<1>19. part = SubSeq(SpanRead(t), 1, k)
    OBVIOUS
<1> HIDE DEF k, part
<1>20. part \in Seq(Bytes) /\ Len(part) = k /\ Numbered(part, a)
    BY <1>2, <1>17, <1>18, <1>19, NumberedPart
<1>21. Len(part) <= WriteSpaceQty(g) /\ a = position + ReadQty(g)
    BY <1>3, <1>5, <1>6, <1>8, <1>11, <1>20 DEF a
<1>22. /\ Sound(inp') /\ Alike(inp', g) /\ inp'.commit = inp.commit /\ inp'.read = inp.read
       /\ Holds(inp', position) /\ ReadQty(inp') = ReadQty(inp) + k
    BY <1>1, <1>2, <1>3, <1>20, <1>21, AdvanceWriteAdds
<1>23. inp'.max = inp.max /\ inp'.grow = inp.grow
    BY <1>3, <1>22 DEF Alike
<1>24. /\ position + ReadQty(inp') = a + k
       /\ position + ReadQty(inp') + ReadQty(wire') = position + ReadQty(inp) + ReadQty(wire)
    BY <1>2, <1>11, <1>16, <1>22 DEF a
<1>25. Types' /\ InPlace'
    BY <1>1, <1>16, <1>22, <1>23, <1>24 DEF IInv, Types, InPlace
<1>26. Marks' /\ Commits'
    BY <1>1, <1>16, <1>22, <1>23, MarksAreLeft DEF IInv
<1> QED BY <1>25, <1>26 DEF IInv

-----------------------------------------------------------------------------
(* The steps of the reader. *)

\* Where the reader's queue stands against what is noted.
LEMMA Reach ==
    ASSUME IInv
    PROVE  /\ inp.read \in Nat /\ inp.read <= Len(inp.data) /\ Len(inp.data) \in Nat
           /\ Len(inp.data) <= InpMax /\ inp.read \in 0..InpMax
           /\ inp.commit \in 0..InpMax /\ inp.commit \in {0, inp.grow \div 2}
           /\ inp.grow \div 2 \in 0..InpMax
           /\ position \in 0..MaxBytes /\ position <= accepted
           /\ Len(scopes) \in Nat /\ \A i \in 1..Len(scopes) : scopes[i] \in Scopes
<1>1. /\ inp.read \in Nat /\ inp.read <= Len(inp.data) /\ Len(inp.data) \in Nat
      /\ Len(inp.data) <= inp.alloc /\ inp.alloc <= inp.max /\ inp.alloc \in Nat
      /\ inp.grow \in Nat /\ inp.grow <= inp.max /\ inp.commit \in {0, inp.grow \div 2}
    BY Fields DEF IInv, Types
<1>2. inp.max = InpMax /\ InpMax \in Nat
    BY Known DEF IInv, Types
<1>3. inp.grow \div 2 \in 0..InpMax
    BY <1>1, <1>2, HalfIsLess
<1>4. inp.commit \in 0..InpMax /\ inp.read \in 0..InpMax /\ Len(inp.data) <= InpMax
    BY <1>1, <1>2, <1>3
<1>5. position <= accepted /\ position \in 0..MaxBytes
    BY Known
<1>6. Len(scopes) \in Nat /\ \A i \in 1..Len(scopes) : scopes[i] \in Scopes
    BY DEF IInv, Types
<1> QED BY <1>1, <1>3, <1>4, <1>5, <1>6

\* A step of the reader that takes n bytes, or goes back, within its queue.
LEMMA ReaderMoved ==
    ASSUME IInv, NEW p \in Nat, position' = p,
           Sound(inp'), Alike(inp', inp), Holds(inp', p),
           p + ReadQty(inp') = position + ReadQty(inp),
           scopes' \in Seq(Scopes), Len(scopes') <= MaxScopes, broken' \in BOOLEAN,
           UNCHANGED <<out, wire, want, accepted>>
    PROVE  Types' /\ InPlace'
<1>1. inp'.max = InpMax
    BY DEF Alike, IInv, Types
<1>2. Types'
    BY <1>1 DEF IInv, Types
<1>3. InPlace'
    BY DEF IInv, InPlace
<1> QED BY <1>2, <1>3

LEMMA ScopeFields ==
    ASSUME NEW s \in Scopes
    PROVE  /\ s.start \in Int /\ s.mark \in Nat /\ s.mark <= MaxBytes
           /\ s.start # NotActive => s.start \in 0..InpMax /\ s.start \in Nat
<1>1. MaxBytes \in Nat /\ InpMax \in Nat
    BY PipeAssumption
<1>2. s.start \in {NotActive} \cup 0..InpMax /\ s.mark \in 0..MaxBytes
    BY DEF Scopes
<1> QED BY <1>1, <1>2 DEF NotActive

\* A place r is as far behind s as p is behind m.
LEMMA Shifted ==
    ASSUME NEW r \in Nat, NEW s \in Int, NEW p \in Nat, NEW m \in Nat, NEW n \in Nat,
           s <= r, r - s = p - m
    PROVE  /\ s <= r + n /\ (r + n) - s = (p + n) - m
           /\ s + n <= r => m + n <= p
OBVIOUS

LEMMA StepReadX ==
    ASSUME IInv, NEW n \in ReadSizes, ReadX(n)
    PROVE  IInv'
<1> DEFINE c == Lesser(n, ReadQty(inp))
           p == position + c
           q == ReadSpanQ(inp, n)
<1>1. n \in Nat
    BY PipeAssumption
<1>2. /\ inp' = q /\ position' = p
      /\ UNCHANGED <<out, wire, want, accepted, scopes, broken>>
    BY DEF ReadX
<1>3. Sound(inp) /\ Holds(inp, position) /\ position \in Nat /\ ReadQty(inp) \in Nat
    BY Known
<1> HIDE DEF q
<1>4. /\ c \in Nat /\ c <= ReadQty(inp)
      /\ Sound(inp') /\ Alike(inp', inp) /\ inp'.commit = inp.commit
      /\ Holds(inp', p) /\ ReadQty(inp') = ReadQty(inp) - c
      /\ inp.commit = 0 => inp'.read = inp.read + c
    <2>1. /\ c \in Nat /\ c <= ReadQty(inp)
          /\ Sound(q) /\ Alike(q, inp) /\ q.commit = inp.commit
          /\ Holds(q, p) /\ ReadQty(q) = ReadQty(inp) - c
          /\ inp.commit = 0 => q.read = inp.read + c
        BY <1>1, <1>3, ReadSpanQMoves DEF q
    <2> QED BY <1>2, <2>1
<1> HIDE DEF c
<1>5. p \in Nat /\ p + ReadQty(inp') = position + ReadQty(inp)
    BY <1>3, <1>4
<1>6. /\ scopes' = scopes /\ scopes \in Seq(Scopes) /\ Len(scopes) <= MaxScopes
      /\ broken' = broken /\ broken \in BOOLEAN
    BY <1>2 DEF IInv, Types
<1>7. Types' /\ InPlace'
    BY <1>2, <1>4, <1>5, <1>6, ReaderMoved
<1>8. Commits'
    BY <1>2, <1>4 DEF IInv, Commits, CommitComesBack, Alike
<1>9. ASSUME NEW i \in 1..Len(scopes), Noted(i)
      PROVE  /\ scopes[i].start <= inp'.read
             /\ inp'.read - scopes[i].start = p - scopes[i].mark
    <2>1. scopes # <<>> /\ scopes[i] \in Scopes
        BY <1>6
    <2>2. inp'.read = inp.read + c
        BY <1>4, <2>1 DEF IInv, Commits
    <2>3. scopes[i].start \in Int /\ scopes[i].mark \in Nat
        BY <2>1, ScopeFields
    <2>5. scopes[i].start <= inp.read /\ inp.read - scopes[i].start = position - scopes[i].mark
        BY <1>9 DEF IInv, Marks
    <2>4. inp.read \in Nat /\ position \in Nat /\ c \in Nat
        BY <1>3, <1>4, Reach
    <2>6. PICK x \in Nat, y \in Int, z \in Nat, m \in Nat :
             x = inp.read /\ y = scopes[i].start /\ z = position /\ m = scopes[i].mark
        BY <2>3, <2>4
    <2>7. y <= x /\ x - y = z - m
        BY <2>5, <2>6
    <2>8. y <= x + c /\ (x + c) - y = (z + c) - m
        BY <2>4, <2>7, Shifted
    <2> QED BY <2>2, <2>6, <2>8
<1>10. Marks'
    BY <1>2, <1>6, <1>9 DEF IInv, Marks, Noted
<1> QED BY <1>7, <1>8, <1>10 DEF IInv

LEMMA StepBegin ==
    ASSUME IInv, Begin
    PROVE  IInv'
<1> DEFINE s == [start |-> inp.read, prev |-> inp.commit, hasInp |-> TRUE, mark |-> position]
           L == Len(scopes)
<1>1. /\ L < MaxScopes /\ scopes' = Append(scopes, s) /\ inp' = AutoReadCommit(inp, 0)
      /\ UNCHANGED <<out, wire, want, accepted, position, broken>>
    BY DEF Begin, Open
<1>2. Sound(inp) /\ Holds(inp, position) /\ position \in Nat
    BY Known
<1>3. /\ Sound(inp') /\ Alike(inp', inp) /\ inp'.commit = 0
      /\ Holds(inp', position) /\ ReadQty(inp') = ReadQty(inp) /\ inp'.read = inp.read
    BY <1>1, <1>2, AutoReadCommitKeeps
<1>4. s \in Scopes
    BY Reach DEF Scopes
<1>5. s.start = inp.read /\ s.prev = inp.commit /\ s.hasInp /\ s.mark = position
    OBVIOUS
<1>6. L \in Nat /\ scopes \in Seq(Scopes) /\ MaxScopes \in Nat
    BY PipeAssumption DEF IInv, Types
<1> HIDE DEF s, L
<1>7. /\ scopes' \in Seq(Scopes) /\ Len(scopes') = L + 1 /\ scopes'[L + 1] = s
      /\ \A i \in 1..L : scopes'[i] = scopes[i]
    BY <1>1, <1>4, <1>6 DEF L
<1>8. Types' /\ InPlace'
    <2>1. Len(scopes') <= MaxScopes
        BY <1>1, <1>6, <1>7
    <2>2. broken' \in BOOLEAN
        BY <1>1 DEF IInv, Types
    <2> QED BY <1>1, <1>2, <1>3, <1>7, <2>1, <2>2, ReaderMoved
<1>9. ASSUME NEW i \in 1..(L + 1), scopes'[i].start # NotActive
      PROVE  /\ scopes'[i].start <= inp.read
             /\ inp.read - scopes'[i].start = position - scopes'[i].mark
    <2>1. CASE i = L + 1
        BY <1>2, <1>5, <1>7, <2>1, Reach
    <2>2. CASE i # L + 1
        <3>1. i \in 1..L
            BY <1>6, <2>2
        <3>2. scopes[i].start # NotActive /\ scopes'[i] = scopes[i]
            BY <1>7, <1>9, <3>1
        <3> QED BY <3>1, <3>2 DEF IInv, Marks, Noted, L
    <2> QED BY <2>1, <2>2
<1>10. ASSUME NEW i \in 1..(L + 1), NEW j \in 1..(L + 1), i < j,
              scopes'[i].start # NotActive, scopes'[j].start # NotActive
       PROVE  scopes'[i].start <= scopes'[j].start
    <2>1. i \in 1..L
        BY <1>6, <1>10
    <2>2. CASE j = L + 1
        BY <1>5, <1>7, <1>9, <1>10, <2>2
    <2>3. CASE j # L + 1
        <3>1. j \in 1..L
            BY <1>6, <2>3
        <3>2. scopes'[i] = scopes[i] /\ scopes'[j] = scopes[j]
            BY <1>7, <2>1, <3>1
        <3> QED BY <1>10, <2>1, <3>1, <3>2 DEF IInv, Marks, Noted, L
    <2> QED BY <2>2, <2>3
<1>11. Marks'
    BY <1>1, <1>3, <1>7, <1>9, <1>10 DEF Marks, Noted
<1>12. CommitComesBack' /\ (scopes' # <<>> => inp'.commit = 0)
    <2>1. scopes' # <<>>
        BY <1>6, <1>7
    <2> QED BY <1>1, <1>3, <2>1 DEF CommitComesBack, IInv, Commits
<1>13. scopes' # <<>> /\ ~broken' => scopes'[1].hasInp /\ scopes'[1].prev = inp'.grow \div 2
    <2>1. CASE L = 0
        <3>1. scopes = <<>> /\ scopes'[1] = s
            BY <1>6, <1>7, <2>1 DEF L
        <3> QED BY <1>1, <1>3, <1>5, <3>1 DEF IInv, Commits, CommitComesBack, Alike
    <2>2. CASE L # 0
        <3>1. scopes # <<>> /\ scopes'[1] = scopes[1]
            BY <1>6, <1>7, <2>2 DEF L
        <3> QED BY <1>1, <1>3, <3>1 DEF IInv, Commits, Alike
    <2> QED BY <2>1, <2>2
<1>14. ASSUME NEW i \in 1..(L + 1)
       PROVE  /\ scopes'[i].prev \in {0, inp'.grow \div 2}
              /\ i > 1 => scopes'[i].prev = 0
    <2>1. CASE i = L + 1
        <3>1. scopes'[i].prev = inp.commit
            BY <1>5, <1>7, <2>1
        <3>2. i > 1 => scopes # <<>>
            BY <1>6, <2>1 DEF L
        <3> QED BY <1>3, <3>1, <3>2, Reach DEF IInv, Commits, Alike
    <2>2. CASE i # L + 1
        <3>1. i \in 1..L /\ scopes'[i] = scopes[i]
            BY <1>6, <1>7, <2>2
        <3> QED BY <1>3, <3>1 DEF IInv, Commits, Alike, L
    <2> QED BY <2>1, <2>2
<1>15. Commits'
    BY <1>7, <1>12, <1>13, <1>14 DEF Commits
<1> QED BY <1>8, <1>11, <1>15 DEF IInv

\* A step that changes the innermost transaction only.
LEMMA InnermostChanges ==
    ASSUME IInv, scopes # <<>>, NEW s \in Scopes, SetInnermost(s),
           s.prev = Innermost.prev, broken' \in BOOLEAN,
           s.start = NotActive
             \/ (/\ Innermost.start # NotActive /\ Innermost.start <= s.start
                 /\ s.start <= inp.read /\ inp.read - s.start = position - s.mark),
           broken \/ broken' = (Len(scopes) = 1 /\ ~s.hasInp),
           broken => broken',
           UNCHANGED <<out, wire, inp, want, accepted, position>>
    PROVE  IInv'
<1> DEFINE L == Len(scopes)
<1>1. /\ L \in Nat /\ L >= 1 /\ scopes \in Seq(Scopes) /\ L <= MaxScopes
      /\ \A i \in 1..L : scopes[i] \in Scopes
    BY DEF IInv, Types
<1>2. /\ scopes' \in Seq(Scopes) /\ Len(scopes') = L /\ scopes'[L] = s
      /\ \A i \in 1..L : i # L => scopes'[i] = scopes[i]
    BY <1>1, ExceptSeq DEF SetInnermost
<1>3. Innermost = scopes[L]
    BY DEF Innermost
<1> HIDE DEF L
<1>4. Types' /\ InPlace'
    BY <1>1, <1>2 DEF IInv, Types, InPlace
<1>5. ASSUME NEW i \in 1..L, scopes'[i].start # NotActive
      PROVE  /\ scopes'[i].start <= inp.read
             /\ inp.read - scopes'[i].start = position - scopes'[i].mark
             /\ scopes[i].start # NotActive /\ scopes[i].start <= scopes'[i].start
    <2>1. CASE i = L
        BY <1>2, <1>3, <1>5, <2>1
    <2>2. CASE i # L
        <3>1. scopes'[i] = scopes[i] /\ scopes[i] \in Scopes
            BY <1>1, <1>2, <2>2
        <3>2. scopes[i].start <= scopes[i].start
            BY <3>1, ScopeFields
        <3> QED BY <1>5, <3>1, <3>2 DEF IInv, Marks, Noted, L
    <2> QED BY <2>1, <2>2
<1>6. ASSUME NEW i \in 1..L, NEW j \in 1..L, i < j,
             scopes'[i].start # NotActive, scopes'[j].start # NotActive
      PROVE  scopes'[i].start <= scopes'[j].start
    <2>1. i # L /\ scopes'[i] = scopes[i]
        BY <1>1, <1>2, <1>6
    <2>2. scopes[j].start # NotActive /\ scopes[j].start <= scopes'[j].start
        BY <1>5, <1>6
    <2>3. scopes[i].start <= scopes[j].start
        BY <1>6, <2>1, <2>2 DEF IInv, Marks, Noted, L
    <2>4. /\ scopes[i].start \in Int /\ scopes[j].start \in Int /\ scopes'[j].start \in Int
        BY <1>1, <1>2, ScopeFields
    <2> QED BY <2>1, <2>2, <2>3, <2>4
<1>7. Marks'
    BY <1>2, <1>5, <1>6 DEF Marks, Noted
<1>8. /\ scopes' # <<>> /\ inp.commit = 0
      /\ \A i \in 1..L : scopes'[i].prev = scopes[i].prev
    BY <1>1, <1>2, <1>3 DEF IInv, Commits
<1>9. ~broken' => scopes'[1].hasInp
    <2>1. CASE L = 1
        BY <1>2, <2>1 DEF L
    <2>2. CASE L # 1
        <3>1. scopes'[1] = scopes[1]
            BY <1>1, <1>2, <2>2
        <3> QED BY <3>1 DEF IInv, Commits
    <2> QED BY <2>1, <2>2
<1>10. Commits'
    BY <1>1, <1>2, <1>8, <1>9 DEF IInv, Commits, CommitComesBack, L
<1> QED BY <1>4, <1>7, <1>10 DEF IInv

LEMMA StepSetTransactionComplete ==
    ASSUME IInv, SetTransactionComplete
    PROVE  IInv'
<1> DEFINE s == [Innermost EXCEPT !.start = NotActive]
<1>1. /\ scopes # <<>> /\ SetInnermost(s)
      /\ UNCHANGED <<out, wire, inp, want, accepted, position, broken>>
    BY DEF SetTransactionComplete
<1>2. Innermost \in Scopes
    BY <1>1 DEF IInv, Types, Innermost
<1>3. s \in Scopes /\ s.prev = Innermost.prev /\ s.start = NotActive /\ s.hasInp = Innermost.hasInp
    BY <1>2 DEF Scopes
<1>4. Len(scopes) = 1 /\ ~broken => Innermost.hasInp
    BY <1>1 DEF IInv, Commits, Innermost
<1> HIDE DEF s
<1>5. broken' \in BOOLEAN /\ (broken => broken')
    BY <1>1 DEF IInv, Types
<1>6. broken \/ broken' = (Len(scopes) = 1 /\ ~s.hasInp)
    BY <1>1, <1>3, <1>4, <1>5
<1> QED BY <1>1, <1>3, <1>5, <1>6, InnermostChanges

LEMMA StepSetTransactionPartial ==
    ASSUME IInv, NEW n \in ReadSizes, SetTransactionPartial(n)
    PROVE  IInv'
<1> DEFINE r == Innermost
           s == [r EXCEPT !.start = @ + n, !.mark = @ + n]
<1>1. /\ scopes # <<>> /\ r.start # NotActive /\ r.start + n <= inp.read /\ SetInnermost(s)
      /\ UNCHANGED <<out, wire, inp, want, accepted, position, broken>>
    BY DEF SetTransactionPartial
<1>2. n \in Nat /\ MaxBytes \in Nat /\ InpMax \in Nat
    BY PipeAssumption
<1>3. r \in Scopes
    BY <1>1 DEF IInv, Types, Innermost
<1>4. inp.read - r.start = position - r.mark
    BY <1>1 DEF IInv, Marks, Noted, Innermost, Types
<1>5. r.start \in 0..InpMax /\ r.mark \in Nat
    BY <1>1, <1>3, ScopeFields
<1>6. inp.read \in Nat /\ inp.read <= InpMax /\ position \in Nat /\ position <= MaxBytes
    BY <1>2, Reach
<1>7. r.start + n \in 0..InpMax /\ r.mark + n \in 0..MaxBytes
    <2>1. PICK x \in Nat, y \in Nat, z \in Nat, m \in Nat :
             x = inp.read /\ y = r.start /\ z = position /\ m = r.mark
        BY <1>2, <1>5, <1>6
    <2>2. y <= x /\ x - y = z - m /\ y + n <= x
        BY <1>1, <1>2, <1>4, <2>1
    <2>3. m + n <= z
        BY <1>2, <2>2, Shifted
    <2> QED BY <1>2, <1>6, <2>1, <2>2, <2>3
<1>8. Len(scopes) = 1 /\ ~broken => r.hasInp
    BY <1>1 DEF IInv, Commits, Innermost
<1> HIDE DEF r
<1>9. /\ s \in Scopes /\ s.prev = r.prev /\ s.start = r.start + n /\ s.mark = r.mark + n
      /\ s.hasInp = r.hasInp
    BY <1>3, <1>7 DEF Scopes
<1> HIDE DEF s
<1>10. r.start <= s.start /\ s.start <= inp.read /\ inp.read - s.start = position - s.mark
    BY <1>1, <1>2, <1>4, <1>5, <1>6, <1>9, SMTT(20)
<1>11. broken' \in BOOLEAN /\ (broken => broken')
    BY <1>1 DEF IInv, Types
<1>12. broken \/ broken' = (Len(scopes) = 1 /\ ~s.hasInp)
    BY <1>1, <1>8, <1>9, <1>11
<1> QED BY <1>1, <1>9, <1>10, <1>11, <1>12, InnermostChanges DEF r

LEMMA StepSetTransactionFailed ==
    ASSUME IInv, SetTransactionFailed
    PROVE  IInv'
<1> DEFINE r == Innermost
           s == [r EXCEPT !.hasInp = FALSE]
<1>1. /\ scopes # <<>> /\ SetInnermost(s) /\ broken' = (broken \/ Len(scopes) = 1)
      /\ UNCHANGED <<out, wire, inp, want, accepted, position>>
    BY DEF SetTransactionFailed
<1>2. r \in Scopes
    BY <1>1 DEF IInv, Types, Innermost
<1>3. r.start # NotActive =>
        /\ r.start <= inp.read /\ inp.read - r.start = position - r.mark /\ r.start <= r.start
    BY <1>1, <1>2, ScopeFields DEF IInv, Marks, Noted, Innermost, Types
<1> HIDE DEF r
<1>4. /\ s \in Scopes /\ s.prev = r.prev /\ s.start = r.start /\ s.mark = r.mark /\ ~s.hasInp
    BY <1>2 DEF Scopes
<1> HIDE DEF s
<1>5. broken' \in BOOLEAN /\ (broken => broken')
    BY <1>1
<1>6. broken \/ broken' = (Len(scopes) = 1 /\ ~s.hasInp)
    BY <1>1, <1>4
<1>7. s.start = NotActive
        \/ (/\ r.start # NotActive /\ r.start <= s.start
            /\ s.start <= inp.read /\ inp.read - s.start = position - s.mark)
    BY <1>3, <1>4
<1> QED BY <1>1, <1>4, <1>5, <1>6, <1>7, InnermostChanges DEF r

\* The end of a transaction: r is the scope it was, q what it leaves of inp.
LEMMA StepEnd ==
    ASSUME IInv, End
    PROVE  IInv'
<1> DEFINE L == Len(scopes)
           r == Innermost
           q == TransactionRollback
           c == AutoReadCommit(q, r.prev)
           p == IF RollsBack THEN r.mark ELSE position
<1>1. /\ scopes # <<>>
      /\ inp' = IF r.hasInp THEN c ELSE inp
      /\ position' = p
      /\ scopes' = SubSeq(scopes, 1, L - 1)
      /\ UNCHANGED <<out, wire, want, accepted, broken>>
    BY DEF End, Close
<1>2. /\ L \in Nat /\ L >= 1 /\ scopes \in Seq(Scopes) /\ L <= MaxScopes /\ MaxScopes \in Nat
      /\ \A i \in 1..L : scopes[i] \in Scopes
    BY <1>1, PipeAssumption DEF IInv, Types
<1>3. /\ Sound(inp) /\ Holds(inp, position) /\ position \in Nat /\ ReadQty(inp) \in Nat
      /\ ReadQty(inp) = Len(inp.data) - inp.read
    BY Known, Fields
<1>4. /\ inp.read \in Nat /\ inp.read <= Len(inp.data) /\ Len(inp.data) \in Nat
    BY Reach
<1>5. r = scopes[L] /\ r \in Scopes
    BY <1>2 DEF Innermost
<1>6. /\ inp.commit = 0 /\ r.prev \in {0, inp.grow \div 2} /\ (L > 1 => r.prev = 0)
      /\ L = 1 /\ ~broken => r.hasInp /\ r.prev = inp.grow \div 2
    BY <1>1, <1>2, <1>5 DEF IInv, Commits
<1>7. /\ scopes' \in Seq(Scopes) /\ Len(scopes') = L - 1
      /\ \A i \in 1..(L - 1) : scopes'[i] = scopes[i]
    <2> DEFINE n == L - 1
    <2>1. n \in Nat /\ \A i \in 1..n : scopes[i] \in Scopes
        BY <1>2
    <2>2. scopes' = SubSeq(scopes, 1, n)
        BY <1>1
    <2> HIDE DEF n
    <2>3. /\ SubSeq(scopes, 1, n) \in Seq(Scopes) /\ Len(SubSeq(scopes, 1, n)) = n
          /\ \A i \in 1..n : SubSeq(scopes, 1, n)[i] = scopes[i]
        BY <2>1, SubSeqProperties
    <2> QED BY <2>2, <2>3 DEF n
<1>8. r.start # NotActive =>
        /\ r.start \in Nat /\ r.start <= inp.read /\ r.mark \in Nat
        /\ inp.read - r.start = position - r.mark
    <2>1. r.start # NotActive => r.start \in Nat /\ r.mark \in Nat
        BY <1>5, ScopeFields
    <2> QED BY <1>2, <1>5, <2>1 DEF IInv, Marks, Noted
<1> HIDE DEF L, r
\* What the roll back leaves.
<1>9. /\ Sound(q) /\ Alike(q, inp) /\ q.commit = 0 /\ p \in Nat /\ Holds(q, p)
      /\ p + ReadQty(q) = position + ReadQty(inp)
      /\ p - q.read = position - inp.read
      /\ q.read = (IF RollsBack THEN r.start ELSE inp.read)
    <2>1. CASE RollsBack /\ inp.read # r.start
        <3>1. q = SeekQ(inp, r.start) /\ p = r.mark /\ r.start # NotActive
            BY <2>1 DEF TransactionRollback, RollsBack, r
        <3>2. r.start \in 0..Len(inp.data)
            BY <1>4, <1>8, <3>1
        <3>3. PICK x \in Nat, y \in Nat, z \in Nat, m \in Nat, w \in Nat :
                 x = inp.read /\ y = r.start /\ z = position /\ m = r.mark /\ w = Len(inp.data)
            BY <1>3, <1>4, <1>8, <3>1
        <3>4. x - y = z - m /\ y <= x
            BY <1>8, <3>1, <3>3
        <3>5. z + y - x = m /\ m + (w - y) = z + (w - x) /\ m - y = z - x
            BY <3>4
        <3> HIDE DEF q, p
        <3>6. /\ Sound(q) /\ Alike(q, inp) /\ q.commit = inp.commit
              /\ Holds(q, position + r.start - inp.read) /\ ReadQty(q) = Len(inp.data) - r.start
              /\ q.read = r.start
            BY <1>3, <1>6, <3>1, <3>2, SeekQMoves
        <3>7. Holds(q, p)
            BY <3>1, <3>3, <3>5, <3>6
        <3> QED BY <1>3, <1>6, <2>1, <3>1, <3>3, <3>5, <3>6, <3>7
    <2>2. CASE ~ (RollsBack /\ inp.read # r.start)
        <3>1. q = inp /\ (RollsBack => inp.read = r.start /\ p = r.mark /\ r.start # NotActive)
              /\ (~RollsBack => p = position)
            BY <2>2 DEF TransactionRollback, RollsBack, r
        <3>2. p = position
            <4>1. CASE RollsBack
                <5>1. inp.read - r.start = position - r.mark /\ r.mark \in Nat /\ p = r.mark
                      /\ inp.read = r.start
                    BY <1>8, <3>1, <4>1
                <5>2. PICK x \in Nat, z \in Nat, m \in Nat :
                         x = inp.read /\ z = position /\ m = r.mark
                    BY <1>3, <1>4, <5>1
                <5>3. x - x = z - m
                    BY <5>1, <5>2
                <5>4. z = m
                    BY <5>3
                <5> QED BY <5>1, <5>2, <5>4
            <4> QED BY <3>1, <4>1
        <3> HIDE DEF q, p
        <3> QED BY <1>3, <1>6, <3>1, <3>2 DEF Alike
    <2> QED BY <2>1, <2>2
<1> HIDE DEF q
<1>10. /\ Sound(c) /\ Alike(c, q) /\ c.commit = r.prev /\ Holds(c, p) /\ ReadQty(c) = ReadQty(q)
       /\ r.prev = 0 => c.read = q.read
    <2>1. r.prev \in {0, q.grow \div 2} /\ p \in Int
        BY <1>6, <1>9 DEF Alike
    <2> HIDE DEF p
    <2> QED BY <1>9, <2>1, AutoReadCommitKeeps
<1> HIDE DEF c
\* What the end of the scope leaves.
<1>11. /\ Sound(inp') /\ Alike(inp', inp) /\ Holds(inp', p)
       /\ p + ReadQty(inp') = position + ReadQty(inp)
    <2>1. CASE r.hasInp
        BY <1>1, <1>9, <1>10, <2>1 DEF Alike
    <2>2. CASE ~r.hasInp
        <3>1. inp' = inp /\ p = position
            BY <1>1, <2>2 DEF RollsBack, r
        <3> QED BY <1>3, <3>1 DEF Alike
    <2> QED BY <2>1, <2>2
<1>12. Types' /\ InPlace'
    <2>1. Len(scopes') <= MaxScopes /\ broken' \in BOOLEAN
        BY <1>1, <1>2, <1>7 DEF IInv, Types
    <2> HIDE DEF p
    <2> QED BY <1>1, <1>7, <1>9, <1>11, <2>1, ReaderMoved
<1>13. L > 1 => /\ inp'.commit = 0 /\ p - inp'.read = position - inp.read
                /\ inp'.read = (IF RollsBack THEN r.start ELSE inp.read)
    <2>1. CASE r.hasInp
        BY <1>1, <1>6, <1>9, <1>10, <2>1
    <2>2. CASE ~r.hasInp
        BY <1>1, <1>6, <2>2 DEF RollsBack, r
    <2> QED BY <2>1, <2>2
<1>14. ASSUME NEW i \in 1..(L - 1), scopes[i].start # NotActive
       PROVE  /\ scopes[i].start <= inp'.read
              /\ inp'.read - scopes[i].start = p - scopes[i].mark
    <2>1. L > 1 /\ i \in 1..L /\ L \in 1..L /\ i < L
        BY <1>2
    <2>2. /\ scopes[i].start \in Nat /\ scopes[i].mark \in Nat
          /\ scopes[i].start <= inp.read /\ inp.read - scopes[i].start = position - scopes[i].mark
        <3>1. scopes[i].start \in Nat /\ scopes[i].mark \in Nat
            BY <1>2, <1>14, <2>1, ScopeFields
        <3> QED BY <1>14, <2>1, <3>1 DEF IInv, Marks, Noted, L
    <2>3. RollsBack => scopes[i].start <= r.start
        BY <1>5, <1>14, <2>1 DEF IInv, Marks, Noted, RollsBack, L, r
    <2>4. scopes[i].start <= inp'.read
        BY <1>13, <2>1, <2>2, <2>3
    <2>5. inp'.read \in Nat /\ p \in Nat
        BY <1>9, <1>11, Fields
    <2> HIDE DEF p
    <2>6. PICK x \in Nat, y \in Nat, z \in Nat, m \in Nat, v \in Nat, w \in Nat :
             /\ x = inp.read /\ y = scopes[i].start /\ z = position /\ m = scopes[i].mark
             /\ v = inp'.read /\ w = p
        BY <1>3, <1>4, <2>2, <2>5
    <2>7. x - y = z - m
        BY <2>2, <2>6
    <2>8. w - v = z - x
        BY <1>13, <2>1, <2>6
    <2>9. v - y = w - m
        BY <2>7, <2>8
    <2> QED BY <2>4, <2>6, <2>9
<1>15. ASSUME NEW i \in 1..(L - 1), NEW j \in 1..(L - 1), i < j,
              scopes[i].start # NotActive, scopes[j].start # NotActive
       PROVE  scopes[i].start <= scopes[j].start
    <2>1. i \in 1..L /\ j \in 1..L
        BY <1>2
    <2> QED BY <1>15, <2>1 DEF IInv, Marks, Noted, L
<1>16. Marks'
    BY <1>1, <1>7, <1>14, <1>15 DEF Marks, Noted
<1>17. inp'.grow = inp.grow /\ wire' = wire /\ broken' = broken
    BY <1>1, <1>11 DEF Alike
<1>18. Commits'
    <2>1. CASE L > 1
        <3>1. scopes # <<>> /\ scopes' # <<>> /\ scopes'[1] = scopes[1] /\ inp'.commit = 0
            BY <1>1, <1>2, <1>7, <1>13, <2>1
        <3>2. CommitComesBack'
            BY <1>17, <3>1 DEF IInv, Commits, CommitComesBack
        <3>3. ASSUME NEW i \in 1..Len(scopes')
              PROVE  scopes'[i].prev \in {0, inp'.grow \div 2} /\ (i > 1 => scopes'[i].prev = 0)
            <4>1. i \in 1..Len(scopes) /\ scopes'[i] = scopes[i]
                BY <1>2, <1>7, <3>3 DEF L
            <4> QED BY <1>17, <4>1 DEF IInv, Commits
        <3>4. ~broken' => scopes'[1].hasInp /\ scopes'[1].prev = inp'.grow \div 2
            BY <1>17, <3>1 DEF IInv, Commits
        <3> QED BY <3>1, <3>2, <3>3, <3>4 DEF Commits
    <2>2. CASE L = 1
        <3>1. scopes' = <<>> /\ Len(scopes') = 0
            BY <1>7, <2>2, EmptySeq
        <3>2. ~broken => inp'.commit = inp.grow \div 2
            BY <1>1, <1>6, <1>10, <2>2
        <3>3. CommitComesBack'
            BY <1>17, <3>1, <3>2 DEF IInv, Commits, CommitComesBack
        <3>4. \A i \in 1..Len(scopes') : FALSE
            BY <3>1
        <3> QED BY <3>1, <3>3, <3>4 DEF Commits
    <2> QED BY <1>2, <2>1, <2>2
<1> QED BY <1>12, <1>16, <1>18 DEF IInv

-----------------------------------------------------------------------------
LEMMA StepIInv == IInv /\ [Next]_vars => IInv'
<1> SUFFICES ASSUME IInv, [Next]_vars
             PROVE  IInv'
    OBVIOUS
<1>1. ASSUME NEW n \in Sizes, Offer(n)
      PROVE  IInv'
    BY <1>1, StepOffer
<1>2. CASE WriteX
    BY <1>2, StepWriteX
<1>3. CASE WouldBlock
    BY <1>3, StepWouldBlock
<1>4. CASE WriteNothing
    BY <1>4, StepWriteNothing
<1>5. CASE ReadFillAligned
    BY <1>5, StepReadFillAligned
<1>6. ASSUME NEW n \in ReadSizes, ReadX(n)
      PROVE  IInv'
    BY <1>6, StepReadX
<1>7. CASE Begin
    BY <1>7, StepBegin
<1>8. CASE SetTransactionComplete
    BY <1>8, StepSetTransactionComplete
<1>9. CASE SetTransactionFailed
    BY <1>9, StepSetTransactionFailed
<1>10. CASE End
    BY <1>10, StepEnd
<1>11. ASSUME NEW n \in ReadSizes, SetTransactionPartial(n)
       PROVE  IInv'
    BY <1>11, StepSetTransactionPartial
<1>12. CASE UNCHANGED vars
    BY <1>12 DEF vars, IInv, Types, InPlace, Marks, Noted, Commits, CommitComesBack
<1> QED BY <1>1, <1>2, <1>3, <1>4, <1>5, <1>6, <1>7, <1>8, <1>9, <1>10, <1>11, <1>12
        DEF Next, ReadSome

\* The queues, the places that transactions have noted and the commit sizes fit
\* together after every call of the writer, the stack and the reader.
THEOREM Inductive == Spec => []IInv
BY InitIInv, StepIInv, PTL DEF Spec

\* Three numbered sequences, one behind the other, are a numbered sequence.
LEMMA NumberedJoined ==
    ASSUME NEW s \in Seq(Bytes), NEW t \in Seq(Bytes), NEW n \in Int,
           Numbered(s, n), Numbered(t, n + Len(s))
    PROVE  /\ s \o t \in Seq(Bytes) /\ Len(s \o t) = Len(s) + Len(t)
           /\ Numbered(s \o t, n)
<1> DEFINE A == Len(s)  B == Len(t)  u == s \o t
<1>1. A \in Nat /\ B \in Nat
    OBVIOUS
<1>2. /\ u \in Seq(Bytes) /\ Len(u) = A + B
      /\ \A k \in 1..(A + B) : u[k] = IF k <= A THEN s[k] ELSE t[k - A]
    BY ConcatProperties
<1>3. (\A k \in 1..A : s[k] = n + k) /\ (\A k \in 1..B : t[k] = (n + A) + k)
    BY DEF Numbered
<1> HIDE DEF A, B, u
<1>4. ASSUME NEW k \in 1..(A + B)
      PROVE  u[k] = n + k
    <2>1. CASE k <= A
        <3>1. u[k] = s[k] /\ k \in 1..A
            BY <1>1, <1>2, <2>1
        <3> QED BY <1>3, <3>1
    <2>2. CASE k > A
        <3>1. u[k] = t[k - A] /\ k - A \in 1..B
            BY <1>1, <1>2, <2>2
        <3>2. t[k - A] = (n + A) + (k - A)
            BY <1>3, <3>1
        <3> QED BY <1>1, <3>1, <3>2
    <2> QED BY <1>1, <2>1, <2>2
<1>5. Numbered(u, n)
    BY <1>2, <1>4 DEF Numbered
<1> QED BY <1>2, <1>5 DEF A, B, u

\* The numbers that follow p, as a sequence.
LEMMA NumbersFrom ==
  ASSUME NEW n \in Nat, NEW p \in Int
  PROVE  /\ [i \in 1..n |-> p + i] \in Seq(Int)
         /\ Len([i \in 1..n |-> p + i]) = n
         /\ \A i \in 1..n : [j \in 1..n |-> p + j][i] = p + i
<1> DEFINE g == [i \in 1..n |-> p + i]
<1>1. g \in [1..n -> Int]
    OBVIOUS
<1>2. g \in Seq(Int) /\ Len(g) = n
    <2> HIDE DEF g
    <2> QED BY <1>1, SeqDef, LenProperties
<1> QED BY <1>2

\* Nothing is lost, doubled or reordered between WriteX and ReadX.
THEOREM NothingIsLost == Spec => []NothingLost
<1>1. IInv => NothingLost
    <2> SUFFICES ASSUME IInv
                 PROVE  NothingLost
        OBVIOUS
    <2> DEFINE a == SpanRead(inp)  b == SpanRead(wire)  c == SpanRead(out)
               n == accepted - position
               m == [i \in 1..n |-> position + i]
    <2>1. /\ position \in Int /\ position \in Nat /\ accepted \in Nat
          /\ ReadQty(inp) \in Nat /\ ReadQty(wire) \in Nat /\ ReadQty(out) \in Nat
          /\ accepted = position + ReadQty(inp) + ReadQty(wire) + ReadQty(out)
          /\ accepted + want <= MaxBytes /\ want \in Nat /\ MaxBytes \in Nat
        BY Known
    <2>2. a \in Seq(Bytes) /\ Len(a) = ReadQty(inp) /\ Numbered(a, position)
        BY Known, Unread
    <2>3. b \in Seq(Bytes) /\ Len(b) = ReadQty(wire) /\ Numbered(b, position + ReadQty(inp))
        BY Known, Unread
    <2>4. /\ c \in Seq(Bytes) /\ Len(c) = ReadQty(out)
          /\ Numbered(c, position + ReadQty(inp) + ReadQty(wire))
        BY Known, Unread
    <2> HIDE DEF a, b, c
    <2>5. /\ a \o b \in Seq(Bytes) /\ Len(a \o b) = ReadQty(inp) + ReadQty(wire)
          /\ Numbered(a \o b, position)
        BY <2>1, <2>2, <2>3, NumberedJoined
    <2>6. position + Len(a \o b) = position + ReadQty(inp) + ReadQty(wire)
        BY <2>1, <2>5
    <2>7. /\ (a \o b) \o c \in Seq(Bytes)
          /\ Len((a \o b) \o c) = ReadQty(inp) + ReadQty(wire) + ReadQty(out)
          /\ Numbered((a \o b) \o c, position)
        BY <2>1, <2>4, <2>5, <2>6, NumberedJoined
    <2>8. n \in Nat /\ n = ReadQty(inp) + ReadQty(wire) + ReadQty(out)
        BY <2>1
    <2> HIDE DEF n
    <2>9. m \in Seq(Int) /\ Len(m) = n /\ \A i \in 1..n : m[i] = position + i
        BY <2>1, <2>8, NumbersFrom
    <2>10. (a \o b) \o c = m
        <3>1. (a \o b) \o c \in Seq(Int)
            <4>1. Bytes \subseteq Int
                BY <2>1 DEF Bytes
            <4> QED BY <2>7, <4>1, SeqMonotonic
        <3>2. \A i \in 1..n : ((a \o b) \o c)[i] = position + i
            BY <2>7, <2>8 DEF Numbered
        <3> HIDE DEF m
        <3> QED BY <2>7, <2>8, <2>9, <3>1, <3>2, SeqEqual
    <2>11. a \o b \o c = m
        BY <2>10
    <2>12. TypeOK
        <3>1. \A q \in {out, wire, inp} : IsNormal(q) /\ q.data \in Seq(1..MaxBytes)
            BY Fields DEF IInv, Types, Sound, Bytes
        <3>2. accepted \in 0..MaxBytes /\ position \in 0..accepted
            BY <2>1
        <3> QED BY <3>1, <3>2 DEF TypeOK, IInv, Types
    <2> QED BY <2>11, <2>12 DEF NothingLost, a, b, c, m, n
<1> QED BY <1>1, Inductive, PTL

\* What an open transaction would roll back to is still where it was.
THEOREM RollbackStaysPossible == Spec => []RollbackIsPossible
<1>1. IInv => RollbackIsPossible
    BY DEF IInv, Marks, Noted, RollbackIsPossible
<1> QED BY <1>1, Inductive, PTL

\* Transactions switch the commit of the reader's stream off and, unless the
\* outermost one was declared failed, on again.
THEOREM CommitIsRestored == Spec => []CommitComesBack
<1>1. IInv => CommitComesBack
    BY DEF IInv, Commits
<1> QED BY <1>1, Inductive, PTL
=============================================================================
