----------------------------- MODULE QueueStatic -----------------------------
(***************************************************************************)
(* cQueueStatic (cQueue.h): a ring that one writer thread and one reader    *)
(* thread use without a lock.  Each index is stored by one side only; the   *)
(* other side loads it, and may act on it when it is no longer current.     *)
(* A load or a store of a word is one step, in program order.               *)
(***************************************************************************)
EXTENDS Integers, Sequences

CONSTANTS QTY,        \* _QTY
          Values,     \* elements
          Nothing     \* not an element: the slot was never written

ASSUME QtyAssumption == QTY \in Nat \ {0}
ASSUME NothingAssumption == Nothing \notin Values

VARIABLES data,         \* _Data
          readIndex,    \* _nReadIndex, stored by the reader
          writeIndex,   \* _nWriteIndex, stored by the writer
          wpc, wVal,    \* the writer's Write1 and its argument
          wIndex,       \* iWrite, the index it has loaded
          wRoom,        \* what get_WriteQtyT last told the writer, less its writes
          rpc, rVal,    \* the reader's call and the element it has loaded
          rCount,       \* iCount of AdvanceRead
          rAvail,       \* what get_ReadQtyT last told the reader, less its reads
          got           \* the element Read1 returned last

writerVars == <<wpc, wVal, wIndex, wRoom>>
readerVars == <<rpc, rVal, rCount, rAvail, got>>
queueVars == <<data, readIndex, writeIndex, writerVars, readerVars>>

GetWrapIndex(i) == i % QTY

(* get_ReadQtyT of the indexes that were loaded.                            *)
ReadQtyT(iRead, iWrite) == IF iRead > iWrite THEN iWrite + QTY - iRead ELSE iWrite - iRead

AtLeast0(n) == IF n < 0 THEN 0 ELSE n
Least(m, n) == IF m < n THEN m ELSE n

QueueInit ==
  /\ data = [i \in 0..(QTY - 1) |-> Nothing]
  /\ readIndex = 0 /\ writeIndex = 0
  /\ wpc = "idle" /\ wVal = Nothing /\ wIndex = 0 /\ wRoom = 0
  /\ rpc = "idle" /\ rVal = Nothing /\ rCount = 0 /\ rAvail = 0
  /\ got = Nothing

-----------------------------------------------------------------------------
(* Mutant: the index is published before the store.                        *)
WriteStartPublishes(v) ==
  /\ wpc = "idle"
  /\ GetWrapIndex(writeIndex + 1) # readIndex
  /\ wpc' = "store" /\ wVal' = v /\ wIndex' = writeIndex
  /\ writeIndex' = GetWrapIndex(writeIndex + 1)
  /\ UNCHANGED <<data, readIndex, wRoom, readerVars>>

(* Write1 finds that the next index is not the reader's: the queue has room.*)
WriteStart(v) ==
  /\ wpc = "idle"
  /\ GetWrapIndex(writeIndex + 1) # readIndex
  /\ wpc' = "store" /\ wVal' = v /\ wIndex' = writeIndex
  /\ UNCHANGED <<data, readIndex, writeIndex, wRoom, readerVars>>

WriteStore ==
  /\ wpc = "store"
  /\ data' = [data EXCEPT ![wIndex] = wVal]
  /\ wpc' = "publish"
  /\ UNCHANGED <<readIndex, writeIndex, wVal, wIndex, wRoom, readerVars>>

WritePublish ==
  /\ wpc = "publish"
  /\ writeIndex' = GetWrapIndex(wIndex + 1)
  /\ wpc' = "idle" /\ wVal' = Nothing /\ wIndex' = 0
  /\ wRoom' = AtLeast0(wRoom - 1)
  /\ UNCHANGED <<data, readIndex, readerVars>>

(* Mutant: all slots are for writing.                                       *)
GetWriteQtyAllSlots ==
  /\ wpc = "idle"
  /\ wRoom' = QTY - ReadQtyT(readIndex, writeIndex)
  /\ UNCHANGED <<data, readIndex, writeIndex, wpc, wVal, wIndex, readerVars>>

(* get_WriteQtyT in the writer: only the reader's index can be out of date. *)
GetWriteQtyT ==
  /\ wpc = "idle"
  /\ wRoom' = (QTY - 1) - ReadQtyT(readIndex, writeIndex)
  /\ UNCHANGED <<data, readIndex, writeIndex, wpc, wVal, wIndex, readerVars>>

-----------------------------------------------------------------------------
(* Mutant: what is not room counts as data, the slot kept free too.         *)
GetReadQtyNoRoom ==
  /\ rpc = "idle"
  /\ rAvail' = QTY - ((QTY - 1) - ReadQtyT(readIndex, writeIndex))
  /\ UNCHANGED <<data, readIndex, writeIndex, writerVars, rpc, rVal, rCount, got>>

(* get_ReadQtyT in the reader: only the writer's index can be out of date.  *)
GetReadQtyT ==
  /\ rpc = "idle"
  /\ rAvail' = ReadQtyT(readIndex, writeIndex)
  /\ UNCHANGED <<data, readIndex, writeIndex, writerVars, rpc, rVal, rCount, got>>

(* isEmptyQ in the loop of ReadSpanQ: one element is there.                 *)
IsNotEmpty ==
  /\ rpc = "idle" /\ rAvail = 0
  /\ readIndex # writeIndex
  /\ rAvail' = 1
  /\ UNCHANGED <<data, readIndex, writeIndex, writerVars, rpc, rVal, rCount, got>>

(* Read1, by a reader that was told there is an element.                    *)
ReadLoad ==
  /\ rpc = "idle" /\ rAvail > 0
  /\ rVal' = data[readIndex]
  /\ rpc' = "take"
  /\ UNCHANGED <<data, readIndex, writeIndex, writerVars, rCount, rAvail, got>>

(* Mutant: Read1 does not advance.                                          *)
ReadTakePeeks ==
  /\ rpc = "take"
  /\ got' = rVal /\ rVal' = Nothing
  /\ rAvail' = rAvail - 1
  /\ rpc' = "idle"
  /\ UNCHANGED <<data, readIndex, writeIndex, writerVars, rCount>>

ReadTake ==
  /\ rpc = "take"
  /\ readIndex' = GetWrapIndex(readIndex + 1)
  /\ got' = rVal /\ rVal' = Nothing
  /\ rAvail' = rAvail - 1
  /\ rpc' = "idle"
  /\ UNCHANGED <<data, writeIndex, writerVars, rCount>>

(* AdvanceRead: get_ReadQtyT limits the count, then the index is stored.    *)
AdvanceCount(n) ==
  /\ rpc = "idle"
  /\ rCount' = Least(n, ReadQtyT(readIndex, writeIndex))
  /\ rpc' = "advance"
  /\ UNCHANGED <<data, readIndex, writeIndex, writerVars, rVal, rAvail, got>>

(* Mutant: the index is not wrapped.                                        *)
AdvanceReadUnwrapped ==
  /\ rpc = "advance"
  /\ readIndex' = readIndex + rCount
  /\ rAvail' = AtLeast0(rAvail - rCount)
  /\ rCount' = 0
  /\ rpc' = "idle"
  /\ UNCHANGED <<data, writeIndex, writerVars, rVal, got>>

AdvanceRead ==
  /\ rpc = "advance"
  /\ readIndex' = GetWrapIndex(readIndex + rCount)
  /\ rAvail' = AtLeast0(rAvail - rCount)
  /\ rCount' = 0
  /\ rpc' = "idle"
  /\ UNCHANGED <<data, writeIndex, writerVars, rVal, got>>

-----------------------------------------------------------------------------
Writer == (\E v \in Values : WriteStart(v)) \/ WriteStore \/ WritePublish \/ GetWriteQtyT
Reader ==
  \/ GetReadQtyT \/ IsNotEmpty \/ ReadLoad \/ ReadTake
  \/ (\E n \in 1..QTY : AdvanceCount(n)) \/ AdvanceRead

QueueNext == Writer \/ Reader

QueueSpec == QueueInit /\ [][QueueNext]_queueVars

(* The writer finishes the calls it makes; the reader polls the queue.      *)
FairQueueSpec ==
  /\ QueueSpec
  /\ WF_queueVars(WriteStore \/ WritePublish)
  /\ WF_queueVars(ReadTake \/ AdvanceRead)
  /\ WF_queueVars(IsNotEmpty \/ ReadLoad)

-----------------------------------------------------------------------------
QueueTypeOK ==
  /\ data \in [0..(QTY - 1) -> Values \cup {Nothing}]
  /\ readIndex \in 0..(QTY - 1)
  /\ writeIndex \in 0..(QTY - 1)
  /\ wpc \in {"idle", "store", "publish"} /\ wVal \in Values \cup {Nothing}
  /\ wIndex \in 0..(QTY - 1)
  /\ rpc \in {"idle", "take", "advance"} /\ rVal \in Values \cup {Nothing}
  /\ wRoom \in 0..(QTY - 1) /\ rAvail \in 0..(QTY - 1) /\ rCount \in 0..(QTY - 1)
  /\ got \in Values \cup {Nothing}

Used == ReadQtyT(readIndex, writeIndex)

(* What get_WriteQtyT told the writer stays true while the reader goes on:  *)
(* that many calls of Write1 will not find the queue full.                  *)
RoomIsThere == wRoom + Used <= QTY - 1

(* What get_ReadQtyT or isEmptyQ told the reader stays true while the       *)
(* writer goes on: Read1 never reads an empty queue (ASSERT cQueue.h:458).  *)
AvailIsThere == rAvail <= Used

(* The ring implements a first-in first-out queue of QTY - 1 elements.      *)
Fifo == INSTANCE BoundedFifo WITH
  Capacity <- QTY - 1,
  items    <- [i \in 1..Used |-> data[GetWrapIndex(readIndex + i - 1)]]
ImplementsFifo == Fifo!Spec

(* A reader that polls takes every element: the queue never stays full.     *)
DrainsWhenPolled == (Used = QTY - 1) ~> (Used < QTY - 1)
=============================================================================
