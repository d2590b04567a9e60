\* A ring of four slots, so of three elements, of two values: the indexes
\* wrap, and the queue is full and empty again and again.
SPECIFICATION FairQueueSpec
CONSTANTS
  QTY = 4
  Values = {a, b}
  Nothing = nothing
INVARIANTS RoomIsThere AvailIsThere
PROPERTIES ImplementsFifo DrainsWhenPolled
