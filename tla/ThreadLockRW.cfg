\* Three threads with up to two guards each: a writer can wait behind two
\* readers, and a reader behind a nested writer.
SPECIFICATION FairSpec
CONSTANTS
  Threads = {t1, t2, t3}
  NoThread = none
  ReaderId = reader
  MaxNest = 2
PROPERTIES ImplementsSharedLock SomebodyMoves
