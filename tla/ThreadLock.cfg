\* Three threads, one of which may be hard terminated, nesting two deep;
\* Lock() (infinite), LockTry(0) and LockTry(1).
SPECIFICATION FairSpec
CONSTANTS
  Threads = {t1, t2, t3}
  Ids = {t1, t2, t3}
  Terminable = {t3}
  NoThread = none
  MaxNest = 2
  FiniteWaits = {0, 1}
INVARIANTS MutualExclusion FreedExactlyWhenLeft
PROPERTIES ImplementsReentrantLock LockTryReturns SomebodyGetsIn
