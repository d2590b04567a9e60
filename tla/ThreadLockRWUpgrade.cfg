\* Two threads are enough: one upgrades, the other one reads.
SPECIFICATION SpecUpgrade
CONSTANTS
  Threads = {t1, t2}
  NoThread = none
  ReaderId = reader
  MaxNest = 1
INVARIANT ReadersExcludeWriters
