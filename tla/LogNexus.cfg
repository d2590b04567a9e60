\* Two threads; a nexus with one nexus below it and two other sinks.
SPECIFICATION FairLogSpec
CONSTANTS
  LogThreads = {t1, t2}
  NoThread = none
  Nexuses = {root, sub}
  Root = root
  Leaves = {a, b}
  MaxCalls = 4
INVARIANTS NoDupes EventReachesSinks
PROPERTY EveryCallReturns
