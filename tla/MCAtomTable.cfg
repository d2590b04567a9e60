\* Two threads, three names, two objects at once, two handles to each.  Static
\* objects that lost their table entries can fill the bound: nothing is left to do.
SPECIFICATION Spec
CONSTANTS
  Threads = {t1, t2}
  x = x
  y = y
  z = z
  Names <- MCNames
  Code <- MCCode
  Objects = {o1, o2}
  Nobody = nobody
  MaxHandles = 2
SYMMETRY MCSymmetry
INVARIANT RefsAreExact
PROPERTY AtomStaysFound
CHECK_DEADLOCK FALSE
