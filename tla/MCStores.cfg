SPECIFICATION Spec
CONSTANTS
  Item = {1, 2}
  Short = 2
  Users = {u, v, w}
  Heads = {h1, h2, h3, h4}
  Nil = nil
  Character = {1, 2}
  Upper <- MCUpper
  Plain = {1}
  Loaded = {u}
  Blob = {0, 1}
  Memory = {1, 2, 3}
  Static <- MCStatic
  Turns = 3
  SmartVar = {11, 12}
  ObjectCount = 3
  Thread = {s, t}
  Bits = 2
INVARIANTS
  ArraysAgree
  SortedAgree
  OwnersAgree
  SettingsAgree
  ReadersAgree
  DirectoriesAgree
CHECK_DEADLOCK FALSE
