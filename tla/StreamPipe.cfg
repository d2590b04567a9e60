\* Packets a flushed buffer of four always has room for (commit at two).
SPECIFICATION FairSpec
CONSTANTS
  StackChunk = 4
  OutMax = 4
  WireChunk = 2
  WireMax = 2
  InpMax = 4
  Block = 2
  ReadSizes = {1, 4}
  Sizes = {1, 3}
  MaxBytes = 7
  MaxScopes = 2
INVARIANTS NothingLost RollbackIsPossible CommitComesBack
PROPERTY PacketIsTaken
