SPECIFICATION FairSpec
CONSTANTS
  Ids = {i1, i2}
  Flushes = {f1, f2}
  Rooms = {a, b}
  NoRoom = NoRoom  NoId = NoId
  MaxFaults = 1
INVARIANTS
  NothingLost
  WrittenOnce
PROPERTY EveryRowTried
