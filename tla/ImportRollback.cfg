SPECIFICATION Spec
CONSTANTS
  Requests = {r1, r2, r3, r4}
  Abortable = {r1, r2, r3, r4}
  Staff = Staff
  Numbers = {1, 2}
  h1 = h1
  Houses <- MCHouses
  NoNumber = NoNumber  NoHouse = NoHouse
  Sheets <- MCSheets
  Batch = 2
  NoJob = NoJob
SYMMETRY Symmetry
INVARIANT HandmadeStays
CHECK_DEADLOCK FALSE
