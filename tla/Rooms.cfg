SPECIFICATION Spec
CONSTANTS
  Requests = {r1, r2, r3, r4, r5, r6}
  Abortable = {r1, r2, r3, r4, r5, r6}
  Rooms = {a, b}
  Occupants = {o1, o2}
  Statuses = {"AVAILABLE", "OCCUPIED", "RESERVED"}
  NoAllocation = NoAllocation  NoOrder = NoOrder  NoRoom = NoRoom
SYMMETRY Symmetry
INVARIANTS
  OccupiedHasTenant
  HandoverComplete
PROPERTIES
  CreateSeesTenants
  AllocationsEndOnce
CHECK_DEADLOCK FALSE
