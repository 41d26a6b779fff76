SPECIFICATION Spec
CONSTANTS
  Requests = {r1, r2, r3}
  Abortable = {r1, r2, r3}
  Slots = {s1, s2}
  Rows <- SummerRows
  MaxTurns = 2
  NoMass = NoMass  NoBooking = NoBooking  NoEvent = NoEvent  NoSlot = NoSlot  NoWork = NoWork
SYMMETRY Symmetry
INVARIANTS
  HallGivenOnce
  MassHasHall
  ScheduledOnce
  PublicOnSite
  
CHECK_DEADLOCK FALSE
