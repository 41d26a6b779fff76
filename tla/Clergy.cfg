SPECIFICATION Spec
CONSTANTS
  Requests = {r1, r2, r3}
  Abortable = {r1, r2, r3}
  Priests = {p1}
  Parishes = {a, b}
  NoPriest = NoPriest  NoPosting = NoPosting  NoOrder = NoOrder  NoParish = NoParish
  NoLeave = NoLeave  NoEvent = NoEvent  NoWork = NoWork  NoOne = NoOne
SYMMETRY Symmetry
INVARIANTS
  OnePrimary
  Succeeded
  OrdersCarriedOut
  StatusLogged
CHECK_DEADLOCK FALSE
