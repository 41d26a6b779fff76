SPECIFICATION RentSpec
CONSTANTS
  Requests = {r1, r2, r3, r4, r5}
  Abortable = {r1, r2, r3, r4, r5}
  Totals = {0, 2, 3}
  Amounts <- SmallAmounts
  NoInvoice = NoInvoice  NoPayment = NoPayment
SYMMETRY Symmetry
INVARIANTS
  PaidIsReceived
  SettledExactly
  ReceiptsPosted
CHECK_DEADLOCK FALSE
