SPECIFICATION Spec
CONSTANTS
  Notifs = {n1}
  Messages = {m1}
  Masses = {k1}
  Users = {u1, u2}
  Requests = {r1, r2}
  Cron = Cron
  Take = 1
  None = None
  MaxFaults = 1
SYMMETRY Symmetry
INVARIANTS
  TypeOK
  NotifiedOnce
  RepeatsExplained
  SentReached
PROPERTY GoesOutAsAsked
