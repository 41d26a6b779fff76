SPECIFICATION FairSpec
CONSTANTS
  Notifs = {n1}
  Messages = {m1, m2}
  Masses = {}
  Users = {u1}
  Requests = {r1, r2}
  Cron = Cron
  Take = 1
  None = None
  MaxFaults = 1
PROPERTY DueLeaves
