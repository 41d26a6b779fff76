SPECIFICATION Spec
CONSTANTS
  Posts = {c1}
  Campaigns = {k1}
  Reports = {s1}
  Subscribers = {u1}
  Ticks = {t1, t2}
  Requests = {r1}
  None = None
  MaxFaults = 1
INVARIANT ChangesHold
