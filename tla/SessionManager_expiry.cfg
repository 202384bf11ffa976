\* One conversation of two requests, no limit, and the background pruner.
CONSTANTS
  Requests = {q1, q2}
  Pruner = Pruner
  Keys = {k1}
  NoKey = NoKey
  Ttls = {1, 2}
  Limits = {0}
  MaxWait = 1
  MaxTime = 3
  MaxIds = 3
  Absent = Absent
  Free = Free
SPECIFICATION Spec
PROPERTIES
  ExpiredSessionsGo
