\* Three keys and a limit that may be lifted, or lowered under the sessions there are.
CONSTANTS
  Requests = {q1, q2}
  Pruner = Pruner
  Keys = {k1, k2, k3}
  NoKey = NoKey
  Ttls = {2}
  Limits = {0, 1, 2}
  MaxWait = 1
  MaxTime = 3
  MaxIds = 4
  Absent = Absent
  Free = Free
SPECIFICATION Spec
SYMMETRY Interchangeable
INVARIANTS
  Isolated
  ConversationKept
PROPERTIES
  OldestGoFirst
