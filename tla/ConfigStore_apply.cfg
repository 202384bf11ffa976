\* Two clients stage, discard and apply; one crash; no profiles.
CONSTANTS
  p1 = p1  p2 = p2  m1 = m1  m2 = m2  r1 = r1  v = v  w = w
  Providers = {p1, p2}
  Models = {m1, m2}
  Routes = {r1}
  Values = {v, w}
  NoValue = NoValue
  NoProvider = NoProvider
  Absent = Absent
  Free = Free
  Mask = Mask
  Clients = {c1, c2}
  ProfileNames = {}
  YamlConfig <- File
  InitialTables <- SharedStore
  Menu <- EditMenu
  Faulty = {"stage", "list", "begin", "tx", "settings", "models", "providers", "offers", "routes"}
  MaxChanges = 3
  MaxCrashes = 1
SPECIFICATION Spec
INVARIANTS
  InStageOrder
  MarkedIffCommitted
  LiveConfigSound
  ServesCommittedRows
PROPERTIES
  ImplementsLiveConfig
  EveryCallReturns
