\* Two clients save, rename, delete and activate two profiles on a fresh store.
CONSTANTS
  p1 = p1  p2 = p2  m1 = m1  m2 = m2  r1 = r1  v = v  w = w
  Providers = {p1}
  Models = {m1, m2}
  Routes = {r1}
  Values = {v, w}
  NoValue = NoValue
  NoProvider = NoProvider
  Absent = Absent
  Free = Free
  Mask = Mask
  Clients = {c1, c2}
  ProfileNames = {n1, n2}
  YamlConfig <- LargerFile
  InitialTables <- FreshStore
  Menu <- ProfileMenu
  Faulty = {"save", "seed"}
  MaxChanges = 1
  MaxCrashes = 0
SPECIFICATION Spec
INVARIANTS
  OneActiveProfile
  ProfilesLoadable
