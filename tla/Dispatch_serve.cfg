\* One request (requests share only the config), reloads between all its steps.
CONSTANTS
  Requests = {r1}
  Providers = {1, 2, 3}
  Names <- ModelNames
  Urls = {"u1", "u2", "u3", "u4", "u6"}
  Keys = {"k1", "k2", "k3", "k4", "k5", "k6"}
  RefOf <- References
  Files <- ConfigFiles
  None = None
  Asks <- AllAsks
  Registries <- AllOrNone
SPECIFICATION Spec
INVARIANTS
  CredentialsTogether
  SpeaksItsProtocol
  FallbackInOrder
  ImagesOnlyToVision
  ReportedAsServed
PROPERTIES
  AbandonedRequestsEnd
