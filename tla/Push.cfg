SPECIFICATION FedSpec
CONSTANTS
  c0 = c0
  c1 = c1
  c2 = c2
  c3 = c3
  p0 = p0
  p1 = p1
  a = a
  b = b
  own = own
  moved = moved
  s1 = s1
  s2 = s2
  Threads = {l1, s1, s2}
  Locals = {l1}
  Sessions = {s1, s2}
  Configs = {c0, c1, c2, c3}
  Prefixes = {p0, p1}
  Backbone = {}
  Linked = {c0, c1, c2, c3}
  Drafts <- MCDrafts
  Texts = {}
  InitFiles <- MCInitFiles
  MaxPuts = 1
  Faults = {"crash"}
  Versions = {1, 2}
  Pushable = {c1, c2, c3}
  Endpoints = {a, b}
  Fabric <- MCFabric
  Ident <- MCIdent
  OwnIdent = {own, moved}
  MaxPushes = 2
  Scenes <- MCPush
  StatusAttempts = 1
  NoThread = NoThread
  Down = Down
  Torn = Torn
  NoConfig = NoConfig
INVARIANT FedTypeOK
INVARIANT LedgerTruth
PROPERTY VersionsIncrease
PROPERTY ProtectedSettings
PROPERTY FinalOnceReturned
SYMMETRY MCSymmetry
