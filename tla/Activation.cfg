SPECIFICATION Spec
CONSTANTS
  c0 = c0
  c1 = c1
  bb = bb
  p0 = p0
  p1 = p1
  t1 = t1
  t2 = t2
  Threads = {t1, t2}
  Locals = {t1, t2}
  Configs = {c0, c1, bb}
  Prefixes = {p0, p1}
  Backbone = {bb}
  Linked = {c1}
  Drafts <- MCDrafts
  Texts = {c0, bb}
  InitFiles <- MCInitFiles
  MaxPuts = 2
  Faults = {"crash", "restore_error", "docker_error", "native_error"}
  NoThread = NoThread
  Down = Down
  Torn = Torn
  NoConfig = NoConfig
  Children = {ch1, ch2}
  Requests = {rq1}
  Operations = {"quarantine", "restore", "decommission", "rotate"}
  MaxChanges = 4
  MaxUndos = 2
  MaxRows = 5
  None = None
INVARIANT CfgTypeOK
INVARIANT SettledFiles
INVARIANT KeptUnlessAbandoned
 
INVARIANT RowsTell
PROPERTY HonestStatus
PROPERTY ProvenCandidate
PROPERTY StoreSpec
PROPERTY LockReleased
CHECK_DEADLOCK FALSE
