SPECIFICATION CfgSpec
CONSTANTS
  c0 = c0
  c1 = c1
  bb = bb
  p0 = p0
  p1 = p1
  t1 = t1
  t2 = t2
  Threads = {t1, t2}
  Locals = {t1, t2}
  Configs = {c0, c1, bb}
  Prefixes = {p0, p1}
  Backbone = {bb}
  Linked = {c1}
  Drafts <- MCDrafts
  Texts = {c0, bb}
  InitFiles <- MCInitFiles
  MaxPuts = 3
  Faults = {"crash"}
  NoThread = NoThread
  Down = Down
  Torn = Torn
  NoConfig = NoConfig
INVARIANT PreviousConfigAvailable
