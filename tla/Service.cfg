SPECIFICATION SvcSpec
CONSTANTS
  u1 = u1
  pid1 = pid1
  pid2 = pid2
  pid3 = pid3
  Users = {u1}
  Sup = Sup
  Pids = {pid1, pid2, pid3}
  NoPid = NoPid
  NoAge = NoAge
  StableAfter = 2
  BackoffBase = 1
  BackoffMax = 2
  FailCap = 3
  Scenes <- MCScenes
INVARIANT SvcTypeOK
INVARIANT OneCopy
INVARIANT StoppedStaysDown
PROPERTY FailuresWiden
PROPERTY Recovered
