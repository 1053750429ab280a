SPECIFICATION EngineSpec
CONSTANTS
  Workers = {w1, w2}
  NumTasks = 5
  None = None
  i1 = i1
  i2 = i2
  l1 = l1
  v1 = v1
  v2 = v2
  v3 = v3
  amd = amd
  arm = arm
  Images = {i1, i2}
  Lists = {l1}
  Rules <- MCRules
  EntriesOf <- MCEntriesOf
INVARIANTS
  MirroredSoFar
  PlansFiltered
  PublishedMeansCopied
  CountersTell
PROPERTIES
  KeepsClosed
  EngineReturns
  NoLeak
CHECK_DEADLOCK FALSE
