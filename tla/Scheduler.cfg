SPECIFICATION FairSpec
CONSTANTS
  Tasks = {t1, t2}
  WholeProject = {t1}
  Execs = {e1, e2}
  Callers = {c1, c2}
  None = None
INVARIANTS
  TypeOK
  EntryIsLive
  SerialisedRuns
  RunningIsLiveOrLost
PROPERTIES
  KeepsLedger
  ClosesLedger
  EntryRemoved
  EarlyStopFails
