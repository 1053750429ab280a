SPECIFICATION Spec
CONSTANTS
  g1 = g1
  g2 = g2
  c1 = c1
  c2 = c2
  n1 = n1
  n2 = n2
  Registries = {g1, g2}
  Tasks = {t1, t2}
  Channels = {c1, c2}
  Names = {n1, n2}
  Passwords = {p1}
  Handlers = {h1}
  Runs = {r1}
  None = None
  Present <- MCPresent
  Bodies <- MCBodies
  MaxEdits = 2
INVARIANTS
  ScheduleAsAsked
CHECK_DEADLOCK FALSE
