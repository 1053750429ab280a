SPECIFICATION Spec
CONSTANTS
  Tasks = {t1}
  WholeProject = {}
  Execs = {e1, e2}
  Callers = {c1, c2}
  None = None
INVARIANT AtMostOneRun
