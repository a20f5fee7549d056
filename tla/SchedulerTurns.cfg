CONSTANTS
  a = a  b = b  c = c
  t1 = t1  t2 = t2  t3 = t3
  None = None
  WorkspaceOf <- MCWorkspaceOf
  TargetOrder <- MCTargetOrder
  Keys = {a, b, c}
  Blocks = {c}
  Concurrency = 1
  Threads = {t1, t2}
  MaxHints = 1
  Priorities = {}
  Handlers = {}
  Periodic = {a, b}
  MaxChanges = 0
SPECIFICATION FairSpec
INVARIANTS AtMostConcurrency
PROPERTIES FairTurns
