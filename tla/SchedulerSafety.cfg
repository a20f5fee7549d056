CONSTANTS
  a = a  b = b  c = c
  t1 = t1  t2 = t2  t3 = t3
  None = None
  WorkspaceOf <- MCWorkspaceOf
  TargetOrder <- MCTargetOrder
  Keys = {a, b, c}
  Blocks = {c}
  Concurrency = 2
  Threads = {t1, t2, t3}
  MaxHints = 1
  Priorities = {}
  Handlers = {"h1"}
  Periodic = {}
  MaxChanges = 1
SPECIFICATION Spec
INVARIANTS OneJobPerKey SessionExclusive NoRequestLost
SYMMETRY ThreadSymmetry
