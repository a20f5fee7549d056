CONSTANTS
  f1 = f1  f2 = f2  o1 = o1
  pRoot = pRoot  pSub = pSub  pOther = pOther
  root = root  sub = sub
  textA = textA  textB = textB  blank = blank  huge = huge
  None = None
  Root = root
  DirOf <- MCDirOf
  NewIdOf <- MCNewIdOf
  SizeOf <- MCSizeOf
  Supported <- MCSupported
  Limit = 5
  Files = {f1}
  LegacyIds = {}
  Paths = {pRoot, pOther}
  Dirs = {root}
  Contents = {textA, textB, blank, huge}
  Textless = {blank}
  InitialTrees <- OneFile
  Upgraded = {FALSE}
  ListedIds = {TRUE}
  FaultKinds = {"listing", "read", "online only", "stop"}
  MaxFaults = 2
  MaxChanges = 3
SPECIFICATION Spec
INVARIANTS ChunksMatchHash
