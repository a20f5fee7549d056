CONSTANTS
  f1 = f1  f2 = f2  o1 = o1
  pRoot = pRoot  pSub = pSub  pOther = pOther
  root = root  sub = sub
  textA = textA  textB = textB  blank = blank  huge = huge
  None = None
  Root = root
  DirOf <- MCDirOf
  NewIdOf <- MCNewIdOf
  SizeOf <- MCSizeOf
  Supported <- MCSupported
  Limit = 5
  Files = {f1, f2}
  LegacyIds = {}
  Paths = {pRoot, pSub}
  Dirs = {root, sub}
  Contents = {textA, textB}
  Textless = {}
  InitialTrees <- TwoFiles
  Upgraded = {FALSE}
  ListedIds = {TRUE}
  FaultKinds = {"listing", "crash"}
  MaxFaults = 1
  MaxChanges = 2
SPECIFICATION Spec
INVARIANTS ChunksHaveLiveRows SettledLedgerIsTrue
PROPERTIES NeverDropsAPresentFile
