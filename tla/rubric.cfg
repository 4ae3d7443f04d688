SPECIFICATION Spec
CONSTANTS
  c1 = c1
  c2 = c2
  t1 = t1
  x = x
  y = y
  coding = coding
  design = design
  b1 = b1
  b2 = b2
  Stack = {1, 2}
  Competency = {c1, c2}
  Topic = {t1}
  BlockId = {b1, b2}
  BadBlockId = BadBlockId
  BlockName = {coding, design}
  BlockIdOf <- Slugs
  NoCell = NoCell
  NoParent = NoParent
  j1 = j1
  j2 = j2
  Job = {j1, j2}
  NextPayloads <- PushEdits
  Workbooks <- AllWorkbooks
  NoWorkbook = NoWorkbook
  MaxPushes = 3
  MaxSeeds = 3
INVARIANTS
  IdsAreForever
  TreeIsTheWorkbook
  EveryVersionIsAudited
  DestructiveIsAccounted
  SnapshotIsWhole
SYMMETRY Symmetry
CHECK_DEADLOCK FALSE
