SPECIFICATION Spec
CONSTANTS
  a = a
  b = b
  i = i
  j = j
  Names = {a, s}
  Inodes = {r, i, j}
  RootIno = r
  MaxDepth = 2
  InitTree <- EmptyTree
  InitNode <- EmptyNode
  Threads = {t}
  Ops <- TreeOps
  Handles <- PairHandles
  makeFHandle <- PairHandle
  NoHandle = NoHandle
  NoInode = NoInode
  Silly = {s}
  writeaccess = TRUE
  Faults = {}
INVARIANTS TypeOK  ReplyNamesObject SillyHandleKept
PROPERTIES DropsOnlyDead RebindsOnlyDead
CHECK_DEADLOCK FALSE
CONSTRAINT FewHandles
SYMMETRY Symmetry
