SPECIFICATION Spec
CONSTANTS
  a = a
  b = b
  i = i
  j = j
  Names = {a, s}
  Inodes = {r, i}
  RootIno = r
  MaxDepth = 1
  InitTree <- FileTree
  InitNode <- FileNode
  Threads = {t, u}
  Ops <- SillyOps
  Handles <- PairHandles
  makeFHandle <- PairHandle
  NoHandle = NoHandle
  NoInode = NoInode
  Silly = {s}
  writeaccess = TRUE
  Faults = {}
INVARIANTS SillyHandleKept
CHECK_DEADLOCK FALSE
