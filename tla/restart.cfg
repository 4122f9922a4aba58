SPECIFICATION RestartSpec
CONSTANTS
  a = a
  b = b
  i = i
  j = j
  Names = {a}
  Inodes = {r, i}
  RootIno = r
  MaxDepth = 1
  InitTree <- FileTree
  InitNode <- FileNode
  Threads = {t}
  Ops <- RestartOps
  Handles <- PairHandles
  makeFHandle <- PairHandle
  NoHandle = NoHandle
  NoInode = NoInode
  Silly = {}
  writeaccess = TRUE
  Faults = {}
INVARIANTS OldHandlesStale
CHECK_DEADLOCK FALSE
