SPECIFICATION Spec
CONSTANTS
  a = a
  b = b
  i = i
  j = j
  Names = {a, b}
  Inodes = {r, i}
  RootIno = r
  MaxDepth = 1
  InitTree <- LinkedTree
  InitNode <- FileNode
  Threads = {t, u}
  Ops <- RaceOps
  Handles <- WeakHandles
  makeFHandle <- WeakHandle
  NoHandle = NoHandle
  NoInode = NoInode
  Silly = {}
  writeaccess = TRUE
  Faults = {}
 
PROPERTIES DataKept Implements
CHECK_DEADLOCK FALSE
SYMMETRY TwoThreads
