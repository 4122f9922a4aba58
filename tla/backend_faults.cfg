SPECIFICATION FairSpec
CONSTANTS
  a = a
  b = b
  i = i
  j = j
  Names = {a, s}
  Inodes = {r, i}
  RootIno = r
  MaxDepth = 1
  InitTree <- EmptyTree
  InitNode <- EmptyNode
  Threads = {t}
  Ops <- Procedures
  Handles <- PairHandles
  makeFHandle <- PairHandle
  NoHandle = NoHandle
  NoInode = NoInode
  Silly = {s}
  writeaccess = TRUE
  Faults = {"EIO", "EACCES"}
INVARIANTS ReplyTellsEffect
PROPERTIES Implements 
CHECK_DEADLOCK FALSE
