SPECIFICATION FairSpec
CONSTANTS
  Servers = {s1, s2}
  Port <- OwnPort
  pmapregister = TRUE
  MaxStarts = 2
  MaxFiles = 1
  ReplyStats <- SomeReplies
INVARIANTS TypeOK LastStartNamed
 
CHECK_DEADLOCK FALSE
