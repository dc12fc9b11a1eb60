SPECIFICATION FairSpec
CONSTANTS
  Threads = {"t1", "t2"}
  Rounds = 2
  Messages = 2
  Replies = 1
  MaxMem = 3
INVARIANTS Sound NoMessageLost NoLostWakeup
PROPERTIES StopCompletes
CHECK_DEADLOCK FALSE
