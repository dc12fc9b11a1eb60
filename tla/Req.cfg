CONSTANTS
  Pipes = {p1, p2}
  MaxRequests = 3
SPECIFICATION FairSpec
INVARIANTS Sound SentToLive
PROPERTIES RequestAnswered StopCompletes
CHECK_DEADLOCK FALSE
