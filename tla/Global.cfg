CONSTANTS
  MaxSockets = 2
  Threads = {t1, t2, t3}
SPECIFICATION FairSpec
INVARIANTS Registry HoldKeepsSocket
PROPERTIES CloseReturns InitWaiterWoken
