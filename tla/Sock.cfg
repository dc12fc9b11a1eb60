CONSTANTS
  Threads = {t1, t2, t3}
  MaxEid = 2
SPECIFICATION FairSpec
INVARIANTS Sound
PROPERTIES ImplementsGlobal CloseTerminates EndpointFreed
