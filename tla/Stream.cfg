CONSTANTS
  Kinds = {"tcp", "ipc", "ws", "aws"}
SPECIFICATION FairSpec
INVARIANTS Sound NoLostWakeup
PROPERTIES KeepsPromise StopCompletes HandshakeEnds RetryComes
