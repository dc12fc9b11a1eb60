CONSTANTS
  Kinds = {"tcp", "ipc", "ws"}
  Slots = {"a1", "a2", "a3"}
SPECIFICATION FairSpec
INVARIANTS Sound AlwaysAccepting
PROPERTIES StopCompletes LostIsFreed
