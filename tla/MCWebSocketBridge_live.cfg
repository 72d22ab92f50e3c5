SPECIFICATION FairSpec
CONSTANTS
  Peers = {"worker", "proxy"}
  Capacity = 2
  Burst = 2
  MaxIn = 4
  MaxOut = 3
INVARIANTS
  MessagesConserved
  CloseIsLast
  DeadlockNeedsFlood
PROPERTY SeveredEnds
CHECK_DEADLOCK FALSE
