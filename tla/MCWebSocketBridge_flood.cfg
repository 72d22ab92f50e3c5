SPECIFICATION FairSpec
CONSTANTS
  Peers = {"worker", "proxy"}
  Capacity = 2
  Burst = 2
  MaxIn = 4
  MaxOut = 3
PROPERTY ShutdownEnds
CHECK_DEADLOCK FALSE
