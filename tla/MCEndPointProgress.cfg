SPECIFICATION FairSpec
CONSTANTS
  Calls <- MCTwo
  Events <- MCNoEvents
  MaxTry = 2
  MaxFaults = 2
  SyncConnectMayFail = TRUE
  SyncWriteMayFail = FALSE
  UseAuth = FALSE
PROPERTIES EveryCallSettles QueueDrains Reconnects
