SPECIFICATION Spec
CONSTANTS
  Calls <- MCTwo
  Events <- MCNoEvents
  MaxTry = 2
  MaxFaults = 3
  SyncConnectMayFail = TRUE
  SyncWriteMayFail = TRUE
  UseAuth = FALSE
INVARIANTS TypeOK PendingUndecided NoOrphan FifoOnce
PROPERTIES ImplementsRpcCall QueueKept
