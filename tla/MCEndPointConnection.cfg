SPECIFICATION Spec
CONSTANTS
  Calls <- MCTwo
  Events <- MCEvents
  MaxTry = 2
  MaxFaults = 2
  SyncConnectMayFail = TRUE
  SyncWriteMayFail = FALSE
  UseAuth = TRUE
INVARIANTS NoLostWakeup
  AuthNotLost
PROPERTIES HandleLifeCycle
