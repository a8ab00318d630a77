SPECIFICATION FairSpec
CONSTANTS
  Calls <- MCCalls
  Notes <- MCNotes
  AsyncCalls <- MCAsync
  ReconnectLimit = 2
  Timeout = 1
INVARIANTS OneStream FutureKept WakeupIsDue
PROPERTIES ImplementsRpcCall JoinReturns NotifyReturns
CHECK_DEADLOCK FALSE
