SPECIFICATION Spec
CONSTANTS
  Calls <- MCCalls
  Notes <- MCNotes
  AsyncCalls <- MCAsync
  ReconnectLimit = 2
  Timeout = 1
INVARIANTS AsyncAnswered
CHECK_DEADLOCK FALSE
