SPECIFICATION Spec
CONSTANTS
  Conns <- MCConns
  Calls <- MCCalls
  ConnOf <- MCConnOf
  AppCalls <- MCAppCalls
  Closers <- MCClosers
  WorkerNum = 2
INVARIANTS HandlerHasPeer
