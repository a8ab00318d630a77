SPECIFICATION FairSpec
CONSTANTS
  Conns <- MCConns
  Calls <- MCCalls
  ConnOf <- MCConnOf
  AppCalls <- MCAppCalls
  Closers <- MCClosers
  WorkerNum = 2
INVARIANTS AnswersInOrder MonitorAgrees CallKept
PROPERTIES ImplementsService CallsAnswered CloseTold
