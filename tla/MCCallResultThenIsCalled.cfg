SPECIFICATION Spec
CONSTANTS
  c1 = c1
  c2 = c2
  w1 = w1
  w2 = w2
  Calls <- MCCalls
  Workers <- MCWorkers
INVARIANTS ThenIsCalled
