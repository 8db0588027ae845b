SPECIFICATION FairSpec
CONSTANTS
  s1 = s1
  s2 = s2
  n1 = n1
  n2 = n2
  w1 = w1
  w2 = w2
  NoSend = NoSend
  NoWorker = NoWorker
  Nodes = {n1, n2}
  Chains <- MCChains
  MaxAttempts = 2
  MaxStalled = 1
  Sends = {s1}
  Workers = {w1}
  JobAttempts = 1
  FaultBudget <- NoFaults
INVARIANT DeferredHasRetry
CHECK_DEADLOCK FALSE
