SPECIFICATION PipelineSpec
CONSTANTS
  s1 = s1
  n1 = n1
  n2 = n2
  w1 = w1
  r1 = r1
  r2 = r2
  k1 = k1
  k2 = k2
  NoSend = NoSend
  NoWorker = NoWorker
  NoCallback = NoCallback
  NoId = NoId
  Undated = Undated
  Instants = {1}
  Sends = {s1}
  Workers = {w1}
  Nodes = {n1, n2}
  Chains <- MCChains
  MaxAttempts = 2
  JobAttempts = 2
  MaxStalled = 1
  FaultBudget <- NoFaults
  Requests = {r1}
  Callbacks <- EarlyReports
  WebhookDelays = 3
  ConsoleFaultBudget = 0
PROPERTY DeliveredIsFinal
CHECK_DEADLOCK FALSE
