SPECIFICATION FairSpec
CONSTANTS
  s1 = s1
  r1 = r1
  r2 = r2
  k1 = k1
  NoCallback = NoCallback
  NoId = NoId
  Undated = Undated
  Instants = {1, 2}
  Sends = {s1}
  Requests = {r1, r2}
  Callbacks <- MCCallbacks
  WebhookDelays = 1
  FaultBudget = 1
INVARIANTS
  TypeOK OutcomeIsBacked OnePostPerEvent AckedResultIsShown
  
PROPERTIES
   EveryResultLands
