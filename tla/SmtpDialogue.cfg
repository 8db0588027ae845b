SPECIFICATION Spec
CONSTANTS
  Clients = {"dispatch", "probe"}
  Refusals = {421, 451, 550}
  MaxEnvelopes = 3
  FaultBudget <- OneOfEach
INVARIANTS TypeOK OneMailPerDialogue PermanentIsUntaken
PROPERTY AcceptedArrives
CHECK_DEADLOCK FALSE
