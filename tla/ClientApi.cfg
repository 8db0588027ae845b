SPECIFICATION Spec
CONSTANTS
  k1 = k1
  k2 = k2
  r1 = r1
  r2 = r2
  a1 = a1
  Keys = {k1, k2}
  Requests = {r1, r2}
  Admins = {a1}
  NoKey = NoKey
  None = None
  FaultBudget <- OneOfEach
SYMMETRY Symmetry
INVARIANTS
  TypeOK AnswerMatchesRows RevokedKeyCreatesNothing CallbackStaysWithKey
  DeletedKeyLeavesNothing
CHECK_DEADLOCK FALSE
