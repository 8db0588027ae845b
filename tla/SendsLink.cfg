CONSTANTS
  Recipients = {"a", "b"}
  Searched = {"a"}
  InitialRows <- MCInitialRows
  PageSize = 2
  MaxSends = 3
  MaxPage = 2
  MaxLogins = 1
  MaxVisits = 1
  MaxMishaps = 0
  MaxEvents = 2
SPECIFICATION Spec
PROPERTY UrlIsTruth
CHECK_DEADLOCK FALSE
