CONSTANTS
  Recipients = {"a", "b"}
  Searched = {"a"}
  InitialRows <- MCInitialRows
  PageSize = 2
  MaxSends = 4
  MaxPage = 2
  MaxLogins = 2
  MaxVisits = 1
  MaxEvents = 3
  MaxMishaps = 1
SPECIFICATION Spec
INVARIANTS
  TypeOK
  ShowsWhatItSays
  NoSendSkipped
  SessionIsTrue
  EventsAreOfSelected
CHECK_DEADLOCK FALSE
