SPECIFICATION Spec
CONSTANTS
  None = None
  Exps = {e1, e2}
  Pages = {1, 2}
  Passes = {s1, s2}
  Titles = {"t2"}
  LongTitle = "long"
  Unknown = "unknown"
  e1 = e1
  e2 = e2
  Extracted <- FullAndBare
  Given <- FirstMirrored
  JPY = JPY
  EUR = EUR
  Labelled = {JPY}
  MaxClock = 3
  MaxEdits = 1
  Failures <- OneFailure
INVARIANTS
  TypeOK
  CursorCovers
  OnlyPeopleCorrect
  PassPullsAll
SYMMETRY Pullers
CHECK_DEADLOCK FALSE
