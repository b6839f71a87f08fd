SPECIFICATION FairSpec
CONSTANTS
  NoMsg = NoMsg
  None = None
  NoRow = NoRow
  Msgs = {m1, m2}
  Orders = {o1}
  Amounts = {}
  Times <- NoTimes
  Window = 1
  CalendarEnabled = FALSE
  NotionEnabled = TRUE
  Doomed <- OneDoomed
  Lag = 1
  Budget <- AllFailures
INVARIANTS
  TypeOK
  DuplicatesArePaidFor
  NothingSwallowed
PROPERTIES
  ImplementsMailHandler
  EventuallyMarked
CHECK_DEADLOCK FALSE
