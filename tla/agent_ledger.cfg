SPECIFICATION Spec
CONSTANTS
  NoMsg = NoMsg
  None = None
  NoRow = NoRow
  Msgs = {m1, m2, m3}
  Orders = {o1}
  Amounts = {a1}
  Times <- ThreeTimes
  Window = 1
  CalendarEnabled = TRUE
  NotionEnabled = FALSE
  Doomed <- NoneDoomed
  Lag = 0
  Budget <- CrashOnly
SYMMETRY SymMsgs
INVARIANTS
  LoggedIsRecorded
  NoDoubleBooking
CHECK_DEADLOCK FALSE
