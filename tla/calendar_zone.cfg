SPECIFICATION Spec
CONSTANTS
  Offset <- Zone
  Iana = {"UTC", "Asia/Taipei", "Asia/Tokyo"}
  UTC = "UTC"
  Taipei = "Asia/Taipei"
  DefaultZone = "Asia/Tokyo"
  UtcLike = {"UTC"}
  Malformed = {"/Asia/Tokyo"}
  MinTime <- FirstMinute
  MaxTime = 10000
  Nullish = {null}
  Noise = {"Fwd:", "[Reminder]"}
  Naive = Naive
  None = None
  NoMsg = NoMsg
  Failed = Failed
  m1 = m1
  m2 = m2
  m3 = m3
  u1 = u1
  null = null
  Msgs = {m1, m2, m3}
  Mail <- Inbox
  Invited <- Sent
  Budget = 1
INVARIANTS
  PlacedAsChecked
CHECK_DEADLOCK FALSE
