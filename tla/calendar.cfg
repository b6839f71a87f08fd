SPECIFICATION FairSpec
CONSTANTS
  Offset <- Zone
  Iana = {"UTC", "Asia/Taipei", "Asia/Tokyo"}
  UTC = "UTC"
  Taipei = "Asia/Taipei"
  DefaultZone = "Asia/Taipei"
  UtcLike = {"UTC"}
  Malformed = {"/Asia/Tokyo"}
  MinTime <- FirstMinute
  MaxTime = 10000
  Nullish = {null}
  Noise = {"Fwd:", "[Reminder]"}
  Naive = Naive
  None = None
  NoMsg = NoMsg
  Failed = Failed
  m1 = m1
  m2 = m2
  m3 = m3
  u1 = u1
  null = null
  Msgs = {m1, m2, m3}
  Mail <- Inbox
  Invited <- Sent
  Budget = 3
INVARIANTS
  TypeOK
  OneTentative
  SecondOnlyByReplay
  AccountedFor
  PlacedAsChecked
PROPERTIES
  EverySettled
CHECK_DEADLOCK FALSE
