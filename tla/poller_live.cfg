SPECIFICATION FairSpec
CONSTANTS
  NoTick = NoTick
  NoMsg = NoMsg
  Ticks = {t1, t2}
  CliTicks = {}
  Msgs = {m1, m2}
  MaxHist = 3
  Budget <- LivenessFaults
PROPERTIES
  EventuallySettled
