SPECIFICATION Spec
CONSTANTS
  NoTick = NoTick
  NoMsg = NoMsg
  Ticks = {t1}
  CliTicks = {}
  Msgs = {m1, m2}
  MaxHist = 5
  Budget <- TouchOnly
INVARIANTS
  NoMessageLost
