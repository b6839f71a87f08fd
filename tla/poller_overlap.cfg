SPECIFICATION Spec
CONSTANTS
  NoTick = NoTick
  NoMsg = NoMsg
  Ticks = {t1, t2}
  CliTicks = {t2}
  Msgs = {m1, m2}
  MaxHist = 3
  Budget <- OverlapFaults
SYMMETRY SymMsgs
INVARIANTS
  NoMessageLost
  OldestFirst
PROPERTIES
  ImplementsMailQueue
