SPECIFICATION Spec
CONSTANTS
  NoTick = NoTick
  NoMsg = NoMsg
  Ticks = {t1, t2}
  CliTicks = {}
  Msgs = {m1, m2}
  MaxHist = 4
  Budget <- OrdinaryFaults
SYMMETRY SymMsgs
INVARIANTS
  TypeOK
  NoKeyCollision
  ProcessedWasHandled
PROPERTIES
  CursorMonotone
  OkTickDrained
