SPECIFICATION FairSpec
CONSTANTS
  Replicas = {a}
  Host = Host
  Slots = {q1, q2}
  NoSlot = NoSlot
  PoolSize = 2
  Flows = {1}
  MaxJobs = 5
  MaxFaults = 1
  NoFlow = NoFlow
  NoToken = NoToken
  Torn = Torn
INVARIANTS
  TypeOK
  SingleUse
  NewestPageWorks
PROPERTIES
  SuccessIsInstalled
  EveryRequestAnswered
CHECK_DEADLOCK FALSE
