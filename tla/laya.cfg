SPECIFICATION Spec
CONSTANTS
  m1 = m1
  m2 = m2
  Mails = {m1, m2}
  NoRow = NoRow
  Calls <- MCCalls
  MaxWorkers = 2
  Dict <- DictV1
  TaxonomyVersion = "v1"
  Answers = {"survey", "gibberish"}
  Outages = {"timeout"}
  ModelVersions = {1}
  MaxRestarts = 1
  Order <- MCOrder
  Current <- MCCurrent
  Earlier <- MCEarlier
  Old = {m1}
  Menu = {"survey"}
  Broken = Broken
  NoVerdict = NoVerdict
  Nobody = Nobody
  FlushEvery = 2
  MaxErrors = 2
  TrainCap = 1
  MaxRuns = 2
  MaxVerdicts = 2
  MaxFetchErrors = 2
INVARIANTS
  TypeOK
  SlotsConserved
PROPERTIES
  HonestTest
CHECK_DEADLOCK FALSE
