SPECIFICATION Spec
CONSTANTS
  m1 = m1
  m2 = m2
  a = a
  b = b
  Msgs = {m1, m2}
  Categories = {a, b}
  MaxTime = 3
  Importers = {i1, i2}
  Seeder = Seeder
  NoWriter = NoWriter
  NoVerdict = NoVerdict
  NoRow = NoRow
  NoMsg = NoMsg
  Answers <- MCAnswers
  Files <- MCFiles
INVARIANTS
  TypeOK
  OneTimeline
  HumanStands
  AcceptedStands
  NeverStuck
PROPERTIES
  ImplementsVersionHistory
