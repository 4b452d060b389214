CONSTANTS
  r1 = r1
  r2 = r2
  r3 = r3
  v1 = v1
  v2 = v2
  v3 = v3
  m3 = m3
  m2 = m2
  m1 = m1
  Runs = {r1, r2}
  Ids = {m1, m2, m3}
  Variants = {v1, v2}
  BatchSize <- OneTaskEach
  Period = 1
  WriteQuota = 2
  TextOf <- OwnTexts
  None = None
SPECIFICATION Spec
SYMMETRY Symmetry
INVARIANTS
  TypeOK
  SerialGenerations
  CommittedExperienceKept
  BuiltOnPredecessors
  OneCreator
  RoundsArePrefix
PROPERTIES
  NoRepeatOfCompletedRound
  NothingRegresses
