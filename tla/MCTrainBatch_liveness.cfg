CONSTANTS
  r1 = r1
  r2 = r2
  r3 = r3
  v1 = v1
  v2 = v2
  v3 = v3
  m3 = m3
  m2 = m2
  m1 = m1
  Runs = {r1, r2}
  Ids = {m1}
  Variants = {v1, v2, v3}
  BatchSize <- SecondIsLarger
  Period = 1
  WriteQuota = 1
  TextOf <- SharedText
  None = None
SPECIFICATION FairSpec
INVARIANT CommittedExperienceKept
PROPERTIES
  EveryRunEnds
  ImplementsLedger
