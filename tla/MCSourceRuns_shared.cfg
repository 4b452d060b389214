CONSTANTS
  r1 = r1
  r2 = r2
  m1 = m1
  m2 = m2
  m3 = m3
  v1 = v1
  Runs = {r1, r2}
  Ids = {m1}
  Variants = {v1}
  BatchSize <- FirstIsLarger
  Period = 3
  WriteQuota = 1
  TextOf <- OneText
  None = None
SPECIFICATION SourceSpec
SYMMETRY Symmetry
INVARIANT SharedProposalsAreReplays
