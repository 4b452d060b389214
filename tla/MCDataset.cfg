CONSTANTS
  b1 = b1
  b2 = b2
  r1 = r1
  r2 = r2
  t1 = t1
  t2 = t2
  t3 = t3
  t4 = t4
  g1 = g1
  g2 = g2
  Memories <- MCMemories
  Groups = {g1, g2}
  Tasks = {t1, t2, t3, t4}
  Prior <- MCPrior
  Scale = 12
  Threshold = 150
  ByRule <- MCByRule
  None = None
  TeacherCap = 2
  Kappa <- MCKappa
  Redundancy = 3
  PairLimit = 1
  RunIds = {r1, r2}
  Builders = {b1, b2}
  Instances <- MCInstances
SPECIFICATION Spec
SYMMETRY Symmetry
CHECK_DEADLOCK FALSE
INVARIANTS
  HonestBuildsPass
  AuditedIsDerived
  LeftoversAreRefused
  CreditFollowsUse
  HindsightStaysHidden
PROPERTY ImplementsStore
