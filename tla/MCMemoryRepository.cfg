CONSTANTS
  t1 = t1
  t2 = t2
  t3 = t3
  p1 = p1
  p2 = p2
  a = a
  b = b
  c = c
  m = m
  tip = tip
  tool = tool
  old = old
  Threads = {t1, t2, t3}
  Processes = {p1, p2}
  ProcessOf <- Host
  Nobody = Nobody
  None = None
  Ids = {a, b, c, m}
  Tiers = {tip, tool}
  TierOf <- Tier
  Reasons = {old}
  Declared <- DeclaredOrder
  Sorted <- SortedOrder
  Batches <- TestBatches
  Rounds = {1, 2}
  Seeds <- SeedStates
  MaxCalls = 4
SPECIFICATION FairSpec
INVARIANTS
  LockDisciplined
  RetryCompletes
  RefusedNamespaceIsEmpty
PROPERTIES
  EveryCallReturns
  ImplementsAtomic
