CONSTANTS
  t1 = t1
  t2 = t2
  t3 = t3
  tip = tip
  tip2 = tip2
  wrench = wrench
  skill = skill
  Memories <- MCMemories
  Tier <- MCTier
  TotalLimit = 1
  TierLimit <- MCTierLimit
  WriteQuota <- MCWriteQuota
  None = None
  Tasks = {t1, t2, t3}
  Request <- MCRequest
  MaxSteps = 2
  Retries = 1
  Concurrency = 2
  Instances <- MCInstances
  SelectionResponses <- MCSelections
  ActionResponses <- MCActions
  WritingResponses <- MCWritings
  Evaluations <- MCEvaluations
SPECIFICATION FairSpec
CHECK_DEADLOCK FALSE
INVARIANTS
  TypeOK
  AnswersForEveryTask
  EpisodeIsOneAttempt
  UsageAddsUp
  LearnsWithinPolicy
PROPERTIES
  EveryBatchEnds
