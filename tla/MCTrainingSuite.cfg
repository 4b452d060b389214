CONSTANTS
  act = act
  maint = maint
  sel = sel
  write = write
  q1 = q1
  q2 = q2
  Kinds = {act, maint, sel, write}
  NameOrder <- Alphabet
  Examples <- Counts
  Window = 2
  Requests = {q1, q2}
  None = None
SPECIFICATION FairSpec
INVARIANTS
  ManifestsHonest
  OneAfterAnother
  OneRequest
PROPERTIES
  BundleStable
  EventuallyPublished
