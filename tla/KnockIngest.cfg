\* Two batches and a single knock, with knocks and addresses in common, sent until answered.
CONSTANTS
  b1 = b1
  b2 = b2
  s1 = s1
  k1 = k1
  k2 = k2
  k3 = k3
  oak = oak
  elm = elm
  None = None
  MaxCrashes = 2
  Posts <- MCPosts
  Batched <- MCBatched
  Payload <- MCPayload
  HashOf <- MCHashOf
SPECIFICATION KnockSpec
INVARIANTS
  KnockTypeOK
  AnsweredMeansStored
  KnockOnRecord
PROPERTY EveryPostAnswered
CHECK_DEADLOCK FALSE
