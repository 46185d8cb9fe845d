SPECIFICATION Spec
CONSTANTS
  s1 = s1
  s2 = s2
  s3 = s3
  Stacks = {s1, s2, s3}
  Depth <- ConstDepth
  Bucket <- ConstBucket
  kBuckets = 1
  kAssociativity = 2
  kBufferLength = 7
  NoStack = NoStack
  Threads = {t1, t2}
  Tokens = {k1}
  None = None
  Environments <- Signalled
  SwitchAnywhere = TRUE
INVARIANT NoCircularWait
CHECK_DEADLOCK FALSE
