SPECIFICATION FairSpec
CONSTANTS
  t1 = t1  t2 = t2  c1 = c1  c2 = c2  s1 = s1  s2 = s2
  Threads = {t1, t2}
  NoThread = NoThread
  Classes = {c1, c2}
  NoClass = NoClass
  Spans = {s1, s2}
  NoSpan = NoSpan
  ObjectsPerSpan <- ConstObjects
  NumObjectsToMove <- ConstBatch
  MaxCacheSize <- ConstMax
  InitialCacheSize = 1
INVARIANTS
  ObjectsAccounted SlotBounds NoNestedLocks
PROPERTIES CallsDrain
