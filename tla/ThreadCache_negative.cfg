SPECIFICATION Spec
CONSTANTS
  t1 = t1  t2 = t2  t3 = t3  c1 = c1  c2 = c2
  None = None
  Threads = {t1, t2, t3}
  Classes = {c1}
  ObjectSize <- OneClassSize
  Batch <- OneClassBatch
  Objects <- OneClassObjects
  MaxDynamic = 2
  MaxOverages = 1
  StealAmount = 3
  Tries = 2
  MaxPerThread = 4
  DefaultOverall = 3
  MinSize = 1
  MaxOverall = 5
  Overalls = {0, 5}
  Mins = {1}
INVARIANT LimitsNotNegative
SYMMETRY Symmetry
