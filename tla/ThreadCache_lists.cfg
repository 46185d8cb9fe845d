SPECIFICATION Spec
CONSTANTS
  t1 = t1  t2 = t2  t3 = t3  c1 = c1  c2 = c2
  None = None
  Threads = {t1, t2}
  Classes = {c1, c2}
  ObjectSize <- TwoClassSize
  Batch <- TwoClassBatch
  Objects <- TwoClassObjects
  MaxDynamic = 4
  MaxOverages = 1
  StealAmount = 2
  Tries = 2
  MaxPerThread = 4
  DefaultOverall = 4
  MinSize = 2
  MaxOverall = 8
  Overalls = {}
  Mins = {}
INVARIANTS
  ListsExact
  MaxLengthWhole
  LowWaterWithin
SYMMETRY Symmetry
