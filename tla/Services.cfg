SPECIFICATION Spec
INVARIANTS
  ProfileMatchesHeap HooksSeen ArenaSound
  SamplingExclusive ProfileComplete NoCircularWait
  FreeQueueBounded   UsableSizesRight
   SamplingSound  SizeClassesSound
  SystemMemorySound LookupsExact 
    LibrariesHooked
PROPERTY ImplementsArena
CHECK_DEADLOCK FALSE
CONSTANTS
  s1 = s1
  s2 = s2
  s3 = s3
  HpThreads = {t1, t2}
  Controller = t2
  kHookListMaxValues = 2
  HpPrograms <- ConstPrograms
  HpSizes = {1}
  AllocInterval = 2
  FreeInterval = 1
  InuseInterval = 1
  HpMaxAllocs = 2
  LlaThreads = {t1, t2}
  LlaRequests = {1, 3}
  LlaMemory = 12
  LlaPage = 4
  EmergencySize = 12
  ArenaUnits = 2
  kMaxLevel = 3
  PfStacks = {s1, s2, s3}
  Depth <- ConstDepth
  Bucket <- ConstBucket
  kBuckets = 1
  kAssociativity = 2
  kBufferLength = 7
  NoStack = NoStack
  Threads = {t1, t2}
  Tokens = {k1}
  None = None
  Environments <- Processes
  SwitchAnywhere = FALSE
  DbgThreads = {t1, t2}
  DbgBlocks = {1, 2, 3}
  DbgWeight = 2
  kFreeQueueSize = 3
  EntriesSize = 2
  MaxFreeQueueSize = 3
  DbgCalls = {"tc_malloc", "tc_free", "tc_new", "tc_delete"}
  MThreads = {t1, t2}
  MPages = 3
  MRequests = {1, 3}
  MAligns = {1, 4}
  HashSlots = 2
  MaxLive = 2
  MCounts = {1, 3, 11}
  SizeLimit = 16
  StChunks <- ConstChunks
  NumClasses = 2
  StThreads = {t1}
  StPage = 2
  StRequests = {1, 3}
  MaxMoves = 4
  MaxReleases = 2
  SpThreads = {t1, t2}
  Samplers = {t1}
  SpSizes = {2}
  SpPeriods = {0, 3}
  Gaps = {1, 3}
  OffGap = 3
  Stacks <- ConstTraces
  MaxObjects = 2
  MaxReads = 1
  Builds <- ConstBuilds
  SaSetups <- ConstSetups
  SaSizes = {1, 3, 62}
  SaAligns = {1, 4}
  BrkStart = 1
  BrkTop = 10
  MmapTop = 20
  NativePage = 2
  BigPage = 4
  MetaChunk = 5
  MetaAlign = 2
  AllocIncrement = 1
  ObjectSize = 1
  MaxAddress = 64
  MaxForeign = 1
  MaxGrants = 2
  MaxObjs = 4
  PmBits = 4
  PmPages = {3, 10, 15}
  PmLengths = {1, 6}
  kHashbits = 2
  kValuebits = 1
  ClearWord = 42
  PcKeys = {1, 5, 9, 2, 10}
  PcValues = {0, 1}
  LrThreads = {t1, t2}
  LrSettings = {9, 80}
  LrPages = {4, 31}
  SizeBits = 6
  IntBits = 12
  LrPageShift = 1
  FkThreads = {t1, t2}
  FkClasses = 2
  FkCalls = {"central", "populate", "release", "evict", "new heap", "slow tls", "GetReallySlow"}
  MaxForks = 2
  DisModes <- ConstModes
  DisModrm <- ConstModrm
  DisSib = {0, 5}
  PpCode <- ConstProgram
  PpFunctions <- ConstFunctions
  PpHooks = {1400, 9000}
  PpBase = 1024
  PpTaken = {768}
  MaxRel = 4000
  PpGranularity = 256
  PpPageSize = 128
  PpStubSize = 64
  MaxHooked = 2
  MaxPatches = 2
  PfThreads = {t1}
  PfModules = {1, 2, 3, 4}
  PfLibc = {1, 2, 3}
  PfStart = {1, 4}
  PfSlots = 2
  MaxLoads = 3
  AmKeys = {1, 2, 6, 17}
  AmSizes = {0, 9}
  AmTop = 28
  kBlockSize = 4
  kClusterBlocks = 2
  kHashSize = 2
  ALLOC_COUNT = 2
  AmMaxLive = 3
  TxFormats = {0, 1, 3}
  TxMems = {1, 5}
  kSize = 4
  ChunkBuffer = 5
  ChunkHeader = 2
  TxLength = 10
  BufSize = 4
  TxInputs <- ConstInputs
  UwWalker = t1
  UwCheckers = {t2}
  UwAddrs = {0, 6, 9, 10, 14}
  UwPageWords = 4
  UwReadable = {{1}, {1, 2}, {1, 2, 3}}
  CurrentFrame = 4
  kTooSmallAddr = 4
  kFrameSizeThreshold = 6
  UwDepths = {0, 2}
  UwSkips = {0, 1}
  PipeSize = 1
