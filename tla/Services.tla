------------------------------ MODULE Services ------------------------------
(***************************************************************************)
(* The components around the allocator's core, checked side by side: an    *)
(* initial state picks one part, and only that part takes steps, so their  *)
(* state spaces add up instead of multiplying.  The variables of the other *)
(* parts are 0, except those of LowLevelAlloc, whose refinement property   *)
(* is evaluated in every state.                                            *)
(***************************************************************************)
EXTENDS Integers

CONSTANTS
  \* HeapProfiler
  HpThreads, Controller, kHookListMaxValues, HpPrograms, HpSizes,
  AllocInterval, FreeInterval, InuseInterval, HpMaxAllocs,
  \* LowLevelAlloc
  LlaThreads, LlaRequests, LlaMemory, LlaPage, EmergencySize, ArenaUnits,
  kMaxLevel,
  \* Profiler
  PfStacks, Depth, Bucket, kBuckets, kAssociativity, kBufferLength, NoStack,
  Threads, Tokens, None, Environments, SwitchAnywhere,
  \* DebugAlloc
  DbgThreads, DbgBlocks, DbgWeight, kFreeQueueSize, EntriesSize,
  MaxFreeQueueSize, DbgCalls,
  \* Malloc
  MThreads, MPages, MRequests, MAligns, MCounts, SizeLimit, HashSlots, MaxLive,
  \* MallocStats
  StChunks, NumClasses, StThreads, StPage, StRequests, MaxMoves, MaxReleases,
  \* HeapSampling
  SpThreads, Samplers, SpSizes, SpPeriods, Gaps, OffGap, Stacks, MaxObjects,
  MaxReads,
  \* SizeMap
  Builds,
  \* SystemAlloc
  SaSetups, SaSizes, SaAligns, BrkStart, BrkTop, MmapTop, NativePage, BigPage,
  MetaChunk, MetaAlign, AllocIncrement, ObjectSize, MaxAddress, MaxForeign,
  MaxGrants, MaxObjs,
  \* PageMap
  PmBits, PmPages, PmLengths,
  \* PackedCache
  kHashbits, kValuebits, ClearWord, PcKeys, PcValues,
  \* AddressMap
  AmKeys, AmSizes, AmTop, kBlockSize, kClusterBlocks, kHashSize, ALLOC_COUNT,
  AmMaxLive,
  \* TextIO
  TxFormats, TxMems, kSize, ChunkBuffer, ChunkHeader, TxLength, BufSize,
  TxInputs,
  \* Unwinder
  UwWalker, UwCheckers, UwAddrs, UwPageWords, UwReadable, CurrentFrame,
  kTooSmallAddr, kFrameSizeThreshold, UwDepths, UwSkips, PipeSize,
  \* LargeReport
  LrThreads, LrSettings, LrPages, SizeBits, IntBits, LrPageShift,
  \* ForkLocks
  FkThreads, FkClasses, FkCalls, MaxForks,
  \* InstructionLength
  DisModes, DisModrm, DisSib,
  \* PreamblePatcher
  PpCode, PpFunctions, PpHooks, PpBase, PpTaken, MaxRel, PpGranularity,
  PpPageSize, PpStubSize, MaxHooked, MaxPatches,
  \* PatchFunctions
  PfThreads, PfModules, PfLibc, PfStart, PfSlots, MaxLoads

VARIABLES
  part,  \* the component this behaviour exercises
  \* HeapProfiler
  hooks, hp, heapObj, hpPc,
  \* LowLevelAlloc
  lla, llaPc,
  \* Profiler
  env, holder, blocked, callbacks, live, callback_count, token, timer,
  collector, adding, taken, started, stack, calls, interrupts,
  \* DebugAlloc
  flags, allocMap, header, place, freeQueue, queueSize, dbgPc, mistake, fatal,
  \* Malloc
  spans, sizeCache, freeObjs, liveObjs, mPc,
  \* MallocStats
  chunkAt, stat, release,
  \* HeapSampling
  period, sampler, sampled, growth, reads, spPc,
  \* SizeMap
  build, classes, mapping,
  \* SystemAlloc
  setup, owner, brk, hint, failed, huge, grants, systemTaken, metaChunk, objs,
  foreign, saPc,
  \* PageMap
  pm, pmRef,
  \* PackedCache
  pcArray, pcRef,
  \* AddressMap
  amTable, amBlocks, amEntries, amFree, amRef,
  \* TextIO
  wr, rd,
  \* Unwinder
  platform, readable, checkAddress, pipe, check, walk,
  \* LargeReport
  setting, threshold, lrPc, reports,
  \* ForkLocks
  held, fkPc, child, forks,
  \* InstructionLength
  insn, decoded,
  \* PreamblePatcher
  ppMem, ppPages, ppHooked, ppUnhooked,
  \* PatchFunctions
  loaded, jumps, chained, libcs, lastLoaded, skipped, mainPatched, enumFailed,
  loads, pfPc

HP == INSTANCE HeapProfiler
LLA == INSTANCE LowLevelAlloc
PF == INSTANCE Profiler WITH Stacks <- PfStacks
DBG == INSTANCE DebugAlloc
M == INSTANCE Malloc
ST == INSTANCE MallocStats
SP == INSTANCE HeapSampling
SM == INSTANCE SizeMap
SA == INSTANCE SystemAlloc
PM == INSTANCE PageMap
PC == INSTANCE PackedCache
AM == INSTANCE AddressMap
TX == INSTANCE TextIO
UW == INSTANCE Unwinder
LR == INSTANCE LargeReport
FK == INSTANCE ForkLocks
DIS == INSTANCE InstructionLength
PP == INSTANCE PreamblePatcher
WIN == INSTANCE PatchFunctions

HPvars == <<hooks, hp, heapObj, hpPc>>
LLAvars == <<lla, llaPc>>
PFvars == <<env, holder, blocked, callbacks, live, callback_count, token,
           timer, collector, adding, taken, started, stack, calls,
           interrupts>>
DBGvars == <<flags, allocMap, header, place, freeQueue, queueSize, dbgPc,
           mistake, fatal>>
Mvars == <<spans, sizeCache, freeObjs, liveObjs, mPc>>
STvars == <<chunkAt, stat, release>>
SPvars == <<period, sampler, sampled, growth, reads, spPc>>
SMvars == <<build, classes, mapping>>
SAvars == <<setup, owner, brk, hint, failed, huge, grants, systemTaken,
           metaChunk, objs, foreign, saPc>>
PMvars == <<pm, pmRef>>
PCvars == <<pcArray, pcRef>>
AMvars == <<amTable, amBlocks, amEntries, amFree, amRef>>
TXvars == <<wr, rd>>
UWvars == <<platform, readable, checkAddress, pipe, check, walk>>
LRvars == <<setting, threshold, lrPc, reports>>
FKvars == <<held, fkPc, child, forks>>
DISvars == <<insn, decoded>>
PPvars == <<ppMem, ppPages, ppHooked, ppUnhooked>>
WINvars == <<loaded, jumps, chained, libcs, lastLoaded, skipped,
           mainPatched, enumFailed, loads, pfPc>>

HPOff ==
  /\ hooks = 0 /\ hp = 0 /\ heapObj = 0 /\ hpPc = 0
LLAOff == LLA!LlaInit /\ lla.kind = "default"
PFOff ==
  /\ env = 0 /\ holder = 0 /\ blocked = 0 /\ callbacks = 0 /\ live = 0
  /\ callback_count = 0 /\ token = 0 /\ timer = 0 /\ collector = 0
  /\ adding = 0 /\ taken = 0 /\ started = 0 /\ stack = 0 /\ calls = 0
  /\ interrupts = 0
DBGOff ==
  /\ flags = 0 /\ allocMap = 0 /\ header = 0 /\ place = 0 /\ freeQueue = 0
  /\ queueSize = 0 /\ dbgPc = 0 /\ mistake = 0 /\ fatal = 0
MOff ==
  /\ spans = 0 /\ sizeCache = 0 /\ freeObjs = 0 /\ liveObjs = 0 /\ mPc = 0
STOff ==
  /\ chunkAt = 0 /\ stat = 0 /\ release = 0
SPOff ==
  /\ period = 0 /\ sampler = 0 /\ sampled = 0 /\ growth = 0 /\ reads = 0
  /\ spPc = 0
SMOff ==
  /\ build = 0 /\ classes = 0 /\ mapping = 0
SAOff ==
  /\ setup = 0 /\ owner = 0 /\ brk = 0 /\ hint = 0 /\ failed = 0
  /\ huge = 0 /\ grants = 0 /\ systemTaken = 0 /\ metaChunk = 0
  /\ objs = 0 /\ foreign = 0 /\ saPc = 0
PMOff ==
  /\ pm = 0 /\ pmRef = 0
PCOff ==
  /\ pcArray = 0 /\ pcRef = 0
AMOff ==
  /\ amTable = 0 /\ amBlocks = 0 /\ amEntries = 0 /\ amFree = 0
  /\ amRef = 0
TXOff ==
  /\ wr = 0 /\ rd = 0
UWOff ==
  /\ platform = 0 /\ readable = 0 /\ checkAddress = 0 /\ pipe = 0
  /\ check = 0 /\ walk = 0
LROff ==
  /\ setting = 0 /\ threshold = 0 /\ lrPc = 0 /\ reports = 0
FKOff ==
  /\ held = 0 /\ fkPc = 0 /\ child = 0 /\ forks = 0
DISOff ==
  /\ insn = 0 /\ decoded = 0
PPOff ==
  /\ ppMem = 0 /\ ppPages = 0 /\ ppHooked = 0 /\ ppUnhooked = 0
WINOff ==
  /\ loaded = 0 /\ jumps = 0 /\ chained = 0 /\ libcs = 0 /\ lastLoaded = 0
  /\ skipped = 0 /\ mainPatched = 0 /\ enumFailed = 0 /\ loads = 0
  /\ pfPc = 0

Parts == {"heap profiler", "low level alloc", "cpu profiler",
          "debug allocator", "malloc", "statistics", "sampling",
          "size classes", "system memory", "page map",
          "packed cache", "address map", "text", "unwinder",
          "large reports", "fork", "disassembler",
          "preamble patcher", "module patcher"}

Init ==
  /\ part \in Parts
  /\ IF part = "heap profiler" THEN HP!HpInit ELSE HPOff
  /\ IF part = "low level alloc" THEN LLA!LlaInit ELSE LLAOff
  /\ IF part = "cpu profiler" THEN PF!Init ELSE PFOff
  /\ IF part = "debug allocator" THEN DBG!DbgInit ELSE DBGOff
  /\ IF part = "malloc" THEN M!MInit ELSE MOff
  /\ IF part = "statistics" THEN ST!StInit ELSE STOff
  /\ IF part = "sampling" THEN SP!SpInit ELSE SPOff
  /\ IF part = "size classes" THEN SM!SmInit ELSE SMOff
  /\ IF part = "system memory" THEN SA!SaInit ELSE SAOff
  /\ IF part = "page map" THEN PM!PmInit ELSE PMOff
  /\ IF part = "packed cache" THEN PC!PcInit ELSE PCOff
  /\ IF part = "address map" THEN AM!AmInit ELSE AMOff
  /\ IF part = "text" THEN TX!TxInit ELSE TXOff
  /\ IF part = "unwinder" THEN UW!UwInit ELSE UWOff
  /\ IF part = "large reports" THEN LR!LrInit ELSE LROff
  /\ IF part = "fork" THEN FK!FkInit ELSE FKOff
  /\ IF part = "disassembler" THEN DIS!DisInit ELSE DISOff
  /\ IF part = "preamble patcher" THEN PP!PpInit ELSE PPOff
  /\ IF part = "module patcher" THEN WIN!PfInit ELSE WINOff

\* Everything but the state of part p.
Rest(p) ==
  /\ IF p = "heap profiler" THEN TRUE ELSE UNCHANGED HPvars
  /\ IF p = "low level alloc" THEN TRUE ELSE UNCHANGED LLAvars
  /\ IF p = "cpu profiler" THEN TRUE ELSE UNCHANGED PFvars
  /\ IF p = "debug allocator" THEN TRUE ELSE UNCHANGED DBGvars
  /\ IF p = "malloc" THEN TRUE ELSE UNCHANGED Mvars
  /\ IF p = "statistics" THEN TRUE ELSE UNCHANGED STvars
  /\ IF p = "sampling" THEN TRUE ELSE UNCHANGED SPvars
  /\ IF p = "size classes" THEN TRUE ELSE UNCHANGED SMvars
  /\ IF p = "system memory" THEN TRUE ELSE UNCHANGED SAvars
  /\ IF p = "page map" THEN TRUE ELSE UNCHANGED PMvars
  /\ IF p = "packed cache" THEN TRUE ELSE UNCHANGED PCvars
  /\ IF p = "address map" THEN TRUE ELSE UNCHANGED AMvars
  /\ IF p = "text" THEN TRUE ELSE UNCHANGED TXvars
  /\ IF p = "unwinder" THEN TRUE ELSE UNCHANGED UWvars
  /\ IF p = "large reports" THEN TRUE ELSE UNCHANGED LRvars
  /\ IF p = "fork" THEN TRUE ELSE UNCHANGED FKvars
  /\ IF p = "disassembler" THEN TRUE ELSE UNCHANGED DISvars
  /\ IF p = "preamble patcher" THEN TRUE ELSE UNCHANGED PPvars
  /\ IF p = "module patcher" THEN TRUE ELSE UNCHANGED WINvars

Next ==
  /\ UNCHANGED part
  /\ Rest(part)
  /\ \/ part = "heap profiler" /\ HP!HpNext
     \/ part = "low level alloc" /\ LLA!LlaNext
     \/ part = "cpu profiler" /\ PF!Next
     \/ part = "debug allocator" /\ DBG!DbgNext
     \/ part = "malloc" /\ M!MNext
     \/ part = "statistics" /\ ST!StNext
     \/ part = "sampling" /\ SP!SpNext
     \/ part = "size classes" /\ SM!SmNext
     \/ part = "system memory" /\ SA!SaNext
     \/ part = "page map" /\ PM!PmNext
     \/ part = "packed cache" /\ PC!PcNext
     \/ part = "address map" /\ AM!AmNext
     \/ part = "text" /\ TX!TxNext
     \/ part = "unwinder" /\ UW!UwNext
     \/ part = "large reports" /\ LR!LrNext
     \/ part = "fork" /\ FK!FkNext
     \/ part = "disassembler" /\ DIS!DisNext
     \/ part = "preamble patcher" /\ PP!PpNext
     \/ part = "module patcher" /\ WIN!PfNext

Spec == Init /\ [][Next]_<<part, HPvars, LLAvars, PFvars, DBGvars, Mvars,
                           STvars, SPvars, SMvars, SAvars, PMvars, PCvars,
                           AMvars, TXvars, UWvars, LRvars, FKvars,
                           DISvars, PPvars, WINvars>>
-----------------------------------------------------------------------------
\* The heap profile records the objects the program has, and its totals
\* agree with its records (heap-profiler.cc, heap-profile-table.cc).
ProfileMatchesHeap == part = "heap profiler" => HP!ProfileMatchesHeap

\* A hook that stays installed is called by every traversal that starts
\* while it is (malloc_hook.cc).
HooksSeen == part = "heap profiler" => HP!HooksSeen

\* A LowLevelAlloc arena is tiled exactly by its free and its allocated blocks,
\* and behaves as an allocator of disjoint blocks (base/low_level_alloc.cc).
ArenaSound == part = "low level alloc" => LLA!ArenaSound
ImplementsArena == LLA!ImplementsArena

\* Nobody uses the CPU profiler's collector or a callback while it is
\* being changed, and between calls profiling is all on or all off
\* (profile-handler.cc).
SamplingExclusive == part = "cpu profiler" => PF!SamplingExclusive

\* Every sample reaches the CPU profile once (profiledata.cc).
ProfileComplete == part = "cpu profiler" => PF!ProfileComplete

\* No threads and no signal handlers wait for each other (profiler.cc).
NoCircularWait == part = "cpu profiler" => PF!NoCircularWait

\* The queue of freed blocks stays within its bounds although its lock is
\* dropped while blocks are handed back (debugallocation.cc).
FreeQueueBounded == part = "debug allocator" => DBG!FreeQueueBounded



\* Every object is as long and as aligned as asked for and apart from the
\* others (tcmalloc.cc).
UsableSizesRight == part = "malloc" => M!UsableSizesRight


\* Sampling counts every byte once, loses no growth record and reports whole
\* dumps (sampler.h, static_vars.h, stack_trace_table.cc); a backtrace reads
\* readable memory only and follows the frames (stacktrace_generic_fp-inl.h,
\* check_address-inl.h).
SamplingSound ==
  /\ part = "sampling" => SP!SamplingSound
  /\ part = "unwinder" => UW!UnwindSound


\* Size classes and their lookup table agree on every size (common.cc).
SizeClassesSound == part = "size classes" => SM!SizeClassesSound

\* Memory taken from the system is aligned, large enough, disjoint and
\* nobody else's (system-alloc.cc, memfs_malloc.cc, common.cc).
SystemMemorySound == part = "system memory" => SA!SystemMemorySound

\* The page map, its cache and the heap profiler's address map answer as the
\* plain maps they stand for (pagemap.h, packed-cache-inl.h, addressmap-inl.h).
LookupsExact ==
  /\ part = "page map" => PM!PageMapExact
  /\ part = "packed cache" => PC!PackedCacheExact
  /\ part = "address map" => AM!AddressMapExact




\* Every loaded C library is patched, and original functions are called
\* in modules still loaded (windows/patch_functions.cc).
LibrariesHooked == part = "module patcher" => WIN!LibrariesHooked
=============================================================================
