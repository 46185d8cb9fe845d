---------------------------- MODULE MallocStats ----------------------------
(***************************************************************************)
(* tcmalloc.cc: the figures tcmalloc reports of itself (ExtractStats and   *)
(* its users DumpStats, GetNumericProperty and mallinfo; GetFreeListSizes) *)
(* while memory moves between the program, the caches and the page heap,   *)
(* and ReleaseToSystem.                                                    *)
(*                                                                         *)
(* Memory is a set of chunks: objects of a size class, or spans of their   *)
(* own (class 0).  Abstracted: memory in spans that holds no object        *)
(* (OverheadBytes) and metadata, which every figure counts on both sides.  *)
(***************************************************************************)
EXTENDS Integers, FiniteSets, FiniteSetsExt

CONSTANTS StChunks,     \* chunk -> [cl, size]; sizes in bytes
          NumClasses,   \* size classes 1 .. NumClasses
          StThreads,    \* threads that have a cache
          StPage,       \* kPageSize
          StRequests,   \* arguments of ReleaseToSystem
          MaxMoves,     \* bound on moves during a call
          MaxReleases   \* bound on calls of ReleaseToSystem

VARIABLES chunkAt, \* chunk -> where it is
          stat,    \* the call in progress, or its result
          release  \* extra_bytes_released_, and by how much the bytes released
                   \* so far are ahead of those asked for

stVars == <<chunkAt, stat, release>>

Chunks == DOMAIN StChunks
Size(S) == MapThenSumSet(LAMBDA c : StChunks[c].size, S)
In(p) == {c \in Chunks : chunkAt[c] = p}
Bytes(p) == Size(In(p))

NoStats == [central |-> 0, transfer |-> 0, thread |-> 0, free |-> 0, unmapped |-> 0]
StatIdle == [at |-> "idle", r |-> NoStats, moved |-> 0]

StInit ==
  /\ chunkAt = [c \in Chunks |-> "free"]
  /\ stat = StatIdle
  /\ release = [extra |-> 0, ahead |-> 0, calls |-> 0]

PageHeapLocked == stat.at \in {"threads", "pageheap"} /\ stat.locked

-----------------------------------------------------------------------------
\* Memory moves.  Small objects: page heap, central list, transfer cache,
\* thread caches, program (which frees past a cache if the thread has none).
\* Larger ones: page heap, program.

Paths(cl) ==
  IF cl = 0 THEN {<<"free", "app">>, <<"unmapped", "app">>, <<"app", "free">>}
  ELSE {<<"free", "central">>, <<"unmapped", "central">>, <<"central", "free">>,
        <<"transfer", "central">>, <<"app", "central">>, <<"app", "transfer">>}
       \cup {<<a, t>> : a \in {"central", "transfer", "app"}, t \in StThreads}
       \cup {<<t, b>> : b \in {"central", "transfer", "app"}, t \in StThreads}

InPageHeap == {"free", "unmapped"}

MoveAll(S, to) ==
  /\ stat.at # "idle" => stat.moved + Size(S) <= MaxMoves
  /\ chunkAt' = [c \in Chunks |-> IF c \in S THEN to ELSE chunkAt[c]]
  /\ stat' = IF stat.at = "idle" THEN stat ELSE [stat EXCEPT !.moved = @ + Size(S)]

\* Moves to and from the page heap need its lock.
Move(c, from, to) ==
  /\ chunkAt[c] = from
  /\ {from, to} \cap InPageHeap # {} => ~PageHeapLocked
  /\ MoveAll({c}, to)
  /\ UNCHANGED release

Moves == \E c \in Chunks : \E m \in Paths(StChunks[c].cl) : Move(c, m[1], m[2])

-----------------------------------------------------------------------------
\* ExtractStats: for one class after the other the length of the central list
\* and of the transfer cache, each under the list's own lock; then, under the
\* page heap's lock, the caches and the page heap.  GetFreeListSizes does the
\* same but drops that lock in between.

ClassBytes(p, cl) == Size({c \in In(p) : StChunks[c].cl = cl})

Start(lists) ==
  /\ stat.at \in {"idle", "done"}
  /\ stat' = [at |-> "length", cl |-> 1, lists |-> lists, locked |-> FALSE,
              r |-> NoStats, moved |-> 0]
  /\ UNCHANGED <<chunkAt, release>>

ExtractStats == Start(FALSE)
GetFreeListSizes == Start(TRUE)

ReadLength ==
  /\ stat.at = "length"
  /\ stat' = [stat EXCEPT !.at = "tc_length", !.r.central = @ + ClassBytes("central", stat.cl)]
  /\ UNCHANGED <<chunkAt, release>>

AfterClass(r) ==
  IF stat.cl < NumClasses
  THEN [stat EXCEPT !.cl = @ + 1, !.at = "length", !.r = r]
  ELSE [at |-> "threads", lists |-> stat.lists, locked |-> TRUE, left |-> StThreads,
        r |-> r, moved |-> stat.moved]

ReadTransferLength ==
  /\ stat.at = "tc_length"
  /\ stat' = AfterClass([stat.r EXCEPT !.transfer = @ + ClassBytes("transfer", stat.cl)])
  /\ UNCHANGED <<chunkAt, release>>

\* GetThreadStats: one cache after the other, while their owners use them.
GetThreadStats ==
  /\ stat.at = "threads"
  /\ IF stat.left = {}
     THEN stat' = [stat EXCEPT !.at = "pageheap", !.locked = ~stat.lists]
     ELSE \E t \in stat.left :
            stat' = [stat EXCEPT !.left = @ \ {t}, !.r.thread = @ + Bytes(t)]
  /\ UNCHANGED <<chunkAt, release>>

\* StatsLocked, or GetSmallSpanStatsLocked and GetLargeSpanStatsLocked.
ReadPageHeap ==
  /\ stat.at = "pageheap"
  /\ stat' = [at |-> "done", moved |-> stat.moved,
              r |-> [stat.r EXCEPT !.free = Bytes("free"), !.unmapped = Bytes("unmapped")]]
  /\ UNCHANGED <<chunkAt, release>>

\* What is made of the figures r.  Those of the page heap alone are read under its
\* lock when they are asked for.
SystemBytes == Size(Chunks)
CurrentAllocatedBytes(r) ==
  SystemBytes - r.thread - r.central - r.transfer - r.free - r.unmapped
GetNumericProperty(name, r) ==
  CASE name = "generic.current_allocated_bytes" -> CurrentAllocatedBytes(r)
    [] name = "generic.heap_size" -> SystemBytes
    [] name = "generic.total_physical_bytes" -> SystemBytes - r.unmapped
    [] name = "tcmalloc.central_cache_free_bytes" -> r.central
    [] name = "tcmalloc.transfer_cache_free_bytes" -> r.transfer
    [] name \in {"tcmalloc.thread_cache_free_bytes", "tcmalloc.current_total_thread_cache_bytes"}
         -> r.thread
    [] name = "tcmalloc.pageheap_free_bytes" -> Bytes("free")
    [] name = "tcmalloc.pageheap_unmapped_bytes" -> Bytes("unmapped")
    [] name = "tcmalloc.slack_bytes" -> Bytes("free") + Bytes("unmapped")
PhysicalMemoryUsed(r) == SystemBytes - r.unmapped
BytesInUseByApp(r) == PhysicalMemoryUsed(r) - r.free - r.central - r.transfer - r.thread
MallInfo(r) == [arena |-> SystemBytes, fsmblks |-> r.thread + r.central + r.transfer,
                fordblks |-> r.free + r.unmapped, uordblks |-> CurrentAllocatedBytes(r)]

-----------------------------------------------------------------------------
\* ReleaseAtLeastNPages (see PageHeap): whole spans, until there are enough,
\* none is left, or the system refuses one.
ReleaseOutcomes(bytes) ==
  {S \in SUBSET In("free") : S = {} \/ \E c \in S : Size(S \ {c}) < bytes}


ReleaseToSystem(num) ==
  LET bytes == num - release.extra
      asked == [release EXCEPT !.ahead = @ - num, !.calls = @ + 1]
  IN
  IF num <= release.extra
  THEN release' = [asked EXCEPT !.extra = @ - num] /\ UNCHANGED <<chunkAt, stat>>
  ELSE \E S \in ReleaseOutcomes(Max({bytes \div StPage, 1}) * StPage) :
         /\ MoveAll(S, "unmapped")
         /\ release' = [asked EXCEPT !.ahead = @ + Size(S),
                                     !.extra = Max({Size(S) - bytes, 0})]

Release ==
  /\ ~PageHeapLocked
  /\ release.calls < MaxReleases
  /\ \E num \in StRequests : ReleaseToSystem(num)

StNext == \/ Moves \/ ExtractStats \/ GetFreeListSizes \/ ReadLength \/ ReadTransferLength \/ GetThreadStats
          \/ ReadPageHeap \/ Release

StSpec == StInit /\ [][StNext]_stVars
-----------------------------------------------------------------------------
AppBytes == Bytes("app")
Distance(a, b) == Max({a - b, b - a})

\* The program's share, put together from several properties.
Shares(r) ==
  MapThenSumSet(LAMBDA name : GetNumericProperty(name, r),
    {"tcmalloc.central_cache_free_bytes", "tcmalloc.transfer_cache_free_bytes",
     "tcmalloc.thread_cache_free_bytes", "tcmalloc.slack_bytes"})

\* The figures are taken without stopping anybody.  They say how much memory
\* the program has up to what moved during the call, exactly if nothing did,
\* and the formulas (DumpStats, GetNumericProperty, mallinfo) agree, also with
\* the page heap's figures of a moment later.
StatsOffByMoves ==
  stat.at = "done" =>
    /\ Distance(CurrentAllocatedBytes(stat.r), AppBytes) <= stat.moved
    /\ Distance(SystemBytes - Shares(stat.r), AppBytes) <= stat.moved
    /\ BytesInUseByApp(stat.r) = CurrentAllocatedBytes(stat.r)
    /\ MallInfo(stat.r).arena =
         MallInfo(stat.r).fsmblks + MallInfo(stat.r).fordblks + MallInfo(stat.r).uordblks

\* "release memory at a constant rate": what is released beyond what was asked
\* for is carried over to later calls, and never exceeds one span.
ReleasedAsAsked ==
  /\ release.ahead <= release.extra
  /\ release.extra < Max({StChunks[c].size : c \in Chunks})
=============================================================================
