----------------------------- MODULE DebugAlloc -----------------------------
(***************************************************************************)
(* debugallocation.cc: the debugging allocator.  Every block has a header  *)
(* and a trailer, a map remembers how each address was last allocated, and *)
(* a freed block is overwritten and kept in a queue for a while, so that   *)
(* a client's mistakes are noticed.                                        *)
(*                                                                         *)
(* Sections under alloc_map_lock_ or free_queue_lock_ are one step each;   *)
(* what the code does between them (the unlocked header reads, the memset, *)
(* the frees in the middle of ProcessFreeQueue) are steps of their own.    *)
(* A client makes at most one mistake in a behaviour; mistake names it.    *)
(***************************************************************************)
EXTENDS Integers, Sequences, FiniteSets, FiniteSetsExt, SequencesExt

CONSTANTS DbgThreads,       \* client threads
          DbgBlocks,        \* addresses of the underlying allocator
          DbgWeight,        \* size of the even blocks plus a queue entry (others: 1)
          kFreeQueueSize,   \* slots of FreeQueue (one is never used)
          EntriesSize,      \* arraysize(entries) in ProcessFreeQueue
          MaxFreeQueueSize, \* FLAGS_max_free_queue_size
          DbgCalls          \* the exported functions the clients call

VARIABLES flags,      \* [fence, reclaim]: page fence and malloc_reclaim_memory
          allocMap,   \* alloc_map_: the type recorded for each address
          header,     \* what each block's header and trailer hold
          place,      \* who has each block: pool, client, queue, entries, gone
          freeQueue,  \* free_queue_, oldest first
          queueSize,  \* free_queue_size_
          dbgPc,      \* where each thread is
          mistake,    \* the client's mistake, if it has made one
          fatal       \* the reason of the RAW_LOG(FATAL) or failed RAW_CHECK

dbgVars == <<flags, allocMap, header, place, freeQueue, queueSize, dbgPc, mistake, fatal>>

Nil == "none"
Types == {"malloc", "new", "new[]"}

\* How each exported function marks a block it allocates.
AllocType ==
  [tc_malloc |-> "malloc", tc_calloc |-> "malloc", tc_malloc_skip_new_handler |-> "malloc"]
CppAllocType ==
  [tc_new |-> "new", tc_new_nothrow |-> "new", tc_newarray |-> "new[]",
   tc_newarray_nothrow |-> "new[]"]
\* The aligned ones return an address inside the block, behind a second,
\* fake header whose offset_ leads back to the real one.
AlignedAllocType ==
  [tc_memalign |-> "malloc", tc_posix_memalign |-> "malloc", tc_valloc |-> "malloc",
   tc_pvalloc |-> "malloc"]
CppAlignedAllocType ==
  [tc_new_aligned |-> "new", tc_new_aligned_nothrow |-> "new",
   tc_newarray_aligned |-> "new[]", tc_newarray_aligned_nothrow |-> "new[]"]

\* What each exported function expects of a block it frees.
FreeType ==
  [tc_free |-> "malloc", tc_free_sized |-> "malloc", tc_free_aligned_sized |-> "malloc",
   tc_cfree |-> "malloc"]
CppFreeType ==
  [tc_delete |-> "new", tc_delete_sized |-> "new", tc_delete_nothrow |-> "new",
   tc_deletearray |-> "new[]", tc_deletearray_sized |-> "new[]",
   tc_deletearray_nothrow |-> "new[]"]
CppAlignedFreeType ==
  [tc_delete_aligned |-> "new", tc_delete_sized_aligned |-> "new",
   tc_delete_aligned_nothrow |-> "new", tc_deletearray_aligned |-> "new[]",
   tc_deletearray_sized_aligned |-> "new[]", tc_deletearray_aligned_nothrow |-> "new[]"]

Allocators == UNION {{[f |-> f, type |-> m[f]] : f \in DOMAIN m} :
                m \in {AllocType, CppAllocType, AlignedAllocType, CppAlignedAllocType}}
Deallocators == UNION {{[f |-> f, type |-> m[f]] : f \in DOMAIN m} :
                m \in {FreeType, CppFreeType, CppAlignedFreeType}}

AllocTypes == {a.type : a \in {b \in Allocators : b.f \in DbgCalls}}
FreeTypes == {d.type : d \in {b \in Deallocators : b.f \in DbgCalls}}

-----------------------------------------------------------------------------
DbgIdle == [at |-> "idle"]

DbgInit ==
  /\ flags \in {[fence |-> FALSE, reclaim |-> TRUE], [fence |-> FALSE, reclaim |-> FALSE],
                [fence |-> TRUE, reclaim |-> TRUE]}
  /\ allocMap = [b \in DbgBlocks |-> Nil]
  /\ header = [b \in DbgBlocks |-> [type |-> Nil, intact |-> TRUE]]
  /\ place = [b \in DbgBlocks |-> "pool"]
  /\ freeQueue = << >> /\ queueSize = 0
  /\ dbgPc = [t \in DbgThreads |-> DbgIdle]
  /\ mistake = Nil /\ fatal = Nil

At(t, r) == dbgPc' = [dbgPc EXCEPT ![t] = r]

Live(b) == allocMap[b] \in Types

\* MallocBlock::Allocate and Initialize: the map and the header change in one
\* section of alloc_map_lock_.
MallocBlockAllocate(b, type) ==
  /\ place' = [place EXCEPT ![b] = "client"]
  /\ allocMap' = [allocMap EXCEPT ![b] = type]
  /\ header' = [header EXCEPT ![b] = [type |-> type, intact |-> TRUE]]

DebugAllocate(t) ==
  /\ dbgPc[t] = DbgIdle
  /\ \E b \in DbgBlocks, type \in AllocTypes :
       place[b] = "pool" /\ MallocBlockAllocate(b, type)
  /\ UNCHANGED <<flags, freeQueue, queueSize, dbgPc, mistake, fatal>>

\* DebugDeallocate: FromRawPointer looks at the header, without a lock.  mine:
\* the caller owns the block.
DebugDeallocate(t, b, type, sizeRight, mine) ==
  /\ IF header[b].type = "deleted"
     THEN fatal' = "already deallocated" /\ UNCHANGED dbgPc
     ELSE /\ At(t, [at |-> "clear", b |-> b, type |-> type, right |-> sizeRight, mine |-> mine])
          /\ UNCHANGED fatal
  /\ UNCHANGED <<flags, allocMap, header, place, freeQueue, queueSize>>

\* Blocks a client has and has not begun to give up.
Owned == {b \in DbgBlocks : place[b] = "client"}
         \ {dbgPc[t].b : t \in {u \in DbgThreads : "mine" \in DOMAIN dbgPc[u] /\ dbgPc[u].mine}}

FreeRight(t) ==
  /\ dbgPc[t] = DbgIdle
  /\ \E b \in Owned : /\ allocMap[b] \in FreeTypes
                      /\ DebugDeallocate(t, b, allocMap[b], TRUE, TRUE)
  /\ UNCHANGED mistake

\* A client's wrong calls: a second free, a free of the wrong kind, a sized
\* delete with the wrong size.
FreeWrong(t) ==
  /\ dbgPc[t] = DbgIdle /\ mistake = Nil
  /\ \/ \E b \in DbgBlocks \ Owned, type \in FreeTypes :
          /\ place[b] # "pool" /\ DebugDeallocate(t, b, type, TRUE, FALSE)
          /\ mistake' = "double free"
     \/ \E b \in Owned, type \in FreeTypes :
          /\ type # allocMap[b] /\ DebugDeallocate(t, b, type, TRUE, TRUE)
          /\ mistake' = "mismatch"
     \/ \E b \in Owned :
          /\ allocMap[b] \in FreeTypes /\ DebugDeallocate(t, b, allocMap[b], FALSE, TRUE)
          /\ mistake' = "wrong size"

\* A write past the end of a block, or to a block that is in the free queue.
WriteWrong ==
  /\ mistake = Nil
  /\ \E b \in DbgBlocks :
       /\ \/ b \in Owned /\ ~flags.fence
          \/ place[b] = "queue"
       /\ header' = [header EXCEPT ![b].intact = FALSE]
       /\ mistake' = IF place[b] = "client" THEN "overrun" ELSE "dangling write"
  /\ UNCHANGED <<flags, allocMap, place, freeQueue, queueSize, dbgPc, fatal>>

\* CheckLocked: what is wrong with block b, freed or verified as type.
CheckLocked(b, type) ==
  IF allocMap[b] = Nil THEN "never allocated"
  ELSE IF ~Live(b) THEN "already deallocated"
  ELSE IF header[b].type = "deleted" THEN "word before corrupted"
  ELSE IF ~flags.fence /\ ~header[b].intact THEN "word after corrupted"
  ELSE IF header[b].type # type THEN "mismatch"
  ELSE IF header[b].type # allocMap[b] THEN "map corrupted"
  ELSE Nil

\* tc_realloc of a live block: check the old one, allocate the new one; then
\* the old one is freed like any other.
Realloc(t) ==
  /\ dbgPc[t] = DbgIdle
  /\ \E old \in Owned, b \in DbgBlocks :
       LET bad == CheckLocked(old, "malloc") IN
       /\ allocMap[old] = "malloc" /\ place[b] = "pool"
       /\ \/ bad # Nil /\ fatal' = bad /\ UNCHANGED <<place, allocMap, header, dbgPc>>
          \/ /\ bad = Nil /\ UNCHANGED fatal
             /\ MallocBlockAllocate(b, "malloc")
             /\ At(t, [at |-> "old", b |-> old, mine |-> TRUE])
  /\ UNCHANGED <<flags, freeQueue, queueSize, mistake>>

FreeOld(t) ==
  /\ dbgPc[t].at = "old"
  /\ DebugDeallocate(t, dbgPc[t].b, "malloc", TRUE, TRUE)
  /\ UNCHANGED mistake


\* CheckAndClear's locked half, which marks the address as deallocated.
CheckAndMark(t) ==
  LET r == dbgPc[t]
      bad == CheckLocked(r.b, r.type)
  IN  /\ r.at = "clear"
      /\ \/ /\ bad # Nil /\ fatal' = bad
            /\ UNCHANGED <<allocMap, header, dbgPc>>
         \/ /\ bad = Nil /\ fatal' = Nil
            /\ allocMap' = [allocMap EXCEPT ![r.b] = "deallocated"]
            /\ At(t, [r EXCEPT !.at = "fill"])
            /\ UNCHANGED header
      /\ UNCHANGED <<flags, place, freeQueue, queueSize, mistake>>

\* Its unlocked half: compare the size given, overwrite the whole block, then
\* dispose of it: unmap it, keep it for ever, or go on to the free queue.
FillDeleted(t) ==
  LET r == dbgPc[t] IN
  /\ r.at = "fill"
  /\ fatal' = IF r.right THEN Nil ELSE "wrong size"
  /\ header' = [header EXCEPT ![r.b] = [type |-> "deleted", intact |-> TRUE]]
  /\ IF ~flags.fence /\ flags.reclaim
     THEN At(t, [at |-> "push", b |-> r.b, mine |-> TRUE]) /\ UNCHANGED place
     ELSE /\ place' = [place EXCEPT ![r.b] = IF flags.reclaim THEN "pool" ELSE "gone"]
          /\ At(t, DbgIdle)
  /\ UNCHANGED <<flags, allocMap, freeQueue, queueSize, mistake>>

-----------------------------------------------------------------------------
\* ProcessFreeQueue

QueueFull(q) == Len(q) + 1 = kFreeQueueSize

Weight(b) == IF b % 2 = 0 THEN DbgWeight ELSE 1

QueueTotal(q) == FoldLeft(LAMBDA n, b : n + Weight(b), 0, q)

DrainUnlessFull(queue, size, max) ==   \* mutant: a full queue is left full
  LET f[n \in 0 .. EntriesSize] ==
        LET q == SubSeq(queue, n + 1, Len(queue))
            s == size - QueueTotal(SubSeq(queue, 1, n))
        IN  IF s > max /\ n < EntriesSize
            THEN f[n + 1]
            ELSE [queue |-> q, size |-> s, out |-> SubSeq(queue, 1, n), more |-> n = EntriesSize]
  IN  f[0]

\* The while loop up to the next point where the lock is released: the queue
\* and the entries taken off it; more, when the loop goes on after them.
Drain(queue, size, max) ==
  LET f[n \in 0 .. EntriesSize] ==
        LET q == SubSeq(queue, n + 1, Len(queue))
            s == size - QueueTotal(SubSeq(queue, 1, n))
        IN  IF (s > max \/ QueueFull(q)) /\ n < EntriesSize
            THEN f[n + 1]
            ELSE [queue |-> q, size |-> s, out |-> SubSeq(queue, 1, n), more |-> n = EntriesSize]
  IN  f[0]

\* One hold of free_queue_lock_: "push" begins with the block to add (if any),
\* "again" is the loop resumed after the entries array was emptied.
HoldQueueLock(t, queue, size, max) ==
  LET d == Drain(queue, size, max) IN
  /\ freeQueue' = d.queue /\ queueSize' = d.size
  /\ place' = [b \in DbgBlocks |-> IF b \in ToSet(d.out) THEN "entries"
                                   ELSE IF b \in ToSet(d.queue) THEN "queue" ELSE place[b]]
  /\ At(t, [at |-> "entries", out |-> d.out, more |-> d.more, max |-> max])

ProcessFreeQueue(t) ==
  LET r == dbgPc[t] IN
  /\ r.at = "push"
  /\ IF QueueFull(freeQueue)
     THEN fatal' = "queue full" /\ UNCHANGED <<freeQueue, queueSize, place, dbgPc>>
     ELSE /\ HoldQueueLock(t, Append(freeQueue, r.b), queueSize + Weight(r.b), MaxFreeQueueSize)
          /\ UNCHANGED fatal
  /\ UNCHANGED <<flags, allocMap, header, mistake>>

\* DanglingWriteChecker, at exit: ProcessFreeQueue(nullptr, 0, 0).
DanglingWriteChecker(t) ==
  /\ dbgPc[t] = DbgIdle /\ freeQueue # << >>
  /\ HoldQueueLock(t, freeQueue, queueSize, 0)
  /\ UNCHANGED <<flags, allocMap, header, mistake, fatal>>

ProcessMore(t) ==
  LET r == dbgPc[t] IN
  /\ r.at = "again"
  /\ HoldQueueLock(t, freeQueue, queueSize, r.max)
  /\ UNCHANGED <<flags, allocMap, header, mistake, fatal>>

\* CheckForDanglingWrites and do_free of the next entry, lock released.
ReleaseEntry(t) ==
  LET r == dbgPc[t]
      b == Head(r.out)
  IN  /\ r.at = "entries" /\ r.out # << >>
      /\ IF header[b].intact
         THEN /\ place' = [place EXCEPT ![b] = "pool"]
              /\ At(t, [r EXCEPT !.out = Tail(@)])
              /\ UNCHANGED fatal
         ELSE fatal' = "written after free" /\ UNCHANGED <<place, dbgPc>>
      /\ UNCHANGED <<flags, allocMap, header, freeQueue, queueSize, mistake>>

EntriesDone(t) ==
  LET r == dbgPc[t] IN
  /\ r.at = "entries" /\ r.out = << >>
  /\ At(t, IF r.more THEN [at |-> "again", max |-> r.max] ELSE DbgIdle)
  /\ UNCHANGED <<flags, allocMap, header, place, freeQueue, queueSize, mistake, fatal>>

-----------------------------------------------------------------------------
\* CheckEverything and MemoryStats: under alloc_map_lock_, every address the
\* map calls allocated is checked as the type recorded for it.
CheckEverything ==
  LET bad == {b \in DbgBlocks : Live(b) /\ CheckLocked(b, allocMap[b]) # Nil} IN
  /\ \/ bad = {} /\ fatal' = Nil
     \/ \E b \in bad : fatal' = CheckLocked(b, allocMap[b])
  /\ UNCHANGED <<flags, allocMap, header, place, freeQueue, queueSize, dbgPc, mistake>>

\* VerifyMallocMemory, VerifyNewMemory and VerifyArrayNewMemory of an object the
\* caller has.
VerifyMemory ==
  \E b \in Owned :
    /\ fatal' = CheckLocked(b, allocMap[b])
    /\ UNCHANGED <<flags, allocMap, header, place, freeQueue, queueSize, dbgPc, mistake>>

DbgNext ==
  /\ fatal = Nil
  /\ \/ \E t \in DbgThreads :
          \/ DebugAllocate(t) \/ Realloc(t) \/ FreeOld(t) \/ FreeRight(t) \/ FreeWrong(t)
          \/ CheckAndMark(t) \/ FillDeleted(t)
          \/ ProcessFreeQueue(t) \/ DanglingWriteChecker(t) \/ ProcessMore(t)
          \/ ReleaseEntry(t) \/ EntriesDone(t)
     \/ WriteWrong \/ CheckEverything \/ VerifyMemory

DbgSpec == DbgInit /\ [][DbgNext]_dbgVars

-----------------------------------------------------------------------------
\* The blocks on their way back to the underlying allocator.
Entries(t) == IF dbgPc[t].at = "entries" THEN ToSet(dbgPc[t].out) ELSE {}

Draining == \E t \in DbgThreads : dbgPc[t].at \in {"entries", "again"}

\* The RAW_CHECKs of the free queue never fail although ProcessFreeQueue lets
\* go of its lock in the middle of the loop: a thread that takes the lock
\* finds room for a block, the byte count is that of the blocks queued, and
\* once nobody is draining the queue is within its limit.
FreeQueueBounded ==
  /\ ~QueueFull(freeQueue) /\ fatal # "queue full"
  /\ queueSize = QueueTotal(freeQueue)
  /\ ~Draining => queueSize <= MaxFreeQueueSize

\* A program that makes no mistake is never aborted: no check meets a block
\* half way through being allocated, cleared, queued or reused by another
\* thread.
NoFalseAlarm == fatal # Nil => mistake # Nil

\* A mistake leads to an abort, or has left a trace an allocator's check has
\* yet to come to; and no block is given back twice.
MistakesCaught ==
  /\ fatal = Nil =>
       /\ mistake \in {"mismatch", "wrong size"} =>
            \E t \in DbgThreads : /\ dbgPc[t].at \in {"clear", "fill"}
                                  /\ dbgPc[t].type # header[dbgPc[t].b].type \/ ~dbgPc[t].right
       /\ mistake \in {"overrun", "dangling write"} =>
            \E b \in DbgBlocks : place[b] # "pool" /\ ~header[b].intact
  /\ IsInjective(freeQueue)
  /\ \A t \in DbgThreads : Entries(t) \cap ToSet(freeQueue) = {}
  /\ \A t, u \in DbgThreads : t # u => Entries(t) \cap Entries(u) = {}

=============================================================================
