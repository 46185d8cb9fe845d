---------------------------- MODULE HeapProfiler ----------------------------
(***************************************************************************)
(* malloc_hook.cc, heap-profiler.cc and heap-profile-table.cc: the hook    *)
(* lists every allocation reads without a lock, and the heap profiler that *)
(* installs its hooks, records what they report and can be stopped and     *)
(* restarted while other threads are between reading a hook and calling    *)
(* it.                                                                     *)
(*                                                                         *)
(* A thread's place is a record [at, ...].  Everything under heap_lock is  *)
(* one step, except that HeapProfilerStart and HeapProfilerStop are split  *)
(* at each change of a hook list, since the lists are read without that    *)
(* lock.  HookList::Traverse is one step per atomic load.                  *)
(***************************************************************************)
EXTENDS Integers, Sequences, FiniteSets, FiniteSetsExt, Functions, TLC

CONSTANTS HpThreads,            \* application threads
          Controller,           \* the thread that starts and stops profiling
          kHookListMaxValues,   \* regular slots of a hook list
          HpPrograms,           \* programs: the addresses malloc may return, the
                                \* kinds of hook other clients install, and a
                                \* bound on calls of HeapProfilerStart
          HpSizes,              \* requested sizes
          AllocInterval,        \* FLAGS_heap_profile_allocation_interval
          FreeInterval,         \* FLAGS_heap_profile_deallocation_interval
          InuseInterval,        \* FLAGS_heap_profile_inuse_interval
          HpMaxAllocs           \* bound: allocations recorded in one session

VARIABLES hooks,    \* hooks.new and hooks.del: the two HookLists
          hp,       \* the heap profiler, under heap_lock but for the threads
          heapObj,  \* size of the object at each address, 0 if not allocated
          hpPc      \* where each thread is

hpVars == <<hooks, hp, heapObj, hpPc>>

NoHook == "none"
ProfilerHook == "profiler"
UserHook == "user"         \* a client's hook, AddNewHook
SingularHook == "singular" \* a client's hook, SetNewHook

kHookListSingularIdx == kHookListMaxValues + 1   \* slots count from 1

-----------------------------------------------------------------------------
\* HookList<T>

EmptyHookList == [end |-> 0, data |-> [i \in 1 .. kHookListSingularIdx |-> NoHook]]

FixupPrivEnd(l) ==
  [l EXCEPT !.end = Max({0} \cup {i \in 1 .. l.end : l.data[i] # NoHook})]

FreeSlots(l) == {i \in 1 .. kHookListMaxValues : l.data[i] = NoHook}

HookAdd(l, h) ==
  LET i == Min(FreeSlots(l)) IN
  IF FreeSlots(l) = {} THEN l
  ELSE [end |-> Max({l.end, i}), data |-> [l.data EXCEPT ![i] = h]]

\* Mutant: the end of the list is always cut to the removed slot.
HookRemoveCuts(l, h) ==
  LET at == {i \in 1 .. l.end : l.data[i] = h} IN
  IF at = {} THEN l ELSE [l EXCEPT !.data[Min(at)] = NoHook, !.end = Min(at) - 1]

HookRemove(l, h) ==
  LET at == {i \in 1 .. l.end : l.data[i] = h} IN
  IF at = {} THEN l ELSE FixupPrivEnd([l EXCEPT !.data[Min(at)] = NoHook])

ExchangeSingular(l, h) ==
  LET m == [l EXCEPT !.data[kHookListSingularIdx] = h] IN
  IF h # NoHook THEN [m EXCEPT !.end = kHookListSingularIdx] ELSE FixupPrivEnd(m)

Installed(l) == {l.data[i] : i \in DOMAIN l.data} \ {NoHook}

-----------------------------------------------------------------------------
\* HeapProfileTable: the address map, the per-stack buckets and their total.
\* A stack trace is named by the thread that made the allocation.

NoStats == [allocs |-> 0, allocSize |-> 0, frees |-> 0, freeSize |-> 0]

NewTable == [map |-> << >>, bucket |-> [t \in HpThreads |-> NoStats], total |-> NoStats]

CountAlloc(s, bytes) == [s EXCEPT !.allocs = @ + 1, !.allocSize = @ + bytes]
CountFree(s, bytes) == [s EXCEPT !.frees = @ + 1, !.freeSize = @ + bytes]

RecordAlloc(tab, p, bytes, stack) ==
  [map |-> [q \in DOMAIN tab.map \cup {p} |->
              IF q = p THEN [bytes |-> bytes, stack |-> stack] ELSE tab.map[q]],
   bucket |-> [tab.bucket EXCEPT ![stack] = CountAlloc(@, bytes)],
   total |-> CountAlloc(tab.total, bytes)]

RecordFree(tab, p) ==
  IF p \notin DOMAIN tab.map THEN tab
  ELSE LET v == tab.map[p] IN
       [map |-> Restrict(tab.map, DOMAIN tab.map \ {p}),
        bucket |-> [tab.bucket EXCEPT ![v.stack] = CountFree(@, v.bytes)],
        total |-> CountFree(tab.total, v.bytes)]

-----------------------------------------------------------------------------
\* The profiler.  chunks counts what GetHeapProfile still holds of the arena;
\* fatal says a RAW_LOG(FATAL) has ended the process.

ProfilerOff(program, starts) ==
  [on |-> FALSE, table |-> NewTable, lastAlloc |-> 0, lastFree |-> 0, highWater |-> 0,
   chunks |-> 0, fatal |-> FALSE, lock |-> NoHook, program |-> program, starts |-> starts]

Inuse(tab) == tab.total.allocSize - tab.total.freeSize

\* Which of MaybeDumpProfileLocked's conditions holds (the time interval,
\* off by default, is not modelled).
NeedToDump(h) ==
  \/ AllocInterval > 0 /\ h.table.total.allocSize >= h.lastAlloc + AllocInterval
  \/ FreeInterval > 0 /\ h.table.total.freeSize >= h.lastFree + FreeInterval
  \/ InuseInterval > 0 /\ Inuse(h.table) > h.highWater + InuseInterval

MaybeDumpProfile(h) ==
  IF ~NeedToDump(h) THEN h
  ELSE [h EXCEPT !.lastAlloc = h.table.total.allocSize,
                 !.lastFree = h.table.total.freeSize,
                 !.highWater = Max({@, Inuse(h.table)})]

\* Mutant: the hook does not ask whether the profiler is on.
NewHookAlways(h, p, bytes, stack) ==
  MaybeDumpProfile([h EXCEPT !.table = RecordAlloc(@, p, bytes, stack)])

NewHook(h, p, bytes, stack) ==
  IF ~h.on THEN h
  ELSE MaybeDumpProfile([h EXCEPT !.table = RecordAlloc(@, p, bytes, stack)])

DeleteHook(h, p) ==
  IF ~h.on THEN h ELSE MaybeDumpProfile([h EXCEPT !.table = RecordFree(@, p)])

-----------------------------------------------------------------------------
\* Threads

HpIdle == [at |-> "idle"]

HpInit ==
  /\ hooks = [new |-> EmptyHookList, del |-> EmptyHookList]
  /\ \E program \in HpPrograms :
       /\ hp = ProfilerOff(program, 0)
       /\ heapObj = [p \in program.objects |-> 0]
  /\ hpPc = [t \in HpThreads |-> HpIdle]

Goto(t, r) == hpPc' = [hpPc EXCEPT ![t] = r]

\* The object a thread is allocating or freeing.
Busy(t) == IF "p" \in DOMAIN hpPc[t] THEN {hpPc[t].p} ELSE {}

\* Where a thread goes when a malloc or free it made returns: back to the
\* application, or on with GetHeapProfile.
Back(r) == IF r.ret = "idle" THEN HpIdle ELSE [at |-> r.ret, p |-> r.p]

\* malloc_fast_path: with no hook installed the allocation reports nothing.
StartMalloc(t, ret) ==
  Goto(t, [at |-> IF hooks.new.end = 0 THEN "fast" ELSE "slow", ret |-> ret])

Malloc(t) ==
  /\ hpPc[t].at = "idle"
  /\ hp.table.total.allocs < HpMaxAllocs
  /\ StartMalloc(t, "idle")
  /\ UNCHANGED <<hooks, hp, heapObj>>

\* The allocator hands out p; do_allocate_full then asks for hooks again.
Allocated(t) ==
  LET r == hpPc[t] IN
  /\ r.at \in {"fast", "slow"}
  /\ \E p \in DOMAIN heapObj, bytes \in HpSizes :
       LET s == [at |-> "invoke", op |-> "new", p |-> p, ret |-> r.ret] IN
       /\ heapObj[p] = 0
       /\ heapObj' = [heapObj EXCEPT ![p] = bytes]
       /\ Goto(t, IF r.at = "fast" THEN Back(s) ELSE s)
  /\ UNCHANGED <<hooks, hp>>

\* free: the delete hooks run while the object is still allocated.
Free(t) ==
  /\ hpPc[t].at = "idle"
  /\ \E p \in DOMAIN heapObj \ UNION {Busy(u) : u \in HpThreads} :
       /\ heapObj[p] # 0
       /\ Goto(t, [at |-> "invoke", op |-> "del", p |-> p, ret |-> "idle"])
  /\ UNCHANGED <<hooks, hp, heapObj>>

Freed(t) ==
  /\ hpPc[t].at = "free"
  /\ heapObj' = [heapObj EXCEPT ![hpPc[t].p] = 0]
  /\ Goto(t, Back(hpPc[t]))
  /\ UNCHANGED <<hooks, hp>>

\* After the hooks of an operation have run.
HooksDone(r) == IF r.op = "del" THEN [r EXCEPT !.at = "free"] ELSE Back(r)

\* InvokeNewHook / InvokeDeleteHook: empty(), then Traverse reads priv_end.
\* "due" is history: the hooks installed since the traversal began.
Invoke(t) ==
  LET r == hpPc[t]
      l == hooks[r.op]
  IN  /\ r.at = "invoke"
      /\ Goto(t, IF l.end = 0 THEN HooksDone([op |-> r.op, p |-> r.p, ret |-> r.ret, at |-> r.at])
                 ELSE [at |-> "traverse", op |-> r.op, p |-> r.p, ret |-> r.ret,
                       i |-> 1, end |-> l.end, got |-> << >>, due |-> Installed(l)])
      /\ UNCHANGED <<hooks, hp, heapObj>>

\* Traverse loads the next slot; n stops it at kHookListMaxValues hooks.
TraverseStep(t) ==
  LET r == hpPc[t]
      h == hooks[r.op].data[r.i]
      got == IF h # NoHook THEN Append(r.got, h) ELSE r.got
      done == r.i = r.end \/ Len(got) = kHookListMaxValues
  IN  /\ r.at = "traverse"
      /\ Goto(t, [r EXCEPT !.at = IF done THEN "call" ELSE @, !.i = @ + 1, !.got = got])
      /\ UNCHANGED <<hooks, hp, heapObj>>

\* Call the next hook of the thread's own copy, wherever it is now installed.
CallHook(t) ==
  LET r == hpPc[t] IN
  /\ r.at = "call"
  /\ \/ /\ r.got = << >>
        /\ Goto(t, HooksDone([op |-> r.op, p |-> r.p, ret |-> r.ret, at |-> r.at]))
        /\ UNCHANGED hp
     \/ /\ r.got # << >>
        /\ Head(r.got) = ProfilerHook => hp.lock = NoHook
        /\ hp' = IF Head(r.got) # ProfilerHook THEN hp
                 ELSE IF r.op = "new" THEN NewHook(hp, r.p, heapObj[r.p], t)
                 ELSE DeleteHook(hp, r.p)
        /\ Goto(t, [r EXCEPT !.got = Tail(@), !.due = @ \ {Head(r.got)}])
  /\ UNCHANGED <<hooks, heapObj>>

-----------------------------------------------------------------------------
\* Clients of the hook lists

\* A hook taken away is no longer due to the traversals under way.
Undue(h) == [t \in HpThreads |-> IF "due" \in DOMAIN hpPc[t]
                                 THEN [hpPc[t] EXCEPT !.due = @ \ {h}] ELSE hpPc[t]]

AddNewHook ==
  /\ UserHook \in hp.program.hooks \ Installed(hooks.new)
  /\ hooks' = [hooks EXCEPT !.new = HookAdd(@, UserHook)]
  /\ UNCHANGED <<hp, heapObj, hpPc>>

RemoveNewHook ==
  /\ UserHook \in Installed(hooks.new)
  /\ hooks' = [hooks EXCEPT !.new = HookRemove(@, UserHook)]
  /\ hpPc' = Undue(UserHook)
  /\ UNCHANGED <<hp, heapObj>>

SetNewHook ==
  LET h == IF SingularHook \in Installed(hooks.new) THEN NoHook ELSE SingularHook IN
  /\ SingularHook \in hp.program.hooks
  /\ hooks' = [hooks EXCEPT !.new = ExchangeSingular(@, h)]
  /\ hpPc' = Undue(SingularHook)
  /\ UNCHANGED <<hp, heapObj>>

-----------------------------------------------------------------------------
\* The profiler's own entry points, called by the controller.

HeapProfilerStart ==
  /\ hpPc[Controller].at = "idle" /\ hp.lock = NoHook
  /\ hp.starts < hp.program.starts
  /\ ~hp.on
  /\ hp' = [ProfilerOff(hp.program, hp.starts + 1) EXCEPT !.on = TRUE, !.lock = Controller]
  /\ hooks' = [hooks EXCEPT !.new = HookAdd(@, ProfilerHook)]
  /\ Goto(Controller, [at |-> "starting"])
  /\ UNCHANGED heapObj

FinishStart ==
  /\ hpPc[Controller].at = "starting"
  /\ hooks' = [hooks EXCEPT !.del = HookAdd(@, ProfilerHook)]
  /\ hp' = [hp EXCEPT !.lock = NoHook]
  /\ Goto(Controller, HpIdle)
  /\ UNCHANGED heapObj

HeapProfilerStop ==
  /\ hpPc[Controller].at = "idle" /\ hp.lock = NoHook
  /\ hp.on
  /\ hooks' = [hooks EXCEPT !.new = HookRemove(@, ProfilerHook)]
  /\ hp' = [hp EXCEPT !.lock = Controller]
  /\ hpPc' = [Undue(ProfilerHook) EXCEPT ![Controller] = [at |-> "stopping"]]
  /\ UNCHANGED heapObj

\* The table is freed; DeleteArena refuses an arena with blocks still held.
FinishStop ==
  /\ hpPc[Controller].at = "stopping"
  /\ hooks' = [hooks EXCEPT !.del = HookRemove(@, ProfilerHook)]
  /\ hp' = [ProfilerOff(hp.program, hp.starts) EXCEPT !.chunks = hp.chunks,
                                                     !.fatal = hp.chunks > 0]
  /\ hpPc' = [Undue(ProfilerHook) EXCEPT ![Controller] = HpIdle]
  /\ UNCHANGED heapObj

\* GetHeapProfile: the writer's chunk is allocated from the arena under
\* heap_lock, and only while profiling; the string is then built with malloc
\* and the chunk freed after the lock has been released.
GetHeapProfile(t) ==
  /\ hpPc[t].at = "idle" /\ hp.lock = NoHook
  /\ hp.table.total.allocs < HpMaxAllocs
  /\ hp' = [hp EXCEPT !.chunks = @ + 1]
  /\ hp.on
  /\ StartMalloc(t, "release")
  /\ UNCHANGED <<hooks, heapObj>>

ReleaseChunks(t) ==
  /\ hpPc[t].at = "release"
  /\ hp' = [hp EXCEPT !.chunks = @ - 1]
  /\ Goto(t, HpIdle)
  /\ UNCHANGED <<hooks, heapObj>>

HpNext ==
  /\ ~hp.fatal
  /\ \/ \E t \in HpThreads :
          \/ Malloc(t) \/ Allocated(t) \/ Free(t) \/ Freed(t)
          \/ Invoke(t) \/ TraverseStep(t) \/ CallHook(t)
          \/ GetHeapProfile(t) \/ ReleaseChunks(t)
     \/ AddNewHook \/ RemoveNewHook \/ SetNewHook
     \/ HeapProfilerStart \/ FinishStart \/ HeapProfilerStop \/ FinishStop

HpSpec == HpInit /\ [][HpNext]_hpVars

-----------------------------------------------------------------------------
\* Every address in the profile is an object the application holds, recorded
\* with its size and not yet reported freed, although hooks are read without
\* a lock and may run after the profiler was stopped and started again.
RecordsLive ==
  /\ \A p \in DOMAIN hp.table.map : heapObj[p] = hp.table.map[p].bytes
  /\ \A t \in HpThreads : hpPc[t].at = "free" => hpPc[t].p \notin DOMAIN hp.table.map

\* The totals printed at the top of a profile agree with the address map and
\* with the buckets (no object is counted twice or lost), and when nobody
\* holds heap_lock no dump that is due has been missed.
TotalsMatch ==
  LET tab == hp.table
      Sum(f(_)) == MapThenSumSet(f, HpThreads)
      bytes(p) == tab.map[p].bytes
      allocs(s) == tab.bucket[s].allocs
      frees(s) == tab.bucket[s].frees
      size(s) == tab.bucket[s].allocSize - tab.bucket[s].freeSize
  IN  /\ tab.total.allocs - tab.total.frees = Cardinality(DOMAIN tab.map)
      /\ Inuse(tab) = MapThenSumSet(bytes, DOMAIN tab.map)
      /\ Sum(allocs) = tab.total.allocs /\ Sum(frees) = tab.total.frees
      /\ Sum(size) = Inuse(tab)
      /\ hp.on /\ hp.lock = NoHook => ~NeedToDump(hp)

\* A hook that stays installed from the moment a traversal starts is called
\* by it: slots do not move and none is skipped, unless the traversal has
\* stopped early with kHookListMaxValues hooks, one fewer than a list may hold.
HooksSeen ==
  \A t \in HpThreads :
    hpPc[t].at = "call" /\ hpPc[t].i > hpPc[t].end => hpPc[t].due \subseteq Range(hpPc[t].got)

\* What the profiler writes is what the heap is: its records and its totals.
ProfileMatchesHeap == RecordsLive /\ TotalsMatch
=============================================================================
