----------------------------- MODULE ForkLocks -----------------------------
(***************************************************************************)
(* fork() in a program that allocates: the pthread_atfork handlers of      *)
(* static_vars.cc take tcmalloc's locks in the parent and give them back   *)
(* in the parent and in the child, which has no other thread.  A call of   *)
(* the allocator is the sequence of locks it takes and releases.           *)
(***************************************************************************)
EXTENDS Integers, Sequences, FiniteSets

CONSTANTS FkThreads,   \* threads of the parent
          FkClasses,   \* size classes 1 .. FkClasses
          FkCalls,     \* names of the calls the threads make
          MaxForks     \* bound on forks

VARIABLES held,      \* lock -> the thread that has it, or "no one"
          fkPc,      \* thread -> the call it is in, and the rest of its script
          child,     \* the locks the last child has no thread to release, each
                     \* with the call its holder was in
          forks

Central(i) == <<"central", i>>
PageHeapLock == <<"pageheap">>
SlowTLS == <<"slow tls">>
SysAlloc == <<"system alloc">>
MetaData == <<"metadata">>
Classes == 1 .. FkClasses
Locks == {Central(i) : i \in Classes} \cup {PageHeapLock, SlowTLS, SysAlloc, MetaData}

Lock(l) == [op |-> "lock", l |-> l]
Unlock(l) == [op |-> "unlock", l |-> l]
Within(l, s) == <<Lock(l)>> \o s \o <<Unlock(l)>>
Each(F(_)) == [i \in Classes |-> F(i)]

\* GrowHeap, and PageHeapAllocator::New below MetaDataAlloc
System == Within(SysAlloc, <<>>)
Grow == Within(PageHeapLock, System \o Within(MetaData, System))

\* CentralFreeList: an insert or remove; a fetch whose Populate lets go of the
\* list's lock; a release that does; MakeCacheSpace's LockInverter.
\* ThreadCache::NewHeap; SlowTLS; a thread's first call before the key for caches
\* is ready, which allocates its entry without the page heap's lock.
Script(c, i) ==
  CASE c = "central"  -> Within(Central(i), <<>>)
    [] c = "populate" -> <<Lock(Central(i)), Unlock(Central(i))>> \o Grow \o Within(Central(i), <<>>)
    [] c = "release"  -> <<Lock(Central(i)), Unlock(Central(i))>> \o Within(PageHeapLock, <<>>)
                         \o Within(Central(i), <<>>)
    [] c = "evict"    -> LET j == IF i = FkClasses THEN 1 ELSE i + 1
                         IN  <<Lock(Central(i)), Unlock(Central(i))>> \o Within(Central(j), <<>>)
                             \o Within(Central(i), <<>>)
    [] c = "new heap" -> Grow
    [] c = "slow tls" -> Within(SlowTLS, <<>>)
    [] c = "GetReallySlow" -> Within(SlowTLS, <<>>) \o Grow \o Within(MetaData, System)
                              \o Within(SlowTLS, <<>>)


CentralCacheLockAll == <<Lock(PageHeapLock)>> \o Each(LAMBDA i : Lock(Central(i)))
                       \o <<Lock(SlowTLS), Lock(SysAlloc)>>

CentralCacheUnlockAll == <<Unlock(SysAlloc), Unlock(SlowTLS)>> \o Each(LAMBDA i : Unlock(Central(i)))
                         \o <<Unlock(PageHeapLock)>>

Fork == CentralCacheLockAll \o <<[op |-> "fork", l |-> PageHeapLock]>> \o CentralCacheUnlockAll

FkInit ==
  /\ held = [l \in Locks |-> "no one"]
  /\ fkPc = [t \in FkThreads |-> [call |-> "none", todo |-> <<>>]]
  /\ child = {} /\ forks = 0

StartCall(t) ==
  /\ fkPc[t].todo = <<>>
  /\ \/ /\ \E c \in FkCalls, i \in Classes :
             fkPc' = [fkPc EXCEPT ![t] = [call |-> c, todo |-> Script(c, i)]]
        /\ UNCHANGED forks
     \/ /\ forks < MaxForks /\ forks' = forks + 1
        /\ fkPc' = [fkPc EXCEPT ![t] = [call |-> "fork", todo |-> Fork]]
  /\ UNCHANGED <<held, child>>

\* in the child the forking thread's own unlocks are all that runs
ChildLocks(t) == {<<l, fkPc[held[l]].call>> : l \in {m \in Locks : held[m] \notin {"no one", t}}}

FkStep(t) ==
  /\ fkPc[t].todo # <<>>
  /\ LET s == Head(fkPc[t].todo)
     IN  \/ /\ s.op = "lock" /\ held[s.l] = "no one"
            /\ held' = [held EXCEPT ![s.l] = t] /\ UNCHANGED child
         \/ /\ s.op = "unlock"
            /\ held' = [held EXCEPT ![s.l] = "no one"] /\ UNCHANGED child
         \/ /\ s.op = "fork"
            /\ child' = ChildLocks(t) /\ UNCHANGED held
  /\ fkPc' = [fkPc EXCEPT ![t].todo = Tail(@)]
  /\ UNCHANGED forks

FkNext == \E t \in FkThreads : StartCall(t) \/ FkStep(t)
FkSpec == FkInit /\ [][FkNext]_<<held, fkPc, child, forks>>

-----------------------------------------------------------------------------
WaitsFor(t, u) == /\ fkPc[t].todo # <<>> /\ Head(fkPc[t].todo).op = "lock"
                  /\ held[Head(fkPc[t].todo).l] = u

=============================================================================
