--------------------------- MODULE ThreadCachePtr ---------------------------
(***************************************************************************)
(* How a thread finds its ThreadCache: malloc initialisation, the early    *)
(* life of the process before the pthread key exists, the recursion of     *)
(* pthread calls back into malloc, emergency malloc, idle and exiting      *)
(* threads (thread_cache_ptr.{h,cc}, ThreadCache::InitModule and           *)
(* Static::InitStaticVars).                                                *)
(*                                                                         *)
(* Everything about a thread's SlowTLS entries is done by that thread, so  *)
(* a hash chain is kept as one sequence per thread, newest first.  A       *)
(* thread's C stack is a sequence of frames, one per unfinished call,      *)
(* innermost last: a call may begin on top of another one only where that  *)
(* one is inside a function that may call malloc.                          *)
(***************************************************************************)
EXTENDS Naturals, Sequences, FiniteSets

CONSTANTS
  Threads,       \* thread identities; one is reused once its thread is dead
  Initial,       \* the thread that runs the C++ initialisers
  Caches,        \* ThreadCache objects
  None,          \* nullptr
  EarlyThreads,  \* whether other threads may run before InitModule is done
  MaxDepth,      \* bound: nesting of calls on one stack
  MaxCalls,      \* bound: calls that leave the fast path, per thread life
  MaxLives       \* bound: threads that use one identity

VARIABLES
  good,      \* kHaveGoodTLS of this build
  phinited,  \* InitModule's flag
  phLock,    \* holder of Static::pageheap_lock, or None
  inits,     \* how many times InitStaticVars ran
  keyReady,  \* tls_key_ != kInvalidTLSKey
  late,      \* InitThreadCachePtrLate was called
  owner,     \* the thread a cache was made for, None: not allocated
  fast,      \* tls_data_.fast_path_cache of each thread
  slot,      \* each thread's pthread value of tls_key_
  chain,     \* SlowTLS entries of each thread, newest first
  stack,     \* unfinished calls of each thread, innermost last
  life,      \* "new", "running", "exiting" or "dead"
  calls,     \* calls of this life (bound)
  lives      \* lives begun under this identity (bound)

vars == <<good, phinited, phLock, inits, keyReady, late, owner, fast, slot,
          chain, stack, life, calls, lives>>

process == <<good, phinited, phLock, inits, keyReady, late>>
thread == <<life, calls, lives>>

(* An Entry: the members other than the links.                             *)
Entry(cache, emergency, allocated) ==
  [cache |-> cache, emergency_malloc |-> emergency, was_allocated |-> allocated]

(* Where an unfinished call is:                                            *)
(*   GetSlow       "NewHeap", "SetTlsValue"                                *)
(*   GetReallySlow "InitModule" "InitStaticVars" "phinited" "InitLate"     *)
(*                 "Lookup" "NewHeap", with really = TRUE                  *)
(*   InitThreadCachePtrLate  the InitModule steps, "CreateTlsKey"          *)
(*   WithStacktraceScope     "fn"                                          *)
(*   DeleteCache             "DeleteCache"                                 *)
Frame(pc, cache, really) == [pc |-> pc, cache |-> cache, really |-> really]

(* The library calls that may come back to malloc: pthread_setspecific,    *)
(* pthread_atfork, pthread_key_create, and the unwinder run by fn.         *)
MayRecurse == {"SetTlsValue", "InitLate", "CreateTlsKey", "fn"}

Last(t) == stack[t][Len(stack[t])]
At(t, pc) == stack[t] # <<>> /\ Last(t).pc = pc
Push(t, frame) == stack' = [stack EXCEPT ![t] = Append(stack[t], frame)]
Pop(t) == stack' = [stack EXCEPT ![t] = SubSeq(stack[t], 1, Len(stack[t]) - 1)]
GoTo(t, pc) == stack' = [stack EXCEPT ![t] =
                  Append(SubSeq(stack[t], 1, Len(stack[t]) - 1), [Last(t) EXCEPT !.pc = pc])]

(* Code of the program, or a library function above, is running.           *)
Running(t) ==
  /\ life[t] \in {"running", "exiting"}
  /\ calls[t] < MaxCalls
  /\ Len(stack[t]) < MaxDepth
  /\ stack[t] # <<>> => Last(t).pc \in MayRecurse

Called(t) == calls' = [calls EXCEPT ![t] = calls[t] + 1] /\ UNCHANGED <<life, lives>>

-----------------------------------------------------------------------------
(* SlowTLS and the fast path.                                              *)

GetIfPresent(t) == IF good THEN fast[t] ELSE IF keyReady THEN slot[t] ELSE None

Found(t) == chain[t] # <<>>
RegisterEntry(t, e) == <<e>> \o chain[t]
SetFast(t, cache) == IF good THEN [fast EXCEPT ![t] = cache] ELSE fast

(* GetSlow, up to its first blocking or recursive call.  A Grab that finds *)
(* the cache at once, a thread in emergency mode, and one whose entry must *)
(* stay where it is return without changing anything.                      *)
GetSlow(t) ==
  /\ Running(t) /\ GetIfPresent(t) = None
  /\ \/ /\ Found(t) /\ ~chain[t][1].emergency_malloc
        /\ chain[t][1].was_allocated /\ keyReady
        /\ chain' = [chain EXCEPT ![t] = <<Entry(chain[t][1].cache, FALSE, FALSE)>> \o Tail(chain[t])]
        /\ Push(t, Frame("SetTlsValue", chain[t][1].cache, FALSE))
     \/ /\ ~Found(t) /\ keyReady
        /\ Push(t, Frame("NewHeap", None, FALSE))
        /\ UNCHANGED chain
     \/ /\ ~Found(t) /\ ~keyReady
        /\ Push(t, Frame("InitModule", None, TRUE))
        /\ UNCHANGED chain
  /\ Called(t)
  /\ UNCHANGED <<process, owner, fast, slot>>

(* NewHeap, a critical section of the page heap lock, and the registration *)
(* that follows it: on the stack in GetSlow, allocated in GetReallySlow,   *)
(* which then returns.                                                     *)
NewHeap(t) ==
  /\ At(t, "NewHeap") /\ phLock = None
  /\ \E c \in Caches :
       /\ owner[c] = None
       /\ owner' = [owner EXCEPT ![c] = t]
       /\ chain' = [chain EXCEPT ![t] = RegisterEntry(t, Entry(c, FALSE, Last(t).really))]
       /\ IF Last(t).really
            THEN Pop(t)
            ELSE stack' = [stack EXCEPT ![t] =
                   Append(SubSeq(stack[t], 1, Len(stack[t]) - 1), Frame("SetTlsValue", c, FALSE))]
  /\ UNCHANGED <<process, fast, slot, thread>>

(* The registered entry is the newest one: calls made inside SetTlsValue   *)
(* have returned.                                                          *)
SetTlsValue(t) ==
  /\ At(t, "SetTlsValue")
  /\ slot' = [slot EXCEPT ![t] = Last(t).cache]
  /\ fast' = SetFast(t, Last(t).cache)
  /\ chain' = [chain EXCEPT ![t] = Tail(chain[t])]
  /\ Pop(t)
  /\ UNCHANGED <<process, owner, thread>>

-----------------------------------------------------------------------------
(* InitModule, called by GetReallySlow and InitThreadCachePtrLate.  The    *)
(* lock is a member of the PageHeap that InitStaticVars constructs in      *)
(* place, so its constructor leaves it free.                               *)

AfterInit(t) == IF Last(t).really THEN "Lookup" ELSE "CreateTlsKey"

InitModule(t) ==
  /\ At(t, "InitModule") /\ phLock = None
  /\ IF phinited THEN GoTo(t, AfterInit(t)) /\ UNCHANGED phLock
                 ELSE GoTo(t, "InitStaticVars") /\ phLock' = t
  /\ UNCHANGED <<good, phinited, inits, keyReady, late, owner, fast, slot, chain, thread>>

InitStaticVars(t) ==
  /\ At(t, "InitStaticVars")
  /\ inits' = inits + 1
  /\ phLock' = None
  /\ GoTo(t, "phinited")
  /\ UNCHANGED <<good, phinited, keyReady, late, owner, fast, slot, chain, thread>>

(* Mutant: the late part runs before the lock is released.                 *)
LateUnderLock(t) ==
  /\ At(t, "phinited")
  /\ phinited' = TRUE
  /\ phLock' = t
  /\ GoTo(t, "InitLate")
  /\ UNCHANGED <<good, inits, keyReady, late, owner, fast, slot, chain, thread>>

(* phinited = 1 and the end of the SpinLockHolder.                         *)
SetPhinited(t) ==
  /\ At(t, "phinited")
  /\ phinited' = TRUE
  /\ phLock' = None
  /\ GoTo(t, "InitLate")
  /\ UNCHANGED <<good, inits, keyReady, late, owner, fast, slot, chain, thread>>

(* pthread_atfork, without the lock.                                       *)
InitLateMaybeRecursive(t) ==
  /\ At(t, "InitLate")
  /\ GoTo(t, AfterInit(t))
  /\ UNCHANGED <<process, owner, fast, slot, chain, thread>>

(* Mutant: GetReallySlow makes a cache without looking again.              *)
LookupOnce(t) ==
  /\ At(t, "Lookup")
  /\ GoTo(t, "NewHeap")
  /\ UNCHANGED <<process, owner, fast, slot, chain, thread>>

(* GetReallySlow looks again: the calls inside InitModule may have given   *)
(* this thread a cache.                                                    *)
LookupAgain(t) ==
  /\ At(t, "Lookup")
  /\ IF Found(t) THEN Pop(t) ELSE GoTo(t, "NewHeap")
  /\ UNCHANGED <<process, owner, fast, slot, chain, thread>>

(* InitThreadCachePtrLate, from the TCMallocGuard initialiser.             *)
InitThreadCachePtrLate(t) ==
  /\ t = Initial /\ life[t] = "running" /\ stack[t] = <<>> /\ ~late
  /\ late' = TRUE
  /\ Push(t, Frame("InitModule", None, FALSE))
  /\ UNCHANGED <<good, phinited, phLock, inits, keyReady, owner, fast, slot, chain, thread>>

CreateTlsKey(t) ==
  /\ At(t, "CreateTlsKey")
  /\ keyReady' = TRUE
  /\ Pop(t)
  /\ UNCHANGED <<good, phinited, phLock, inits, late, owner, fast, slot, chain, thread>>

-----------------------------------------------------------------------------
(* Mutant: a nested scope marks the entry again and so ends the outer one. *)
ScopeAgain(t) ==
  /\ Running(t)
  /\ Found(t)
  /\ chain' = [chain EXCEPT ![t][1].emergency_malloc = TRUE]
  /\ Push(t, Frame("fn", None, TRUE))
  /\ Called(t)
  /\ UNCHANGED <<process, owner, fast, slot>>

(* WithStacktraceScope.  Inside a scope it only passes FALSE to fn.        *)
WithStacktraceScope(t) ==
  /\ Running(t)
  /\ IF Found(t)
       THEN /\ ~chain[t][1].emergency_malloc
            /\ chain' = [chain EXCEPT ![t][1].emergency_malloc = TRUE]
            /\ Push(t, Frame("fn", None, TRUE))
            /\ UNCHANGED <<fast, slot>>
       ELSE LET cache == GetIfPresent(t) IN
            /\ chain' = [chain EXCEPT ![t] = RegisterEntry(t, Entry(cache, TRUE, FALSE))]
            /\ fast' = SetFast(t, None)
            /\ slot' = IF cache # None THEN [slot EXCEPT ![t] = None] ELSE slot
            /\ Push(t, Frame("fn", cache, FALSE))
  /\ Called(t)
  /\ UNCHANGED <<process, owner>>

(* fn returned.  `really` tells a scope that marked an entry it found from *)
(* one that registered its own.                                            *)
EndScope(t) ==
  /\ At(t, "fn")
  /\ IF Last(t).really
       THEN /\ chain' = [chain EXCEPT ![t][1].emergency_malloc = FALSE]
            /\ UNCHANGED <<fast, slot>>
       ELSE /\ chain' = [chain EXCEPT ![t] = Tail(chain[t])]
            /\ IF Last(t).cache # None
                 THEN /\ slot' = [slot EXCEPT ![t] = Last(t).cache]
                      /\ fast' = SetFast(t, Last(t).cache)
                 ELSE UNCHANGED <<fast, slot>>
  /\ Pop(t)
  /\ UNCHANGED <<process, owner, thread>>

-----------------------------------------------------------------------------
(* MarkThreadIdle: ReleaseAndClear, then DeleteCache.                      *)
ReleaseAndClear(t) ==
  /\ Running(t) /\ stack[t] = <<>> /\ life[t] = "running"
  /\ GetIfPresent(t) # None
  /\ fast' = SetFast(t, None)
  /\ slot' = [slot EXCEPT ![t] = None]
  /\ Push(t, Frame("DeleteCache", GetIfPresent(t), FALSE))
  /\ Called(t)
  /\ UNCHANGED <<process, owner, chain>>

DeleteCache(t) ==
  /\ At(t, "DeleteCache") /\ phLock = None
  /\ owner' = [owner EXCEPT ![Last(t).cache] = None]
  /\ Pop(t)
  /\ UNCHANGED <<process, fast, slot, chain, thread>>

(* Thread start and end.  At the end pthread clears the value and runs the *)
(* key's destructor, again if other destructors made the thread allocate   *)
(* anew, until there is no value.                                          *)
Start(t) ==
  /\ life[t] \in {"new", "dead"} /\ lives[t] < MaxLives
  /\ t = Initial \/ EarlyThreads \/ phinited
  /\ life' = [life EXCEPT ![t] = "running"]
  /\ calls' = [calls EXCEPT ![t] = 0]
  /\ lives' = [lives EXCEPT ![t] = lives[t] + 1]
  /\ UNCHANGED <<process, owner, fast, slot, chain, stack>>

Exit(t) ==
  /\ life[t] = "running" /\ stack[t] = <<>> /\ t # Initial
  /\ life' = [life EXCEPT ![t] = "exiting"]
  /\ UNCHANGED <<process, owner, fast, slot, chain, stack, calls, lives>>

RunDestructors(t) ==
  /\ life[t] = "exiting" /\ stack[t] = <<>>
  /\ IF slot[t] # None
       THEN /\ slot' = [slot EXCEPT ![t] = None]
            /\ fast' = SetFast(t, None)
            /\ Push(t, Frame("DeleteCache", slot[t], FALSE))
            /\ UNCHANGED life
       ELSE /\ life' = [life EXCEPT ![t] = "dead"]
            /\ UNCHANGED <<fast, slot, stack>>
  /\ UNCHANGED <<process, owner, chain, calls, lives>>

-----------------------------------------------------------------------------
Init ==
  /\ good \in BOOLEAN
  /\ phinited = FALSE /\ phLock = None /\ inits = 0 /\ keyReady = FALSE /\ late = FALSE
  /\ owner = [c \in Caches |-> None]
  /\ fast = [t \in Threads |-> None]
  /\ slot = [t \in Threads |-> None]
  /\ chain = [t \in Threads |-> <<>>]
  /\ stack = [t \in Threads |-> <<>>]
  /\ life = [t \in Threads |-> "new"]
  /\ calls = [t \in Threads |-> 0]
  /\ lives = [t \in Threads |-> 0]

(* The steps that carry on a call, or the exit, of a thread.               *)
Proceed(t) ==
  \/ NewHeap(t) \/ SetTlsValue(t)
  \/ InitModule(t) \/ InitStaticVars(t) \/ SetPhinited(t) \/ InitLateMaybeRecursive(t)
  \/ LookupAgain(t) \/ CreateTlsKey(t)
  \/ EndScope(t) \/ DeleteCache(t) \/ RunDestructors(t)

Next ==
  \E t \in Threads :
     \/ Proceed(t)
     \/ GetSlow(t) \/ InitThreadCachePtrLate(t) \/ WithStacktraceScope(t)
     \/ ReleaseAndClear(t) \/ Start(t) \/ Exit(t)

Spec == Init /\ [][Next]_vars

(* Threads are scheduled: a thread whose next step is possible takes it.   *)
FairSpec == Spec /\ \A t \in Threads : WF_vars(Proceed(t))

-----------------------------------------------------------------------------
(* However calls nest and wherever the pthread key appears in between, a   *)
(* thread never gets a second cache while it has one: the registration     *)
(* around SetTlsValue and the second Lookup of GetReallySlow stop malloc's *)
(* recursion from making (and leaking) another.                            *)
OneCachePerThread ==
  \A t \in Threads : Cardinality({c \in Caches : owner[c] = t}) <= 1

(* What a thread can find is a live cache of its own, and one no other     *)
(* thread can find: not one deleted at exit or by MarkThreadIdle.          *)
FindsOwnCache ==
  \A t \in Threads :
     /\ GetIfPresent(t) # None => owner[GetIfPresent(t)] = t
     /\ slot[t] # None => owner[slot[t]] = t
     /\ \A i \in DOMAIN chain[t] : chain[t][i].cache # None => owner[chain[t][i].cache] = t

(* WithStacktraceScope asserts GetIfPresent() == nullptr when it finds an  *)
(* entry; with at most one entry per thread this is what makes the flag on *)
(* the newest entry decide for every call of the thread.                   *)
EntryHidesCache ==
  \A t \in Threads :
     /\ Len(chain[t]) <= 1
     /\ Found(t) => GetIfPresent(t) = None

(* While fn of WithStacktraceScope runs every malloc of its thread is an   *)
(* emergency malloc, whatever fn calls.                                    *)
EmergencyInScope ==
  \A t \in Threads :
     (\E i \in DOMAIN stack[t] : stack[t][i].pc = "fn")
        => GetIfPresent(t) = None /\ Found(t) /\ chain[t][1].emergency_malloc

(* A cache is lost to no one: whoever owns it finds it again on the fast   *)
(* path, in the slow storage or in the hands of a call under way; a dead   *)
(* thread owns none unless it never saw the pthread key (then the next     *)
(* thread with its identity finds the entry).                              *)
NoCacheLost ==
  \A c \in Caches, t \in Threads :
     owner[c] = t =>
        \/ c \in {fast[t], slot[t]} /\ life[t] # "dead"
        \/ \E i \in DOMAIN chain[t] :
              chain[t][i].cache = c /\ (life[t] = "dead" => chain[t][i].was_allocated)
        \/ \E i \in DOMAIN stack[t] : stack[t][i].cache = c

(* Malloc is initialised once: InitModule checks phinited under the page   *)
(* heap lock before it runs InitStaticVars.                                *)
InitializedOnce == inits <= 1

(* Initialisation, recursion and waiting for the lock come to an end:      *)
(* every call a thread makes returns.                                      *)
CallsReturn == \A t \in Threads : stack[t] # <<>> ~> stack[t] = <<>>

(* A thread has at most one cache, finds no other, and never loses it.     *)
CachesOwned == OneCachePerThread /\ FindsOwnCache /\ NoCacheLost

(* Inside a stack trace scope malloc is an emergency malloc, whichever way *)
(* the thread found its cache before.                                      *)
ScopeUsesEmergency == EmergencyInScope /\ EntryHidesCache
=============================================================================
