---------------------------- MODULE ThreadCache ----------------------------
(***************************************************************************)
(* thread_cache.{h,cc}: the free lists of each thread, how long they may   *)
(* become, and how threads share the overall cache size.                   *)
(*                                                                         *)
(* A thread's lists are its own, so everything Allocate and Deallocate do  *)
(* to them is one step; max_size_, which other threads lower when they     *)
(* steal, is read without a lock.  What needs pageheap_lock is a step of   *)
(* its own: the end of Scavenge (pc "limit") and of DeleteCache ("dying"). *)
(* Objects are counted; the central cache is a number of them per class.   *)
(***************************************************************************)
EXTENDS Integers, Sequences, FiniteSets, FiniteSetsExt, SequencesExt

CONSTANTS
  Threads, None,
  Classes,
  ObjectSize,        \* ByteSizeForClass, per class
  Batch,             \* num_objects_to_move, per class
  Objects,           \* bound: objects of each class there are
  MaxDynamic,        \* kMaxDynamicFreeListLength
  MaxOverages,       \* kMaxOverages
  StealAmount,       \* kStealAmount
  Tries,             \* caches looked at for space before giving up; 10
  MaxPerThread,      \* kMaxThreadCacheSize
  DefaultOverall,    \* kDefaultOverallThreadCacheSize
  MinSize,           \* kMinThreadCacheSize
  MaxOverall,        \* the cap of set_overall_thread_cache_size, 1GB
  Overalls, Mins     \* values the two sizes are set to while running

ASSUME ConstantsAssumption ==
  /\ None \notin Threads
  /\ ObjectSize \in [Classes -> Nat \ {0}] /\ Objects \in [Classes -> Nat]
  /\ MaxDynamic \in Nat \ {0} /\ MaxOverages \in Nat
  /\ Batch \in [Classes -> 1..MaxDynamic]
  /\ {StealAmount, Tries, MaxPerThread, DefaultOverall, MaxOverall} \subseteq Nat \ {0}
  /\ MinSize \in Nat /\ Overalls \subseteq Nat /\ Mins \subseteq Nat

VARIABLES
  pc,          \* per thread: "none" (no cache), "idle", "limit", "dying"
  list,        \* list_ per thread and class
  size,        \* size_
  max_size,    \* max_size_
  heaps,       \* the caches from thread_heaps_ along next_
  steal,       \* next_memory_steal_
  unclaimed,   \* unclaimed_cache_space_
  overall,     \* overall_thread_cache_size_
  per_thread,  \* per_thread_cache_size_
  min,         \* min_per_thread_cache_size_
  central,     \* free objects per class in the central cache (external)
  held         \* objects per class the program has

lists  == <<list, size, central, held>>
budget == <<max_size, heaps, steal, unclaimed, overall, per_thread>>
vars   == <<pc, lists, budget, min>>

EmptyList == [length |-> 0, lowater |-> 0, max_length |-> 1, overages |-> 0]

Init ==
  /\ pc = [t \in Threads |-> "none"]
  /\ list = [t \in Threads |-> [c \in Classes |-> EmptyList]]
  /\ size = [t \in Threads |-> 0] /\ max_size = [t \in Threads |-> 0]
  /\ heaps = <<>> /\ steal = None
  /\ unclaimed = DefaultOverall /\ overall = DefaultOverall
  /\ per_thread = MaxPerThread /\ min = MinSize
  /\ central = Objects
  /\ held = [c \in Classes |-> 0]
SumOver(f, S) == MapThenSumSet(LAMBDA x : f[x], S)
-----------------------------------------------------------------------------
(* FreeList.                                                               *)
Least(a, b) == IF a < b THEN a ELSE b

WithLength(l, n) ==
  [length |-> n, lowater |-> Least(l.lowater, n),
   max_length |-> l.max_length, overages |-> l.overages]

WithMax(l, n) ==
  [length |-> l.length, lowater |-> l.lowater, max_length |-> n, overages |-> l.overages]

(* Push and PushRange leave the low-water mark; Pop and PopRange lower it. *)
Pushed(l, n) ==
  [length |-> l.length + n, lowater |-> l.lowater,
   max_length |-> l.max_length, overages |-> l.overages]
PoppedHighWater(l, n) ==    \* mutant: the low-water mark is not lowered
  [length |-> l.length - n, lowater |-> l.lowater,
   max_length |-> l.max_length, overages |-> l.overages]
Popped(l, n) == WithLength(l, l.length - n)

(* FetchFromCentralCache: the new max_length.                              *)
GrownUnrounded(c, m) ==     \* mutant: no rounding down to batches
  IF m < Batch[c] THEN m + 1 ELSE Least(m + Batch[c], MaxDynamic)
Grown(c, m) ==
  LET new == Least(m + Batch[c], MaxDynamic) IN
  IF m < Batch[c] THEN m + 1 ELSE new - (new % Batch[c])

(* ReleaseToCentralCache(src, cl, N): how many objects go.                 *)
ReleaseCount(l, n) == Least(n, l.length)

(* ListTooLong: max_length converges on the batch size.                    *)
TooLong(l, c) ==
  IF l.max_length < Batch[c] THEN WithMax(l, l.max_length + 1)
  ELSE IF l.max_length = Batch[c] THEN l
  ELSE IF l.overages + 1 > MaxOverages
    THEN [length |-> l.length, lowater |-> l.lowater,
          max_length |-> l.max_length - Batch[c], overages |-> 0]
  ELSE [length |-> l.length, lowater |-> l.lowater,
        max_length |-> l.max_length, overages |-> l.overages + 1]

(* Scavenge, per list: half of what was not needed goes.                   *)
Drop(l) == IF l.lowater > 1 THEN l.lowater \div 2 ELSE l.lowater
Scavenged(l, c) ==
  LET kept == l.length - Drop(l)
      less == l.max_length - Batch[c]
  IN [length |-> kept, lowater |-> kept, overages |-> l.overages,
      max_length |-> IF l.lowater > 0 /\ l.max_length > Batch[c]
                       THEN IF less > Batch[c] THEN less ELSE Batch[c]
                       ELSE l.max_length]
-----------------------------------------------------------------------------
(* The cache after v in the list of caches, v in front of the end: None.   *)
Position(v) == CHOOSE i \in DOMAIN heaps : heaps[i] = v
NextOf(v) == IF Position(v) = Len(heaps) THEN None ELSE heaps[Position(v) + 1]

(* IncreaseCacheLimitLocked's loop looks at the caches from                *)
(* next_memory_steal_ on, round and round; a negative max_size_ is         *)
(* compared as a huge unsigned number.                                     *)
Visited(k) ==
  LET first == IF steal = None THEN 1 ELSE Position(steal) IN
  heaps[((first - 1 + k) % Len(heaps)) + 1]
Stealable(v) == max_size[v] < 0 \/ max_size[v] > min
Suitable(t) == {k \in 0..(Tries - 1) : Visited(k) # t /\ Stealable(Visited(k))}

(* IncreaseCacheLimitLocked for a cache whose max_size_ is m: its new      *)
(* max_size_ and whom it was taken from.                                   *)
IncreaseCacheLimitLocked(t, m) ==
  IF unclaimed > 0
    THEN [m |-> m + StealAmount, from |-> None,
          unclaimed |-> unclaimed - StealAmount, next |-> steal]
  ELSE IF heaps = <<>>      \* excluded by CanAlwaysClaim
    THEN [m |-> m, from |-> None, unclaimed |-> unclaimed, next |-> steal]
  ELSE IF Suitable(t) = {}
    THEN [m |-> m, from |-> None,
          unclaimed |-> unclaimed, next |-> NextOf(Visited(Tries - 1))]
  ELSE LET v == Visited(Min(Suitable(t))) IN
       [m |-> m + StealAmount, from |-> v, unclaimed |-> unclaimed, next |-> NextOf(v)]

Taken(from) == IF from = None THEN max_size ELSE [max_size EXCEPT ![from] = @ - StealAmount]

(* NewHeap with the constructor.                                           *)
NewHeap(t) ==
  LET r     == IncreaseCacheLimitLocked(t, 0)
      least == r.m = 0      \* not enough to go around: the minimum
  IN /\ pc[t] = "none"
     /\ pc' = [pc EXCEPT ![t] = "idle"]
     /\ max_size' = [Taken(r.from) EXCEPT ![t] = IF least THEN min ELSE r.m]
     /\ unclaimed' = IF least THEN r.unclaimed - min ELSE r.unclaimed
     /\ steal' = IF heaps = <<>> THEN t ELSE r.next
     /\ heaps' = <<t>> \o heaps
     /\ size' = [size EXCEPT ![t] = 0]
     /\ list' = [list EXCEPT ![t] = [c \in Classes |-> EmptyList]]
     /\ UNCHANGED <<overall, per_thread, min, central, held>>

(* Allocate from the list.                                                 *)
Allocate(t, c) ==
  /\ pc[t] = "idle" /\ list[t][c].length > 0
  /\ list' = [list EXCEPT ![t] = [@ EXCEPT ![c] = Popped(list[t][c], 1)]]
  /\ size' = [size EXCEPT ![t] = @ - ObjectSize[c]]
  /\ held' = [held EXCEPT ![c] = @ + 1]
  /\ UNCHANGED <<pc, central, budget, min>>

(* FetchFromCentralCache: RemoveRange yields up to as many as asked; none  *)
(* (the out-of-memory handler) only if there are none.                     *)
FetchKeepsFirst(t, c) ==    \* mutant: the object returned is put on the list too
  /\ pc[t] = "idle" /\ list[t][c].length = 0
  /\ \E n \in 1..Least(Least(list[t][c].max_length, Batch[c]), central[c]) :
       /\ list' = [list EXCEPT ![t] = [@ EXCEPT ![c] =
                      WithMax(Pushed(@, n), Grown(c, @.max_length))]]
       /\ size' = [size EXCEPT ![t] = @ + ObjectSize[c] * n]
       /\ central' = [central EXCEPT ![c] = @ - n]
       /\ held' = [held EXCEPT ![c] = @ + 1]
  /\ UNCHANGED <<pc, budget, min>>
FetchFromCentralCache(t, c) ==
  LET l == list[t][c] IN
  /\ pc[t] = "idle" /\ l.length = 0
  /\ \E n \in 1..Least(Least(l.max_length, Batch[c]), central[c]) :
       /\ list' = [list EXCEPT ![t] = [@ EXCEPT ![c] =
                      WithMax(Pushed(l, n - 1), Grown(c, l.max_length))]]
       /\ size' = [size EXCEPT ![t] = @ + ObjectSize[c] * (n - 1)]
       /\ central' = [central EXCEPT ![c] = @ - n]
       /\ held' = [held EXCEPT ![c] = @ + 1]
  /\ UNCHANGED <<pc, budget, min>>

(* Deallocate, ListTooLong and the lists' part of Scavenge.                *)
Deallocate(t, c) ==
  LET l       == Pushed(list[t][c], 1)
      long    == l.length > l.max_length
      gone    == IF long THEN ReleaseCount(l, Batch[c]) ELSE 0
      mine    == [list[t] EXCEPT ![c] = IF long THEN TooLong(Popped(l, gone), c) ELSE l]
      now     == size[t] + ObjectSize[c] - gone * ObjectSize[c]
      scavenge == now > max_size[t]
      dropped == [d \in Classes |-> IF scavenge THEN Drop(mine[d]) ELSE 0]
  IN /\ pc[t] = "idle" /\ held[c] > 0
     /\ held' = [held EXCEPT ![c] = @ - 1]
     /\ list' = [list EXCEPT ![t] =
          IF scavenge THEN [d \in Classes |-> Scavenged(mine[d], d)] ELSE mine]
     /\ size' = [size EXCEPT ![t] =
          now - SumOver([d \in Classes |-> dropped[d] * ObjectSize[d]], Classes)]
     /\ central' = [d \in Classes |-> central[d] + dropped[d] + (IF d = c THEN gone ELSE 0)]
     /\ pc' = [pc EXCEPT ![t] = IF scavenge THEN "limit" ELSE "idle"]
     /\ UNCHANGED <<budget, min>>

(* IncreaseCacheLimit, the end of Scavenge.                                *)
IncreaseCacheLimit(t) ==
  LET r == IncreaseCacheLimitLocked(t, max_size[t]) IN
  /\ pc[t] = "limit"
  /\ pc' = [pc EXCEPT ![t] = "idle"]
  /\ max_size' = [Taken(r.from) EXCEPT ![t] = r.m]
  /\ unclaimed' = r.unclaimed
  /\ steal' = r.next
  /\ UNCHANGED <<lists, heaps, overall, per_thread, min>>

(* DeleteCache: the destructor, without a lock...                          *)
DestroyCache(t) ==
  /\ pc[t] = "idle"
  /\ pc' = [pc EXCEPT ![t] = "dying"]
  /\ central' = [c \in Classes |-> central[c] + list[t][c].length]
  /\ list' = [list EXCEPT ![t] = [c \in Classes |-> WithLength(@[c], 0)]]
  /\ size' = [size EXCEPT ![t] =
       @ - SumOver([c \in Classes |-> list[t][c].length * ObjectSize[c]], Classes)]
  /\ UNCHANGED <<held, budget, min>>

StealAfter(t, rest) ==
  LET next == IF steal = t THEN NextOf(t) ELSE steal IN
  IF next = None /\ rest # <<>> THEN Head(rest) ELSE next

DeleteCache(t) ==
  LET rest == SubSeq(heaps, 1, Position(t) - 1) \o SubSeq(heaps, Position(t) + 1, Len(heaps)) IN
  /\ pc[t] = "dying"
  /\ pc' = [pc EXCEPT ![t] = "none"]
  /\ heaps' = rest
  /\ steal' = StealAfter(t, rest)
  /\ unclaimed' = unclaimed + max_size[t]
  /\ max_size' = [max_size EXCEPT ![t] = 0]
  /\ UNCHANGED <<lists, overall, per_thread, min>>

(* set_overall_thread_cache_size with RecomputePerThreadCacheSize.         *)
Clip(n, low, high) == LET raised == IF n < low THEN low ELSE n IN Least(raised, high)
Scale(m, a, b) == IF m < 0 THEN -((-m * a) \div b) ELSE (m * a) \div b
Listed == Range(heaps)

SetOverall(n) ==
  LET total == Clip(n, min, MaxOverall)
      count == IF heaps = <<>> THEN 1 ELSE Len(heaps)
      space == Clip(total \div count, min, MaxPerThread)
      was   == IF per_thread < 1 THEN 1 ELSE per_thread
      new   == [t \in Threads |-> IF t \in Listed /\ space < was
                                    THEN Scale(max_size[t], space, was) ELSE max_size[t]]
  IN /\ overall' = total
     /\ max_size' = new
     /\ unclaimed' = total - SumOver(new, Listed)
     /\ per_thread' = space
     /\ UNCHANGED <<pc, lists, heaps, steal, min>>

(* set_min_per_thread_cache_size.                                          *)
SetMin(n) == min' = n /\ UNCHANGED <<pc, lists, budget>>

Next ==
  \/ \E t \in Threads, c \in Classes :
       Allocate(t, c) \/ FetchFromCentralCache(t, c) \/ Deallocate(t, c)
  \/ \E t \in Threads :
       NewHeap(t) \/ IncreaseCacheLimit(t) \/ DestroyCache(t) \/ DeleteCache(t)
  \/ \E n \in Overalls : SetOverall(n)
  \/ \E n \in Mins : SetMin(n)

Spec == Init /\ [][Next]_vars
-----------------------------------------------------------------------------
FreeLists == [length : Nat, lowater : Nat, max_length : Nat, overages : Nat]

(* The types of the variables; counts never go below zero.                 *)
TypeOK ==
  /\ pc \in [Threads -> {"none", "idle", "limit", "dying"}]
  /\ list \in [Threads -> [Classes -> FreeLists]]
  /\ size \in [Threads -> Int] /\ max_size \in [Threads -> Int]
  /\ heaps \in Seq(Threads) /\ steal \in Threads \cup {None}
  /\ unclaimed \in Int /\ {overall, per_thread, min} \subseteq Nat
  /\ central \in [Classes -> Nat] /\ held \in [Classes -> Nat]

(* size_ is "Combined size of data": what Deallocate compares with         *)
(* max_size_ is what the lists hold, after any sequence of fetches, frees, *)
(* overlong lists and scavenges.                                           *)
SizeExact ==
  \A t \in Threads :
    size[t] = SumOver([c \in Classes |-> list[t][c].length * ObjectSize[c]], Classes)

(* Every object is with the program, in a list or in the central cache.    *)
ObjectsConserved ==
  \A c \in Classes :
    Objects[c] = held[c] + central[c]
                   + SumOver([t \in Threads |-> list[t][c].length], Threads)

(* unclaimed_cache_space_ "represents overall_thread_cache_size_ minus the *)
(* sum of max_size_ across all ThreadCaches", however caches come, go,     *)
(* steal from each other (also from one being destroyed) and are resized.  *)
BudgetExact == unclaimed = overall - SumOver(max_size, Listed)

(* next_memory_steal_ is "a pointer to one of the objects in               *)
(* thread_heaps_" or null, never to a deleted cache; the caches in the     *)
(* list are those that exist, each once; and IncreaseCacheLimitLocked's    *)
(* assertion thread_heaps_ != nullptr: whoever finds nothing unclaimed     *)
(* finds a cache to look at.                                               *)
StealPointerListed ==
  /\ steal \in Listed \cup {None}
  /\ Listed = {t \in Threads : pc[t] # "none"} /\ Len(heaps) = Cardinality(Listed)
  /\ heaps = <<>> => unclaimed > 0

(* FetchFromCentralCache's comment: "The list's max_length must always be  *)
(* a multiple of batch_size", once it has passed it; Deallocate asserts    *)
(* that it is positive.                                                    *)
MaxLengthWhole ==
  \A t \in Threads, c \in Classes :
    LET m == list[t][c].max_length IN m >= 1 /\ (m > Batch[c] => m % Batch[c] = 0)

(* Scavenge drops half the low-water mark: the mark never exceeds what is  *)
(* in the list.                                                            *)
LowWaterWithin == \A t \in Threads, c \in Classes : list[t][c].lowater <= list[t][c].length

(* malloc_extension.h: "Lower limit on total number of bytes stored        *)
(* per-thread cache": stealing never takes more than a cache has.          *)
LimitsNotNegative == \A t \in Listed : max_size[t] >= 0

(* A cache's size_ is what its lists hold, counts are never negative, and  *)
(* no object is lost between the program, the lists and the central cache. *)
ListsExact == TypeOK /\ SizeExact /\ ObjectsConserved

=============================================================================
