-------------------------- MODULE CentralFreeList ---------------------------
(***************************************************************************)
(* central_freelist.{h,cc}: the per-size-class central lists between the   *)
(* thread caches and the page heap, with their transfer caches.            *)
(*                                                                         *)
(* An object is represented by the span it was carved from, so a chain of  *)
(* objects is a bag of spans: a function from Spans to counts.  The order  *)
(* of the span lists and of the objects in a chain is abstracted: where    *)
(* the code takes the first one, any one is taken.  A lock is an owner     *)
(* variable that moves as in AbstractLock.  Whatever runs under one        *)
(* uninterrupted hold of lock_ is one step, except that the loops over     *)
(* spans and over objects take a step per iteration, the lock held.        *)
(* The page heap gives and takes whole spans (external here: PageHeap).    *)
(***************************************************************************)
EXTENDS Integers, Sequences, FiniteSets, FiniteSetsExt, Functions

CONSTANTS
  Threads, NoThread,
  Classes, NoClass,      \* size classes
  Spans, NoSpan,         \* the spans the page heap can hand out
  ObjectsPerSpan,        \* (length << kPageShift) / ByteSizeForClass
  NumObjectsToMove,      \* the batch size of each class
  MaxCacheSize,          \* max_cache_size_ of each class
  InitialCacheSize       \* 16 in Init, clipped to max_cache_size_

ASSUME NamesAssumption ==
  NoThread \notin Threads /\ NoClass \notin Classes /\ NoSpan \notin Spans
ASSUME SizesAssumption ==
  /\ ObjectsPerSpan \in [Classes -> Nat \ {0}]
  /\ NumObjectsToMove \in [Classes -> Nat \ {0}]
  /\ MaxCacheSize \in [Classes -> Nat]
  /\ InitialCacheSize \in Nat

VARIABLES
  lock,        \* lock_ of each class: its owner
  cache_size,  \* cache_size_
  tc_slots,    \* tc_slots_[0 .. used_slots_ - 1], each a chain of objects
  counter,     \* counter_
  num_spans,   \* num_spans_
  span,        \* per span: where it is, its class, |objects|, refcount
  own,         \* objects each thread has taken and not yet given back
  pc,          \* per thread: control state,
  cl,          \*   size_class_ of the list operated on,
  N, result,   \*   RemoveRange: objects wanted and got,
  list,        \*   InsertRange: the chain,
  victim,      \*   EvictRandomSizeClass: the class to shrink,
  rel,         \*   ReleaseListToSpans: what is left of its chain,
  flag,        \*   EvictRandomSizeClass: force; RemoveRange: has populated,
  sp           \*   a span in transit from or to the page heap

slots  == <<cache_size, tc_slots>>
lists  == <<counter, num_spans, span>>
locals == <<cl, N, result, list, victim, rel, flag, sp>>
vars   == <<lock, slots, lists, own, pc, locals>>

NoObjects == [s \in Spans |-> 0]
Size(chain) == FoldFunction(+, 0, chain)
Plus(a, b)  == [s \in Spans |-> a[s] + b[s]]
Minus(a, b) == [s \in Spans |-> a[s] - b[s]]

used_slots(c) == Len(tc_slots[c])

(* The spans of class c on the nonempty_ list.                             *)
Nonempty(c) == {s \in Spans : span[s].at = "nonempty" /\ span[s].cl = c}

Init ==
  /\ lock = [c \in Classes |-> NoThread]
  /\ cache_size = [c \in Classes |-> IF InitialCacheSize <= MaxCacheSize[c]
                                       THEN InitialCacheSize ELSE MaxCacheSize[c]]
  /\ tc_slots = [c \in Classes |-> <<>>]
  /\ counter = [c \in Classes |-> 0]
  /\ num_spans = [c \in Classes |-> 0]
  /\ span = [s \in Spans |-> [at |-> "pageheap", cl |-> NoClass,
                              objects |-> 0, refcount |-> 0]]
  /\ own = [t \in Threads |-> NoObjects]
  /\ pc = [t \in Threads |-> "idle"]
  /\ cl = [t \in Threads |-> NoClass] /\ victim = [t \in Threads |-> NoClass]
  /\ N = [t \in Threads |-> 0] /\ result = [t \in Threads |-> 0]
  /\ list = [t \in Threads |-> NoObjects] /\ rel = [t \in Threads |-> NoObjects]
  /\ flag = [t \in Threads |-> FALSE] /\ sp = [t \in Threads |-> NoSpan]

Goto(t, label) == pc' = [pc EXCEPT ![t] = label]

(* The call returns; its locals are forgotten.                             *)
Return(t) ==
  /\ Goto(t, "idle")
  /\ cl' = [cl EXCEPT ![t] = NoClass] /\ victim' = [victim EXCEPT ![t] = NoClass]
  /\ N' = [N EXCEPT ![t] = 0] /\ result' = [result EXCEPT ![t] = 0]
  /\ list' = [list EXCEPT ![t] = NoObjects] /\ rel' = [rel EXCEPT ![t] = NoObjects]
  /\ flag' = [flag EXCEPT ![t] = FALSE] /\ sp' = [sp EXCEPT ![t] = NoSpan]

Acquire(t, c) == lock[c] = NoThread /\ lock' = [lock EXCEPT ![c] = t]
Release(c)    == lock' = [lock EXCEPT ![c] = NoThread]

(* A critical section that is over within the step.                        *)
Locked(c) == lock[c] = NoThread /\ UNCHANGED lock

PushSlot(c, chain) == tc_slots' = [tc_slots EXCEPT ![c] = Append(@, chain)]
PopSlot(c) == tc_slots' = [tc_slots EXCEPT ![c] = SubSeq(@, 1, Len(@) - 1)]
LastSlot(c) == tc_slots[c][Len(tc_slots[c])]
-----------------------------------------------------------------------------
(* RemoveRange(start, end, N): from the transfer cache when exactly one    *)
(* batch is wanted, otherwise from spans.                                  *)
RemoveRange(t, c, n) ==
  /\ pc[t] = "idle"
  /\ IF n = NumObjectsToMove[c] /\ used_slots(c) > 0
       THEN /\ Locked(c)
            /\ own' = [own EXCEPT ![t] = Plus(@, LastSlot(c))]
            /\ PopSlot(c)
            /\ UNCHANGED <<pc, cl, N>>
       ELSE /\ Acquire(t, c)
            /\ Goto(t, "fetch")
            /\ cl' = [cl EXCEPT ![t] = c]
            /\ N' = [N EXCEPT ![t] = n]
            /\ UNCHANGED <<own, tc_slots>>
  /\ UNCHANGED <<cache_size, lists, result, list, victim, rel, flag, sp>>

(* How many objects the walk over span->objects collects.                  *)
FetchCount(t, s) == Min({N[t] - result[t], span[s].objects})

(* FetchFromOneSpans(N - result): up to that many objects of one span.     *)
FetchFromOneSpans(t) ==
  /\ pc[t] = "fetch" /\ result[t] < N[t]
  /\ \E s \in Nonempty(cl[t]) :
       LET n == FetchCount(t, s) IN
       /\ span' = [span EXCEPT ![s].at = IF n = span[s].objects THEN "empty" ELSE @,
                               ![s].objects = @ - n, ![s].refcount = @ + n]
       /\ counter' = [counter EXCEPT ![cl[t]] = @ - n]
       /\ own' = [own EXCEPT ![t][s] = @ + n]
       /\ result' = [result EXCEPT ![t] = @ + n]
  /\ UNCHANGED <<lock, slots, num_spans, pc, cl, N, list, victim, rel, flag, sp>>

(* FetchFromOneSpansSafe: nothing found, so Populate gives up the lock.    *)
PopulateUnlock(t) ==
  /\ pc[t] = "fetch" /\ result[t] = 0 /\ ~flag[t]
  /\ Nonempty(cl[t]) = {}
  /\ Release(cl[t])
  /\ Goto(t, "populate")
  /\ UNCHANGED <<slots, lists, own, locals>>

(* Populate: NewWithSizeClass and the carving, without the lock; or the    *)
(* page heap has nothing to give.                                          *)
PopulateCarve(t) ==
  /\ pc[t] = "populate"
  /\ \/ \E s \in Spans :
          /\ span[s].at = "pageheap"
          /\ span' = [span EXCEPT ![s] = [at |-> "transit", cl |-> cl[t],
                                objects |-> ObjectsPerSpan[cl[t]], refcount |-> 0]]
          /\ sp' = [sp EXCEPT ![t] = s]
     \/ UNCHANGED <<span, sp>>
  /\ Goto(t, "addspan")
  /\ UNCHANGED <<lock, slots, counter, num_spans, own, cl, N, result, list, victim, rel, flag>>

(* Populate puts the span on a list.                                       *)
PrependToNonempty(s) == [span EXCEPT ![s].at = "nonempty"]

(* Populate takes the lock back, and the fetch is tried once more.         *)
PopulateAdd(t) ==
  /\ pc[t] = "addspan"
  /\ Acquire(t, cl[t])
  /\ IF sp[t] # NoSpan
       THEN /\ span' = PrependToNonempty(sp[t])
            /\ num_spans' = [num_spans EXCEPT ![cl[t]] = @ + 1]
            /\ counter' = [counter EXCEPT ![cl[t]] = @ + span[sp[t]].objects]
       ELSE UNCHANGED lists
  /\ Goto(t, "fetch")
  /\ flag' = [flag EXCEPT ![t] = TRUE]
  /\ UNCHANGED <<slots, own, cl, N, result, list, victim, rel, sp>>

(* The end of RemoveRange: N objects, or no more spans.                    *)
RemoveRangeReturn(t) ==
  /\ pc[t] = "fetch"
  /\ \/ result[t] = N[t]
     \/ Nonempty(cl[t]) = {} /\ (result[t] > 0 \/ flag[t])
  /\ Release(cl[t])
  /\ Return(t)
  /\ UNCHANGED <<slots, lists, own>>
-----------------------------------------------------------------------------
OneBatch(c, chain) == Size(chain) = NumObjectsToMove[c]

(* InsertRange(start, end, N): a full batch goes to the transfer cache if  *)
(* MakeCacheSpace finds room, anything else back to the spans.             *)
InsertRange(t, c, chain) ==
  /\ pc[t] = "idle"
  /\ own' = [own EXCEPT ![t] = Minus(@, chain)]
  /\ \/ /\ OneBatch(c, chain) /\ used_slots(c) < cache_size[c]
        /\ Locked(c)
        /\ PushSlot(c, chain)
        /\ UNCHANGED <<pc, cl, list, rel>>
     \/ /\ OneBatch(c, chain) /\ used_slots(c) >= cache_size[c]
        /\ cache_size[c] # MaxCacheSize[c]
        /\ Acquire(t, c)
        /\ Goto(t, "evict")
        /\ cl' = [cl EXCEPT ![t] = c]
        /\ list' = [list EXCEPT ![t] = chain]
        /\ UNCHANGED <<tc_slots, rel>>
     \/ /\ OneBatch(c, chain) => /\ used_slots(c) >= cache_size[c]
                                 /\ cache_size[c] = MaxCacheSize[c]
        /\ Acquire(t, c)
        /\ Goto(t, "release")
        /\ cl' = [cl EXCEPT ![t] = c]
        /\ rel' = [rel EXCEPT ![t] = chain]
        /\ UNCHANGED <<tc_slots, list>>
  /\ UNCHANGED <<cache_size, lists, N, result, victim, flag, sp>>

(* InsertRange found no slot: ReleaseListToSpans(start), the lock held.    *)
GiveUpSlot(t) ==
  /\ Goto(t, "release")
  /\ rel' = [rel EXCEPT ![t] = list[t]]
  /\ list' = [list EXCEPT ![t] = NoObjects]
  /\ victim' = [victim EXCEPT ![t] = NoClass]
  /\ flag' = [flag EXCEPT ![t] = FALSE]
  /\ UNCHANGED <<cl, N, result, sp>>

(* MakeCacheSpace: after a failed eviction another one with force.         *)
ForceEviction(t) ==
  /\ Goto(t, "evict")
  /\ victim' = [victim EXCEPT ![t] = NoClass]
  /\ flag' = [flag EXCEPT ![t] = TRUE]
  /\ UNCHANGED <<cl, N, result, list, rel, sp>>

EvictAgain(t) ==   \* mutant: MakeCacheSpace insists
  /\ Goto(t, "evict")
  /\ victim' = [victim EXCEPT ![t] = NoClass]
  /\ flag' = [flag EXCEPT ![t] = ~@]
  /\ UNCHANGED <<cl, N, result, list, rel, sp>>
EvictFailed(t) == IF flag[t] THEN GiveUpSlot(t) ELSE ForceEviction(t)

(* ShrinkCache's early returns, tested without the lock and again with it. *)
NothingToShrink(t, v) ==
  cache_size[v] = 0 \/ (~flag[t] /\ used_slots(v) = cache_size[v])

(* LockInverter gives up the caller's lock before it wants the victim's.   *)
KeepHeld(t) == UNCHANGED lock   \* mutant: locks nest
InvertUnlock(t) == Release(cl[t])

(* EvictRandomSizeClass: the unlocked race_counter makes the victim        *)
(* arbitrary.  While another thread holds the victim's lock the unlocked   *)
(* reads of ShrinkCache may see any of the values being written.           *)
EvictRandomSizeClass(t) ==
  /\ pc[t] = "evict"
  /\ \E v \in Classes :
       \/ /\ v = cl[t] \/ NothingToShrink(t, v) \/ lock[v] # NoThread
          /\ EvictFailed(t)
          /\ UNCHANGED lock
       \/ /\ v # cl[t]
          /\ ~NothingToShrink(t, v) \/ lock[v] # NoThread
          /\ InvertUnlock(t)
          /\ Goto(t, "invert")
          /\ victim' = [victim EXCEPT ![t] = v]
          /\ UNCHANGED <<cl, N, result, list, rel, flag, sp>>
  /\ UNCHANGED <<slots, lists, own>>

(* ShrinkCache takes a slot from the victim.                               *)
KeepSlot(v) == UNCHANGED cache_size   \* mutant: cache_size_ is not decremented
TakeSlot(v) == cache_size' = [cache_size EXCEPT ![v] = @ - 1]

(* ShrinkCache under the victim's lock, which LockInverter took after      *)
(* giving up the caller's: nothing to take, an unused slot, or a used one  *)
(* whose objects are then released under that lock.                        *)
ShrinkCache(t) ==
  LET v == victim[t] IN
  /\ pc[t] = "invert"
  /\ \/ /\ NothingToShrink(t, v)
        /\ Locked(v)
        /\ Goto(t, "failed")
        /\ UNCHANGED <<slots, rel>>
     \/ /\ ~NothingToShrink(t, v) /\ used_slots(v) # cache_size[v]
        /\ Locked(v)
        /\ TakeSlot(v)
        /\ Goto(t, "evicted")
        /\ UNCHANGED <<tc_slots, rel>>
     \/ /\ ~NothingToShrink(t, v) /\ used_slots(v) = cache_size[v]
        /\ Acquire(t, v)
        /\ TakeSlot(v)
        /\ PopSlot(v)
        /\ Goto(t, "release")
        /\ rel' = [rel EXCEPT ![t] = LastSlot(v)]
  /\ UNCHANGED <<lists, own, cl, N, result, list, victim, flag, sp>>

(* LockInverter gives the caller's lock back; the eviction failed.         *)
RelockAfterFailure(t) ==
  /\ pc[t] = "failed"
  /\ Acquire(t, cl[t])
  /\ EvictFailed(t)
  /\ UNCHANGED <<slots, lists, own>>

(* MakeCacheSpace's check after it got the lock back.                      *)
GrowUnchecked(c) == TRUE   \* mutant: the check before the eviction is trusted
MayGrow(c) == cache_size[c] < MaxCacheSize[c]

(* The same after a successful eviction: the cache grows by the slot taken *)
(* if it still may, and InsertRange uses it.                               *)
RelockAfterEviction(t) ==
  /\ pc[t] = "evicted"
  /\ \/ /\ MayGrow(cl[t])
        /\ Locked(cl[t])
        /\ cache_size' = [cache_size EXCEPT ![cl[t]] = @ + 1]
        /\ PushSlot(cl[t], list[t])
        /\ Return(t)
     \/ /\ ~MayGrow(cl[t])
        /\ Acquire(t, cl[t])
        /\ GiveUpSlot(t)
        /\ UNCHANGED slots
  /\ UNCHANGED <<lists, own>>
-----------------------------------------------------------------------------
(* The class whose lock ReleaseListToSpans runs under.                     *)
ReleaseClass(t) == IF victim[t] = NoClass THEN cl[t] ELSE victim[t]

(* counter_ after the last object of a span came back.                     *)
CounterAfterLast(c) == counter[c] + 1 - ObjectsPerSpan[c]

(* ReleaseToSpans(object): one object of the chain back to its span; the   *)
(* last one takes the span off the lists and gives up the lock.            *)
ReleaseToSpans(t) ==
  LET c == ReleaseClass(t) IN
  /\ pc[t] = "release"
  /\ \E s \in Spans :
       /\ rel[t][s] > 0
       /\ rel' = [rel EXCEPT ![t][s] = @ - 1]
       /\ \/ /\ span[s].refcount = 1
             /\ span' = [span EXCEPT ![s] = [@ EXCEPT !.at = "transit",
                                                      !.objects = 0, !.refcount = 0]]
             /\ counter' = [counter EXCEPT ![c] = CounterAfterLast(c)]
             /\ num_spans' = [num_spans EXCEPT ![c] = @ - 1]
             /\ Release(c)
             /\ Goto(t, "delete")
             /\ sp' = [sp EXCEPT ![t] = s]
          \/ /\ span[s].refcount # 1
             /\ span' = [span EXCEPT ![s] = [@ EXCEPT !.at = "nonempty",
                                        !.objects = @ + 1, !.refcount = @ - 1]]
             /\ counter' = [counter EXCEPT ![c] = @ + 1]
             /\ UNCHANGED <<lock, num_spans, pc, sp>>
  /\ UNCHANGED <<slots, own, cl, N, result, list, victim, flag>>

(* pageheap()->Delete(span), without the lock.                             *)
DeleteSpan(t) ==
  /\ pc[t] = "delete"
  /\ span' = [span EXCEPT ![sp[t]].at = "pageheap", ![sp[t]].cl = NoClass]
  /\ sp' = [sp EXCEPT ![t] = NoSpan]
  /\ Goto(t, "relock")
  /\ UNCHANGED <<lock, slots, counter, num_spans, own, cl, N, result, list, victim, rel, flag>>

(* ReleaseToSpans takes the lock back and the loop goes on.                *)
ReleaseRelock(t) ==
  /\ pc[t] = "relock"
  /\ Acquire(t, ReleaseClass(t))
  /\ Goto(t, "release")
  /\ UNCHANGED <<slots, lists, own, locals>>

(* The end of ReleaseListToSpans: of InsertRange, or of ShrinkCache, whose *)
(* LockInverter then wants the caller's lock.                              *)
ReleaseReturn(t) ==
  /\ pc[t] = "release" /\ rel[t] = NoObjects
  /\ Release(ReleaseClass(t))
  /\ \/ victim[t] = NoClass /\ Return(t)
     \/ victim[t] # NoClass /\ Goto(t, "evicted") /\ UNCHANGED locals
  /\ UNCHANGED <<slots, lists, own>>
-----------------------------------------------------------------------------
(* The chains of class c thread t can give back: 1 to a batch of objects.  *)
Chains(t, c) ==
  {b \in [Spans -> 0..NumObjectsToMove[c]] :
     /\ \A s \in Spans : b[s] <= own[t][s] /\ (b[s] > 0 => span[s].cl = c)
     /\ Size(b) \in 1..NumObjectsToMove[c]}

(* The program frees an object in a thread other than the allocating one.  *)
Handoff(t, u, s) ==
  /\ own[t][s] > 0 /\ pc[t] = "idle" /\ pc[u] = "idle"
  /\ own' = [own EXCEPT ![t][s] = @ - 1, ![u][s] = @ + 1]
  /\ UNCHANGED <<lock, slots, lists, pc, locals>>

(* The steps a thread takes inside InsertRange and RemoveRange.            *)
Step(t) ==
  \/ FetchFromOneSpans(t) \/ PopulateUnlock(t) \/ PopulateCarve(t) \/ PopulateAdd(t)
  \/ RemoveRangeReturn(t) \/ EvictRandomSizeClass(t) \/ ShrinkCache(t)
  \/ RelockAfterFailure(t) \/ RelockAfterEviction(t) \/ ReleaseToSpans(t)
  \/ DeleteSpan(t) \/ ReleaseRelock(t) \/ ReleaseReturn(t)

(* What the thread caches and the program do: start a call, move objects.  *)
Call(t) ==
  \/ \E c \in Classes : \E n \in 1..NumObjectsToMove[c] : RemoveRange(t, c, n)
  \/ \E c \in Classes : \E chain \in Chains(t, c) : InsertRange(t, c, chain)
  \/ \E u \in Threads \ {t}, s \in Spans : Handoff(t, u, s)

Next == \E t \in Threads : Call(t) \/ Step(t)

Spec == Init /\ [][Next]_vars
-----------------------------------------------------------------------------
PCs == {"idle", "fetch", "populate", "addspan", "evict", "invert", "failed",
        "evicted", "release", "delete", "relock"}

(* The types of the variables: no count is ever negative.                  *)
TypeOK ==
  /\ lock \in [Classes -> Threads \cup {NoThread}]
  /\ cache_size \in [Classes -> Nat]
  /\ tc_slots \in [Classes -> Seq([Spans -> Nat])]
  /\ counter \in [Classes -> Nat] /\ num_spans \in [Classes -> Nat]
  /\ span \in [Spans -> [at : {"pageheap", "transit", "nonempty", "empty"},
                         cl : Classes \cup {NoClass}, objects : Nat, refcount : Nat]]
  /\ own \in [Threads -> [Spans -> Nat]]
  /\ pc \in [Threads -> PCs]
  /\ cl \in [Threads -> Classes \cup {NoClass}]
  /\ victim \in [Threads -> Classes \cup {NoClass}]
  /\ N \in [Threads -> Nat] /\ result \in [Threads -> Nat]
  /\ list \in [Threads -> [Spans -> Nat]] /\ rel \in [Threads -> [Spans -> Nat]]
  /\ flag \in [Threads -> BOOLEAN]
  /\ sp \in [Threads -> Spans \cup {NoSpan}]

(* The objects of span s that are not on its own list: in the hands of     *)
(* threads, in a chain being inserted or released, or in a transfer slot.  *)
Outstanding(s) ==
  MapThenSumSet(LAMBDA t : own[t][s] + list[t][s] + rel[t][s], Threads)
  + MapThenSumSet(LAMBDA c : MapThenSumSet(LAMBDA i : tc_slots[c][i][s], 1..used_slots(c)),
                  Classes)

OnList(s) == span[s].at \in {"nonempty", "empty"}

(* No object is lost, duplicated or given back while in use: refcount      *)
(* counts exactly the objects of the span that are elsewhere, whatever     *)
(* InsertRange, RemoveRange, the evictions and the races for the lock in   *)
(* between did, and a span on its way to or in the page heap has none.     *)
ObjectsConserved ==
  \A s \in Spans :
    /\ Outstanding(s) = span[s].refcount
    /\ OnList(s) => span[s].objects + span[s].refcount = ObjectsPerSpan[span[s].cl]

(* length(), tc_length() and OverheadBytes rely on it: counter_ is         *)
(* the number of free objects on the spans of the class, num_spans_ the    *)
(* number of these spans, a span is on nonempty_ iff it has objects, and a *)
(* used slot holds one whole batch of objects of its class.                *)
ListAccounting ==
  /\ \A c \in Classes :
       LET mine == {s \in Spans : OnList(s) /\ span[s].cl = c} IN
       /\ counter[c] = MapThenSumSet(LAMBDA s : span[s].objects, mine)
       /\ num_spans[c] = Cardinality(mine)
  /\ \A s \in Spans : OnList(s) => (span[s].at = "nonempty" <=> span[s].objects > 0)
  /\ \A c \in Classes : \A i \in 1..used_slots(c) :
       LET chain == tc_slots[c][i] IN
       /\ Size(chain) = NumObjectsToMove[c]
       /\ \A s \in Spans : chain[s] > 0 => span[s].cl = c

(* The assertions of InsertRange and ShrinkCache: a slot index stays in    *)
(* tc_slots_, although cache_size_ changes while the lock is dropped.      *)
SlotBounds ==
  \A c \in Classes : used_slots(c) <= cache_size[c] /\ cache_size[c] <= MaxCacheSize[c]

(* The class whose lock thread t holds, and the one it is waiting for.     *)
HeldBy(t) ==
  IF pc[t] \in {"fetch", "evict"} THEN cl[t]
  ELSE IF pc[t] = "release" THEN ReleaseClass(t) ELSE NoClass
WantedBy(t) ==
  IF pc[t] \in {"addspan", "failed", "evicted"} THEN cl[t]
  ELSE IF pc[t] = "invert" THEN victim[t]
  ELSE IF pc[t] = "relock" THEN ReleaseClass(t) ELSE NoClass

(* What LockInverter is for: a thread never holds two size class locks, so *)
(* whoever waits for one holds none and nobody waits for ever.             *)
NoNestedLocks ==
  \A t \in Threads : \A c \in Classes :
    lock[c] = t => /\ WantedBy(t) = NoClass
                   /\ \A d \in Classes : lock[d] = t => c = d

(* The inductive strengthening of SlotBounds and NoNestedLocks: types with *)
(* integers for the counts, classes where the control state needs one, and *)
(* the lock each control state holds.                                      *)
Types ==
  /\ lock \in [Classes -> Threads \cup {NoThread}]
  /\ cache_size \in [Classes -> Nat]
  /\ tc_slots \in [Classes -> Seq([Spans -> Int])]
  /\ list \in [Threads -> [Spans -> Int]]
  /\ pc \in [Threads -> PCs]
  /\ cl \in [Threads -> Classes \cup {NoClass}]
  /\ victim \in [Threads -> Classes \cup {NoClass}]
Named ==
  \A t \in Threads : /\ pc[t] # "idle" => cl[t] \in Classes
                     /\ pc[t] = "invert" => victim[t] \in Classes
                     /\ victim[t] # NoClass =>
                          pc[t] \in {"invert", "failed", "evicted", "release", "delete", "relock"}
Ownership == \A t \in Threads, c \in Classes : lock[c] = t <=> HeldBy(t) = c
IInv == Types /\ Named /\ Ownership /\ SlotBounds

(* Slots move between classes and are never created: with the ones that an *)
(* eviction has taken and not yet used, there are at most as many as Init  *)
(* handed out.                                                             *)
SlotsNotCreated ==
  LET inTransit == {t \in Threads : \/ pc[t] = "evicted"
                                    \/ victim[t] # NoClass
                                       /\ pc[t] \in {"release", "delete", "relock"}}
  IN MapThenSumSet(LAMBDA c : cache_size[c], Classes) + Cardinality(inTransit)
       <= MapThenSumSet(LAMBDA c : Min({InitialCacheSize, MaxCacheSize[c]}), Classes)

(* The comment in RemoveRange's callers: it comes back empty handed only   *)
(* when the page heap had no span to give.  Populate's own span cannot be  *)
(* taken by another thread before the second FetchFromOneSpans.            *)
EmptyOnlyOnFailure ==
  \A t \in Threads :
    pc[t] = "fetch" /\ sp[t] # NoSpan /\ result[t] = 0 => Nonempty(cl[t]) # {}

(* All of the above at once: whatever the drops of lock_ let in between,   *)
(* objects, spans, counters and slots stay exact, and a request is turned  *)
(* down only for want of memory.                                           *)
ObjectsAccounted ==
  TypeOK /\ ObjectsConserved /\ ListAccounting /\ SlotsNotCreated /\ EmptyOnlyOnFailure

(* Whoever holds a lock runs on to its release, and a thread in a call is  *)
(* scheduled.  A free lock that others keep taking may pass a waiting      *)
(* thread over, as SpinLock allows.                                        *)
Fairness == \A t \in Threads : WF_vars(Step(t))
FairSpec == Spec /\ Fairness

(* No waiting for each other: if the program stops calling, every call     *)
(* under way returns.                                                      *)
CallsDrain ==
  \/ []<><<\E t \in Threads : Call(t)>>_vars
  \/ []<>(\A t \in Threads : pc[t] = "idle")
=============================================================================
