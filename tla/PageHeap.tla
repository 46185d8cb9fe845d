------------------------------ MODULE PageHeap ------------------------------
(***************************************************************************)
(* page_heap.{h,cc}: spans of pages, their free lists, coalescing, release *)
(* to the system, the heap limit and growth.  Every operation holds lock_  *)
(* from start to end, so it is one step; inside it a heap record h is      *)
(* passed from call to call as the code passes this.  What the system may  *)
(* answer (madvise or mmap fails) makes an operation a set of outcomes     *)
(* [h, r]: the heap after it and its result.                               *)
(*                                                                         *)
(* Sizes are counted in pages.  Abstracted: the order within a free list   *)
(* (any span of the list is the first or last one) and release_index_ (any *)
(* normal span is released next); scavenge_counter_ (scavenging may be due *)
(* at any Delete).  The system supplies exactly what it is asked for.      *)
(***************************************************************************)
EXTENDS Integers, FiniteSets, FiniteSetsExt

CONSTANT Environments   \* builds, flags and systems to run on: records

VARIABLES
  heap,   \* the PageHeap
  env     \* one of Environments

vars == <<heap, env>>

NumPages        == env.numPages        \* bound: the system can supply pages 1 .. NumPages
MaxLength       == env.maxLength       \* the largest value of the type Length, 2^w - 1
MaxValidPages   == env.maxValidPages   \* kMaxValidPages
MaxPages        == env.maxPages        \* kMaxPages = kMinSystemAlloc; 0: all spans are large
SmallestSpan    == env.smallestSpan    \* smallest_span_size_
ForcedCoalesce  == env.forcedCoalesce  \* kForcedCoalesceInterval in pages
HeapLimit       == env.heapLimit       \* FLAGS_tcmalloc_heap_limit_mb in pages; 0: none
MaxMetadata     == env.maxMetadata     \* bound: pages MetaDataAlloc takes
PagemapMayFail  == env.pagemapMayFail  \* pagemap_.Ensure may run out of metadata
ReleaseMayFail  == env.releaseMayFail  \* TCMalloc_SystemRelease may fail
AggressiveModes == env.aggressiveModes \* what SetAggressiveDecommit is called with

Pages == 1..NumPages
Ids   == Pages             \* Span objects; there are at most NumPages
Null  == 0
NoSpan == [start |-> 0, length |-> 0, location |-> "none", sizeclass |-> 0]

Init ==
  /\ env \in Environments
  /\ heap = [span |-> [i \in Ids |-> NoSpan],          \* the Span objects
             pagemap |-> [p \in 0..(NumPages + 1) |-> Null],
             lists |-> {},           \* what is on which free list
             free |-> 0, unmapped |-> 0, committed |-> 0, system |-> 0,   \* stats_
             taken |-> 0,            \* TCMalloc_SystemTaken
             aggressive |-> FALSE,   \* aggressive_decommit_
             obtained |-> {},        \* pages the system has supplied
             resident |-> {}]        \* pages that are committed

PagesOf(s) == s.start .. (s.start + s.length - 1)
Live(h) == {i \in Ids : h.span[i] # NoSpan}
OnFreeList(h, loc) == {e \in h.lists : e.location = loc}
-----------------------------------------------------------------------------
(* NewSpan, DeleteSpan: Span objects are reused.                           *)
NewSpan(h) == Min(Ids \ Live(h))

RecordSpan(h, i) ==
  LET s == h.span[i] IN
  [h EXCEPT !.pagemap[s.start] = i, !.pagemap[s.start + s.length - 1] = i]

(* free_[length - 1] for up to kMaxPages pages, else the large sets; an    *)
(* entry remembers the list it was put on.                                 *)
Entry(h, i) == [id |-> i, length |-> h.span[i].length, location |-> h.span[i].location]

PrependToFreeList(h, i) ==
  LET s == h.span[i] IN
  [h EXCEPT !.lists = @ \cup {Entry(h, i)},
            !.free = IF s.location = "normal" THEN @ + s.length ELSE @,
            !.unmapped = IF s.location = "normal" THEN @ ELSE @ + s.length]

RemoveFromFreeList(h, i) ==
  LET s == h.span[i] IN
  [h EXCEPT !.lists = @ \ {Entry(h, i)},
            !.free = IF s.location = "normal" THEN @ - s.length ELSE @,
            !.unmapped = IF s.location = "normal" THEN @ ELSE @ - s.length]

CommitSpan(h, i) ==
  [h EXCEPT !.committed = @ + h.span[i].length,
            !.resident = @ \cup PagesOf(h.span[i])]

DecommitSpan(h, i) ==
  {[h |-> [h EXCEPT !.committed = @ - h.span[i].length,
                    !.resident = @ \ PagesOf(h.span[i])], r |-> TRUE]}
  \cup (IF ReleaseMayFail THEN {[h |-> h, r |-> FALSE]} ELSE {})

MergeAnyFree(h, i, other) ==  \* mutant: merges a normal span with a returned one
  IF other = Null \/ h.span[other].location = "inuse" THEN {[h |-> h, r |-> Null]}
  ELSE {[h |-> RemoveFromFreeList(h, other), r |-> other]}

(* CheckAndHandlePreMerge(span, other): other, off its list, or Null.      *)
CheckAndHandlePreMerge(h, i, other) ==
  IF other = Null THEN {[h |-> h, r |-> Null]}
  ELSE IF h.aggressive /\ h.span[other].location = "normal"
                       /\ h.span[i].location = "returned"
    THEN {IF d.r THEN [h |-> RemoveFromFreeList(d.h, other), r |-> other]
                 ELSE [h |-> h, r |-> Null] : d \in DecommitSpan(h, other)}
  ELSE IF h.span[other].location # h.span[i].location THEN {[h |-> h, r |-> Null]}
  ELSE {[h |-> RemoveFromFreeList(h, other), r |-> other]}


(* Span i swallows its neighbour and the boundary page is mapped to it.    *)
Absorb(h, i, other) ==
  LET s == h.span[i]  o == h.span[other]
      m == [s EXCEPT !.start = Min({@, o.start}), !.length = @ + o.length]
      boundary == IF o.start < s.start THEN o.start ELSE o.start + o.length - 1
  IN [h EXCEPT !.span[i] = m, !.span[other] = NoSpan, !.pagemap[boundary] = i]

AbsorbIfAny(x, i) == IF x.r = Null THEN x.h ELSE Absorb(x.h, i, x.r)

MergeIntoFreeList(h, i) ==
  LET p == h.span[i].start
      n == h.span[i].length
      decommitted ==
        IF h.aggressive /\ h.span[i].location = "normal"
          THEN {IF d.r THEN [d.h EXCEPT !.span[i].location = "returned"] ELSE d.h :
                  d \in DecommitSpan(h, i)}
          ELSE {h}
      withPrev == UNION {{AbsorbIfAny(x, i) :
                            x \in CheckAndHandlePreMerge(g, i, g.pagemap[p - 1])} :
                         g \in decommitted}
      withNext == UNION {{AbsorbIfAny(x, i) :
                            x \in CheckAndHandlePreMerge(g, i, g.pagemap[p + n])} :
                         g \in withPrev}
  IN {PrependToFreeList(g, i) : g \in withNext}

(* ReleaseSpan(s): the pages released, 0 if the system refused.            *)
ReleaseSpan(h, i) ==
  UNION {IF d.r
           THEN LET off == RemoveFromFreeList(d.h, i)
                    g   == [off EXCEPT !.span[i].location = "returned"]
                IN {[h |-> m, r |-> h.span[i].length] : m \in MergeIntoFreeList(g, i)}
           ELSE {[h |-> d.h, r |-> 0]} : d \in DecommitSpan(h, i)}

(* ReleaseAtLeastNPages(num): until num pages are released, nothing is     *)
(* left to release, or the system refuses.                                 *)
RECURSIVE ReleaseAtLeastNPages(_, _)
ReleaseAtLeastNPages(h, num) ==
  IF num <= 0 \/ h.free = 0 THEN {[h |-> h, r |-> 0]}
  ELSE UNION {UNION {IF x.r = 0 THEN {x}
                     ELSE {[h |-> y.h, r |-> x.r + y.r] :
                             y \in ReleaseAtLeastNPages(x.h, num - x.r)} :
                     x \in ReleaseSpan(h, e.id)} : e \in OnFreeList(h, "normal")}


(* EnsureLimit(n, withRelease).                                            *)
EnsureLimit(h, n, withRelease) ==
  LET used == h.taken - h.unmapped IN
  IF HeapLimit = 0 THEN {[h |-> h, r |-> TRUE]}
  ELSE IF used + n > HeapLimit /\ withRelease
    THEN {[h |-> x.h, r |-> used - x.r + n <= HeapLimit] :
            x \in ReleaseAtLeastNPages(h, used + n - HeapLimit)}
    ELSE {[h |-> h, r |-> used + n <= HeapLimit]}

(* Carve(span, n): n pages of a free span, the leftover back on its list;  *)
(* memory that had been returned is committed again.                       *)
Carve(h, i, n) ==
  LET s    == h.span[i]
      off  == [RemoveFromFreeList(h, i) EXCEPT !.span[i].location = "inuse"]
      j    == NewSpan(off)
      rest == [start |-> s.start + n, length |-> s.length - n,
               location |-> s.location, sizeclass |-> 0]
      cut  == PrependToFreeList(RecordSpan([off EXCEPT !.span[j] = rest], j), j)
      g    == IF s.length > n
                THEN [cut EXCEPT !.span[i].length = n, !.pagemap[s.start + n - 1] = i]
                ELSE off
  IN IF s.location = "returned" THEN CommitSpan(g, i) ELSE g

RoomierFit(h, loc, n) ==      \* mutant: a span of exactly n pages does not do
  {e.id : e \in {f \in OnFreeList(h, loc) : f.length > MaxPages /\ f.length > n}}

BestFit(h, loc, n) ==
  LET fit == {e \in OnFreeList(h, loc) : e.length > MaxPages /\ e.length >= n} IN
  {e.id : e \in {f \in fit : \A g \in fit :
                   \/ f.length < g.length
                   \/ f.length = g.length /\ h.span[f.id].start <= h.span[g.id].start}}

(* AllocLarge(n): best fit among the large spans, normal ones preferred;   *)
(* the span (0 for nullptr).                                               *)
RECURSIVE AllocLarge(_, _)
AllocLarge(h, n) ==
  LET normal   == BestFit(h, "normal", n)
      returned == BestFit(h, "returned", n)
      better   == {c \in returned : \A b \in normal : h.span[c].length < h.span[b].length}
      carved(g, i) == [h |-> Carve(g, i, n), r |-> i]
  IN IF better = {}
       THEN IF normal = {} THEN {[h |-> h, r |-> Null]} ELSE {carved(h, i) : i \in normal}
       ELSE UNION {IF x.r THEN {carved(x.h, i) : i \in better}
                   ELSE UNION {IF y.r THEN AllocLarge(y.h, n) ELSE {[h |-> y.h, r |-> Null]} :
                               y \in EnsureLimit(h, n, TRUE)} :
                   x \in EnsureLimit(h, n, FALSE)}

Small(h, s, loc) == {e.id : e \in {f \in OnFreeList(h, loc) : f.length = s}}

(* SearchFreeAndLargeLists(n), from lists of spans of s pages on.          *)
RECURSIVE SearchFrom(_, _, _)
SearchFrom(h, n, s) ==
  IF s > MaxPages THEN AllocLarge(h, n)
  ELSE IF Small(h, s, "normal") # {}
    THEN {[h |-> Carve(h, i, n), r |-> i] : i \in Small(h, s, "normal")}
  ELSE IF Small(h, s, "returned") # {}
    THEN UNION {IF x.r /\ Small(x.h, s, "returned") # {}
                  THEN {[h |-> Carve(x.h, i, n), r |-> i] : i \in Small(x.h, s, "returned")}
                  ELSE SearchFrom(x.h, n, s + 1) : x \in EnsureLimit(h, n, TRUE)}
  ELSE SearchFrom(h, n, s + 1)
SearchFreeAndLargeLists(h, n) == SearchFrom(h, n, n)

(* IncrementalScavenge: when due (or not), at least one page is released.  *)
IncrementalScavenge(h) == {h} \cup {x.h : x \in ReleaseAtLeastNPages(h, 1)}

DeleteLocked(h, i) ==
  LET g == [h EXCEPT !.span[i].sizeclass = 0, !.span[i].location = "normal"] IN
  UNION {IncrementalScavenge(m) : m \in MergeIntoFreeList(g, i)}

(* TCMalloc_SystemAlloc(n) (external): fresh pages, as many as asked,      *)
(* aligned to smallest spans; or none.                                     *)
SystemAlloc(h, n) ==
  {p \in Pages : /\ p % SmallestSpan = 0
                 /\ p + n - 1 <= NumPages
                 /\ (p .. (p + n - 1)) \cap h.obtained = {}}

(* The rest of GrowHeap once the system has supplied ask pages at p.  If   *)
(* pagemap_ cannot be extended they are lost.                              *)
AddRegion(h, p, ask) ==
  LET new == p .. (p + ask - 1)
      i   == NewSpan(h)
      g   == [h EXCEPT !.system = @ + ask, !.committed = @ + ask, !.taken = @ + ask,
                       !.obtained = @ \cup new, !.resident = @ \cup new]
      f   == [g EXCEPT !.span[i] = [start |-> p, length |-> ask,
                                    location |-> "inuse", sizeclass |-> 0]]
  IN {[h |-> d, r |-> TRUE] : d \in DeleteLocked(RecordSpan(f, i), i)}
     \cup (IF PagemapMayFail THEN {[h |-> g, r |-> FALSE]} ELSE {})

(* One attempt of GrowHeap to obtain ask pages, within the limit: the      *)
(* first page, or Null.                                                    *)
Obtain(h, ask) ==
  UNION {{[h |-> x.h, p |-> p] : p \in {Null} \cup (IF x.r THEN SystemAlloc(x.h, ask) ELSE {})} :
         x \in EnsureLimit(h, ask, TRUE)}

GrowHeap(h, n) ==
  LET ask == IF n > MaxPages THEN n ELSE MaxPages
      failed(g) == {[h |-> g, r |-> FALSE]}
      again(g)  == UNION {IF y.p = Null THEN failed(y.h) ELSE AddRegion(y.h, y.p, n) :
                          y \in Obtain(g, n)}
  IN IF n > MaxValidPages THEN failed(h)
     ELSE UNION {IF x.p # Null THEN AddRegion(x.h, x.p, ask)
                 ELSE IF n < ask THEN again(x.h) ELSE failed(x.h) : x \in Obtain(h, ask)}

GrowAndSearch(h, n) ==
  UNION {IF x.r THEN SearchFreeAndLargeLists(x.h, n) ELSE {[h |-> x.h, r |-> Null]} :
         x \in GrowHeap(h, n)}

(* RoundUpSize: up to a multiple of the smallest span; when that wraps     *)
(* around, the largest multiple there is.                                  *)
RoundUpSize(n) ==
  LET sum     == (n + SmallestSpan - 1) % (MaxLength + 1)
      rounded == (sum \div SmallestSpan) * SmallestSpan
  IN IF rounded < n THEN (MaxLength \div SmallestSpan) * SmallestSpan ELSE rounded

(* NewLocked(n): the free lists; everything released first, when enough of *)
(* the heap is free and in two kinds of pieces; then more memory.          *)
NewLocked(h, size) ==
  LET n == RoundUpSize(size)
      coalesce(g) == /\ g.free # 0 /\ g.unmapped # 0
                     /\ g.free + g.unmapped >= g.system \div 4
                     /\ g.system \div ForcedCoalesce # (g.system + n) \div ForcedCoalesce
  IN UNION {IF x.r # Null THEN {x}
            ELSE IF ~coalesce(x.h) THEN GrowAndSearch(x.h, n)
            ELSE UNION {UNION {IF z.r # Null THEN {z} ELSE GrowAndSearch(z.h, n) :
                               z \in SearchFreeAndLargeLists(y.h, n)} :
                        y \in ReleaseAtLeastNPages(x.h, MaxLength)} :
            x \in SearchFreeAndLargeLists(h, n)}

RegisterSizeClass(h, i, c) ==
  [h EXCEPT !.span[i].sizeclass = c,
            !.pagemap = [p \in DOMAIN @ |-> IF p \in PagesOf(h.span[i]) THEN i ELSE @[p]]]

(* Split(span, n): the second part; the first keeps the span object.       *)
Split(h, i, n) ==
  LET s == h.span[i]
      j == NewSpan(h)
      g == [h EXCEPT !.span[j] = [start |-> s.start + n, length |-> s.length - n,
                                  location |-> "inuse", sizeclass |-> 0]]
  IN [h |-> [RecordSpan(g, j) EXCEPT !.pagemap[s.start + n - 1] = i, !.span[i].length = n],
      r |-> j]

(* NewAligned: n + align pages, the misaligned start and the rest given    *)
(* back.                                                                   *)
CutAligned(h, i, n, align) ==
  LET s      == h.span[i]
      skip   == Min({k \in 0..(align - 1) : (s.start + k) % align = 0})
      tail   == Split(h, i, skip)
      headed == IF skip = 0 THEN {[h |-> h, r |-> i]}
                ELSE {[h |-> g, r |-> tail.r] : g \in DeleteLocked(tail.h, i)}
  IN UNION {LET rest == Split(x.h, x.r, n) IN
            IF x.h.span[x.r].length > n
              THEN {[h |-> g, r |-> x.r] : g \in DeleteLocked(rest.h, rest.r)}
              ELSE {x} : x \in headed}
-----------------------------------------------------------------------------
(* NewAligned(n, align_pages); a wrapped sum asks for the impossible.      *)
NewAlignedSpan(h, size, align) ==
  LET n     == RoundUpSize(size)
      alloc == (n + align) % (MaxLength + 1)
  IN IF alloc < n \/ alloc < align THEN NewLocked(h, MaxLength)
     ELSE UNION {IF x.r = Null THEN {x} ELSE CutAligned(x.h, x.r, n, align) :
                 x \in NewLocked(h, alloc)}

(* New(n) and NewWithSizeClass(n, sizeclass).                              *)
NewWithSizeClass(n, sizeclasses) ==
  \E x \in NewLocked(heap, n), c \in sizeclasses :
    heap' = IF x.r # Null /\ c # 0 THEN RegisterSizeClass(x.h, x.r, c) ELSE x.h

NewAligned(n, align) == \E x \in NewAlignedSpan(heap, n, align) : heap' = x.h

(* Delete(span): REQUIRES a span New returned and nobody deleted yet.      *)
Delete(i) ==
  /\ heap.span[i].location = "inuse"
  /\ \E h \in DeleteLocked(heap, i) : heap' = h

(* ReleaseAtLeastNPages as MallocExtension::ReleaseToSystem calls it.      *)
ReleaseToSystem(num) == \E x \in ReleaseAtLeastNPages(heap, num) : heap' = x.h

SetAggressiveDecommit(b) == heap' = [heap EXCEPT !.aggressive = b]

(* MetaDataAlloc ignores the heap limit (external: common.cc).             *)
MetaDataAlloc ==
  /\ heap.taken - heap.system < MaxMetadata
  /\ heap' = [heap EXCEPT !.taken = @ + 1]

Sizes  == 1..(NumPages - 1) \cup {MaxLength}
Aligns == {2}

Operation ==
  \/ \E n \in Sizes : NewWithSizeClass(n, {0, 1})
  \/ \E n \in Sizes, a \in Aligns : NewAligned(n, a)
  \/ \E i \in Ids : Delete(i)
  \/ \E n \in {1, NumPages} : ReleaseToSystem(n)
  \/ \E b \in AggressiveModes : SetAggressiveDecommit(b)
  \/ MetaDataAlloc

Next == Operation /\ UNCHANGED env

Spec == Init /\ [][Next]_vars
-----------------------------------------------------------------------------
Spans == {heap.span[i] : i \in Live(heap)}
Lengths(loc) == MapThenSumSet(LAMBDA i : heap.span[i].length,
                              {i \in Live(heap) : heap.span[i].location = loc})

(* No page is in two spans or, unless the pagemap had no room for it, in   *)
(* none, however spans were carved, split, merged and released, and all    *)
(* spans are made of whole smallest spans (smallest_span_size_).           *)
SpansPartitionPages ==
  /\ \A i, j \in Live(heap) :
       i # j => PagesOf(heap.span[i]) \cap PagesOf(heap.span[j]) = {}
  /\ UNION {PagesOf(s) : s \in Spans} \subseteq heap.obtained
  /\ ~PagemapMayFail => UNION {PagesOf(s) : s \in Spans} = heap.obtained
  /\ \A s \in Spans : s.start % SmallestSpan = 0 /\ s.length % SmallestSpan = 0

(* MergeIntoFreeList's comment: only boundaries matter.  The pagemap leads *)
(* from the first and the last page of a span to it, and from every page   *)
(* of a span of small objects; the stale entries of merged spans are never *)
(* found at a boundary.                                                    *)
BoundariesMapped ==
  \A i \in Live(heap) :
    LET s == heap.span[i] IN
    /\ heap.pagemap[s.start] = i /\ heap.pagemap[s.start + s.length - 1] = i
    /\ s.sizeclass # 0 => \A p \in PagesOf(s) : heap.pagemap[p] = i

(* CheckExpensive: exactly the free spans are on the lists, each on the    *)
(* one for its length and location.                                        *)
FreeListsMatchSpans ==
  heap.lists = {Entry(heap, i) : i \in {j \in Live(heap) : heap.span[j].location # "inuse"}}

(* The assertion at the end of Carve, DeleteLocked and GrowHeap, and what  *)
(* the counters stand for.  ReleaseAtLeastNPages stops only because        *)
(* free_bytes counts what is on the normal lists.  Memory in use is never  *)
(* given back to the system, and memory given back is committed again      *)
(* before it is used.                                                      *)
StatsMatchSpans ==
  /\ heap.unmapped + heap.committed = heap.system
  /\ heap.free = Lengths("normal") /\ heap.unmapped = Lengths("returned")
  /\ heap.system = Cardinality(heap.obtained)
  /\ heap.resident = heap.obtained
                       \ UNION {PagesOf(s) : s \in {t \in Spans : t.location = "returned"}}

(* In every heap that can arise New and NewAligned, if they succeed,       *)
(* return a span in use of exactly the size (rounded up), and aligned.     *)
NewIsExact ==
  \A n \in Sizes :
    /\ \A x \in NewLocked(heap, n) : x.r # Null =>
         x.h.span[x.r].location = "inuse" /\ x.h.span[x.r].length = RoundUpSize(n)
    /\ \A a \in Aligns : \A x \in NewAlignedSpan(heap, n, a) : x.r # Null =>
         /\ x.h.span[x.r].location = "inuse" /\ x.h.span[x.r].length = RoundUpSize(n)
         /\ x.h.span[x.r].start % a = 0


(* Carve's comment: "The next span of |leftover| was not previously        *)
(* coalesced with |span|, i.e. is nullptr or has got location other than   *)
(* |old_location|": no two neighbours are free in the same way.            *)
AlwaysCoalesced ==
  \A s, t \in Spans : s.start + s.length = t.start /\ s.location = t.location
                        => s.location = "inuse"

(* The same while aggressive decommit stays off: whatever the order of     *)
(* frees, releases and scavenges, each keeps neighbours coalesced.         *)
NeighboursCoalesced == AggressiveModes = {} => AlwaysCoalesced

(* AllocLarge's assertion "If best_normal existed, EnsureLimit would       *)
(* succeeded": while the system takes memory back and metadata does not    *)
(* pass the limit, New never fails with a large enough span free and       *)
(* committed.                                                              *)
NormalSpansUsed ==
  ~ReleaseMayFail /\ MaxMetadata = 0 =>
    \A n \in Sizes : \A x \in NewLocked(heap, n) : x.r = Null =>
      \A e \in OnFreeList(x.h, "normal") : e.length < RoundUpSize(n)

(* PageHeap::Check and CheckExpensive and more: spans, pagemap, free       *)
(* lists, counters and committed memory describe the same heap.            *)
HeapSound ==
  /\ SpansPartitionPages /\ BoundariesMapped /\ FreeListsMatchSpans
  /\ StatsMatchSpans /\ NeighboursCoalesced

(* The contract of New: what it returns is right, and it fails only when   *)
(* it must.                                                                *)
NewKeepsContract == NewIsExact /\ NormalSpansUsed
=============================================================================
