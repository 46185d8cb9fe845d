------------------------------- MODULE Malloc -------------------------------
(***************************************************************************)
(* tcmalloc.cc: malloc, free, realloc, memalign and operator new over the  *)
(* page heap and the size classes, and the lock-free cache from pages to   *)
(* size classes (packed-cache-inl.h).  What the lower layers do is what    *)
(* PageHeap, CentralFreeList and ThreadCache promise: spans are any free   *)
(* pages, a class hands out any of its free objects, and a span all of     *)
(* whose objects are free may go back to the page heap.                    *)
(*                                                                         *)
(* Sizes and addresses are in units of half a page.  Objects of class 1    *)
(* are one unit, two to a span of one page; those of class 2 are a page,   *)
(* two to a span; anything longer is a span of its own.                    *)
(***************************************************************************)
EXTENDS Integers, FiniteSets, FiniteSetsExt

CONSTANTS MThreads,    \* threads
          MPages,      \* pages 0 .. MPages - 1 of the heap
          MRequests,   \* sizes asked for
          MAligns,     \* alignments asked for
          HashSlots,   \* 2^kHashbits of the size-class cache
          MCounts,     \* arguments of calloc
          SizeLimit,   \* size_t is 0 .. SizeLimit - 1
          MaxLive      \* bound on objects the program holds

VARIABLES spans,     \* first page -> span in use
          sizeCache, \* pagemap_cache_: slot -> entry
          freeObjs,  \* objects in the free lists, with the class of the list
          liveObjs,  \* address -> what the program asked for
          mPc        \* where each thread is

mVars == <<spans, sizeCache, freeObjs, liveObjs, mPc>>

PageUnits == 2
MIdle == [at |-> "idle"]
EmergencyPtr == (MPages + 1) * PageUnits + 1 \* an address the pagemap does not know

-----------------------------------------------------------------------------
\* Sizes

GetSizeClass(size) == IF size <= 1 THEN 1 ELSE IF size = 2 THEN 2 ELSE 0 \* 0: none
ClassSize(cl) == cl
ClassPages(cl) == cl
PagesFor(size) == Max({1, (size + PageUnits - 1) \div PageUnits})
AlignSizeUp(size, align) == IF size = 0 THEN align
                            ELSE ((size + align - 1) \div align) * align

nallocx(size) == IF GetSizeClass(size) # 0 THEN ClassSize(GetSizeClass(size))
                 ELSE PagesFor(size) * PageUnits

PageOf(ptr) == ptr \div PageUnits
ObjectsOf(s) == {s * PageUnits + i * ClassSize(spans[s].cl) : i \in 0 .. 1}

\* GetDescriptor: every page of a span of small objects leads to it, and the
\* first and last page of any other.
Descriptor(page) ==
  {s \in DOMAIN spans : /\ page \in s .. s + spans[s].len - 1
                        /\ spans[s].cl # 0 \/ page \in {s, s + spans[s].len - 1}}

-----------------------------------------------------------------------------
\* The size-class cache: direct-mapped, cl = 0 stands for the invalid bit.

Hash(page) == page % HashSlots
Put(cache, page, cl) == [cache EXCEPT ![Hash(page)] = [page |-> page, cl |-> cl]]
Invalidate(cache, page) == Put(cache, page, 0)
TryGet(page) == LET e == sizeCache[Hash(page)] IN IF e.page = page THEN e.cl ELSE 0

MInit ==
  /\ spans = << >>
  /\ sizeCache = [h \in 0 .. HashSlots - 1 |-> [page |-> -1, cl |-> 0]]
  /\ freeObjs = {} /\ liveObjs = << >>
  /\ mPc = [t \in MThreads |-> MIdle]

Step(t, r) == mPc' = [mPc EXCEPT ![t] = r]

-----------------------------------------------------------------------------
\* Allocation.  A call c has the size and alignment, what the program wants
\* and, for realloc, the object to replace.

UsedPages == UNION {s .. s + spans[s].len - 1 : s \in DOMAIN spans}
Room(n, align) == {p \in 0 .. MPages - n : /\ p .. p + n - 1 \cap UsedPages = {}
                                           /\ (p * PageUnits) % align = 0}

WithEntry(f, x, v) == [y \in DOMAIN f \cup {x} |-> IF y = x THEN v ELSE f[y]]
WithoutEntry(f, x) == [y \in DOMAIN f \ {x} |-> f[y]]


\* PageHeap::NewWithSizeClass and NewAligned: the entry of the first page is
\* forgotten under the lock.  sample is the size of a sampled allocation.
New(p, n, cl, sample) ==
  /\ spans' = WithEntry(spans, p, [len |-> n, cl |-> cl, sample |-> sample])
  /\ sizeCache' = Invalidate(sizeCache, p)

\* The call has its memory: realloc copies and goes on to free the old object.
Finish(t, c, ptr) ==
  /\ liveObjs' = WithEntry(liveObjs, ptr, [size |-> c.want, align |-> c.align])
  /\ Step(t, IF c.old = {} THEN MIdle ELSE [at |-> "free", ptr |-> CHOOSE x \in c.old : TRUE])

\* do_malloc, of an initialised malloc.
DoMalloc(t, c) ==
  LET size == AlignSizeUp(c.size, c.align)
      cl == GetSizeClass(size)
  IN
  /\ c.align <= PageUnits
  /\ \/ \* the thread's list of the class, refilled from the central one
        /\ cl # 0
        /\ \E o \in freeObjs : /\ o.cl = cl /\ freeObjs' = freeObjs \ {o}
                               /\ Finish(t, c, o.ptr)
        /\ UNCHANGED <<spans, sizeCache>>
     \/ \* Populate, up to the release of the page heap's lock
        /\ cl # 0 /\ \A o \in freeObjs : o.cl # cl
        /\ \E p \in Room(ClassPages(cl), 1) :
             /\ New(p, ClassPages(cl), cl, 0)
             /\ Step(t, [at |-> "populate", call |-> c, start |-> p, next |-> p])
        /\ UNCHANGED <<freeObjs, liveObjs>>
     \/ \* do_malloc_pages, or an allocation of any size that is sampled
        /\ \E p \in Room(PagesFor(size), 1), sample \in {0, size} :
             /\ cl = 0 \/ sample # 0
             /\ New(p, PagesFor(size), 0, sample)
             /\ Finish(t, c, p * PageUnits)
        /\ UNCHANGED freeObjs
     \/ \* inside a stack trace scope (realloc of what it gave is LowLevelAlloc's)
        /\ EmergencyPtr \notin DOMAIN liveObjs
        /\ Finish(t, c, EmergencyPtr)
        /\ UNCHANGED <<spans, sizeCache, freeObjs>>

\* Populate caches the class of one page after the other, without a lock, and
\* then adds the objects to the class, one of them for this call.
PopulateStep(t) ==
  LET r == mPc[t]
      cl == spans[r.start].cl
  IN
  /\ r.at = "populate"
  /\ IF r.next < r.start + spans[r.start].len
     THEN /\ sizeCache' = Put(sizeCache, r.next, cl)
          /\ Step(t, [r EXCEPT !.next = @ + 1])
          /\ UNCHANGED <<freeObjs, liveObjs>>
     ELSE /\ freeObjs' = freeObjs \cup {[ptr |-> o, cl |-> cl] :
                                          o \in ObjectsOf(r.start) \ {r.start * PageUnits}}
          /\ Finish(t, r.call, r.start * PageUnits)
          /\ UNCHANGED sizeCache
  /\ UNCHANGED <<spans>>

\* do_memalign_pages, for more than a page's alignment.
DoMemalignPages(t, c) ==
  /\ c.align > PageUnits
  /\ \E p \in Room(PagesFor(c.size), c.align) :
       New(p, PagesFor(c.size), 0, 0) /\ Finish(t, c, p * PageUnits)
  /\ UNCHANGED <<freeObjs>>

-----------------------------------------------------------------------------
\* GetSizeWithCallback: what realloc and malloc_size take the size to be.
UsableSize(ptr) ==
  LET cached == TryGet(PageOf(ptr))
      found == Descriptor(PageOf(ptr))
      s == CHOOSE s \in found : TRUE
  IN
  IF cached # 0 THEN ClassSize(cached)
  ELSE IF found = {} THEN 0
  ELSE IF spans[s].cl # 0 THEN ClassSize(spans[s].cl)
  ELSE IF spans[s].sample # 0 THEN nallocx(spans[s].sample)
  ELSE spans[s].len * PageUnits

\* GetOwnership, of an address within kAddressBits
GetOwnership(ptr) ==
  TryGet(PageOf(ptr)) # 0 \/ Descriptor(PageOf(ptr)) # {} \/ ptr = EmergencyPtr

\* Objects no thread is reallocating or freeing.
Owned == {p \in DOMAIN liveObjs : \A t \in MThreads :
            /\ mPc[t].at = "populate" => p \notin mPc[t].call.old
            /\ mPc[t].at = "free" => mPc[t].ptr # p}

ReallocStays(ptr, size) == nallocx(size) = UsableSize(ptr)

Call(size, align, want, old) == [size |-> size, align |-> align, want |-> want, old |-> old]

CallocsUnchecked ==   \* mutant: the division is left out
  {Call((x[1] * x[2]) % SizeLimit, 1, x[1] * x[2], {}) : x \in MCounts \X MCounts}

\* do_calloc: the product wraps, and the division tells.  It goes on to zero
\* nallocx(size) bytes, of emergency memory only size.
Callocs ==
  LET size(x) == (x[1] * x[2]) % SizeLimit IN
  {Call(size(x), 1, x[1] * x[2], {}) :
     x \in {x \in MCounts \X MCounts : x[2] # 0 => size(x) \div x[2] = x[1]}}

\* The calls of malloc, calloc, operator new and memalign, and those of
\* do_realloc_with_callback that have to move the object.
MCalls ==
  {Call(size, align, size, {}) : size \in MRequests, align \in MAligns} \cup Callocs \cup
  {Call(x[2], 1, x[2], {x[1]}) :
     x \in {x \in (Owned \ {EmergencyPtr}) \X MRequests : ~ReallocStays(x[1], x[2])}}

\* An allocation that fails ends in handle_oom: a C function returns NULL,
\* unless new mode makes it like operator new, which throws or fails without
\* a new handler, and otherwise calls it and starts over.  Nothing changes.
Allocate(t) ==
  /\ mPc[t] = MIdle /\ Cardinality(DOMAIN liveObjs) < MaxLive
  /\ \E c \in MCalls : DoMalloc(t, c) \/ DoMemalignPages(t, c)

\* realloc that stays in place.
ReallocInPlace(t) ==
  /\ mPc[t] = MIdle
  /\ \E ptr \in Owned \ {EmergencyPtr}, size \in MRequests :
       ReallocStays(ptr, size) /\ liveObjs' = [liveObjs EXCEPT ![ptr].size = size]
  /\ UNCHANGED <<spans, sizeCache, freeObjs, mPc>>

-----------------------------------------------------------------------------
\* free.  The object is out of the program's hands, and the thread's list, or
\* the central one if the thread has no cache, takes it.

Deallocate(t, ptr, cl) ==
  /\ freeObjs' = freeObjs \cup {[ptr |-> ptr, cl |-> cl]}
  /\ Step(t, MIdle)

\* The rest of do_free_with_callback, given a class: the span is asked only if
\* there is none.
WithHint(t, ptr, cl) ==
  /\ IF cl # 0 THEN Deallocate(t, ptr, cl)
     ELSE Step(t, [at |-> "descriptor", ptr |-> ptr]) /\ UNCHANGED freeObjs
  /\ liveObjs' = WithoutEntry(liveObjs, ptr)
  /\ UNCHANGED <<spans, sizeCache>>

\* tc_free_sized: the hint is used unless the address might be a sampled one.
\* "We assume that sized delete is always used with "our" pointers".
SizedFree(t, ptr) ==
  /\ ptr % PageUnits # 0 /\ liveObjs[ptr].align = 1 /\ ptr # EmergencyPtr
  /\ WithHint(t, ptr, GetSizeClass(liveObjs[ptr].size))

\* do_free_with_callback without a size: the cache is asked first.
DoFree(t, ptr) == WithHint(t, ptr, TryGet(PageOf(ptr)))

Free(t) ==
  \/ mPc[t] = MIdle /\ \E ptr \in Owned : DoFree(t, ptr) \/ SizedFree(t, ptr)
  \/ mPc[t].at = "free" /\ DoFree(t, mPc[t].ptr)

\* do_free_pages, of a span of its own; the trace of a sampled one goes with it.
DoFreePages(s) == spans' = WithoutEntry(spans, s)

\* A miss: the span tells.  InvalidFree takes the emergency pointers.
FreeDescriptor(t) ==
  LET ptr == mPc[t].ptr
      s == CHOOSE s \in Descriptor(PageOf(ptr)) : TRUE
  IN
  /\ mPc[t].at = "descriptor"
  /\ \/ /\ ptr = EmergencyPtr /\ Descriptor(PageOf(ptr)) = {}
        /\ Step(t, MIdle) /\ UNCHANGED <<spans, sizeCache, freeObjs>>
     \/ /\ Descriptor(PageOf(ptr)) # {} /\ spans[s].cl = 0
        /\ DoFreePages(s)
        /\ Step(t, MIdle) /\ UNCHANGED <<sizeCache, freeObjs>>
     \/ /\ Descriptor(PageOf(ptr)) # {} /\ spans[s].cl # 0
        /\ sizeCache' = Put(sizeCache, PageOf(ptr), spans[s].cl)
        /\ Deallocate(t, ptr, spans[s].cl)
        /\ UNCHANGED spans
  /\ UNCHANGED <<liveObjs>>

\* ReleaseToSpans: the last object of a span came back to the central list.
ReleaseSpan(s) ==
  LET objs == {[ptr |-> o, cl |-> spans[s].cl] : o \in ObjectsOf(s)} IN
  /\ spans[s].cl # 0 /\ objs \subseteq freeObjs
  /\ freeObjs' = freeObjs \ objs
  /\ spans' = WithoutEntry(spans, s)
  /\ UNCHANGED <<sizeCache, liveObjs, mPc>>

MNext ==
  \/ \E t \in MThreads : \/ Allocate(t) \/ PopulateStep(t) \/ ReallocInPlace(t)
                         \/ Free(t) \/ FreeDescriptor(t)
  \/ \E s \in DOMAIN spans : ReleaseSpan(s)

MSpec == MInit /\ [][MNext]_mVars

-----------------------------------------------------------------------------
SpanOf(ptr) == {s \in DOMAIN spans : PageOf(ptr) \in s .. s + spans[s].len - 1}

\* CheckCachedSizeClass, for every object the program or a list has: what the
\* cache says of its page, if anything, is the class of the span it is in,
\* although entries of spans long gone stay behind and nobody takes a lock.
CachedClassRight ==
  \A ptr \in (DOMAIN liveObjs \ {EmergencyPtr}) \cup {o.ptr : o \in freeObjs} :
    \A s \in SpanOf(ptr) : TryGet(PageOf(ptr)) \in {0, spans[s].cl}


\* What malloc returned is as long and as aligned as asked for, apart from
\* every other object, and its usable size, from which realloc decides to
\* stay in place, is at least what was asked for and at least what calloc
\* zeroes.  tcmalloc owns to it.
UsableSizesRight ==
  /\ \A ptr \in DOMAIN liveObjs : GetOwnership(ptr)
  /\ \A ptr \in DOMAIN liveObjs \ {EmergencyPtr} :
       /\ UsableSize(ptr) >= liveObjs[ptr].size
       /\ liveObjs[ptr].align = 1 => UsableSize(ptr) >= nallocx(liveObjs[ptr].size)
       /\ ptr % liveObjs[ptr].align = 0
       /\ \A q \in DOMAIN liveObjs \ {EmergencyPtr} :
            ptr < q => ptr + UsableSize(ptr) <= q
=============================================================================
