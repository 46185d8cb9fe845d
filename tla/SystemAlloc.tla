----------------------------- MODULE SystemAlloc -----------------------------
(***************************************************************************)
(* Memory from the system: system-alloc.cc (sbrk, mmap and the default     *)
(* allocator that tries both), memfs_malloc.cc in front of them, and       *)
(* tcmalloc's own data on top: MetaDataAlloc (common.cc) and               *)
(* PageHeapAllocator.  Calls hold system-alloc.cc's spinlock, so one is in *)
(* progress at a time; the rest of the process calls sbrk and mmap in      *)
(* between its steps.  Addresses are small integers.                       *)
(***************************************************************************)
EXTENDS Integers, FiniteSets, FiniteSetsExt

CONSTANTS SaSetups,    \* [children, memfs, limit]: the order of sbrk and mmap,
                       \* whether memfs is installed, and its limit
          SaSizes, SaAligns, \* what the page heap asks for
          BrkStart, BrkTop,  \* the data segment's end, and how far it can go
          MmapTop,     \* mmap has BrkTop .. MmapTop - 1
          NativePage, BigPage,         \* getpagesize, the file system's pages
          MetaChunk, MetaAlign,        \* kMetadataAllocChunkSize, -Allignment
          AllocIncrement, ObjectSize,  \* PageHeapAllocator's, and sizeof(T)
          MaxAddress,  \* size_t wraps at this
          MaxForeign,  \* bound on the rest of the process's calls
          MaxGrants, MaxObjs  \* bounds on grants and objects

VARIABLES setup,
          owner,       \* address -> "free", "ours" or "foreign"
          brk,         \* the end of the data segment
          hint,        \* MmapSysAllocator::hint_
          failed,      \* DefaultSysAllocator::failed_
          huge,        \* HugetlbSysAllocator: [failed, base]
          grants,      \* what TCMalloc_SystemAlloc has returned
          systemTaken, \* TCMalloc_SystemTaken
          metaChunk,   \* metadata_chunk_alloc_ and metadata_chunk_avail_
          objs,        \* PageHeapAllocator: [area, avail, free, inuse]
          foreign,     \* calls of the rest of the process
          saPc         \* the call in progress

saVars == <<setup, owner, brk, hint, failed, huge, grants, systemTaken, metaChunk, objs, foreign, saPc>>
systemVars == <<owner, brk, hint>>
clientVars == <<grants, systemTaken, metaChunk, objs>>

Top == MmapTop - 1
Block(start, size) == start .. start + size - 1
RoundUp(n, a) == ((n + a - 1) \div a) * a
Biggest(a, b) == IF a > b THEN a ELSE b
SaIdle == [at |-> "idle"]

SaInit ==
  /\ setup \in SaSetups
  /\ owner = [a \in 0 .. Top |-> IF a < BrkStart THEN "foreign" ELSE "free"]
  /\ brk = BrkStart /\ hint = 0
  /\ failed = <<FALSE, FALSE>>
  /\ huge = [failed |-> FALSE, base |-> 0]
  /\ grants = {} /\ systemTaken = 0
  /\ metaChunk = [start |-> 0, avail |-> 0]
  /\ objs = [area |-> 0, avail |-> 0, free |-> {}, inuse |-> {}]
  /\ foreign = 0
  /\ saPc = SaIdle

-----------------------------------------------------------------------------
\* The system, as the code uses it

CanSbrk(n) == brk + n <= BrkTop
Sbrk(n, who) ==
  /\ brk' = brk + n
  /\ owner' = [a \in 0 .. Top |-> IF a \in Block(brk, n) THEN who ELSE owner[a]]

\* where mmap may put n addresses
Holes(n) == {s \in BrkTop .. MmapTop - n :
              s % NativePage = 0 /\ \A a \in Block(s, n) : owner[a] = "free"}
Own(S) == [a \in 0 .. Top |-> IF a \in S THEN "ours" ELSE owner[a]]

ForeignCall ==
  /\ foreign < MaxForeign
  /\ foreign' = foreign + 1
  /\ \/ CanSbrk(1) /\ Sbrk(1, "foreign") /\ UNCHANGED hint
     \/ /\ \E s \in Holes(NativePage) :
             owner' = [a \in 0 .. Top |-> IF a \in Block(s, NativePage) THEN "foreign" ELSE owner[a]]
        /\ UNCHANGED <<brk, hint>>
  /\ UNCHANGED <<setup, failed, huge, clientVars, saPc>>

-----------------------------------------------------------------------------
\* tcmalloc's own data

\* MetaDataAlloc's and PageHeapAllocator's bookkeeping once the area is there
CarveObject(o) == [o EXCEPT !.area = @ + ObjectSize, !.avail = @ - ObjectSize, !.inuse = @ \cup {o.area}]

Padding(c) == (MetaAlign - (c.start % MetaAlign)) % MetaAlign
MetaFits(c) == c.avail >= AllocIncrement + Padding(c)
TakeMeta(c) == [start |-> c.start + Padding(c) + AllocIncrement,
                avail |-> c.avail - AllocIncrement - Padding(c)]
NewArea(c) == CarveObject([objs EXCEPT !.area = c.start + Padding(c), !.avail = AllocIncrement])

\* the end of a successful TCMalloc_SystemAlloc
Grant(r, start, actual) ==
  /\ grants' = grants \cup {[start |-> start, size |-> actual, asked |-> r.size, align |-> r.align]}
  /\ systemTaken' = systemTaken + actual
  /\ saPc' = SaIdle
  /\ LET c == [start |-> start, avail |-> actual]
     IN  IF r.by = "meta" THEN metaChunk' = TakeMeta(c) /\ objs' = NewArea(c)
         ELSE UNCHANGED <<metaChunk, objs>>

\* nullptr; for tcmalloc's own data that is a crash
ReturnNull(r) == saPc' = IF r.by = "meta" THEN [at |-> "crashed"] ELSE SaIdle

-----------------------------------------------------------------------------
\* DefaultSysAllocator::Alloc: on to the next child that has not failed

NextChild(r, f) ==
  LET left == {i \in 1 .. 2 : i > r.i /\ ~f[i]}
  IN  IF left = {}
      THEN failed' = <<FALSE, FALSE>> /\ ReturnNull(r)
      ELSE failed' = f /\ saPc' = [r EXCEPT !.i = Min(left), !.at = setup.children[Min(left)]]

Default(r) == NextChild([r EXCEPT !.i = 0], failed)

ChildFails(r) == NextChild(r, [failed EXCEPT ![r.i] = TRUE])

\* TCMalloc_SystemAlloc: overflowing requests are refused, and alignment has a
\* minimum of 1; with memfs installed it goes first
Call(size, align, by) ==
  LET r == [at |-> "start", size |-> size, align |-> align, by |-> by, i |-> 0, ptr |-> 0]
  IN  IF (size + align) % MaxAddress < size
      THEN ReturnNull(r) /\ UNCHANGED failed
      ELSE IF setup.memfs /\ ~huge.failed
      THEN saPc' = [r EXCEPT !.at = "memfs"] /\ UNCHANGED failed
      ELSE Default(r)

\* PageHeap::GrowHeap
SystemAlloc ==
  /\ saPc.at = "idle" /\ Cardinality(grants) < MaxGrants
  /\ \E size \in SaSizes, align \in SaAligns : Call(size, align, "heap")
  /\ UNCHANGED <<setup, systemVars, huge, clientVars, foreign>>

\* PageHeapAllocator::New: its free list, its area, MetaDataAlloc's chunk, or
\* the system
NewObject ==
  /\ saPc.at = "idle" /\ Cardinality(objs.inuse) < MaxObjs
  /\ \/ /\ objs.free # {}
        /\ \E o \in objs.free : objs' = [objs EXCEPT !.free = @ \ {o}, !.inuse = @ \cup {o}]
        /\ UNCHANGED <<metaChunk, failed, saPc>>
     \/ /\ objs.free = {} /\ objs.avail >= ObjectSize
        /\ objs' = CarveObject(objs)
        /\ UNCHANGED <<metaChunk, failed, saPc>>
     \/ /\ objs.free = {} /\ objs.avail < ObjectSize /\ MetaFits(metaChunk)
        /\ metaChunk' = TakeMeta(metaChunk) /\ objs' = NewArea(metaChunk)
        /\ UNCHANGED <<failed, saPc>>
     \/ /\ objs.free = {} /\ objs.avail < ObjectSize /\ ~MetaFits(metaChunk)
        /\ Call(MetaChunk, MetaAlign, "meta")
        /\ UNCHANGED <<metaChunk, objs>>
  /\ UNCHANGED <<setup, systemVars, huge, grants, systemTaken, foreign>>

DeleteObject ==
  /\ saPc.at = "idle"
  /\ \E o \in objs.inuse : objs' = [objs EXCEPT !.free = @ \cup {o}, !.inuse = @ \ {o}]
  /\ UNCHANGED <<setup, systemVars, failed, huge, grants, systemTaken, metaChunk, foreign, saPc>>

-----------------------------------------------------------------------------
\* SbrkSysAllocator::Alloc: ask; if the result is not aligned ask for the rest,
\* which must continue it; failing that ask for enough to align within

SbrkSize(r) == RoundUp(r.size, r.align)
Skew(p, a) == (a - (p % a)) % a

SbrkAsk ==
  LET r == saPc
      n == SbrkSize(r)
  IN  /\ r.at = "sbrk"
      /\ \/ ~CanSbrk(n) /\ ChildFails(r) /\ UNCHANGED <<brk, owner, clientVars>>
         \/ /\ CanSbrk(n) /\ Sbrk(n, "ours") /\ UNCHANGED failed
            /\ IF Skew(brk, r.align) = 0 THEN Grant(r, brk, n)
               ELSE saPc' = [r EXCEPT !.at = "sbrk more", !.ptr = brk] /\ UNCHANGED clientVars
      /\ UNCHANGED <<setup, hint, huge, foreign>>

\* mutated: what the second call returned is not compared with the first
MoreAssumed(r) ==
  LET extra == Skew(r.ptr, r.align)
  IN  \/ ~CanSbrk(extra) /\ saPc' = [r EXCEPT !.at = "sbrk again"] /\ UNCHANGED <<brk, owner, clientVars>>
      \/ CanSbrk(extra) /\ Sbrk(extra, "ours") /\ Grant(r, r.ptr + extra, SbrkSize(r))

More(r) ==
  LET extra == Skew(r.ptr, r.align)
      again == saPc' = [r EXCEPT !.at = "sbrk again"] /\ UNCHANGED clientVars
  IN  \/ ~CanSbrk(extra) /\ again /\ UNCHANGED <<brk, owner>>
      \/ /\ CanSbrk(extra) /\ Sbrk(extra, "ours")
         /\ IF brk = r.ptr + SbrkSize(r) THEN Grant(r, r.ptr + extra, SbrkSize(r)) ELSE again

SbrkMore ==
  /\ saPc.at = "sbrk more" /\ More(saPc)
  /\ UNCHANGED <<setup, hint, failed, huge, foreign>>

SbrkAgain ==
  LET r == saPc
      n == SbrkSize(r) + r.align - 1
  IN  /\ r.at = "sbrk again"
      /\ \/ ~CanSbrk(n) /\ ChildFails(r) /\ UNCHANGED <<brk, owner, clientVars>>
         \/ /\ CanSbrk(n) /\ Sbrk(n, "ours") /\ UNCHANGED failed
            /\ Grant(r, brk + Skew(brk, r.align), SbrkSize(r))
      /\ UNCHANGED <<setup, hint, huge, foreign>>

-----------------------------------------------------------------------------
\* MmapSysAllocator::Alloc: at the hint if it is aligned and the system agrees
\* (a result that is not aligned is unmapped again), else with room to align

MmapAlign(r) == Biggest(r.align, NativePage)
MmapSize(r) == RoundUp(r.size, MmapAlign(r))

Mapped(r, start) ==
  LET n == MmapSize(r)
  IN  /\ owner' = Own(Block(start, n))
      /\ hint' = start + n
      /\ Grant(r, start, n)

MmapHint ==
  LET r == saPc
      n == MmapSize(r)
      usable == hint # 0 /\ hint + n < MaxAddress /\ hint % MmapAlign(r) = 0
      offers == IF ~usable THEN {} ELSE IF hint \in Holes(n) THEN {hint} ELSE Holes(n)
  IN  /\ r.at = "mmap"
      /\ \/ \E s \in offers : s % MmapAlign(r) = 0 /\ Mapped(r, s)
         \/ /\ offers = {} \/ \E s \in offers : s % MmapAlign(r) # 0
            /\ saPc' = [r EXCEPT !.at = "mmap more"]
            /\ UNCHANGED <<owner, hint, clientVars>>
      /\ UNCHANGED <<setup, brk, failed, huge, foreign>>

MmapMore ==
  LET r == saPc
      room == Holes(MmapSize(r) + MmapAlign(r) - NativePage)
  IN  /\ r.at = "mmap more"
      /\ \/ \E s \in room : Mapped(r, s + Skew(s, MmapAlign(r))) /\ UNCHANGED failed
         \/ room = {} /\ ChildFails(r) /\ UNCHANGED <<owner, hint, clientVars>>
      /\ UNCHANGED <<setup, brk, huge, foreign>>

-----------------------------------------------------------------------------
\* HugetlbSysAllocator::Alloc and AllocInternal; ftruncate and mmap may fail

MemfsAlloc ==
  LET r     == saPc
      align == Biggest(r.align, BigPage)
      n     == RoundUp(r.size, align)
      extra == align - BigPage
      over  == setup.limit > 0 /\ huge.base + n + extra > setup.limit
      GiveUp(f) == huge' = [huge EXCEPT !.failed = f] /\ Default(r) /\ UNCHANGED <<owner, clientVars>>
  IN  /\ r.at = "memfs"
      /\ \/ over /\ GiveUp(setup.limit - huge.base < BigPage)
         \/ ~over /\ \E f \in BOOLEAN : GiveUp(f)  \* FALSE: memfs_malloc_ignore_mmap_fail
         \/ /\ ~over /\ UNCHANGED failed
            /\ \E s \in {g \in Holes(n + extra) : g % BigPage = 0} :
                  /\ owner' = Own(Block(s, n + extra))
                  /\ huge' = [huge EXCEPT !.base = @ + n + extra]
                  /\ Grant(r, s + Skew(s, align), n + extra - Skew(s, align))
      /\ UNCHANGED <<setup, brk, hint, foreign>>

SaNext == \/ ForeignCall \/ SystemAlloc \/ NewObject \/ DeleteObject
          \/ SbrkAsk \/ SbrkMore \/ SbrkAgain \/ MmapHint \/ MmapMore \/ MemfsAlloc

SaSpec == SaInit /\ [][SaNext]_saVars

-----------------------------------------------------------------------------
\* Every block TCMalloc_SystemAlloc returns is aligned and as large as asked,
\* no two overlap, none holds memory of the rest of the process however its
\* sbrk and mmap calls fell between, and TCMalloc_SystemTaken is their total.
GrantsSound ==
  /\ \A g \in grants : /\ g.start % g.align = 0 /\ g.size >= g.asked
                       /\ \A a \in Block(g.start, g.size) : owner[a] = "ours"
  /\ \A g, h \in grants : g # h => Block(g.start, g.size) \cap Block(h.start, h.size) = {}
  /\ systemTaken = MapThenSumSet(LAMBDA g : g.size, grants)

\* tcmalloc's own objects are apart from each other and lie within a block of
\* the system's.
MetadataSound ==
  LET all == objs.inuse \cup objs.free
  IN  /\ \A o, p \in all : o # p => Block(o, ObjectSize) \cap Block(p, ObjectSize) = {}
      /\ \A o \in all : \E g \in grants : Block(o, ObjectSize) \subseteq Block(g.start, g.size)
      /\ objs.inuse \cap objs.free = {}

\* "After both failed, reset failed_ to false so that a single failed allocation
\* won't make the allocator never work again": between calls some child is
\* tried.
AllocatorRecovers == saPc.at = "idle" => \E i \in 1 .. 2 : ~failed[i]

\* What the system gave is what tcmalloc thinks it has.
SystemMemorySound == GrantsSound /\ MetadataSound /\ AllocatorRecovers
=============================================================================
