--------------------------- MODULE LowLevelAlloc ---------------------------
(***************************************************************************)
(* base/low_level_alloc.cc: the arena allocator that hands out memory      *)
(* without malloc, and emergency_malloc.cc, which runs one such arena over *)
(* a fixed range of addresses.  The free list is the code's skip list: a   *)
(* next pointer per node and level, searched from the top level down.      *)
(*                                                                         *)
(* Addresses count units of arena->roundup (32 bytes, also the size of a   *)
(* block header).  Every section under arena->mu is one step.  mmap runs   *)
(* with the lock released, so a growing allocation is three steps.         *)
(***************************************************************************)
EXTENDS Integers, FiniteSets, FiniteSetsExt, Functions, TLC

CONSTANTS LlaThreads,      \* the threads that share the arena
          LlaRequests,     \* requested sizes, in units
          LlaMemory,       \* units of address space the kernel may map
          LlaPage,         \* kMinimalRegion and the page size, in units
          EmergencySize,   \* kEmergencyArenaSize, in units
          ArenaUnits,      \* sizeof(Arena), in units
          kMaxLevel        \* levels of the skip list

VARIABLES lla,    \* the arena
          llaPc   \* what each thread is doing in AllocWithArena

llaVars == <<lla, llaPc>>

\* The null pointer and the list head (arena->freelist).
Null == -1
Head == -2

Roundup == 32           \* bytes in a unit
MinBytes == 2 * Roundup \* arena->min_size
NextOffset == 40        \* offset of AllocList::next
Levels == 0 .. kMaxLevel - 1

RoundUpTo(n, align) == ((n + align - 1) \div align) * align

LlaIdle == [at |-> "idle"]

IntLog2(bytes) ==
  LET f[i \in 0 .. bytes] == IF i > MinBytes THEN 1 + f[i \div 2] ELSE 0 IN f[bytes]

\* The level counts LLA_SkiplistLevels may return for a block of size units.
\* The random term is an unsynchronised global: any value of it may be seen.
SkiplistLevels(size, random) ==
  LET bytes  == size * Roundup
      maxFit == (bytes - NextOffset) \div 8
      cap    == Min({maxFit, kMaxLevel - 1})
      low    == Min({IntLog2(bytes) + 1, cap})
  IN  IF random THEN low .. cap ELSE {low}

\* prev[] of LLA_SkiplistSearch: at each level the last node below e.
SkiplistSearch(a, e) ==
  LET Walk[p \in DOMAIN a.next, l \in Levels] ==
        LET n == a.next[p][l] IN IF n # Null /\ n < e THEN Walk[n, l] ELSE p
      Prev[l \in Levels] ==
        IF l >= a.levels THEN Head
        ELSE Walk[IF l + 1 >= a.levels THEN Head ELSE Prev[l + 1], l]
  IN  Prev

SkiplistInsert(a, e, size, levels) ==
  LET prev == SkiplistSearch(a, e)
      Link(p, l) == IF l >= levels THEN IF p = e THEN Null ELSE a.next[p][l]
                    ELSE IF p = e THEN a.next[prev[l]][l]
                    ELSE IF p = prev[l] THEN e ELSE a.next[p][l]
  IN  [a EXCEPT !.levels = Max({a.levels, levels}),
                !.next = [p \in DOMAIN a.next \cup {e} |-> [l \in Levels |-> Link(p, l)]],
                !.height = [p \in DOMAIN a.height \cup {e} |->
                              IF p = e THEN levels ELSE a.height[p]],
                !.size = [p \in DOMAIN a.size \cup {e} |->
                              IF p = e THEN size ELSE a.size[p]]]

SkiplistDelete(a, e) ==
  LET prev == SkiplistSearch(a, e)
      found == a.levels > 0 /\ a.next[prev[0]][0] = e
      Unlinked(l) == \A j \in 0 .. l : j < a.height[e] /\ a.next[prev[j]][j] = e
      Link(p, l) == IF p = prev[l] /\ Unlinked(l) THEN a.next[e][l] ELSE a.next[p][l]
      next == [p \in DOMAIN a.next |-> [l \in Levels |-> Link(p, l)]]
      used == {l \in Levels : l < a.levels /\ next[Head][l] # Null}
  IN  IF ~found THEN [a EXCEPT !.broken = TRUE]
      ELSE [a EXCEPT !.next = Restrict(next, DOMAIN next \ {e}),
                     !.height = Restrict(@, DOMAIN @ \ {e}),
                     !.size = Restrict(@, DOMAIN @ \ {e}),
                     !.levels = IF used = {} THEN 0 ELSE Max(used) + 1]

\* Every result the random level count allows.
Coalesce(a, x) ==
  LET n == a.next[x][0]
      size == a.size[x] + a.size[n]
      b == SkiplistDelete(SkiplistDelete(a, n), x)
  IN  IF a.broken \/ x = Head \/ n = Null THEN {a}
      ELSE IF x + a.size[x] # n THEN {a}
      ELSE {SkiplistInsert(b, x, size, k) : k \in SkiplistLevels(size, TRUE)}

\* Mutant: the freed block is joined only to its successor.
AddToFreelistAhead(a, f, size) ==
  UNION {Coalesce(SkiplistInsert(a, f, size, k), f) : k \in SkiplistLevels(size, TRUE)}

AddToFreelist(a, f, size) ==
  LET before == SkiplistSearch(a, f)[0] IN
  UNION {UNION {Coalesce(c, before) :
                  c \in Coalesce(SkiplistInsert(a, f, size, k), f)} :
           k \in SkiplistLevels(size, TRUE)}

\* AllocWithArena's first-fit walk, at the lowest level such a block must have.
FindRegion(a, req) ==
  LET i == CHOOSE l \in SkiplistLevels(req, FALSE) : TRUE
      Walk[p \in DOMAIN a.next] ==
        LET n == a.next[p][i - 1] IN
        IF n # Null /\ a.size[n] < req THEN Walk[n] ELSE n
  IN  IF i - 1 < a.levels THEN Walk[Head] ELSE Null

\* Mutant: the remainder starts one unit early.
TakeRegionEarly(a, s, req) ==
  LET had == a.size[s]
      b == SkiplistDelete(a, s)
      got == IF req + 2 <= had THEN req ELSE had
      rest == IF got < had THEN AddToFreelist(b, s + got - 1, had - got) ELSE {b}
  IN  {[c EXCEPT !.alloc = [p \in DOMAIN c.alloc \cup {s} |->
                               IF p = s THEN got ELSE c.alloc[p]],
                 !.count = @ + 1] : c \in rest}

\* Take s off the free list and give back what the request does not need.
TakeRegion(a, s, req) ==
  LET had == a.size[s]
      b == SkiplistDelete(a, s)
      got == IF req + 2 <= had THEN req ELSE had
      rest == IF got < had THEN AddToFreelist(b, s + got, had - got) ELSE {b}
  IN  {[c EXCEPT !.alloc = [p \in DOMAIN c.alloc \cup {s} |->
                               IF p = s THEN got ELSE c.alloc[p]],
                 !.count = @ + 1] : c \in rest}

\* Free: the caller's block goes back to its arena.
Release(a, b) ==
  {[c EXCEPT !.count = @ - 1] :
     c \in AddToFreelist([a EXCEPT !.alloc = Restrict(@, DOMAIN @ \ {b})], b, a.alloc[b])}

NewArenaState(kind) ==
  [kind |-> kind, live |-> TRUE, levels |-> 0, count |-> 0, broken |-> FALSE,
   next |-> (Head :> [l \in Levels |-> Null]), height |-> (Head :> kMaxLevel),
   size |-> << >>, alloc |-> << >>, mapped |-> {}]

\* NewArenaWithCustomAlloc over the emergency zone: MapPages gives the whole
\* zone at once and the Arena object sits at its start.
EmergencyStates ==
  {[c EXCEPT !.mapped = 0 .. EmergencySize - 1] :
     c \in AddToFreelist(NewArenaState("emergency"), ArenaUnits,
                         EmergencySize - ArenaUnits)}

LlaInit ==
  /\ lla \in {NewArenaState("default")} \cup EmergencyStates
  /\ llaPc = [t \in LlaThreads |-> LlaIdle]

Rounded(request) == request + 1   \* RoundUp(request + sizeof(header), roundup)

\* One round of AllocWithArena's loop.  The emergency zone has nothing more
\* to map: EmergencyArenaPagesAllocator::MapPages ends the process.
Attempt(t, a, req) ==
  LET s == FindRegion(a, req) IN
  \/ /\ s # Null
     /\ lla' \in TakeRegion(a, s, req)
     /\ llaPc' = [llaPc EXCEPT ![t] = LlaIdle]
  \/ /\ s = Null /\ a.kind = "default"
     /\ lla' = a
     /\ llaPc' = [llaPc EXCEPT ![t] = [at |-> "map", req |-> req]]

AllocWithArena(t) ==
  /\ lla.live /\ llaPc[t] = LlaIdle
  /\ \E r \in LlaRequests : Attempt(t, lla, Rounded(r))

\* DefaultPagesAllocator::MapPages with arena->mu released: the kernel picks
\* any free page-aligned range, next to an earlier one or not.
MapPages(t) ==
  /\ llaPc[t].at = "map"
  /\ LET n == RoundUpTo(llaPc[t].req, LlaPage) IN
     \E at \in {p * LlaPage : p \in 0 .. LlaMemory \div LlaPage} :
       /\ at + n <= LlaMemory
       /\ (at .. at + n - 1) \cap lla.mapped = {}
       /\ lla' = [lla EXCEPT !.mapped = @ \cup (at .. at + n - 1)]
       /\ llaPc' = [llaPc EXCEPT ![t] = [at |-> "insert", req |-> llaPc[t].req,
                                         from |-> at, size |-> n]]

\* InsertAllocatedMemoryLocked, then round the loop, all under arena->mu.
InsertAllocatedMemory(t) ==
  /\ llaPc[t].at = "insert"
  /\ \E a \in AddToFreelist(lla, llaPc[t].from, llaPc[t].size) :
       Attempt(t, a, llaPc[t].req)

LlaFree ==
  /\ \E b \in DOMAIN lla.alloc : lla' \in Release(lla, b)
  /\ UNCHANGED llaPc

\* EmergencyRealloc: under emergency_malloc_lock, allocate, copy, free.  The
\* process aborts when the zone cannot hold the new block.
EmergencyRealloc(t) ==
  /\ lla.kind = "emergency" /\ llaPc[t] = LlaIdle
  /\ \E b \in DOMAIN lla.alloc, r \in LlaRequests :
       LET s == FindRegion(lla, Rounded(r)) IN
       /\ s # Null
       /\ \E a \in TakeRegion(lla, s, Rounded(r)) : lla' \in Release(a, b)
  /\ UNCHANGED llaPc

\* The blocks DeleteArena finds on level 0 of an empty arena, all unmapped.
FreeRegions(a) == {p .. p + a.size[p] - 1 : p \in DOMAIN a.size}

\* DeleteArena by the arena's owner, once no call on it is under way.
DeleteArena ==
  /\ lla.kind = "default" /\ lla.live
  /\ \A t \in LlaThreads : llaPc[t] = LlaIdle
  /\ lla.count = 0
  /\ lla' = [NewArenaState("default") EXCEPT
               !.live = FALSE,
               !.broken = \/ lla.broken
                          \/ \E p \in DOMAIN lla.size :
                               \/ p % LlaPage # 0 \/ lla.size[p] % LlaPage # 0,
               !.mapped = lla.mapped \ UNION FreeRegions(lla)]
  /\ UNCHANGED llaPc

NewArena ==
  /\ ~lla.live
  /\ lla' = [lla EXCEPT !.live = TRUE]
  /\ UNCHANGED llaPc

LlaNext ==
  \/ \E t \in LlaThreads : \/ AllocWithArena(t) \/ MapPages(t)
                           \/ InsertAllocatedMemory(t) \/ EmergencyRealloc(t)
  \/ LlaFree \/ DeleteArena \/ NewArena

LlaSpec == LlaInit /\ [][LlaNext]_llaVars

-----------------------------------------------------------------------------
\* Units a thread has mapped and not yet inserted.
InFlight == UNION {llaPc[t].from .. llaPc[t].from + llaPc[t].size - 1 :
                     t \in {u \in LlaThreads : llaPc[u].at = "insert"}}

ArenaHeader == IF lla.kind = "emergency" THEN 0 .. ArenaUnits - 1 ELSE {}

\* The free blocks, the held blocks, the arena's own header and the regions
\* about to be inserted tile exactly what is mapped; two free blocks never
\* touch unless they lie in regions a growing thread still has to join; no
\* RAW_CHECK of the list code fails; a deleted arena leaves nothing mapped;
\* and for every request the walk at LLA_SkiplistLevels(req, false) finds the
\* lowest free block that is large enough, whatever random heights blocks got.
ArenaSound ==
  LET Cells(f) == [p \in DOMAIN f |-> p .. p + f[p] - 1]
      held == Cells(lla.alloc)
      free == Cells(lla.size)
      all  == Range(held) \cup Range(free) \cup {ArenaHeader, InFlight}
  IN  /\ ~lla.broken
      /\ UNION all = lla.mapped
      /\ MapThenSumSet(Cardinality, all) = Cardinality(lla.mapped)
      /\ \A p, q \in DOMAIN lla.size : p + lla.size[p] # q
      /\ lla.count = Cardinality(DOMAIN lla.alloc)
      /\ ~lla.live => lla.mapped = {}
      /\ \A r \in LlaRequests :
           LET fit == {p \in DOMAIN lla.size : lla.size[p] >= Rounded(r)} IN
           FindRegion(lla, Rounded(r)) = IF fit = {} THEN Null ELSE Min(fit)

\* An arena behaves as an allocator of disjoint blocks: whatever coalescing,
\* splitting and growth do to the free list, no step moves, resizes or
\* overlaps a block a caller still holds.
Abstract == INSTANCE AbstractArena
              WITH blocks <- {[at |-> p + 1, size |-> lla.alloc[p] - 1] :
                                p \in DOMAIN lla.alloc}

ImplementsArena == Abstract!Spec
=============================================================================
