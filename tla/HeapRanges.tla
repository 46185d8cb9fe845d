----------------------------- MODULE HeapRanges -----------------------------
(***************************************************************************)
(* MallocExtension::Ranges over the page heap: tcmalloc.cc's               *)
(* IterateOverRanges and PageHeap::GetNextRange.  A walk copies up to      *)
(* kNumRanges ranges at a time under the page heap's lock into a static    *)
(* buffer and hands them to the caller's function without it, while the    *)
(* heap goes on changing.  The environment says who walks.                 *)
(***************************************************************************)
EXTENDS MCPageHeap, Sequences

VARIABLES ranges,     \* static ranges[kNumRanges]
          walk        \* each caller's page, n, done and place in the loop

rangesVars == <<ranges, walk>>

Walkers == env.walkers
kNumRanges == env.numRanges
MaxWalks == 1

WalkIdle(calls) == [at |-> "idle", calls |-> calls, page |-> 1, i |-> 0, n |-> 0, done |-> FALSE]

\* what GetNextRange copies out of span object i for the page asked for; a
\* deleted span object holds anything
RangeOf(i, page) == [start   |-> heap.span[i].start,
                     current |-> page \in PagesOf(heap.span[i]) \/ page < heap.span[i].start]
Garbage == [start |-> Null, current |-> FALSE]

RangesInit ==
  /\ Init
  /\ ranges = [i \in 1 .. kNumRanges |-> Garbage]
  /\ walk = [w \in Walkers |-> WalkIdle(0)]

(* GetNextRange: the span the pagemap has for the first page at or after   *)
(* start that has one; Null if there is none.                              *)
GetNextRange(start) ==
  LET known == {p \in DOMAIN heap.pagemap : p >= start /\ heap.pagemap[p] # Null} IN
  IF known = {} THEN Null ELSE heap.pagemap[Min(known)]

(* The loop under the lock, from entry n + 1 of the buffer on.  A deleted  *)
(* span object may send it anywhere ahead.                                 *)
RECURSIVE Fill(_, _, _)
Fill(buffer, page, n) ==
  LET i == GetNextRange(page) IN
  IF n = kNumRanges \/ i = Null
    THEN {[buffer |-> buffer, page |-> page, n |-> n, done |-> n < kNumRanges]}
    ELSE IF heap.span[i] = NoSpan
    THEN UNION {Fill([buffer EXCEPT ![n + 1] = Garbage], p, n + 1) : p \in page + 1 .. NumPages + 1}
    ELSE Fill([buffer EXCEPT ![n + 1] = RangeOf(i, page)],
              heap.span[i].start + heap.span[i].length, n + 1)

StartWalk(w) ==
  /\ walk[w].at = "idle" /\ walk[w].calls < MaxWalks
  /\ walk' = [walk EXCEPT ![w] = [WalkIdle(@.calls + 1) EXCEPT !.at = "fill"]]
  /\ UNCHANGED ranges

FillBuffer(w) ==
  /\ walk[w].at = "fill"
  /\ \E f \in Fill(ranges, walk[w].page, 0) :
       /\ ranges' = f.buffer
       /\ walk' = [walk EXCEPT ![w] = [@ EXCEPT !.at = "report", !.page = f.page, !.i = 0,
                                                !.n = f.n, !.done = f.done]]

(* func(arg, &ranges[i]), or the end of the loop over the buffer.          *)
Report(w) ==
  /\ walk[w].at = "report"
  /\ walk' = [walk EXCEPT ![w] =
       IF @.i < @.n THEN [@ EXCEPT !.i = @ + 1]
       ELSE IF @.done THEN WalkIdle(@.calls) ELSE [@ EXCEPT !.at = "fill"]]
  /\ UNCHANGED ranges

WalkStep == \E w \in Walkers : StartWalk(w) \/ FillBuffer(w) \/ Report(w)

RangesNext == /\ \/ Operation /\ UNCHANGED rangesVars
                 \/ WalkStep /\ UNCHANGED heap
              /\ UNCHANGED env

RangesSpec == RangesInit /\ [][RangesNext]_<<vars, rangesVars>>
-----------------------------------------------------------------------------
(* MergeIntoFreeList's comment: "We do not bother resetting the stale      *)
(* pagemap entries for the pieces we are merging together because we only  *)
(* care about the pagemap entries for the boundaries."  A walk meets no    *)
(* stale entry: every range it copies is a span's that exists and reaches  *)
(* the page the walk was at.  True of a walk that fits the buffer; one     *)
(* that goes on after the lock was dropped may find the page it is at      *)
(* inside a merged span.                                                   *)
RangesCurrent ==
  \A w \in Walkers : walk[w].at = "report" =>
    \A i \in walk[w].i + 1 .. walk[w].n : ranges[i].current
=============================================================================
