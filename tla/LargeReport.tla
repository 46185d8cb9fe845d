---------------------------- MODULE LargeReport ----------------------------
(***************************************************************************)
(* should_report_large (tcmalloc.cc, built with ENABLE_LARGE_ALLOC_REPORT):*)
(* which large allocations are reported, while threads initialise and      *)
(* raise the threshold without a lock.  Integers keep their widths: size_t *)
(* has SizeBits bits and int64_t IntBits, as many or more.                 *)
(***************************************************************************)
EXTENDS Integers, FiniteSetsExt

CONSTANTS LrThreads,  \* threads
          LrSettings, \* values of TCMALLOC_LARGE_ALLOC_REPORT_THRESHOLD
          LrPages,    \* allocations, in pages
          SizeBits,
          IntBits,
          LrPageShift \* kPageShift

VARIABLES setting,   \* the environment variable
          threshold, \* large_alloc_threshold; 0 until initialised
          lrPc,      \* thread -> the call it is in
          reports    \* history: all allocations reported, and those since the
                     \* threshold was last initialised

lrVars == <<setting, threshold, lrPc, reports>>

SizeMax == 2^SizeBits - 1
LrPage == 2^LrPageShift
InInt(x) == LET r == x % 2^IntBits IN IF r >= 2^(IntBits - 1) THEN r - 2^IntBits ELSE r
InSize(x) == x % 2^SizeBits

LrIdle == [at |-> "idle"]

LrInit ==
  /\ setting \in LrSettings
  /\ threshold = 0
  /\ lrPc = [t \in LrThreads |-> LrIdle]
  /\ reports = [all |-> {}, since |-> {}]

At(t, r) == lrPc' = [lrPc EXCEPT ![t] = r]

LoadThreshold(t, pages) ==
  /\ lrPc[t] = LrIdle
  /\ At(t, [at |-> IF threshold = 0 THEN "init" ELSE "loop", pages |-> pages,
            seen |-> threshold])
  /\ UNCHANGED <<setting, threshold, reports>>

\* What the setting makes of the threshold.
InitialThreshold ==
  LET value == Max({LrPage, IF setting < 0 THEN InInt(SizeMax) ELSE setting})
  IN  InSize(IF SizeBits < IntBits THEN Min({value, SizeMax}) ELSE value)

\* The store races with those of other threads, and with their reports.
StoreThreshold(t) ==
  /\ lrPc[t].at = "init"
  /\ threshold' = InitialThreshold
  /\ reports' = [reports EXCEPT !.since = {}]
  /\ At(t, [lrPc[t] EXCEPT !.at = "loop", !.seen = InitialThreshold])
  /\ UNCHANGED setting

\* By an eighth, saturating, and at least to the allocation.
Raised(seen, pages) ==
  LET more == InSize(seen + seen \div 8)
  IN  Max({IF more < seen THEN SizeMax ELSE more, InSize(pages * LrPage)})

\* A turn of the loop: below the threshold, or the exchange with its outcome.
ReportLoop(t) ==
  LET c == lrPc[t] IN
  /\ c.at = "loop"
  /\ \/ /\ c.pages < c.seen \div LrPage
        /\ At(t, LrIdle) /\ UNCHANGED <<threshold, reports>>
     \/ /\ c.pages >= c.seen \div LrPage /\ threshold = c.seen
        /\ threshold' = Raised(c.seen, c.pages)
        /\ reports' = [all |-> reports.all \cup {c.pages},
                       since |-> reports.since \cup {c.pages}]
        /\ At(t, LrIdle)
     \/ /\ c.pages >= c.seen \div LrPage /\ threshold # c.seen
        /\ At(t, [c EXCEPT !.seen = threshold]) /\ UNCHANGED <<threshold, reports>>
  /\ UNCHANGED setting

LrNext == \E t \in LrThreads : \/ \E n \in LrPages : LoadThreshold(t, n)
                               \/ StoreThreshold(t) \/ ReportLoop(t)

LrSpec == LrInit /\ [][LrNext]_lrVars
-----------------------------------------------------------------------------
=============================================================================
