------------------------------ MODULE Unwinder ------------------------------
(***************************************************************************)
(* Backtraces along frame pointers (stacktrace_generic_fp-inl.h), and how  *)
(* they find out whether a page may be read (check_address-inl.h), while   *)
(* other threads do the same.  Addresses count words: a frame is two, the  *)
(* saved frame pointer and the return address.  What the stack holds is    *)
(* chosen when it is first read.  Abstracted: the sizes array, PAC bits.   *)
(***************************************************************************)
EXTENDS Integers, Sequences, SequencesExt, FiniteSetsExt

CONSTANTS UwWalker,       \* the thread that takes a backtrace
          UwCheckers,     \* other threads; of theirs only the checks matter
          UwAddrs,        \* what a saved frame pointer may hold
          UwPageWords,    \* words in a page
          UwReadable,     \* possible sets of readable pages
          CurrentFrame,   \* __builtin_frame_address(0)
          kTooSmallAddr, kFrameSizeThreshold,
          UwDepths, UwSkips, \* values of max_depth and skip_count
          PipeSize        \* what fits in the pipe

VARIABLES platform,     \* how the kernel handles rt_sigprocmask(~0, addr), or "pipe"
          readable,     \* the readable pages
          checkAddress, \* the function pointer
          pipe,         \* bytes in the pipe
          check,        \* thread -> its call of CheckAddress
          walk          \* the call of GetStackTrace

uwVars == <<platform, readable, checkAddress, pipe, check, walk>>

UwThreads == UwCheckers \cup {UwWalker}
PageOf(a) == a \div UwPageWords
NoCheck == [at |-> "idle"]
UwIdle == [at |-> "idle"]
Unreadable == -1      \* the page that CheckAddressFirstCall maps

UwInit ==
  /\ platform \in {"reads_first", "how_first", "pipe"}
  /\ readable \in UwReadable
  /\ checkAddress = IF platform = "pipe" THEN "pipe" ELSE "first"
  /\ pipe = 0
  /\ check = [t \in UwThreads |-> NoCheck]
  /\ walk = UwIdle

-----------------------------------------------------------------------------
\* CheckAddress

AddressReadable(page) == page \in readable
Checking(t, c) == check' = [check EXCEPT ![t] = c]
Call(t, page) == Checking(t, [at |-> "call", fn |-> checkAddress, page |-> page, masked |-> FALSE])
Answer(t, ans) == Checking(t, [check[t] EXCEPT !.at = IF ans THEN "yes" ELSE "no", !.masked = FALSE])

\* A kernel that looks at HOW before it reads the set never says EFAULT.
CheckAccessSingleSyscall(page) == page # 0 /\ (platform = "how_first" \/ AddressReadable(page))

SingleSyscall(t) ==
  /\ check[t].at = "call" /\ check[t].fn = "single"
  /\ Answer(t, CheckAccessSingleSyscall(check[t].page))
  /\ UNCHANGED <<checkAddress, pipe>>

\* The first call blocks whatever signals the memory says, the second restores.
TwoSyscalls(t) ==
  /\ check[t].at = "call" /\ check[t].fn = "two"
  /\ IF check[t].masked THEN Answer(t, TRUE)
     ELSE IF check[t].page # 0 /\ AddressReadable(check[t].page)
     THEN Checking(t, [check[t] EXCEPT !.masked = TRUE])
     ELSE Answer(t, FALSE)
  /\ UNCHANGED <<checkAddress, pipe>>

\* CheckAddressFirstCall, until its call of mmap, which may take a backtrace
FirstCall(t) ==
  /\ check[t].at = "call" /\ check[t].fn = "first"
  /\ checkAddress' = "two"
  /\ Checking(t, [check[t] EXCEPT !.at = "mapped"])
  /\ UNCHANGED pipe

ChooseUntested(t) ==   \* mutant: the single call is taken without a trial
  /\ check[t].at = "mapped"
  /\ checkAddress' = "single"
  /\ Checking(t, [check[t] EXCEPT !.at = "sanity"])
  /\ UNCHANGED pipe

ChooseStrategy(t) ==
  /\ check[t].at = "mapped"
  /\ checkAddress' = IF CheckAccessSingleSyscall(Unreadable) THEN checkAddress ELSE "single"
  /\ Checking(t, [check[t] EXCEPT !.at = "sanity"])
  /\ UNCHANGED pipe

\* The checks that abort, then the address itself with the strategy of now.
SanityCheck(t) ==
  /\ check[t].at = "sanity"
  /\ IF checkAddress = "single" /\ CheckAccessSingleSyscall(Unreadable)
     THEN Checking(t, [check[t] EXCEPT !.at = "abort"])
     ELSE Call(t, check[t].page)
  /\ UNCHANGED <<checkAddress, pipe>>

\* Without rt_sigprocmask a byte of the page is written to a pipe, which is
\* emptied when it is full; others may fill it again.
PipeWrite(t) ==
  /\ check[t].at = "call" /\ check[t].fn = "pipe"
  /\ IF ~AddressReadable(check[t].page) /\ pipe < PipeSize THEN Answer(t, FALSE) /\ UNCHANGED pipe
     ELSE IF pipe < PipeSize THEN Answer(t, TRUE) /\ pipe' = pipe + 1
     ELSE Checking(t, [check[t] EXCEPT !.fn = "drain"]) /\ UNCHANGED pipe
  /\ UNCHANGED checkAddress

PipeDrain(t) ==
  /\ check[t].at = "call" /\ check[t].fn = "drain"
  /\ pipe' = 0
  /\ Checking(t, [check[t] EXCEPT !.fn = "pipe"])
  /\ UNCHANGED checkAddress

CheckStep(t) ==
  /\ \/ SingleSyscall(t) \/ TwoSyscalls(t) \/ FirstCall(t) \/ ChooseStrategy(t)
     \/ SanityCheck(t) \/ PipeWrite(t) \/ PipeDrain(t)
  /\ UNCHANGED <<platform, readable, walk>>

OtherCheck(t) ==
  /\ \/ check[t].at = "idle" /\ \E a \in UwAddrs : Call(t, PageOf(a))
     \/ check[t].at \in {"yes", "no"} /\ Checking(t, NoCheck)
  /\ UNCHANGED <<platform, readable, checkAddress, pipe, walk>>

-----------------------------------------------------------------------------
\* GetStackTrace.  seen holds the frames read, stack what they hold.

Unsigned(d) == IF d < 0 THEN kFrameSizeThreshold + 1 ELSE d
Return(w) == [w EXCEPT !.at = "done", !.n = Max({w.i, w.skip}) - w.skip]
ContextPc == 1

\* capture up to its loop; a context gives the first program counter and its
\* own frame pointer, and nothing is skipped then.
Capture(depth, skip_count, context, init) ==
  LET skip == IF context THEN 0 ELSE skip_count
      w == [at |-> "loop", f |-> init, prev |-> CurrentFrame, skip |-> skip,
            i |-> IF context THEN 1 ELSE 0, max |-> depth + skip, n |-> 0,
            result |-> IF context THEN <<ContextPc>> ELSE << >>,
            seen |-> << >>, stack |-> << >>]
  IN  IF \/ init % 2 # 0 \/ init < kTooSmallAddr
         \/ Unsigned(init - CurrentFrame) > kFrameSizeThreshold
      THEN Return(w) ELSE w

\* GET_STACK_TRACE_OR_FRAMES: its own frame is one to skip.
GetStackTrace ==
  /\ walk.at = "idle"
  /\ \E depth \in UwDepths, skip_count \in UwSkips, context \in BOOLEAN, init \in UwAddrs :
       /\ ~context => init = CurrentFrame + 2
       /\ walk' = IF depth = 0 THEN UwIdle ELSE Capture(depth, skip_count + 1, context, init)
  /\ UNCHANGED <<platform, readable, checkAddress, pipe, check>>

\* The page of the frame before has been checked already.
CheckPageIsReadable ==
  /\ walk.at = "loop" /\ check[UwWalker].at = "idle"
  /\ IF walk.i >= walk.max THEN walk' = Return(walk) /\ UNCHANGED check
     ELSE IF PageOf(walk.prev) # 0 /\ PageOf(walk.f) = PageOf(walk.prev)
     THEN walk' = [walk EXCEPT !.at = "read"] /\ UNCHANGED check
     ELSE Call(UwWalker, PageOf(walk.f)) /\ UNCHANGED walk
  /\ UNCHANGED <<platform, readable, checkAddress, pipe>>

PageChecked ==
  /\ check[UwWalker].at \in {"yes", "no"}
  /\ walk' = IF check[UwWalker].at = "yes" THEN [walk EXCEPT !.at = "read"] ELSE Return(walk)
  /\ check' = [check EXCEPT ![UwWalker] = NoCheck]
  /\ UNCHANGED <<platform, readable, checkAddress, pipe>>

\* What the stack holds at f: as seen before if the chain came back to it.
FrameAt(f) ==
  LET before == {j \in DOMAIN walk.seen : walk.seen[j] = f}
  IN  IF before # {} THEN {walk.stack[Min(before)]} ELSE [parent : UwAddrs, pc : {0, f}]

\* The turn of the loop after the check.
ReadFrame ==
  /\ walk.at = "read"
  /\ \E fr \in FrameAt(walk.f) :
       LET seen == [walk EXCEPT !.seen = Append(@, walk.f), !.stack = Append(@, fr)]
           w == [seen EXCEPT !.i = @ + 1,
                             !.result = IF walk.i >= walk.skip THEN Append(@, fr.pc) ELSE @]
       IN  walk' = IF fr.pc = 0 THEN Return(seen)
                   ELSE IF \/ fr.parent < kTooSmallAddr
                           \/ Unsigned(fr.parent - walk.f) > kFrameSizeThreshold
                           \/ fr.parent % 2 # 0
                   THEN Return(w)
                   ELSE [w EXCEPT !.at = "loop", !.prev = walk.f, !.f = fr.parent]
  /\ UNCHANGED <<platform, readable, checkAddress, pipe, check>>

UwNext ==
  \/ \E t \in UwThreads : CheckStep(t)
  \/ \E t \in UwCheckers : OtherCheck(t)
  \/ GetStackTrace \/ CheckPageIsReadable \/ PageChecked \/ ReadFrame

UwSpec == UwInit /\ [][UwNext]_uwVars

-----------------------------------------------------------------------------
\* Every check answers what is true of its page and leaves the signal mask as
\* it was, on every kernel and whichever thread chose the strategy meanwhile;
\* the checks that abort the process do not.
ChecksRight ==
  \A t \in UwThreads :
    /\ check[t].at # "abort"
    /\ check[t].at \in {"yes", "no"} =>
         ~check[t].masked /\ (check[t].at = "yes") = AddressReadable(check[t].page)

\* A backtrace reads readable pages only, whatever the stack holds, and returns
\* the return addresses along the chain, without the skipped ones, as many as
\* it says and at most max_depth.
TraceRight ==
  walk.at # "idle" =>
    /\ walk.at = "read" => {PageOf(walk.f), PageOf(walk.f + 1)} \subseteq readable
    /\ \A j \in 1 .. Len(walk.seen) - 1 : walk.seen[j + 1] = walk.stack[j].parent
    /\ walk.at = "done" =>
         LET pcs == SelectSeq([j \in DOMAIN walk.stack |-> walk.stack[j].pc], LAMBDA pc : pc # 0)
             first == IF walk.result # << >> /\ walk.result[1] = ContextPc THEN <<ContextPc>> ELSE << >>
         IN  /\ walk.n = Len(walk.result) /\ walk.n <= walk.max - walk.skip
             /\ walk.result = first \o SubSeq(pcs, walk.skip + 1, Len(pcs))

\* Backtraces are right and safe.
UnwindSound == ChecksRight /\ TraceRight
=============================================================================
