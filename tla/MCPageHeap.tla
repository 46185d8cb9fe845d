----------------------------- MODULE MCPageHeap -----------------------------
(* The environments TLC runs PageHeap in.                                  *)
EXTENDS PageHeap

Plain ==
  [numPages |-> 4, maxLength |-> 15, maxValidPages |-> 12, maxPages |-> 2,
   smallestSpan |-> 1, forcedCoalesce |-> 4, heapLimit |-> 0, maxMetadata |-> 0,
   pagemapMayFail |-> FALSE, releaseMayFail |-> FALSE, aggressiveModes |-> {},
   walkers |-> {}, numRanges |-> 0]

(* All spans are large, and there is a limit.                              *)
Limited == [Plain EXCEPT !.maxPages = 0, !.heapLimit = 3]

(* Everything fails that can, and decommit is switched on and off.         *)
Failing == [Plain EXCEPT !.heapLimit = 3, !.maxMetadata = 1, !.pagemapMayFail = TRUE,
                         !.releaseMayFail = TRUE, !.aggressiveModes = BOOLEAN]

(* Pages of the system twice as large as those of the heap.                *)
Paired == [Plain EXCEPT !.numPages = 7, !.smallestSpan = 2]

Switching == [Plain EXCEPT !.aggressiveModes = BOOLEAN]

(* A caller walks the heap's ranges; a buffer's worth is all of them, or   *)
(* one.                                                                    *)
Walked == [Plain EXCEPT !.numPages = 3, !.walkers = {"w"}, !.numRanges = 4]
WalkedByOne == [Plain EXCEPT !.numPages = 3, !.walkers = {"w"}, !.numRanges = 1]

AllEnvironments    == {Plain, Limited, Failing, Paired, Walked}
SwitchingDecommit  == {Switching}
SmallBuffer        == {WalkedByOne}
=============================================================================
