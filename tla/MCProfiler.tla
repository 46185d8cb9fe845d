----------------------------- MODULE MCProfiler -----------------------------
(* A small collector: two ways of one bucket, three stacks, and a buffer   *)
(* that holds little more than the header.                                 *)
EXTENDS Profiler, TLC

CONSTANTS s1, s2, s3

ConstDepth == (s1 :> 1) @@ (s2 :> 2) @@ (s3 :> 1)
ConstBucket == [s \in Stacks |-> 1]

(* Profiling is switched on and off by signal.                             *)
Signalled == {[client |-> "signal", on |-> FALSE, per_thread |-> FALSE, maxCalls |-> 2,
               maxInterrupts |-> 1]}
=============================================================================
