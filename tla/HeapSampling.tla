---------------------------- MODULE HeapSampling ----------------------------
(***************************************************************************)
(* The heap sample and the heap growth report: each thread's Sampler       *)
(* (sampler.h, sampler.cc), the list of sampled objects (tcmalloc.cc), the *)
(* lock-free list of growth stacks (static_vars.h, page_heap.cc), and the  *)
(* flat dump of either (stack_trace_table.cc) that malloc_extension.cc     *)
(* prints.  A stack trace is a sequence of program counters.               *)
(***************************************************************************)
EXTENDS Integers, Sequences, SequencesExt

CONSTANTS SpThreads,  \* threads; each grows the heap and reads reports
          Samplers,   \* those that also allocate small objects
          SpSizes,    \* sizes allocated, in bytes
          SpPeriods,  \* values of the tcmalloc_sample_parameter flag
          Gaps,       \* what PickNextSamplingPoint draws when sampling is on
          OffGap,     \* what it returns when sampling is off (16 << 20)
          Stacks,     \* stack traces
          MaxObjects, \* bound on sampled objects and on growth records
          MaxReads    \* bound on reports

VARIABLES period,    \* FLAGS_tcmalloc_sample_parameter
          sampler,   \* thread -> Sampler; gap and used are history: the last
                     \* point picked and the bytes allocated since
          sampled,   \* Static::sampled_objects, newest first
          growth,    \* Static::growth_stacks: [top, node -> record]
          reads,     \* reports started
          spPc       \* thread -> the call it is in

spVars == <<period, sampler, sampled, growth, reads, spPc>>

Calling(t, c) == [spPc EXCEPT ![t] = c]
SpIdle == [op |-> "idle"]
Null == 0

FreshSampler == [initialized |-> FALSE, until |-> 0, gap |-> 0, used |-> 0]

SpInit ==
  /\ period \in SpPeriods
  /\ sampler = [t \in Samplers |-> FreshSampler]
  /\ sampled = <<>>
  /\ growth = [top |-> Null, nodes |-> <<>>]
  /\ reads = 0
  /\ spPc = [t \in SpThreads |-> SpIdle]

\* SetNumericProperty: MarkThreadIdle makes the calling thread's next cache,
\* and with it a fresh sampler, read the flag.
SetSamplePeriod(t, p) ==
  /\ spPc[t].op = "idle"
  /\ period' = p
  /\ sampler' = [s \in Samplers |-> IF s = t THEN FreshSampler ELSE sampler[s]]
  /\ UNCHANGED <<sampled, growth, reads, spPc>>

-----------------------------------------------------------------------------
\* The sampler

PickNextSamplingPoint == IF period <= 0 THEN {OffGap} ELSE Gaps

Recorded(s, k) == [s EXCEPT !.until = @ - k, !.used = @ + k]
Picked(g) == [initialized |-> TRUE, until |-> g, gap |-> g, used |-> 0]

\* the decrement of a fast path that fails is undone
TryRecordAllocationFast(t, k) ==
  LET s == sampler[t]
      fits == s.until - k >= 0
  IN  /\ sampler' = [sampler EXCEPT ![t] = IF fits THEN Recorded(s, k) ELSE s]
      /\ spPc' = Calling(t, IF fits THEN SpIdle ELSE [op |-> "slow", size |-> k])

MallocFastPath(t, k) ==
  /\ spPc[t].op = "idle"
  /\ TryRecordAllocationFast(t, k)
  /\ UNCHANGED <<period, sampled, growth, reads>>

Unsampled(t, s) ==
  /\ sampler' = [sampler EXCEPT ![t] = s]
  /\ spPc' = Calling(t, SpIdle)

\* RecordAllocationSlow after its Init: a new point, and a sample unless the
\* flag is off
Resample(t, k) ==
  \E g \in PickNextSamplingPoint :
     /\ sampler' = [sampler EXCEPT ![t] = Picked(g)]
     /\ spPc' = Calling(t, IF period <= 0 THEN SpIdle ELSE [op |-> "sample", size |-> k])

\* RecordAllocation and RecordAllocationSlow
RecordAllocation(t) ==
  /\ spPc[t].op = "slow"
  /\ LET k == spPc[t].size
         s == sampler[t]
     IN  \/ s.until >= k /\ Unsampled(t, Recorded(s, k))
         \/ s.until < k /\ s.initialized /\ Resample(t, k)
         \/ /\ s.until < k /\ ~s.initialized
            /\ \E g \in PickNextSamplingPoint :
                  IF g >= k THEN Unsampled(t, Recorded(Picked(g), k)) ELSE Resample(t, k)
  /\ UNCHANGED <<period, sampled, growth, reads>>

\* The span is put on the list under pageheap_lock.
DoSampledAllocation(t) ==
  /\ spPc[t].op = "sample"
  /\ Len(sampled) < MaxObjects
  /\ \E st \in Stacks :
        sampled' = <<[size |-> spPc[t].size, stack |-> st]>> \o sampled
  /\ spPc' = Calling(t, SpIdle)
  /\ UNCHANGED <<period, sampler, growth, reads>>

\* do_free_pages
FreeSampled(t) ==
  /\ spPc[t].op = "idle"
  /\ \E i \in DOMAIN sampled : sampled' = RemoveAt(sampled, i)
  /\ UNCHANGED <<period, sampler, growth, reads, spPc>>

-----------------------------------------------------------------------------
\* Growth stacks

Records == DOMAIN growth.nodes

\* HandleUnlock, with the lock dropped: the stack is captured, then pushed
HandleUnlock(t) ==
  /\ spPc[t].op = "idle"
  /\ Len(growth.nodes) < MaxObjects
  /\ \E st \in Stacks :
        growth' = [growth EXCEPT !.nodes = Append(@, [size |-> 1, stack |-> st, next |-> growth.top])]
  /\ spPc' = Calling(t, [op |-> "push", node |-> Len(growth.nodes) + 1, old |-> growth.top])
  /\ UNCHANGED <<period, sampler, sampled, reads>>

\* one turn of the compare-and-exchange loop
PushGrowthStack(t) ==
  LET c == spPc[t]
      won == growth.top = c.old
  IN  /\ growth' = IF won THEN [growth EXCEPT !.top = c.node]
                   ELSE [growth EXCEPT !.nodes[c.node].next = growth.top]
      /\ spPc' = Calling(t, IF won THEN SpIdle ELSE [c EXCEPT !.old = growth.top])

PushStep(t) ==
  /\ spPc[t].op = "push"
  /\ PushGrowthStack(t)
  /\ UNCHANGED <<period, sampler, sampled, reads>>

-----------------------------------------------------------------------------
\* Reports

\* the growth list from a head
From[h \in Nat] ==
  IF h = Null THEN <<>>
  ELSE <<[size |-> growth.nodes[h].size, stack |-> growth.nodes[h].stack]>>
       \o From[growth.nodes[h].next]

\* one trace in the flat array: count, size, depth, program counters
Flat(e) == <<1, e.size, Len(e.stack)>> \o e.stack
ProduceStackTracesDump(entries) == FlattenSeq([i \in DOMAIN entries |-> Flat(entries[i])]) \o <<0>>
OutLen(entries) == 3 * Len(entries) + FoldSeq(LAMBDA e, n : n + Len(e.stack), 0, entries) + 1

\* what GetHeapSample and GetHeapGrowthStacks read back, from an index on
Parsed(out) ==
  LET P[i \in 1..Len(out)] ==
        IF out[i] = 0 THEN <<>>
        ELSE <<[size |-> out[i + 1], stack |-> SubSeq(out, i + 3, i + 2 + out[i + 2])]>>
             \o P[i + 3 + out[i + 2]]
  IN  P[1]

\* ReadStackTraces: the table copies the traces under the lock
ReadStackTraces(t) ==
  /\ spPc[t].op = "idle"
  /\ reads < MaxReads
  /\ reads' = reads + 1
  /\ spPc' = Calling(t, [op |-> "dump", table |-> Reverse(sampled)])
  /\ UNCHANGED <<period, sampler, sampled, growth>>

\* ReadHeapGrowthStackTraces takes the head without a lock; the first pass over
\* the list sizes the array.
ReadHeapGrowthStackTraces(t) ==
  /\ spPc[t].op = "idle"
  /\ reads < MaxReads
  /\ reads' = reads + 1
  /\ spPc' = Calling(t, [op |-> "grown", head |-> growth.top, len |-> OutLen(From[growth.top])])
  /\ UNCHANGED <<period, sampler, sampled, growth>>

\* The second pass fills the array; the array is printed and freed.
Report(t) ==
  /\ spPc[t].op \in {"dump", "grown"}
  /\ LET c == spPc[t]
         entries == IF c.op = "dump" THEN c.table ELSE From[c.head]
     IN  spPc' = Calling(t, [op   |-> "printed",
                             out  |-> ProduceStackTracesDump(entries),
                             len  |-> IF c.op = "dump" THEN OutLen(entries) ELSE c.len,
                             want |-> entries])
  /\ UNCHANGED <<period, sampler, sampled, growth, reads>>

ReportDone(t) ==
  /\ spPc[t].op = "printed"
  /\ spPc' = Calling(t, SpIdle)
  /\ UNCHANGED <<period, sampler, sampled, growth, reads>>

SpNext ==
  \/ \E t \in SpThreads, p \in SpPeriods \ {period} : SetSamplePeriod(t, p)
  \/ \E t \in Samplers :
       \/ \E k \in SpSizes : MallocFastPath(t, k)
       \/ RecordAllocation(t) \/ DoSampledAllocation(t) \/ FreeSampled(t)
  \/ \E t \in SpThreads :
       \/ HandleUnlock(t) \/ PushStep(t)
       \/ ReadStackTraces(t) \/ ReadHeapGrowthStackTraces(t) \/ Report(t) \/ ReportDone(t)

SpSpec == SpInit /\ [][SpNext]_spVars

-----------------------------------------------------------------------------
Reachable == LET R[h \in Nat] == IF h = Null THEN {} ELSE {h} \cup R[growth.nodes[h].next]
             IN  R[growth.top]

\* A thread's sampler counts every byte allocated since it picked its point
\* exactly once, whichever paths the allocations took and however the flag
\* changed, and stays non-negative ("Always non-negative with only very brief
\* exceptions", sampler.h).
GapExact == \A t \in Samplers : LET s == sampler[t] IN s.until >= 0 /\ s.until + s.used = s.gap

\* Every growth record whose push has returned is on the list, whatever pushes
\* raced with it (static_vars.h).
GrowthKeepsAll ==
  \A n \in Records :
     n \in Reachable \/ \E t \in SpThreads : spPc[t].op = "push" /\ spPc[t].node = n

\* A dump fills the array it was sized for ("ASSERT(idx == out_len)") and reads
\* back as the traces it was made of, while objects come and go and the growth
\* list grows.
DumpReadsBack ==
  \A t \in SpThreads :
     spPc[t].op = "printed" =>
        /\ Len(spPc[t].out) = spPc[t].len
        /\ Parsed(spPc[t].out) = spPc[t].want

\* Sampling counts every byte once, loses no growth record, and reports whole
\* dumps.
SamplingSound == GapExact /\ GrowthKeepsAll /\ DumpReadsBack
=============================================================================
