----------------------------- MODULE ProfileData -----------------------------
(***************************************************************************)
(* The CPU profiler's collector (profiledata.{h,cc}) as operators on a     *)
(* record: a set-associative table of stack traces with counts, a bounded  *)
(* buffer of evicted entries, and the file the buffer is flushed to.  A    *)
(* stack trace is a model value with a depth and a bucket.                 *)
(***************************************************************************)
EXTENDS Naturals, Sequences

CONSTANTS
  Stacks,          \* stack traces of at most kMaxStackDepth frames
  Depth,           \* the depth of each
  Bucket,          \* its bucket, h % kBuckets
  kBuckets,
  kAssociativity,
  kBufferLength,   \* slots of the eviction buffer
  NoStack          \* the stack of an unused entry

Ways == 1..kAssociativity
Unused == [stack |-> NoStack, count |-> 0]
EmptyTable == [b \in 1..kBuckets |-> [w \in Ways |-> Unused]]

(* The header and the end-of-data marker are written like entries.         *)
Header == [stack |-> "header", count |-> 0]
Trailer == [stack |-> "trailer", count |-> 0]

NumSlots(e) ==
  IF e = Header THEN 5 ELSE IF e = Trailer THEN 3 ELSE Depth[e.stack] + 2

(* The sum of a sequence of numbers.                                       *)
SumOf(ns) ==
  LET sum[i \in 0..Len(ns)] == IF i = 0 THEN 0 ELSE sum[i - 1] + ns[i]
  IN  sum[Len(ns)]

NumEvicted(c) == SumOf([i \in DOMAIN c.evict |-> NumSlots(c.evict[i])])

Constructed ==
  [enabled |-> FALSE, hash |-> EmptyTable, evict |-> <<>>, file |-> <<>>, count |-> 0]

FlushEvicted(c) == [c EXCEPT !.file = c.file \o c.evict, !.evict = <<>>]

Evict(c, e) ==
  LET d == IF NumEvicted(c) + NumSlots(e) > kBufferLength THEN FlushEvicted(c) ELSE c
  IN  [d EXCEPT !.evict = Append(d.evict, e)]

(* Start, once the file is open.                                           *)
StartCollector(c) ==
  [enabled |-> TRUE, hash |-> EmptyTable, evict |-> <<Header>>, file |-> <<>>, count |-> 0]

(* All entries in use, in table order.                                     *)
TableEntries(c) ==
  LET upTo[b \in 0..kBuckets] ==
        IF b = 0 THEN <<>> ELSE upTo[b - 1] \o SelectSeq(c.hash[b], LAMBDA e : e.count > 0)
  IN  upTo[kBuckets]

EvictAll(c) ==
  LET entries == TableEntries(c)
      after[i \in 0..Len(entries)] == IF i = 0 THEN c ELSE Evict(after[i - 1], entries[i])
  IN  after[Len(entries)]

(* Stop: the marker is an entry of three slots for Evict.  Reset keeps     *)
(* count_.                                                                 *)
StopCollector(c) ==
  LET done == FlushEvicted(Evict(EvictAll(c), Trailer))
  IN  [done EXCEPT !.enabled = FALSE, !.hash = EmptyTable]

FlushTable(c) == [FlushEvicted(EvictAll(c)) EXCEPT !.hash = EmptyTable]

(* The entry Add uses for a stack: the one that holds it, else the first   *)
(* of those with the smallest count.                                       *)
WayFor(c, s) ==
  LET set == c.hash[Bucket[s]]
      held == {w \in Ways : set[w].stack = s}
      least == {w \in Ways : \A v \in Ways : set[w].count <= set[v].count}
  IN  CHOOSE w \in Ways :
        IF held # {} THEN w \in held /\ \A v \in held : w <= v
                     ELSE w \in least /\ \A v \in least : w <= v

(* Mutant of AddToTable: the entry of a new stack starts at zero.          *)
AddFromZero(c, s) ==
  LET b == Bucket[s]
      w == WayFor(c, s)
      old == c.hash[b][w]
      d == IF old.stack # s /\ old.count > 0 THEN Evict(c, old) ELSE c
  IN  [d EXCEPT !.hash[b][w] = [stack |-> s, count |-> IF old.stack = s THEN old.count + 1 ELSE 0]]

(* The part of Add after count_++.                                         *)
AddToTable(c, s) ==
  LET b == Bucket[s]
      w == WayFor(c, s)
      old == c.hash[b][w]
  IN  IF old.stack = s
        THEN [c EXCEPT !.hash[b][w].count = old.count + 1]
        ELSE [(IF old.count > 0 THEN Evict(c, old) ELSE c)
                EXCEPT !.hash[b][w] = [stack |-> s, count |-> 1]]

(* Reference: what the table, the buffer and the file say of a stack.      *)
CountIn(seq, s) ==
  SumOf([i \in DOMAIN seq |-> IF seq[i].stack = s THEN seq[i].count ELSE 0])
Recorded(c, s) == CountIn(TableEntries(c), s) + CountIn(c.evict, s) + CountIn(c.file, s)
=============================================================================
