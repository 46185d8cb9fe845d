--------------------------- MODULE AbstractArena ---------------------------
(***************************************************************************)
(* What an allocator of memory blocks promises its callers: a block handed *)
(* out overlaps no block still held, and a held block neither moves nor    *)
(* changes size until its holder gives it back.                            *)
(***************************************************************************)
EXTENDS Integers

VARIABLE blocks   \* the blocks held by callers, as records [at, size]

Overlap(b, c) == b.at < c.at + c.size /\ c.at < b.at + b.size

Fresh(b, held) == b.size > 0 /\ \A c \in held : ~Overlap(b, c)

Init == blocks = {}

\* The old block is read while the new one is written, so the two are
\* disjoint even though one step exchanges them.
Realloc == \E b \in blocks : \E c \in blocks' :
              /\ Fresh(c, blocks)
              /\ blocks' = (blocks \ {b}) \cup {c}

Alloc == \E b \in blocks' : Fresh(b, blocks) /\ blocks' = blocks \cup {b}

Free == \E b \in blocks : blocks' = blocks \ {b}

Next == Alloc \/ Free \/ Realloc

Spec == Init /\ [][Next]_blocks
=============================================================================
