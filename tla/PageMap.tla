------------------------------ MODULE PageMap -------------------------------
(***************************************************************************)
(* The tables PageHeap finds a page's span in: the radix trees of          *)
(* pagemap.h, of one, two or three levels.  pmRef is what they should      *)
(* hold.  A span sets its first and its last page.                         *)
(***************************************************************************)
EXTENDS Integers, FiniteSetsExt

CONSTANTS PmBits,      \* BITS
          PmPages,     \* the pages used; one is out of range
          PmLengths    \* lengths ensured

VARIABLES pm,    \* [levels, nodes, value]
          pmRef  \* page -> value

pmVars == <<pm, pmRef>>

-----------------------------------------------------------------------------
\* The radix trees.  A node is its level and index; the root is always there.

INTERIOR_BITS == IF pm.levels = 3 THEN (PmBits + 2) \div 3 ELSE PmBits - (PmBits + 1) \div 2
LEAF_BITS == IF pm.levels = 1 THEN PmBits
             ELSE IF pm.levels = 2 THEN (PmBits + 1) \div 2 ELSE PmBits - 2 * INTERIOR_BITS
PmLength == 2 ^ PmBits
Leaf(k) == <<"leaf", k \div 2 ^ LEAF_BITS>>
Interior(k) == <<"node", k \div 2 ^ (LEAF_BITS + INTERIOR_BITS)>>

HasInterior(k) == pm.levels < 3 \/ Interior(k) \in pm.nodes
HasLeaf(k) == pm.levels = 1 \/ (HasInterior(k) /\ Leaf(k) \in pm.nodes)

Get(k) == IF k >= PmLength \/ ~HasLeaf(k) THEN 0 ELSE pm.value[k]

\* Ensure: the leaf of each page in turn, and the node over it; an allocation
\* that fails leaves what came before.  The first part of the loop that a
\* failure leaves is any prefix.
Path(k) == CASE pm.levels = 1 -> {} [] pm.levels = 2 -> {Leaf(k)}
             [] OTHER -> {Interior(k), Leaf(k)}
\* the pages the loop visits: the first, and the first of each further leaf
EnsureNodes(start, n) ==
  UNION {Path(k) : k \in {j \in start .. start + n - 1 :
                            (j = start \/ j % 2 ^ LEAF_BITS = 0) /\ j < PmLength}}

\* A leaf just allocated is cleared.
WithNodes(S) ==
  [pm EXCEPT !.nodes = @ \cup S,
             !.value = [k \in DOMAIN @ |-> IF Leaf(k) \in S \ pm.nodes THEN 0 ELSE @[k]]]

EnsureAndSet(start, n, v) ==
  /\ start + n <= PmLength
  /\ LET t == WithNodes(EnsureNodes(start, n))
     IN  pm' = [t EXCEPT !.value = [k \in DOMAIN @ |-> IF k \in {start, start + n - 1} THEN v ELSE @[k]]]
  /\ pmRef' = [k \in DOMAIN pmRef |-> IF k \in {start, start + n - 1} THEN v ELSE pmRef[k]]

\* out of range, or out of memory half way
EnsureFails(start, n) ==
  /\ \E m \in 0 .. n - 1 :
        LET k == start + m
            over == IF k < PmLength THEN Path(k) \ {Leaf(k)} ELSE {}
        IN  \E S \in {{}, over} : pm' = WithNodes(EnsureNodes(start, m) \cup S)
  /\ UNCHANGED pmRef

\* Next: leaf by leaf, skipping the leaves and nodes that are not there
RECURSIVE NextFrom(_)
NextFrom(k) ==
  LET leafEnd == (k \div 2 ^ LEAF_BITS + 1) * 2 ^ LEAF_BITS
      nodeEnd == (k \div 2 ^ (LEAF_BITS + INTERIOR_BITS) + 1) * 2 ^ (LEAF_BITS + INTERIOR_BITS)
      found == {j \in k .. leafEnd - 1 : HasLeaf(k) /\ pm.value[j] # 0}
  IN  IF k >= PmLength THEN 0
      ELSE IF ~HasInterior(k) THEN NextFrom(nodeEnd)
      ELSE IF found # {} THEN pm.value[Min(found)]
      ELSE NextFrom(leafEnd)

-----------------------------------------------------------------------------
PmInit ==
  /\ \E l \in 1 .. 3 : pm = [levels |-> l, nodes |-> {}, value |-> [k \in 0 .. PmLength - 1 |-> 0]]
  /\ pmRef = [k \in 0 .. PmLength - 1 |-> 0]

PmNext ==
  \E s \in PmPages, n \in PmLengths : EnsureAndSet(s, n, s + 1) \/ EnsureFails(s, n)

PmSpec == PmInit /\ [][PmNext]_pmVars

-----------------------------------------------------------------------------
\* The tree answers as an array would, whichever leaves Ensure made or failed to
\* make: get of every page, in range or not, and Next from every page ("the
\* first non-nullptr pointer found in this map for a page number >= k").
PageMapExact ==
  /\ \A k \in 0 .. PmLength : Get(k) = IF k = PmLength THEN 0 ELSE pmRef[k]
  /\ \A k \in 0 .. PmLength :
        LET set == {j \in k .. PmLength - 1 : pmRef[j] # 0}
        IN  NextFrom(k) = IF set = {} THEN 0 ELSE pmRef[Min(set)]
=============================================================================
