----------------------------- MODULE AddressMap -----------------------------
(***************************************************************************)
(* addressmap-inl.h: the map from the addresses of live objects to their   *)
(* records that the heap profiler keeps.  A hash table of clusters of      *)
(* blocks, each block a list of entries; entries are recycled.  A value is *)
(* the size of the object.                                                 *)
(***************************************************************************)
EXTENDS Integers, Sequences, SequencesExt

CONSTANTS AmKeys,       \* addresses objects may have
          AmSizes,      \* their sizes
          AmTop,        \* addresses are below AmTop
          kBlockSize,   \* 1 << kBlockBits
          kClusterBlocks, kHashSize, ALLOC_COUNT,
          AmMaxLive     \* bound on objects at a time

VARIABLES amTable,    \* hashtable_: bucket -> cluster ids, newest first
          amBlocks,   \* cluster id -> block -> entries, newest first
          amEntries,  \* entry -> [key, value], all that were ever allocated
          amFree,     \* free_
          amRef       \* the objects, as a plain map

amVars == <<amTable, amBlocks, amEntries, amFree, amRef>>

kClusterSize == kBlockSize * kClusterBlocks
ClusterId(a) == a \div kClusterSize
HashInt(id) == id % kHashSize
BlockID(a) == (a \div kBlockSize) % kClusterBlocks
NoValue == -1

AmInit ==
  /\ amTable = [h \in 0 .. kHashSize - 1 |-> << >>]
  /\ amBlocks = << >>
  /\ amEntries = << >> /\ amFree = << >>
  /\ amRef = << >>

\* FindCluster without create
HasCluster(a) == \E i \in DOMAIN amTable[HashInt(ClusterId(a))] :
                    amTable[HashInt(ClusterId(a))][i] = ClusterId(a)
BlockOf(a) == amBlocks[ClusterId(a)][BlockID(a)]
EntriesFor(key) ==
  IF HasCluster(key) THEN SelectSeq(BlockOf(key), LAMBDA e : amEntries[e].key = key) ELSE << >>

Find(key) == IF EntriesFor(key) = << >> THEN NoValue ELSE amEntries[EntriesFor(key)[1]].value

\* FindCluster with create
WithCluster(a) ==
  LET h == HashInt(ClusterId(a)) IN
  IF HasCluster(a) THEN [table |-> amTable, blocks |-> amBlocks]
  ELSE [table  |-> [amTable EXCEPT ![h] = <<ClusterId(a)>> \o @],
        blocks |-> [c \in DOMAIN amBlocks \cup {ClusterId(a)} |->
                      IF c = ClusterId(a) THEN [b \in 0 .. kClusterBlocks - 1 |-> << >>]
                      ELSE amBlocks[c]]]

\* a batch of entries, when none is free
Refill == IF amFree # << >> THEN amFree
          ELSE [i \in 1 .. ALLOC_COUNT |-> Len(amEntries) + i]

Insert(key, value) ==
  LET c == WithCluster(key)
      old == EntriesFor(key)
      e == Refill[1]
      grown == amEntries \o [i \in 1 .. (IF amFree = << >> THEN ALLOC_COUNT ELSE 0) |->
                               [key |-> NoValue, value |-> NoValue]]
  IN
  /\ amTable' = c.table
  /\ IF old # << >>
     THEN /\ amEntries' = [amEntries EXCEPT ![old[1]].value = value]
          /\ amBlocks' = c.blocks /\ UNCHANGED amFree
     ELSE /\ amEntries' = [grown EXCEPT ![e] = [key |-> key, value |-> value]]
          /\ amFree' = Tail(Refill)
          /\ amBlocks' = [c.blocks EXCEPT ![ClusterId(key)][BlockID(key)] = <<e>> \o @]

\* mutant: the entry stays in its block
RemoveKeepsLink(key) ==
  /\ amFree' = <<EntriesFor(key)[1]>> \o amFree
  /\ UNCHANGED <<amTable, amBlocks, amEntries>>

FindAndRemove(key) ==
  /\ amFree' = <<EntriesFor(key)[1]>> \o amFree
  /\ amBlocks' = [amBlocks EXCEPT ![ClusterId(key)][BlockID(key)] =
                    SelectSeq(@, LAMBDA e : e # EntriesFor(key)[1])]
  /\ UNCHANGED <<amTable, amEntries>>

\* FindInside: the object that contains an address, searched for backwards
\* block by block and, where there is nothing, cluster by cluster.
FindInside(max_size, key) ==
  LET Before(n, unit) == (n \div unit) * unit - 1
      Search[n \in 0 .. key] ==
        LET Back(unit) == IF key - Before(n, unit) > max_size THEN NoValue
                          ELSE Search[Before(n, unit)]
            smaller == IF HasCluster(n)
                       THEN SelectSeq(BlockOf(n), LAMBDA e : amEntries[e].key <= key) ELSE << >>
            holds == SelectSeq(smaller, LAMBDA e : \/ amEntries[e].key = key
                                                   \/ key < amEntries[e].key + amEntries[e].value)
        IN CASE holds # << >> -> amEntries[holds[1]].key
             [] holds = << >> /\ smaller # << >> -> NoValue
             [] smaller = << >> /\ HasCluster(n) /\ BlockID(n) # 0 -> Back(kBlockSize)
             [] OTHER -> IF n < kClusterSize THEN NoValue ELSE Back(kClusterSize)
  IN Search[key]

\* Iterate: the entries in the order it comes by them
Iterate ==
  FlattenSeq([h \in 1 .. kHashSize |->
    FlattenSeq([i \in DOMAIN amTable[h - 1] |->
      FlattenSeq([b \in 1 .. kClusterBlocks |-> amBlocks[amTable[h - 1][i]][b - 1]])])])

\* Objects do not overlap; one of size 0 still has its address for itself.
Extent(key, size) == key .. key + (IF size = 0 THEN 0 ELSE size - 1)
Apart(key, size) ==
  /\ Extent(key, size) \subseteq 0 .. AmTop - 1
  /\ \A k \in DOMAIN amRef \ {key} : Extent(k, amRef[k]) \cap Extent(key, size) = {}

RecordObject(key, size) ==
  /\ Len(Iterate) < AmMaxLive \/ key \in DOMAIN amRef
  /\ Apart(key, size)
  /\ Insert(key, size)
  /\ amRef' = [k \in DOMAIN amRef \cup {key} |-> IF k = key THEN size ELSE amRef[k]]

ForgetObject(key) ==
  IF Find(key) = NoValue THEN UNCHANGED amVars
  ELSE FindAndRemove(key) /\ amRef' = [k \in DOMAIN amRef \ {key} |-> amRef[k]]

AmNext == \E key \in AmKeys : \/ \E size \in AmSizes : RecordObject(key, size)
                              \/ ForgetObject(key)

AmSpec == AmInit /\ [][AmNext]_amVars

-----------------------------------------------------------------------------
Largest == CHOOSE m \in {0} \cup {amRef[k] : k \in DOMAIN amRef} : \A k \in DOMAIN amRef : m >= amRef[k]
Containing(a) == {k \in DOMAIN amRef : a \in Extent(k, amRef[k])}

\* The map answers as a plain one: Find for every address, FindInside for every
\* address although it stops at the first block with a smaller key, and Iterate
\* with every object once; an entry is in one block or free.
AddressMapExact ==
  /\ \A a \in 0 .. AmTop - 1 :
       /\ Find(a) = IF a \in DOMAIN amRef THEN amRef[a] ELSE NoValue
       /\ FindInside(Largest, a) = IF Containing(a) = {} THEN NoValue
                                   ELSE CHOOSE k \in Containing(a) : TRUE
  /\ ToSet(Iterate \o amFree) = DOMAIN amEntries
  /\ Len(Iterate \o amFree) = Len(amEntries)
=============================================================================
