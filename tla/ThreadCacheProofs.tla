------------------------- MODULE ThreadCacheProofs -------------------------
(***************************************************************************)
(* The free lists of ThreadCache stay well formed for any threads, classes *)
(* and constants.  Each operation on a list maps a sound list to a sound   *)
(* one (the lemmas); every action changes lists only through them.         *)
(***************************************************************************)
EXTENDS ThreadCache, TLAPS

Sound(l, c) ==
  /\ l \in FreeLists
  /\ l.lowater <= l.length
  /\ l.max_length >= 1
  /\ l.max_length > Batch[c] => l.max_length % Batch[c] = 0

IInv ==
  /\ list \in [Threads -> [Classes -> FreeLists]]
  /\ \A t \in Threads, c \in Classes : Sound(list[t][c], c)

USE ConstantsAssumption

(* Division with remainder.                                                *)
LEMMA Division ==
  ASSUME NEW b \in Nat \ {0}, NEW m \in Nat
  PROVE  m % b \in 0..(b - 1) /\ m \div b \in Nat /\ m = b * (m \div b) + (m % b)
  OBVIOUS

LEMMA ProductDivides ==
  ASSUME NEW b \in Nat \ {0}, NEW q \in Nat
  PROVE  (b * q) % b = 0
  OBVIOUS

(* Taking a batch away from a multiple of the batch size, or rounding down *)
(* to one, leaves a multiple.                                              *)
LEMMA Multiples ==
  ASSUME NEW b \in Nat \ {0}, NEW m \in Nat
  PROVE  /\ m >= b /\ m % b = 0 => (m - b) % b = 0
         /\ m - (m % b) \in Nat /\ (m - (m % b)) % b = 0
         /\ m >= b => m - (m % b) >= b
  <1> DEFINE q == m \div b
  <1>1. m % b \in 0..(b - 1) /\ q \in Nat /\ m = b * q + (m % b)
    BY Division, ZenonT(30)
  <1> HIDE DEF q
  <1>2. m - (m % b) = b * q /\ (b * q) % b = 0 /\ b * q \in Nat
    <2>1. (b * q) % b = 0
      BY <1>1, ProductDivides
    <2>2. b * q \in Nat
      BY <1>1
    <2>3. m - (m % b) = b * q
      BY <1>1, <2>2
    <2> QED BY <2>1, <2>2, <2>3
  <1>3. ASSUME m >= b PROVE q >= 1
    <2>1. q # 0
      <3>1. SUFFICES ASSUME q = 0 PROVE FALSE
        OBVIOUS
      <3>2. b * q = 0
        BY <3>1
      <3> QED BY <1>1, <1>3, <3>2
    <2> QED BY <1>1, <2>1
  <1>4. ASSUME q >= 1 PROVE b * q >= b
    BY <1>1, <1>4
  <1>5. ASSUME m >= b, m % b = 0 PROVE (m - b) % b = 0
    <2>1. q - 1 \in Nat
      BY <1>1, <1>3, <1>5
    <2>2. m - b = b * (q - 1)
      BY <1>1, <1>5
    <2> QED BY <2>1, <2>2, ProductDivides
  <1> QED BY <1>2, <1>3, <1>4, <1>5

(* A new list is sound.                                                    *)
LEMMA EmptySound == ASSUME NEW c \in Classes PROVE Sound(EmptyList, c)
  BY DEF Sound, EmptyList, FreeLists

(* Push and PushRange keep a list sound.                                   *)
LEMMA PushedSound ==
  ASSUME NEW c \in Classes, NEW l, Sound(l, c), NEW n \in Nat
  PROVE  Sound(Pushed(l, n), c)
  BY DEF Sound, Pushed, FreeLists

(* So do Pop and PopRange of no more than there is.                        *)
LEMMA PoppedSound ==
  ASSUME NEW c \in Classes, NEW l, Sound(l, c), NEW n \in 0..l.length
  PROVE  Sound(Popped(l, n), c) /\ Sound(WithLength(l, n), c)
  BY DEF Sound, Popped, WithLength, Least, FreeLists

(* FetchFromCentralCache keeps max_length whole: slow start up to the      *)
(* batch size, then multiples of it.                                       *)
LEMMA GrownSound ==
  ASSUME NEW c \in Classes, NEW l, Sound(l, c)
  PROVE  Sound(WithMax(l, Grown(c, l.max_length)), c)
  <1> DEFINE m == l.max_length
             new == Least(m + Batch[c], MaxDynamic)
  <1>1. Batch[c] \in Nat \ {0} /\ Batch[c] <= MaxDynamic /\ m \in Nat /\ m >= 1
    BY DEF Sound, FreeLists
  <1>2. new \in Nat /\ new >= Batch[c]
    BY <1>1 DEF Least
  <1>3. /\ new - (new % Batch[c]) \in Nat
        /\ (new - (new % Batch[c])) % Batch[c] = 0
        /\ new - (new % Batch[c]) >= Batch[c]
    BY <1>1, <1>2, Multiples, ZenonT(30)
  <1>4. /\ Grown(c, m) \in Nat /\ Grown(c, m) >= 1
        /\ Grown(c, m) > Batch[c] => Grown(c, m) % Batch[c] = 0
    BY <1>1, <1>3 DEF Grown
  <1> QED BY <1>4 DEF Sound, WithMax, FreeLists

(* Shrinking a long list's max_length by a batch leaves whole batches.     *)
LEMMA LessABatch ==
  ASSUME NEW c \in Classes, NEW l, Sound(l, c), l.max_length > Batch[c]
  PROVE  (l.max_length - Batch[c]) % Batch[c] = 0
  <1> DEFINE m == l.max_length
             b == Batch[c]
  <1>1. b \in Nat \ {0} /\ m \in Nat /\ m >= b /\ m % b = 0
    BY DEF Sound, FreeLists
  <1> HIDE DEF m, b
  <1>2. (m - b) % b = 0
    BY <1>1, Multiples, ZenonT(30)
  <1> QED BY <1>2 DEF m, b

(* ListTooLong keeps a list sound.                                         *)
LEMMA TooLongSound ==
  ASSUME NEW c \in Classes, NEW l, Sound(l, c)
  PROVE  Sound(TooLong(l, c), c)
  <1>1. Batch[c] \in Nat \ {0} /\ l.max_length \in Nat
    BY DEF Sound, FreeLists
  <1>2. l.max_length > Batch[c] =>
          (l.max_length - Batch[c]) % Batch[c] = 0 /\ l.max_length - Batch[c] >= 1
    BY <1>1, LessABatch
  <1> QED BY <1>1, <1>2 DEF Sound, TooLong, WithMax, FreeLists

(* Scavenge keeps a list sound.                                            *)
LEMMA ScavengedSound ==
  ASSUME NEW c \in Classes, NEW l, Sound(l, c)
  PROVE  Sound(Scavenged(l, c), c)
  <1>1. Batch[c] \in Nat \ {0} /\ l.max_length \in Nat
    BY DEF Sound, FreeLists
  <1>2. l.max_length > Batch[c] => (l.max_length - Batch[c]) % Batch[c] = 0
    BY LessABatch
  <1>3. l.length \in Nat /\ l.lowater \in Nat /\ l.lowater <= l.length /\ l.overages \in Nat
    BY DEF Sound, FreeLists
  <1>4. Drop(l) \in 0..l.length
    BY <1>3 DEF Drop
  <1> DEFINE m == Scavenged(l, c).max_length
  <1>5. m \in Nat /\ m >= 1 /\ (m > Batch[c] => m % Batch[c] = 0)
    BY <1>1, <1>2 DEF Scavenged, Sound
  <1>6. /\ Scavenged(l, c) = [length |-> l.length - Drop(l), lowater |-> l.length - Drop(l),
                              max_length |-> m, overages |-> l.overages]
    BY DEF Scavenged
  <1>7. l.length - Drop(l) \in Nat
    BY <1>3, <1>4
  <1> HIDE DEF m
  <1> QED BY <1>3, <1>5, <1>6, <1>7 DEF Sound, FreeLists

(* One thread's lists may be replaced by sound ones.                       *)
LEMMA ListsReplaced ==
  ASSUME IInv, NEW t \in Threads, NEW ls,
         ls = [c \in Classes |-> ls[c]], \A c \in Classes : Sound(ls[c], c),
         list' = [list EXCEPT ![t] = ls]
  PROVE  IInv'
  <1>1. ls \in [Classes -> FreeLists]
    BY DEF Sound
  <1>2. list' \in [Threads -> [Classes -> FreeLists]]
    BY <1>1 DEF IInv
  <1>3. ASSUME NEW u \in Threads, NEW c \in Classes PROVE Sound(list'[u][c], c)
    <2>1. CASE u = t
      BY <2>1 DEF IInv
    <2>2. CASE u # t
      BY <2>2 DEF IInv
    <2> QED BY <2>1, <2>2
  <1> QED BY <1>2, <1>3 DEF IInv, Sound

(* One list may be replaced by a sound one.                                *)
LEMMA ListReplaced ==
  ASSUME IInv, NEW t \in Threads, NEW c \in Classes, NEW l, Sound(l, c)
  PROVE  LET ls == [list[t] EXCEPT ![c] = l] IN
         /\ ls = [d \in Classes |-> ls[d]]
         /\ \A d \in Classes : Sound(ls[d], d)
  BY DEF IInv

(* Initially all lists are new.                                            *)
LEMMA InitSound == Init => IInv
  <1> SUFFICES ASSUME Init PROVE IInv
    OBVIOUS
  <1>1. \A c \in Classes : EmptyList \in FreeLists /\ Sound(EmptyList, c)
    BY EmptySound DEF Sound
  <1> HIDE DEF EmptyList
  <1> QED BY <1>1 DEF Init, IInv

LEMMA NewHeapStep == ASSUME IInv, NEW t \in Threads, NewHeap(t) PROVE IInv'
  <1> DEFINE ls == [c \in Classes |-> EmptyList]
  <1>1. list' = [list EXCEPT ![t] = ls]
    BY DEF NewHeap
  <1>2. \A c \in Classes : Sound(ls[c], c)
    BY EmptySound
  <1> QED BY <1>1, <1>2, ListsReplaced, ZenonT(30)

LEMMA AllocateStep ==
  ASSUME IInv, NEW t \in Threads, NEW c \in Classes, Allocate(t, c) PROVE IInv'
  <1> DEFINE l == Popped(list[t][c], 1)
             ls == [list[t] EXCEPT ![c] = l]
  <1>1. list' = [list EXCEPT ![t] = ls]
    BY DEF Allocate, IInv
  <1>2. Sound(list[t][c], c) /\ list[t][c].length \in Nat /\ list[t][c].length > 0
    BY DEF IInv, Allocate, Sound, FreeLists
  <1>3. Sound(l, c)
    BY <1>2, PoppedSound
  <1> HIDE DEF l
  <1>4. ls = [d \in Classes |-> ls[d]] /\ \A d \in Classes : Sound(ls[d], d)
    BY <1>3, ListReplaced
  <1> HIDE DEF ls
  <1> QED BY <1>1, <1>4, ListsReplaced

LEMMA FetchStep ==
  ASSUME IInv, NEW t \in Threads, NEW c \in Classes, FetchFromCentralCache(t, c) PROVE IInv'
  <1>1. PICK n \in 1..Least(Least(list[t][c].max_length, Batch[c]), central[c]) :
          list' = [list EXCEPT ![t] = [@ EXCEPT ![c] =
                     WithMax(Pushed(list[t][c], n - 1), Grown(c, list[t][c].max_length))]]
    BY ZenonT(30) DEF FetchFromCentralCache
  <1> DEFINE p == Pushed(list[t][c], n - 1)
             l == WithMax(p, Grown(c, p.max_length))
             ls == [list[t] EXCEPT ![c] = l]
  <1>2. Sound(list[t][c], c)
    BY DEF IInv
  <1>3. n - 1 \in Nat
    OBVIOUS
  <1>4. Sound(p, c) /\ p.max_length = list[t][c].max_length
    BY <1>2, <1>3, PushedSound DEF Pushed
  <1>5. list' = [list EXCEPT ![t] = ls]
    BY <1>1, <1>4, ZenonT(30) DEF IInv
  <1> HIDE DEF p
  <1>6. Sound(l, c)
    BY <1>4, GrownSound
  <1> HIDE DEF l
  <1>7. ls = [d \in Classes |-> ls[d]] /\ \A d \in Classes : Sound(ls[d], d)
    BY <1>6, ListReplaced
  <1> HIDE DEF ls
  <1> QED BY <1>5, <1>7, ListsReplaced

LEMMA DeallocateStep ==
  ASSUME IInv, NEW t \in Threads, NEW c \in Classes, Deallocate(t, c) PROVE IInv'
  <1> DEFINE l == Pushed(list[t][c], 1)
             gone == IF l.length > l.max_length THEN ReleaseCount(l, Batch[c]) ELSE 0
             now == size[t] + ObjectSize[c] - gone * ObjectSize[c]
             k == IF l.length > l.max_length THEN TooLong(Popped(l, gone), c) ELSE l
             mine == [list[t] EXCEPT ![c] = k]
             after == [d \in Classes |-> Scavenged(mine[d], d)]
  <1>1. Sound(l, c)
    BY PushedSound DEF IInv
  <1>2. l.length > l.max_length => gone \in 0..l.length
    BY <1>1 DEF ReleaseCount, Least, Sound, FreeLists
  <1>3. list' = [list EXCEPT ![t] = mine] \/ list' = [list EXCEPT ![t] = after]
    <2>1. list' = [list EXCEPT ![t] = IF now > max_size[t] THEN after ELSE mine]
      BY ZenonT(30) DEF Deallocate
    <2> QED BY <2>1, ZenonT(30)
  <1> HIDE DEF l, gone
  <1>4. Sound(k, c)
    <2>1. CASE l.length > l.max_length
      <3>1. Sound(Popped(l, gone), c)
        BY <1>1, <1>2, <2>1, PoppedSound
      <3> QED BY <2>1, <3>1, TooLongSound
    <2>2. CASE ~(l.length > l.max_length)
      BY <2>2, <1>1
    <2> QED BY <2>1, <2>2
  <1> HIDE DEF k
  <1>5. mine = [d \in Classes |-> mine[d]] /\ \A d \in Classes : Sound(mine[d], d)
    BY <1>4, ListReplaced
  <1> HIDE DEF mine
  <1>6. after = [d \in Classes |-> after[d]] /\ \A d \in Classes : Sound(after[d], d)
    BY <1>5, ScavengedSound
  <1> HIDE DEF after
  <1> QED BY <1>3, <1>5, <1>6, ListsReplaced

LEMMA DestroyCacheStep == ASSUME IInv, NEW t \in Threads, DestroyCache(t) PROVE IInv'
  <1> DEFINE ls == [c \in Classes |-> WithLength(list[t][c], 0)]
  <1>1. list' = [list EXCEPT ![t] = ls]
    BY DEF DestroyCache, IInv
  <1>2. ASSUME NEW c \in Classes PROVE Sound(WithLength(list[t][c], 0), c)
    <2>1. Sound(list[t][c], c) /\ 0 \in 0..list[t][c].length
      BY DEF IInv, Sound, FreeLists
    <2> QED BY <2>1, PoppedSound
  <1>3. \A c \in Classes : Sound(ls[c], c)
    BY <1>2
  <1>4. ls = [c \in Classes |-> ls[c]]
    OBVIOUS
  <1> HIDE DEF ls
  <1> QED BY <1>1, <1>3, <1>4, ListsReplaced

(* Every step keeps all lists sound.                                       *)
LEMMA NextSound == IInv /\ [Next]_vars => IInv'
  <1> SUFFICES ASSUME IInv, [Next]_vars PROVE IInv'
    OBVIOUS
  <1>1. ASSUME UNCHANGED list PROVE IInv'
    BY <1>1 DEF IInv, Sound
  <1>2. CASE UNCHANGED vars
    BY <1>1, <1>2 DEF vars, lists
  <1>3. ASSUME NEW t \in Threads, IncreaseCacheLimit(t) \/ DeleteCache(t) PROVE IInv'
    BY <1>1, <1>3 DEF IncreaseCacheLimit, DeleteCache, lists
  <1>4. ASSUME NEW n, SetOverall(n) \/ SetMin(n) PROVE IInv'
    BY <1>1, <1>4 DEF SetOverall, SetMin, lists
  <1> QED BY <1>2, <1>3, <1>4, NewHeapStep, AllocateStep, FetchStep, DeallocateStep,
             DestroyCacheStep DEF Next

(* All lists are sound in every state.                                     *)
THEOREM ListsSound == Spec => []IInv
  BY InitSound, NextSound, PTL DEF Spec

(* The comment in FetchFromCentralCache holds for every batch size up to   *)
(* kMaxDynamicFreeListLength: max_length is positive and, past one batch,  *)
(* a multiple of it.                                                       *)
THEOREM MaxLengthAlwaysWhole == Spec => []MaxLengthWhole
  <1>1. IInv => MaxLengthWhole
    BY DEF IInv, Sound, MaxLengthWhole
  <1> QED BY <1>1, ListsSound, PTL

(* Scavenge never drops more objects than the list has: the low-water mark *)
(* is within the length.                                                   *)
THEOREM LowWaterAlwaysWithin == Spec => []LowWaterWithin
  <1>1. IInv => LowWaterWithin
    BY DEF IInv, Sound, LowWaterWithin
  <1> QED BY <1>1, ListsSound, PTL
=============================================================================
