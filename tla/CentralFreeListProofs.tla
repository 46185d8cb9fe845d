----------------------- MODULE CentralFreeListProofs ------------------------
(***************************************************************************)
(* For any threads, classes, spans and sizes: the transfer cache's indices *)
(* stay in bounds and no thread ever holds two size class locks.  Both     *)
(* follow from IInv, which adds to them which lock each control state      *)
(* holds; every action preserves its four parts.                           *)
(***************************************************************************)
EXTENDS CentralFreeList, SequenceTheorems, TLAPS

(* The new list is empty, unlocked, and has no more slots than it may.     *)
LEMMA InitInvariant == Init => IInv
BY NamesAssumption, SizesAssumption
DEF Init, IInv, Types, Named, Ownership, SlotBounds, HeldBy, ReleaseClass, used_slots,
    PCs, NoObjects

(* What taking the last slot away does to a class's slots.                 *)
LEMMA PoppedSlots ==
  ASSUME Types, NEW c \in Classes, used_slots(c) > 0, PopSlot(c)
  PROVE  /\ tc_slots' \in [Classes -> Seq([Spans -> Int])]
         /\ used_slots(c)' = used_slots(c) - 1
         /\ \A d \in Classes \ {c} : used_slots(d)' = used_slots(d)
<1>1. /\ SubSeq(tc_slots[c], 1, Len(tc_slots[c]) - 1) \in Seq([Spans -> Int])
      /\ Len(SubSeq(tc_slots[c], 1, Len(tc_slots[c]) - 1)) = Len(tc_slots[c]) - 1
  <2>1. tc_slots[c] \in Seq([Spans -> Int]) /\ Len(tc_slots[c]) \in Nat
    BY LenProperties DEF Types
  <2>2. \A i \in 1..Len(tc_slots[c]) - 1 : i \in 1..Len(tc_slots[c])
    BY <2>1
  <2> QED BY <2>1, <2>2, SubSeqProperties DEF used_slots
<1> QED
  BY <1>1 DEF Types, PopSlot, used_slots

(* What filling one more slot does.                                        *)
LEMMA PushedSlots ==
  ASSUME Types, NEW c \in Classes, NEW chain \in [Spans -> Int], PushSlot(c, chain)
  PROVE  /\ tc_slots' \in [Classes -> Seq([Spans -> Int])]
         /\ used_slots(c)' = used_slots(c) + 1
         /\ \A d \in Classes \ {c} : used_slots(d)' = used_slots(d)
<1>1. /\ Append(tc_slots[c], chain) \in Seq([Spans -> Int])
      /\ Len(Append(tc_slots[c], chain)) = Len(tc_slots[c]) + 1
  BY DEF Types
<1> QED
  BY <1>1 DEF Types, PushSlot, used_slots

(* Steps that leave the transfer caches alone keep their bounds.           *)
LEMMA SlotsUntouched ==
  ASSUME SlotBounds, UNCHANGED slots
  PROVE  SlotBounds'
BY DEF SlotBounds, slots, used_slots

(* The empty chain is one.                                                *)
LEMMA EmptyChain == NoObjects \in [Spans -> Int]
BY DEF NoObjects

(* What HeldBy of another thread depends on stays when only t moves.       *)
LEMMA OthersKeep ==
  ASSUME NEW t \in Threads, NEW u \in Threads \ {t},
         pc'[u] = pc[u], cl'[u] = cl[u], victim'[u] = victim[u]
  PROVE  HeldBy(u)' = HeldBy(u)
BY DEF HeldBy, ReleaseClass

(* A step that neither takes nor gives up a lock.                          *)
LEMMA NoLockMoves ==
  ASSUME Ownership, NEW t \in Threads, UNCHANGED lock, HeldBy(t)' = HeldBy(t),
         \A u \in Threads \ {t} : HeldBy(u)' = HeldBy(u)
  PROVE  Ownership'
BY DEF Ownership

(* Thread t, which holds no lock, takes the one of class c.                *)
LEMMA LockTaken ==
  ASSUME Types, Ownership, NEW t \in Threads, NEW c \in Classes, Acquire(t, c),
         HeldBy(t) = NoClass, HeldBy(t)' = c,
         \A u \in Threads \ {t} : HeldBy(u)' = HeldBy(u)
  PROVE  Ownership'
<1> SUFFICES ASSUME NEW u \in Threads, NEW d \in Classes
             PROVE  lock'[d] = u <=> HeldBy(u)' = d
  BY DEF Ownership
<1>1. lock'[d] = IF d = c THEN t ELSE lock[d]
  BY DEF Types, Acquire
<1>2. lock[d] = u <=> HeldBy(u) = d
  BY DEF Ownership
<1>3. lock[c] # u
  BY NamesAssumption DEF Acquire
<1>4. HeldBy(u) # c
  BY <1>3 DEF Ownership
<1>5. CASE u = t
  BY <1>1, <1>2, <1>5, NamesAssumption
<1>6. CASE u # t
  BY <1>1, <1>2, <1>4, <1>6
<1> QED BY <1>5, <1>6

(* Thread t gives up the lock of class c.                                  *)
LEMMA LockGiven ==
  ASSUME Types, Ownership, NEW t \in Threads, NEW c \in Classes, Release(c),
         HeldBy(t) = c, HeldBy(t)' = NoClass,
         \A u \in Threads \ {t} : HeldBy(u)' = HeldBy(u)
  PROVE  Ownership'
<1> SUFFICES ASSUME NEW u \in Threads, NEW d \in Classes
             PROVE  lock'[d] = u <=> HeldBy(u)' = d
  BY DEF Ownership
<1>1. lock'[d] = IF d = c THEN NoThread ELSE lock[d]
  BY DEF Types, Release
<1>2. lock[d] = u <=> HeldBy(u) = d
  BY DEF Ownership
<1>3. lock[c] = t
  BY DEF Ownership
<1>5. CASE u = t
  BY <1>1, <1>2, <1>3, <1>5, NamesAssumption
<1>6. CASE u # t
  <2>1. HeldBy(u) # c
    BY <1>3, <1>6 DEF Ownership
  <2> QED BY <1>1, <1>2, <1>6, <2>1, NamesAssumption
<1> QED BY <1>5, <1>6

(* FetchFromOneSpans: objects leave a span, the lock stays with t.         *)
LEMMA FetchFromOneSpansStep ==
  ASSUME IInv, NEW t \in Threads, FetchFromOneSpans(t)
  PROVE  IInv'
<1>1. Types'
  BY DEF IInv, Types, FetchFromOneSpans, slots, lists, locals, PCs
<1>2. Named'
  BY NamesAssumption DEF IInv, Types, Named, FetchFromOneSpans, locals
<1>3. SlotBounds'
  BY SlotsUntouched DEF IInv, FetchFromOneSpans, slots
<1>4. \A u \in Threads \ {t} : HeldBy(u)' = HeldBy(u)
  BY OthersKeep DEF IInv, Types, FetchFromOneSpans, locals
<1>5. HeldBy(t)' = HeldBy(t) /\ UNCHANGED lock
  BY DEF IInv, Types, FetchFromOneSpans, locals, HeldBy, ReleaseClass
<1>6. Ownership'
  BY <1>4, <1>5, NoLockMoves DEF IInv
<1> QED BY <1>1, <1>2, <1>3, <1>6 DEF IInv

(* PopulateUnlock: Populate drops the lock.                                *)
LEMMA PopulateUnlockStep ==
  ASSUME IInv, NEW t \in Threads, PopulateUnlock(t)
  PROVE  IInv'
<1>1. Types'
  BY DEF IInv, Types, PopulateUnlock, Release, Goto, slots, lists, locals, PCs
<1>2. Named'
  BY NamesAssumption DEF IInv, Types, Named, PopulateUnlock, Release, Goto, locals
<1>3. SlotBounds'
  BY SlotsUntouched DEF IInv, PopulateUnlock, slots
<1>4. \A u \in Threads \ {t} : HeldBy(u)' = HeldBy(u)
  BY OthersKeep DEF IInv, Types, PopulateUnlock, Release, Goto, locals
<1>5. /\ cl[t] \in Classes /\ Release(cl[t])
      /\ HeldBy(t) = cl[t] /\ HeldBy(t)' = NoClass
  BY NamesAssumption DEF IInv, Types, Named, PopulateUnlock, Goto, locals, HeldBy,
     ReleaseClass
<1>6. Ownership'
  BY <1>4, <1>5, LockGiven DEF IInv
<1> QED BY <1>1, <1>2, <1>3, <1>6 DEF IInv

(* PopulateCarve: the page heap is asked, no lock held.                    *)
LEMMA PopulateCarveStep ==
  ASSUME IInv, NEW t \in Threads, PopulateCarve(t)
  PROVE  IInv'
<1>1. Types'
  BY DEF IInv, Types, PopulateCarve, Goto, slots, lists, locals, PCs
<1>2. Named'
  BY NamesAssumption DEF IInv, Types, Named, PopulateCarve, Goto, locals
<1>3. SlotBounds'
  BY SlotsUntouched DEF IInv, PopulateCarve, slots
<1>4. \A u \in Threads \ {t} : HeldBy(u)' = HeldBy(u)
  BY OthersKeep DEF IInv, Types, PopulateCarve, Goto, locals
<1>5. HeldBy(t)' = HeldBy(t) /\ UNCHANGED lock
  BY DEF IInv, Types, PopulateCarve, Goto, locals, HeldBy, ReleaseClass
<1>6. Ownership'
  BY <1>4, <1>5, NoLockMoves DEF IInv
<1> QED BY <1>1, <1>2, <1>3, <1>6 DEF IInv

(* PopulateAdd: Populate takes the lock back.                              *)
LEMMA PopulateAddStep ==
  ASSUME IInv, NEW t \in Threads, PopulateAdd(t)
  PROVE  IInv'
<1>1. Types'
  BY DEF IInv, Types, PopulateAdd, Acquire, Goto, slots, lists, locals, PCs
<1>2. Named'
  BY NamesAssumption DEF IInv, Types, Named, PopulateAdd, Acquire, Goto, locals
<1>3. SlotBounds'
  BY SlotsUntouched DEF IInv, PopulateAdd, slots
<1>4. \A u \in Threads \ {t} : HeldBy(u)' = HeldBy(u)
  BY OthersKeep DEF IInv, Types, PopulateAdd, Acquire, Goto, locals
<1>5. /\ cl[t] \in Classes /\ Acquire(t, cl[t])
      /\ HeldBy(t) = NoClass /\ HeldBy(t)' = cl[t]
  BY NamesAssumption DEF IInv, Types, Named, PopulateAdd, Goto, locals, HeldBy, ReleaseClass
<1>6. Ownership'
  BY <1>4, <1>5, LockTaken DEF IInv
<1> QED BY <1>1, <1>2, <1>3, <1>6 DEF IInv

(* RemoveRangeReturn: RemoveRange unlocks and returns.                     *)
LEMMA RemoveRangeReturnStep ==
  ASSUME IInv, NEW t \in Threads, RemoveRangeReturn(t)
  PROVE  IInv'
<1>1. Types'
  BY EmptyChain DEF IInv, Types, RemoveRangeReturn, Release, Return, Goto, slots, lists,
     locals, PCs
<1>2. Named'
  BY NamesAssumption DEF IInv, Types, Named, RemoveRangeReturn, Release, Return, Goto,
     NoObjects, locals
<1>3. SlotBounds'
  BY SlotsUntouched DEF IInv, RemoveRangeReturn, slots
<1>4. \A u \in Threads \ {t} : HeldBy(u)' = HeldBy(u)
  BY OthersKeep DEF IInv, Types, RemoveRangeReturn, Release, Return, Goto, NoObjects, locals
<1>5. /\ cl[t] \in Classes /\ Release(cl[t])
      /\ HeldBy(t) = cl[t] /\ HeldBy(t)' = NoClass
  BY NamesAssumption DEF IInv, Types, Named, RemoveRangeReturn, Return, Goto, NoObjects,
     locals, HeldBy, ReleaseClass
<1>6. Ownership'
  BY <1>4, <1>5, LockGiven DEF IInv
<1> QED BY <1>1, <1>2, <1>3, <1>6 DEF IInv

(* DeleteSpan: the page heap gets a span, no lock held.                    *)
LEMMA DeleteSpanStep ==
  ASSUME IInv, NEW t \in Threads, DeleteSpan(t)
  PROVE  IInv'
<1>1. Types'
  BY DEF IInv, Types, DeleteSpan, Goto, slots, lists, locals, PCs
<1>2. Named'
  BY NamesAssumption DEF IInv, Types, Named, DeleteSpan, Goto, locals
<1>3. SlotBounds'
  BY SlotsUntouched DEF IInv, DeleteSpan, slots
<1>4. \A u \in Threads \ {t} : HeldBy(u)' = HeldBy(u)
  BY OthersKeep DEF IInv, Types, DeleteSpan, Goto, locals
<1>5. HeldBy(t)' = HeldBy(t) /\ UNCHANGED lock
  BY DEF IInv, Types, DeleteSpan, Goto, locals, HeldBy, ReleaseClass
<1>6. Ownership'
  BY <1>4, <1>5, NoLockMoves DEF IInv
<1> QED BY <1>1, <1>2, <1>3, <1>6 DEF IInv

(* ReleaseRelock: ReleaseToSpans takes the lock back.                      *)
LEMMA ReleaseRelockStep ==
  ASSUME IInv, NEW t \in Threads, ReleaseRelock(t)
  PROVE  IInv'
<1>1. Types'
  BY DEF IInv, Types, ReleaseRelock, Acquire, Goto, ReleaseClass, slots, lists, locals, PCs
<1>2. Named'
  BY NamesAssumption DEF IInv, Types, Named, ReleaseRelock, Acquire, Goto, ReleaseClass,
     locals
<1>3. SlotBounds'
  BY SlotsUntouched DEF IInv, ReleaseRelock, slots
<1>4. \A u \in Threads \ {t} : HeldBy(u)' = HeldBy(u)
  BY OthersKeep DEF IInv, Types, ReleaseRelock, Acquire, Goto, ReleaseClass, locals
<1>5. /\ ReleaseClass(t) \in Classes /\ Acquire(t, ReleaseClass(t))
      /\ HeldBy(t) = NoClass /\ HeldBy(t)' = ReleaseClass(t)
  BY NamesAssumption DEF IInv, Types, Named, ReleaseRelock, Goto, ReleaseClass, locals,
     HeldBy, ReleaseClass
<1>6. Ownership'
  BY <1>4, <1>5, LockTaken DEF IInv
<1> QED BY <1>1, <1>2, <1>3, <1>6 DEF IInv

(* Handoff: no list is touched.                                            *)
LEMMA HandoffStep ==
  ASSUME IInv, NEW t \in Threads, NEW v \in Threads, NEW s \in Spans, Handoff(t, v, s)
  PROVE  IInv'
<1>1. Types'
  BY DEF IInv, Types, Handoff, slots, lists, locals, PCs
<1>2. Named'
  BY NamesAssumption DEF IInv, Types, Named, Handoff, locals
<1>3. SlotBounds'
  BY SlotsUntouched DEF IInv, Handoff, slots
<1>4. \A u \in Threads \ {t} : HeldBy(u)' = HeldBy(u)
  BY OthersKeep DEF IInv, Types, Handoff, locals
<1>5. HeldBy(t)' = HeldBy(t) /\ UNCHANGED lock
  BY DEF IInv, Types, Handoff, locals, HeldBy, ReleaseClass
<1>6. Ownership'
  BY <1>4, <1>5, NoLockMoves DEF IInv
<1> QED BY <1>1, <1>2, <1>3, <1>6 DEF IInv

(* RemoveRange: a slot is popped, or the lock taken.                       *)
LEMMA RemoveRangeStep ==
  ASSUME IInv, NEW t \in Threads, NEW c \in Classes, NEW n \in Nat, RemoveRange(t, c, n)
  PROVE  IInv'
<1>1. CASE /\ used_slots(c) > 0 /\ PopSlot(c)
          /\ UNCHANGED <<lock, cache_size, pc, cl, victim, list>>
  <2>7. /\ c \in Classes /\ used_slots(c) \in Nat
        /\ cache_size \in [Classes -> Nat] /\ MaxCacheSize \in [Classes -> Nat]
    BY <1>1, LenProperties, SizesAssumption DEF IInv, Types, Named, used_slots
  <2>8. /\ tc_slots' \in [Classes -> Seq([Spans -> Int])]
        /\ used_slots(c)' = used_slots(c) - 1
        /\ \A d \in Classes \ {c} : used_slots(d)' = used_slots(d)
    BY <1>1, <2>7, PoppedSlots DEF IInv, Types
  <2>1. Types'
    BY <1>1, <2>7, <2>8 DEF IInv, Types, Goto, PCs
  <2>3. SlotBounds'
    <3> SUFFICES ASSUME NEW d \in Classes
                 PROVE  used_slots(d)' <= cache_size'[d] /\ cache_size'[d] <= MaxCacheSize[d]
      BY DEF SlotBounds
    <3>1. used_slots(d) <= cache_size[d] /\ cache_size[d] <= MaxCacheSize[d]
      BY DEF IInv, SlotBounds
    <3>2. CASE d = c
      BY <1>1, <2>7, <2>8, <3>1, <3>2
    <3>3. CASE d # c
      BY <1>1, <2>7, <2>8, <3>1, <3>3
    <3> QED BY <3>2, <3>3
  <2>2. Named'
    BY <1>1, NamesAssumption DEF IInv, Types, Named, Goto, locals
  <2>4. \A u \in Threads \ {t} : HeldBy(u)' = HeldBy(u)
    BY <1>1, OthersKeep DEF IInv, Types, Goto, locals
  <2>5. HeldBy(t)' = HeldBy(t) /\ UNCHANGED lock
    BY <1>1, NamesAssumption DEF IInv, Types, Named, Goto, locals, HeldBy, ReleaseClass
  <2>6. Ownership'
    BY <2>4, <2>5, NoLockMoves DEF IInv
  <2> QED BY <2>1, <2>2, <2>3, <2>6 DEF IInv
<1>2. CASE /\ pc[t] = "idle" /\ Acquire(t, c) /\ Goto(t, "fetch")
          /\ cl' = [cl EXCEPT ![t] = c] /\ UNCHANGED <<slots, victim, list>>
  <2>1. Types'
    BY <1>2 DEF IInv, Types, Acquire, Goto, slots, lists, locals, PCs
  <2>3. SlotBounds'
    BY <1>2, SlotsUntouched DEF IInv, slots
  <2>2. Named'
    BY <1>2, NamesAssumption DEF IInv, Types, Named, Acquire, Goto, locals
  <2>4. \A u \in Threads \ {t} : HeldBy(u)' = HeldBy(u)
    BY <1>2, OthersKeep DEF IInv, Types, Acquire, Goto, locals
  <2>5. /\ c \in Classes /\ Acquire(t, c)
        /\ HeldBy(t) = NoClass /\ HeldBy(t)' = c
    BY <1>2, NamesAssumption DEF IInv, Types, Named, Goto, locals, HeldBy, ReleaseClass
  <2>6. Ownership'
    BY <2>4, <2>5, LockTaken DEF IInv
  <2> QED BY <2>1, <2>2, <2>3, <2>6 DEF IInv
<1> QED
  BY <1>1, <1>2 DEF RemoveRange, Locked, slots

(* InsertRange: a slot is pushed below cache_size_, or the lock taken.     *)
LEMMA InsertRangeStep ==
  ASSUME IInv, NEW t \in Threads, NEW c \in Classes, NEW chain \in [Spans -> Int], InsertRange(t, c, chain)
  PROVE  IInv'
<1>1. CASE /\ used_slots(c) < cache_size[c] /\ PushSlot(c, chain)
          /\ UNCHANGED <<lock, cache_size, pc, cl, victim, list>>
  <2>7. /\ c \in Classes /\ used_slots(c) \in Nat
        /\ cache_size \in [Classes -> Nat] /\ MaxCacheSize \in [Classes -> Nat]
    BY <1>1, LenProperties, SizesAssumption DEF IInv, Types, Named, used_slots
  <2>8. /\ tc_slots' \in [Classes -> Seq([Spans -> Int])]
        /\ used_slots(c)' = used_slots(c) + 1
        /\ \A d \in Classes \ {c} : used_slots(d)' = used_slots(d)
    BY <1>1, <2>7, PushedSlots DEF IInv, Types
  <2>1. Types'
    BY <1>1, <2>7, <2>8 DEF IInv, Types, Goto, PCs
  <2>3. SlotBounds'
    <3> SUFFICES ASSUME NEW d \in Classes
                 PROVE  used_slots(d)' <= cache_size'[d] /\ cache_size'[d] <= MaxCacheSize[d]
      BY DEF SlotBounds
    <3>1. used_slots(d) <= cache_size[d] /\ cache_size[d] <= MaxCacheSize[d]
      BY DEF IInv, SlotBounds
    <3>2. CASE d = c
      BY <1>1, <2>7, <2>8, <3>1, <3>2
    <3>3. CASE d # c
      BY <1>1, <2>7, <2>8, <3>1, <3>3
    <3> QED BY <3>2, <3>3
  <2>2. Named'
    BY <1>1, NamesAssumption DEF IInv, Types, Named, Goto, locals
  <2>4. \A u \in Threads \ {t} : HeldBy(u)' = HeldBy(u)
    BY <1>1, OthersKeep DEF IInv, Types, Goto, locals
  <2>5. HeldBy(t)' = HeldBy(t) /\ UNCHANGED lock
    BY <1>1, NamesAssumption DEF IInv, Types, Named, Goto, locals, HeldBy, ReleaseClass
  <2>6. Ownership'
    BY <2>4, <2>5, NoLockMoves DEF IInv
  <2> QED BY <2>1, <2>2, <2>3, <2>6 DEF IInv
<1>2. CASE /\ pc[t] = "idle" /\ Acquire(t, c) /\ Goto(t, "evict")
          /\ cl' = [cl EXCEPT ![t] = c] /\ list' = [list EXCEPT ![t] = chain]
          /\ UNCHANGED <<slots, victim>>
  <2>1. Types'
    BY <1>2 DEF IInv, Types, Acquire, Goto, slots, lists, locals, PCs
  <2>3. SlotBounds'
    BY <1>2, SlotsUntouched DEF IInv, slots
  <2>2. Named'
    BY <1>2, NamesAssumption DEF IInv, Types, Named, Acquire, Goto, locals
  <2>4. \A u \in Threads \ {t} : HeldBy(u)' = HeldBy(u)
    BY <1>2, OthersKeep DEF IInv, Types, Acquire, Goto, locals
  <2>5. /\ c \in Classes /\ Acquire(t, c)
        /\ HeldBy(t) = NoClass /\ HeldBy(t)' = c
    BY <1>2, NamesAssumption DEF IInv, Types, Named, Goto, locals, HeldBy, ReleaseClass
  <2>6. Ownership'
    BY <2>4, <2>5, LockTaken DEF IInv
  <2> QED BY <2>1, <2>2, <2>3, <2>6 DEF IInv
<1>3. CASE /\ pc[t] = "idle" /\ Acquire(t, c) /\ Goto(t, "release")
          /\ cl' = [cl EXCEPT ![t] = c] /\ UNCHANGED <<slots, victim, list>>
  <2>1. Types'
    BY <1>3 DEF IInv, Types, Acquire, Goto, slots, lists, locals, PCs
  <2>3. SlotBounds'
    BY <1>3, SlotsUntouched DEF IInv, slots
  <2>2. Named'
    BY <1>3, NamesAssumption DEF IInv, Types, Named, Acquire, Goto, locals
  <2>4. \A u \in Threads \ {t} : HeldBy(u)' = HeldBy(u)
    BY <1>3, OthersKeep DEF IInv, Types, Acquire, Goto, locals
  <2>5. /\ c \in Classes /\ Acquire(t, c)
        /\ HeldBy(t) = NoClass /\ HeldBy(t)' = c
    BY <1>3, NamesAssumption DEF IInv, Types, Named, Goto, locals, HeldBy, ReleaseClass
  <2>6. Ownership'
    BY <2>4, <2>5, LockTaken DEF IInv
  <2> QED BY <2>1, <2>2, <2>3, <2>6 DEF IInv
<1> QED
  BY <1>1, <1>2, <1>3 DEF InsertRange, Locked, slots

(* EvictRandomSizeClass: the lock is kept, or given up by LockInverter.    *)
LEMMA EvictRandomSizeClassStep ==
  ASSUME IInv, NEW t \in Threads, EvictRandomSizeClass(t)
  PROVE  IInv'
<1>1. CASE /\ pc[t] = "evict" /\ EvictFailed(t) /\ UNCHANGED <<lock, slots>>
  <2>1. Types'
    BY <1>1, EmptyChain DEF IInv, Types, EvictFailed, GiveUpSlot, ForceEviction, Goto,
       slots, lists, locals, PCs
  <2>3. SlotBounds'
    BY <1>1, EmptyChain, SlotsUntouched DEF IInv, slots
  <2>2. Named'
    BY <1>1, EmptyChain, NamesAssumption DEF IInv, Types, Named, EvictFailed, GiveUpSlot,
       ForceEviction, Goto, locals
  <2>4. \A u \in Threads \ {t} : HeldBy(u)' = HeldBy(u)
    BY <1>1, EmptyChain, OthersKeep DEF IInv, Types, EvictFailed, GiveUpSlot,
       ForceEviction, Goto, locals
  <2>5. HeldBy(t)' = HeldBy(t) /\ UNCHANGED lock
    BY <1>1, EmptyChain, NamesAssumption DEF IInv, Types, Named, EvictFailed, GiveUpSlot,
       ForceEviction, Goto, locals, HeldBy, ReleaseClass
  <2>6. Ownership'
    BY <2>4, <2>5, NoLockMoves DEF IInv
  <2> QED BY <2>1, <2>2, <2>3, <2>6 DEF IInv
<1>2. CASE /\ pc[t] = "evict" /\ InvertUnlock(t) /\ Goto(t, "invert")
          /\ \E v \in Classes : victim' = [victim EXCEPT ![t] = v]
          /\ UNCHANGED <<slots, cl, list>>
  <2>1. Types'
    BY <1>2 DEF IInv, Types, InvertUnlock, Release, Goto, slots, lists, locals, PCs
  <2>3. SlotBounds'
    BY <1>2, SlotsUntouched DEF IInv, slots
  <2>2. Named'
    BY <1>2, NamesAssumption DEF IInv, Types, Named, InvertUnlock, Release, Goto, locals
  <2>4. \A u \in Threads \ {t} : HeldBy(u)' = HeldBy(u)
    BY <1>2, OthersKeep DEF IInv, Types, InvertUnlock, Release, Goto, locals
  <2>5. /\ cl[t] \in Classes /\ Release(cl[t])
        /\ HeldBy(t) = cl[t] /\ HeldBy(t)' = NoClass
    BY <1>2, NamesAssumption DEF IInv, Types, Named, InvertUnlock, Goto, locals, HeldBy,
       ReleaseClass
  <2>6. Ownership'
    BY <2>4, <2>5, LockGiven DEF IInv
  <2> QED BY <2>1, <2>2, <2>3, <2>6 DEF IInv
<1> QED
  BY <1>1, <1>2 DEF EvictRandomSizeClass

(* ShrinkCache: the victim loses a slot that it has.                       *)
LEMMA ShrinkCacheStep ==
  ASSUME IInv, NEW t \in Threads, ShrinkCache(t)
  PROVE  IInv'
<1> PICK v \in Classes : v = victim[t]
  BY DEF IInv, Named, ShrinkCache
<1>1. CASE /\ pc[t] = "invert" /\ Goto(t, "failed")
          /\ UNCHANGED <<lock, slots, cl, victim, list>>
  <2>1. Types'
    BY <1>1 DEF IInv, Types, Goto, slots, lists, locals, PCs
  <2>3. SlotBounds'
    BY <1>1, SlotsUntouched DEF IInv, slots
  <2>2. Named'
    BY <1>1, NamesAssumption DEF IInv, Types, Named, Goto, locals
  <2>4. \A u \in Threads \ {t} : HeldBy(u)' = HeldBy(u)
    BY <1>1, OthersKeep DEF IInv, Types, Goto, locals
  <2>5. HeldBy(t)' = HeldBy(t) /\ UNCHANGED lock
    BY <1>1, NamesAssumption DEF IInv, Types, Named, Goto, locals, HeldBy, ReleaseClass
  <2>6. Ownership'
    BY <2>4, <2>5, NoLockMoves DEF IInv
  <2> QED BY <2>1, <2>2, <2>3, <2>6 DEF IInv
<1>2. CASE /\ pc[t] = "invert" /\ Goto(t, "evicted")
          /\ ~NothingToShrink(t, v) /\ used_slots(v) # cache_size[v]
          /\ TakeSlot(v) /\ UNCHANGED <<lock, tc_slots, cl, victim, list>>
  <2>7. /\ v \in Classes /\ cache_size \in [Classes -> Nat]
        /\ MaxCacheSize \in [Classes -> Nat]
        /\ \A d \in Classes : used_slots(d) \in Nat /\ used_slots(d)' = used_slots(d)
    BY <1>2, LenProperties, SizesAssumption DEF IInv, Types, Named, used_slots
  <2>1. Types'
    BY <1>2, <2>7 DEF IInv, Types, SlotBounds, Goto, PCs, TakeSlot, NothingToShrink
  <2>3. SlotBounds'
    <3> SUFFICES ASSUME NEW d \in Classes
                 PROVE  used_slots(d)' <= cache_size'[d] /\ cache_size'[d] <= MaxCacheSize[d]
      BY DEF SlotBounds
    <3>1. used_slots(d) <= cache_size[d] /\ cache_size[d] <= MaxCacheSize[d]
      BY DEF IInv, SlotBounds
    <3>2. CASE d = v
      BY <1>2, <2>7, <3>1, <3>2 DEF TakeSlot, NothingToShrink
    <3>3. CASE d # v
      BY <1>2, <2>7, <3>1, <3>3 DEF TakeSlot, NothingToShrink
    <3> QED BY <3>2, <3>3
  <2>2. Named'
    BY <1>2, NamesAssumption DEF IInv, Types, Named, Goto, locals
  <2>4. \A u \in Threads \ {t} : HeldBy(u)' = HeldBy(u)
    BY <1>2, OthersKeep DEF IInv, Types, Goto, locals
  <2>5. HeldBy(t)' = HeldBy(t) /\ UNCHANGED lock
    BY <1>2, NamesAssumption DEF IInv, Types, Named, Goto, locals, HeldBy, ReleaseClass
  <2>6. Ownership'
    BY <2>4, <2>5, NoLockMoves DEF IInv
  <2> QED BY <2>1, <2>2, <2>3, <2>6 DEF IInv
<1>3. CASE /\ pc[t] = "invert" /\ Goto(t, "release") /\ Acquire(t, v)
          /\ ~NothingToShrink(t, v) /\ used_slots(v) = cache_size[v]
          /\ TakeSlot(v) /\ PopSlot(v) /\ UNCHANGED <<cl, victim, list>>
  <2>7. /\ v \in Classes /\ used_slots(v) \in Nat
        /\ cache_size \in [Classes -> Nat] /\ MaxCacheSize \in [Classes -> Nat]
    BY <1>3, LenProperties, SizesAssumption DEF IInv, Types, Named, used_slots
  <2>8. /\ tc_slots' \in [Classes -> Seq([Spans -> Int])]
        /\ used_slots(v)' = used_slots(v) - 1
        /\ \A d \in Classes \ {v} : used_slots(d)' = used_slots(d)
    BY <1>3, <2>7, PoppedSlots DEF IInv, Types, TakeSlot, NothingToShrink
  <2>1. Types'
    BY <1>3, <2>7, <2>8 DEF IInv, Types, Acquire, Goto, TakeSlot, NothingToShrink, PCs
  <2>3. SlotBounds'
    <3> SUFFICES ASSUME NEW d \in Classes
                 PROVE  used_slots(d)' <= cache_size'[d] /\ cache_size'[d] <= MaxCacheSize[d]
      BY DEF SlotBounds
    <3>1. used_slots(d) <= cache_size[d] /\ cache_size[d] <= MaxCacheSize[d]
      BY DEF IInv, SlotBounds
    <3>2. CASE d = v
      BY <1>3, <2>7, <2>8, <3>1, <3>2 DEF TakeSlot, NothingToShrink
    <3>3. CASE d # v
      BY <1>3, <2>7, <2>8, <3>1, <3>3 DEF TakeSlot, NothingToShrink
    <3> QED BY <3>2, <3>3
  <2>2. Named'
    BY <1>3, NamesAssumption DEF IInv, Types, Named, Acquire, Goto, TakeSlot,
       NothingToShrink, locals
  <2>4. \A u \in Threads \ {t} : HeldBy(u)' = HeldBy(u)
    BY <1>3, OthersKeep DEF IInv, Types, Acquire, Goto, TakeSlot, NothingToShrink, locals
  <2>5. /\ v \in Classes /\ Acquire(t, v)
        /\ HeldBy(t) = NoClass /\ HeldBy(t)' = v
    BY <1>3, NamesAssumption DEF IInv, Types, Named, Goto, TakeSlot, NothingToShrink,
       locals, HeldBy, ReleaseClass
  <2>6. Ownership'
    BY <2>4, <2>5, LockTaken DEF IInv
  <2> QED BY <2>1, <2>2, <2>3, <2>6 DEF IInv
<1> QED
  BY <1>1, <1>2, <1>3 DEF ShrinkCache, Locked, slots

(* RelockAfterFailure: LockInverter returns the lock.                      *)
LEMMA RelockAfterFailureStep ==
  ASSUME IInv, NEW t \in Threads, RelockAfterFailure(t)
  PROVE  IInv'
<1>1. CASE /\ pc[t] = "failed" /\ Acquire(t, cl[t]) /\ EvictFailed(t) /\ UNCHANGED slots
  <2>1. Types'
    BY <1>1, EmptyChain DEF IInv, Types, Acquire, EvictFailed, GiveUpSlot, ForceEviction,
       Goto, slots, lists, locals, PCs
  <2>3. SlotBounds'
    BY <1>1, EmptyChain, SlotsUntouched DEF IInv, slots
  <2>2. Named'
    BY <1>1, EmptyChain, NamesAssumption DEF IInv, Types, Named, Acquire, EvictFailed,
       GiveUpSlot, ForceEviction, Goto, locals
  <2>4. \A u \in Threads \ {t} : HeldBy(u)' = HeldBy(u)
    BY <1>1, EmptyChain, OthersKeep DEF IInv, Types, Acquire, EvictFailed, GiveUpSlot,
       ForceEviction, Goto, locals
  <2>5. /\ cl[t] \in Classes /\ Acquire(t, cl[t])
        /\ HeldBy(t) = NoClass /\ HeldBy(t)' = cl[t]
    BY <1>1, EmptyChain, NamesAssumption DEF IInv, Types, Named, EvictFailed, GiveUpSlot,
       ForceEviction, Goto, locals, HeldBy, ReleaseClass
  <2>6. Ownership'
    BY <2>4, <2>5, LockTaken DEF IInv
  <2> QED BY <2>1, <2>2, <2>3, <2>6 DEF IInv
<1> QED
  BY <1>1 DEF RelockAfterFailure

(* RelockAfterEviction: the list grows only below max_cache_size_.         *)
LEMMA RelockAfterEvictionStep ==
  ASSUME IInv, NEW t \in Threads, RelockAfterEviction(t)
  PROVE  IInv'
<1> PICK c \in Classes : c = cl[t]
  BY DEF IInv, Named, RelockAfterEviction
<1>1. CASE /\ pc[t] = "evicted" /\ MayGrow(c) /\ PushSlot(c, list[t]) /\ Return(t)
          /\ cache_size' = [cache_size EXCEPT ![c] = @ + 1] /\ UNCHANGED lock
  <2>7. /\ c \in Classes /\ used_slots(c) \in Nat
        /\ cache_size \in [Classes -> Nat] /\ MaxCacheSize \in [Classes -> Nat]
    BY <1>1, EmptyChain, LenProperties, SizesAssumption DEF IInv, Types, Named, used_slots
  <2>8. /\ tc_slots' \in [Classes -> Seq([Spans -> Int])]
        /\ used_slots(c)' = used_slots(c) + 1
        /\ \A d \in Classes \ {c} : used_slots(d)' = used_slots(d)
    BY <1>1, EmptyChain, <2>7, PushedSlots DEF IInv, Types, MayGrow
  <2>1. Types'
    BY <1>1, EmptyChain, <2>7, <2>8 DEF IInv, Types, Return, Goto, PCs
  <2>3. SlotBounds'
    <3> SUFFICES ASSUME NEW d \in Classes
                 PROVE  used_slots(d)' <= cache_size'[d] /\ cache_size'[d] <= MaxCacheSize[d]
      BY DEF SlotBounds
    <3>1. used_slots(d) <= cache_size[d] /\ cache_size[d] <= MaxCacheSize[d]
      BY DEF IInv, SlotBounds
    <3>2. CASE d = c
      BY <1>1, EmptyChain, <2>7, <2>8, <3>1, <3>2 DEF MayGrow
    <3>3. CASE d # c
      BY <1>1, EmptyChain, <2>7, <2>8, <3>1, <3>3 DEF MayGrow
    <3> QED BY <3>2, <3>3
  <2>2. Named'
    BY <1>1, EmptyChain, NamesAssumption DEF IInv, Types, Named, Return, Goto, locals
  <2>4. \A u \in Threads \ {t} : HeldBy(u)' = HeldBy(u)
    BY <1>1, EmptyChain, OthersKeep DEF IInv, Types, Return, Goto, locals
  <2>5. HeldBy(t)' = HeldBy(t) /\ UNCHANGED lock
    BY <1>1, EmptyChain, NamesAssumption DEF IInv, Types, Named, Return, Goto, locals,
       HeldBy, ReleaseClass
  <2>6. Ownership'
    BY <2>4, <2>5, NoLockMoves DEF IInv
  <2> QED BY <2>1, <2>2, <2>3, <2>6 DEF IInv
<1>2. CASE /\ pc[t] = "evicted" /\ Acquire(t, c) /\ GiveUpSlot(t) /\ UNCHANGED slots
  <2>1. Types'
    BY <1>2, EmptyChain DEF IInv, Types, Acquire, GiveUpSlot, Goto, slots, lists, locals,
       PCs
  <2>3. SlotBounds'
    BY <1>2, EmptyChain, SlotsUntouched DEF IInv, slots
  <2>2. Named'
    BY <1>2, EmptyChain, NamesAssumption DEF IInv, Types, Named, Acquire, GiveUpSlot,
       Goto, locals
  <2>4. \A u \in Threads \ {t} : HeldBy(u)' = HeldBy(u)
    BY <1>2, EmptyChain, OthersKeep DEF IInv, Types, Acquire, GiveUpSlot, Goto, locals
  <2>5. /\ c \in Classes /\ Acquire(t, c)
        /\ HeldBy(t) = NoClass /\ HeldBy(t)' = c
    BY <1>2, EmptyChain, NamesAssumption DEF IInv, Types, Named, GiveUpSlot, Goto,
       locals, HeldBy, ReleaseClass
  <2>6. Ownership'
    BY <2>4, <2>5, LockTaken DEF IInv
  <2> QED BY <2>1, <2>2, <2>3, <2>6 DEF IInv
<1> QED
  BY <1>1, <1>2 DEF RelockAfterEviction, Locked

(* ReleaseToSpans: an object goes back; the last one drops the lock.       *)
LEMMA ReleaseToSpansStep ==
  ASSUME IInv, NEW t \in Threads, ReleaseToSpans(t)
  PROVE  IInv'
<1>1. CASE /\ pc[t] = "release" /\ Release(ReleaseClass(t)) /\ Goto(t, "delete")
          /\ UNCHANGED <<slots, cl, victim, list>>
  <2>1. Types'
    BY <1>1 DEF IInv, Types, Release, Goto, slots, lists, locals, PCs
  <2>3. SlotBounds'
    BY <1>1, SlotsUntouched DEF IInv, slots
  <2>2. Named'
    BY <1>1, NamesAssumption DEF IInv, Types, Named, Release, Goto, locals
  <2>4. \A u \in Threads \ {t} : HeldBy(u)' = HeldBy(u)
    BY <1>1, OthersKeep DEF IInv, Types, Release, Goto, locals
  <2>5. /\ ReleaseClass(t) \in Classes /\ Release(ReleaseClass(t))
        /\ HeldBy(t) = ReleaseClass(t) /\ HeldBy(t)' = NoClass
    BY <1>1, NamesAssumption DEF IInv, Types, Named, Goto, locals, HeldBy, ReleaseClass
  <2>6. Ownership'
    BY <2>4, <2>5, LockGiven DEF IInv
  <2> QED BY <2>1, <2>2, <2>3, <2>6 DEF IInv
<1>2. CASE UNCHANGED <<lock, slots, pc, cl, victim, list>>
  <2>1. Types'
    BY <1>2 DEF IInv, Types, Goto, slots, lists, locals, PCs
  <2>3. SlotBounds'
    BY <1>2, SlotsUntouched DEF IInv, slots
  <2>2. Named'
    BY <1>2, NamesAssumption DEF IInv, Types, Named, Goto, locals
  <2>4. \A u \in Threads \ {t} : HeldBy(u)' = HeldBy(u)
    BY <1>2, OthersKeep DEF IInv, Types, Goto, locals
  <2>5. HeldBy(t)' = HeldBy(t) /\ UNCHANGED lock
    BY <1>2, NamesAssumption DEF IInv, Types, Named, Goto, locals, HeldBy, ReleaseClass
  <2>6. Ownership'
    BY <2>4, <2>5, NoLockMoves DEF IInv
  <2> QED BY <2>1, <2>2, <2>3, <2>6 DEF IInv
<1> QED
  BY <1>1, <1>2 DEF ReleaseToSpans

(* ReleaseReturn: the lock of the released class is given up.              *)
LEMMA ReleaseReturnStep ==
  ASSUME IInv, NEW t \in Threads, ReleaseReturn(t)
  PROVE  IInv'
<1>1. CASE /\ pc[t] = "release" /\ Release(ReleaseClass(t)) /\ Return(t) /\ UNCHANGED slots
  <2>1. Types'
    BY <1>1, EmptyChain DEF IInv, Types, Release, Return, Goto, slots, lists, locals, PCs
  <2>3. SlotBounds'
    BY <1>1, EmptyChain, SlotsUntouched DEF IInv, slots
  <2>2. Named'
    BY <1>1, EmptyChain, NamesAssumption DEF IInv, Types, Named, Release, Return, Goto,
       locals
  <2>4. \A u \in Threads \ {t} : HeldBy(u)' = HeldBy(u)
    BY <1>1, EmptyChain, OthersKeep DEF IInv, Types, Release, Return, Goto, locals
  <2>5. /\ ReleaseClass(t) \in Classes /\ Release(ReleaseClass(t))
        /\ HeldBy(t) = ReleaseClass(t) /\ HeldBy(t)' = NoClass
    BY <1>1, EmptyChain, NamesAssumption DEF IInv, Types, Named, Return, Goto, locals,
       HeldBy, ReleaseClass
  <2>6. Ownership'
    BY <2>4, <2>5, LockGiven DEF IInv
  <2> QED BY <2>1, <2>2, <2>3, <2>6 DEF IInv
<1>2. CASE /\ pc[t] = "release" /\ Release(ReleaseClass(t)) /\ Goto(t, "evicted")
          /\ UNCHANGED <<slots, locals>>
  <2>1. Types'
    BY <1>2 DEF IInv, Types, Release, Goto, slots, lists, locals, PCs
  <2>3. SlotBounds'
    BY <1>2, SlotsUntouched DEF IInv, slots
  <2>2. Named'
    BY <1>2, NamesAssumption DEF IInv, Types, Named, Release, Goto, locals
  <2>4. \A u \in Threads \ {t} : HeldBy(u)' = HeldBy(u)
    BY <1>2, OthersKeep DEF IInv, Types, Release, Goto, locals
  <2>5. /\ ReleaseClass(t) \in Classes /\ Release(ReleaseClass(t))
        /\ HeldBy(t) = ReleaseClass(t) /\ HeldBy(t)' = NoClass
    BY <1>2, NamesAssumption DEF IInv, Types, Named, Goto, locals, HeldBy, ReleaseClass
  <2>6. Ownership'
    BY <2>4, <2>5, LockGiven DEF IInv
  <2> QED BY <2>1, <2>2, <2>3, <2>6 DEF IInv
<1> QED
  BY <1>1, <1>2 DEF ReleaseReturn

(* Every step of every thread preserves the invariant.                     *)
LEMMA NextInvariant == IInv /\ [Next]_vars => IInv'
<1> SUFFICES ASSUME IInv, [Next]_vars PROVE IInv'
  OBVIOUS
<1>1. CASE UNCHANGED vars
  BY <1>1 DEF vars, slots, lists, locals, IInv, Types, Named, Ownership, SlotBounds,
     HeldBy, ReleaseClass, used_slots
<1>2. CASE Next
  <2> PICK t \in Threads : Call(t) \/ Step(t)
    BY <1>2 DEF Next
  <2>1. CASE Call(t)
    <3>1. ASSUME NEW c \in Classes, NEW n \in 1..NumObjectsToMove[c], RemoveRange(t, c, n)
          PROVE  IInv'
      <4>1. n \in Nat
        BY SizesAssumption
      <4> QED BY <3>1, <4>1, RemoveRangeStep
    <3>2. ASSUME NEW c \in Classes, NEW chain \in Chains(t, c), InsertRange(t, c, chain)
          PROVE  IInv'
      <4>1. chain \in [Spans -> Int]
        BY SizesAssumption DEF Chains
      <4> QED BY <3>2, <4>1, InsertRangeStep
    <3>3. ASSUME NEW u \in Threads \ {t}, NEW s \in Spans, Handoff(t, u, s)
          PROVE  IInv'
      BY <3>3, HandoffStep
    <3> QED BY <2>1, <3>1, <3>2, <3>3 DEF Call
  <2>2. CASE Step(t)
    BY <2>2, FetchFromOneSpansStep, PopulateUnlockStep, PopulateCarveStep, PopulateAddStep,
       RemoveRangeReturnStep, EvictRandomSizeClassStep, ShrinkCacheStep,
       RelockAfterFailureStep, RelockAfterEvictionStep, ReleaseToSpansStep,
       DeleteSpanStep, ReleaseRelockStep, ReleaseReturnStep DEF Step
  <2> QED BY <2>1, <2>2
<1> QED BY <1>1, <1>2

(* The strengthened invariant holds in every reachable state.              *)
THEOREM Invariance == Spec => []IInv
BY InitInvariant, NextInvariant, PTL DEF Spec

(* InsertRange's slot index is always below max_cache_size_ and the used   *)
(* slots never exceed cache_size_, for any number of threads racing for    *)
(* the lists while the locks are dropped.                                  *)
THEOREM SlotsInBounds == Spec => []SlotBounds
<1>1. IInv => SlotBounds
  BY DEF IInv
<1> QED BY <1>1, Invariance, PTL

(* LockInverter's promise: no thread ever holds two size class locks, nor  *)
(* waits for one while it holds another.                                   *)
THEOREM LocksNeverNest == Spec => []NoNestedLocks
<1>1. IInv => NoNestedLocks
  BY NamesAssumption DEF IInv, Ownership, NoNestedLocks, HeldBy, WantedBy
<1> QED BY <1>1, Invariance, PTL
=============================================================================
