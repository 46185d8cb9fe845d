--------------------------- MODULE SpinLockProofs ---------------------------
(***************************************************************************)
(* Proofs about SpinLock for any set of threads, with or without futexes.  *)
(* IInv is inductive: NoForgottenSleeper needs to know that a thread on    *)
(* its way into futex(WAIT) carries the value Sleeper, so that it falls    *)
(* asleep only while the lock word says Sleeper.                           *)
(***************************************************************************)
EXTENDS SpinLock, TLAPS

USE ThreadsAssumption, BoundAssumption
USE DEF LockWords, kSpinLockFree, kSpinLockHeld, kSpinLockSleeper

(* SpinLock's constructor establishes the invariant.                       *)
LEMMA InitInvariant == Init => IInv
BY DEF Init, IInv, TypeOK, MutualExclusion, NoForgottenSleeper, DesignatedWaker

(* Every atomic operation of Lock, TryLock, SlowLock and Unlock keeps the  *)
(* state well typed.                                                       *)
LEMMA NextType == TypeOK /\ [Next]_vars => TypeOK'
<1> SUFFICES ASSUME TypeOK, [Next]_vars PROVE TypeOK'
  OBVIOUS
<1> USE DEF TypeOK, Goto, SlowLockHead
<1>1. CASE UNCHANGED vars
  BY <1>1 DEF vars
<1>2. ASSUME NEW t \in Threads, Lock(t) \/ TryLock(t)
      PROVE  TypeOK'
  BY <1>2 DEF Lock, TryLock
<1>3. ASSUME NEW t \in Threads, SpinLoop(t)
      PROVE  TypeOK'
  BY <1>3 DEF SpinLoop
<1>4. ASSUME NEW t \in Threads, MarkSleeper(t) \/ RetryAcquire(t)
      PROVE  TypeOK'
  BY <1>4 DEF MarkSleeper, RetryAcquire
<1>5. ASSUME NEW t \in Threads,
             SpinLockDelay(t) \/ DelayExpires(t) \/ Unlock(t) \/ SlowUnlock(t)
      PROVE  TypeOK'
  BY <1>5 DEF SpinLockDelay, DelayExpires, Unlock, SlowUnlock
<1>6. QED
  BY <1>1, <1>2, <1>3, <1>4, <1>5 DEF Next, Step

(* The same operations keep mutual exclusion, whatever they read, and      *)
(* leave no sleeper without a thread responsible for it.                   *)
LEMMA NextInvariant == IInv /\ [Next]_vars => IInv'
<1> SUFFICES ASSUME IInv, [Next]_vars PROVE IInv'
  OBVIOUS
<1>t. TypeOK /\ TypeOK'
  BY NextType DEF IInv
<1> DEFINE Delayed == \A t \in Threads :
                        pc[t] = "delay" => lock_value[t] = kSpinLockSleeper
<1> HIDE DEF Delayed
<1>i. IInv <=> TypeOK /\ MutualExclusion /\ NoForgottenSleeper /\ Delayed
  BY DEF IInv, Delayed
<1>j. IInv' <=> TypeOK' /\ MutualExclusion' /\ NoForgottenSleeper' /\ Delayed'
  BY DEF IInv, Delayed
<1> USE DEF Goto, SlowLockHead
<1>1. CASE UNCHANGED vars
  BY <1>1, <1>t, <1>i, <1>j
     DEF vars, TypeOK, MutualExclusion, NoForgottenSleeper, DesignatedWaker, Delayed
<1>2. ASSUME NEW t \in Threads, Lock(t) \/ TryLock(t)
      PROVE  IInv'
  <2>1. MutualExclusion'
    BY <1>2, <1>t, <1>i DEF TypeOK, Lock, TryLock, MutualExclusion
  <2>2. NoForgottenSleeper'
    BY <1>2, <1>t, <1>i DEF TypeOK, Lock, TryLock, NoForgottenSleeper, DesignatedWaker
  <2>3. Delayed'
    BY <1>2, <1>t, <1>i DEF TypeOK, Lock, TryLock, Delayed
  <2>4. QED
    BY <2>1, <2>2, <2>3, <1>t, <1>j
<1>3. ASSUME NEW t \in Threads, SpinLoop(t) \/ RetryAcquire(t)
      PROVE  IInv'
  <2>1. MutualExclusion'
    BY <1>3, <1>t, <1>i DEF TypeOK, SpinLoop, RetryAcquire, MutualExclusion
  <2>2. NoForgottenSleeper'
    BY <1>3, <1>t, <1>i
       DEF TypeOK, SpinLoop, RetryAcquire, NoForgottenSleeper, DesignatedWaker
  <2>3. Delayed'
    BY <1>3, <1>t, <1>i DEF TypeOK, SpinLoop, RetryAcquire, Delayed
  <2>4. QED
    BY <2>1, <2>2, <2>3, <1>t, <1>j
<1>4. ASSUME NEW t \in Threads, MarkSleeper(t)
      PROVE  IInv'
  <2>1. MutualExclusion'
    BY <1>4, <1>t, <1>i DEF TypeOK, MarkSleeper, MutualExclusion
  <2>2. NoForgottenSleeper'
    BY <1>4, <1>t, <1>i DEF TypeOK, MarkSleeper, NoForgottenSleeper, DesignatedWaker
  <2>3. Delayed'
    BY <1>4, <1>t, <1>i DEF TypeOK, MarkSleeper, Delayed
  <2>4. QED
    BY <2>1, <2>2, <2>3, <1>t, <1>j
<1>5. ASSUME NEW t \in Threads, SpinLockDelay(t) \/ DelayExpires(t)
      PROVE  IInv'
  <2>1. MutualExclusion'
    BY <1>5, <1>t, <1>i DEF TypeOK, SpinLockDelay, DelayExpires, MutualExclusion
  <2>2. NoForgottenSleeper'
    \* falling asleep: the lock word equals lock_value, which is Sleeper
    BY <1>5, <1>t, <1>i
       DEF TypeOK, SpinLockDelay, DelayExpires, NoForgottenSleeper, DesignatedWaker,
           Delayed
  <2>3. Delayed'
    BY <1>5, <1>t, <1>i DEF TypeOK, SpinLockDelay, DelayExpires, Delayed
  <2>4. QED
    BY <2>1, <2>2, <2>3, <1>t, <1>j
<1>6. ASSUME NEW t \in Threads, Unlock(t)
      PROVE  IInv'
  <2>1. MutualExclusion'
    BY <1>6, <1>t, <1>i DEF TypeOK, Unlock, MutualExclusion
  <2>2. NoForgottenSleeper'
    BY <1>6, <1>t, <1>i DEF TypeOK, Unlock, NoForgottenSleeper, DesignatedWaker
  <2>3. Delayed'
    BY <1>6, <1>t, <1>i DEF TypeOK, Unlock, Delayed
  <2>4. QED
    BY <2>1, <2>2, <2>3, <1>t, <1>j
<1>7. ASSUME NEW t \in Threads, SlowUnlock(t)
      PROVE  IInv'
  <2>1. MutualExclusion'
    BY <1>7, <1>t, <1>i DEF TypeOK, SlowUnlock, MutualExclusion
  <2>2. NoForgottenSleeper'
    BY <1>7, <1>t, <1>i DEF TypeOK, SlowUnlock, NoForgottenSleeper, DesignatedWaker
  <2>3. Delayed'
    BY <1>7, <1>t, <1>i DEF TypeOK, SlowUnlock, Delayed
  <2>4. QED
    BY <2>1, <2>2, <2>3, <1>t, <1>j
<1>8. QED
  BY <1>1, <1>2, <1>3, <1>4, <1>5, <1>6, <1>7 DEF Next, Step

(* The inductive invariant holds in every reachable state.                 *)
THEOREM Invariance == Spec => []IInv
BY InitInvariant, NextInvariant, PTL DEF Spec

(* SpinLock.Lock/Unlock: mutual exclusion, and IsHeld tells the truth.     *)
THEOREM LockIsExclusive == Spec => []MutualExclusion
<1>1. IInv => MutualExclusion
  BY DEF IInv
<1>2. QED
  BY <1>1, Invariance, PTL

(* The designated-waker argument of SpinLoop's comment, for any number of  *)
(* threads: no thread blocked in futex(WAIT) is ever forgotten.            *)
THEOREM SleepersAreRemembered == Spec => []NoForgottenSleeper
<1>1. IInv => NoForgottenSleeper
  BY DEF IInv
<1>2. QED
  BY <1>1, Invariance, PTL

(* SpinLock implements the abstract lock: every step of a thread is an     *)
(* Acquire, a Release or no change of the owner.                           *)
THEOREM RefinesLock == Spec => ImplementsLock
<1>1. Init => Abstract!Init
  BY DEF Init, Abstract!Init, owner
<1>2. ASSUME IInv, [Next]_vars
      PROVE  [Abstract!Next]_owner
  <2> USE DEF Goto, SlowLockHead
  <2>o. \A t \in Threads : pc[t] = "cs" => owner = t
    BY <1>2 DEF owner, IInv, MutualExclusion
  <2>p. \A t \in Threads : pc'[t] = "cs" => owner' = t
    BY <1>2, NextInvariant DEF owner, IInv, MutualExclusion
  <2>n. (\A t \in Threads : pc[t] # "cs") => owner = NoOwner
    BY DEF owner
  <2>m. (\A t \in Threads : pc'[t] # "cs") => owner' = NoOwner
    BY DEF owner
  <2>e. IInv => (lockword = kSpinLockFree => \A t \in Threads : pc[t] # "cs")
    BY DEF IInv, MutualExclusion
  <2>s. (\A t \in Threads : (pc'[t] = "cs") = (pc[t] = "cs")) => owner' = owner
    BY <2>o, <2>p, <2>n, <2>m
  <2>1. CASE UNCHANGED vars
    BY <2>1, <2>s DEF vars
  <2>2. ASSUME NEW t \in Threads, Lock(t) \/ TryLock(t) \/ SpinLoop(t)
                                  \/ MarkSleeper(t) \/ RetryAcquire(t)
        PROVE  [Abstract!Next]_owner
    <3>1. CASE pc'[t] = "cs" /\ lockword = kSpinLockFree
      BY <3>1, <1>2, <2>e, <2>n, <2>p DEF Abstract!Next, Abstract!Acquire
    <3>2. CASE ~(pc'[t] = "cs" /\ lockword = kSpinLockFree)
      BY <3>2, <2>2, <2>s, <1>2
         DEF IInv, TypeOK, Lock, TryLock, SpinLoop, MarkSleeper, RetryAcquire
    <3>3. QED
      BY <3>1, <3>2
  <2>3. ASSUME NEW t \in Threads, Unlock(t)
        PROVE  [Abstract!Next]_owner
    <3>1. pc[t] = "cs" /\ \A u \in Threads : pc'[u] # "cs"
      BY <2>3, <1>2 DEF Unlock, IInv, TypeOK, MutualExclusion
    <3>2. QED
      BY <3>1, <2>o, <2>m DEF Abstract!Next, Abstract!Release
  <2>4. ASSUME NEW t \in Threads,
               SpinLockDelay(t) \/ DelayExpires(t) \/ SlowUnlock(t)
        PROVE  [Abstract!Next]_owner
    BY <2>4, <2>s, <1>2 DEF SpinLockDelay, DelayExpires, SlowUnlock, IInv, TypeOK
  <2>5. QED
    BY <1>2, <2>1, <2>2, <2>3, <2>4 DEF Next, Step
<1>3. QED
  BY <1>1, <1>2, Invariance, PTL DEF Spec, ImplementsLock, Abstract!Spec
=============================================================================
