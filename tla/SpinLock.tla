------------------------------ MODULE SpinLock ------------------------------
(***************************************************************************)
(* base/spinlock.{h,cc} with the Linux futex back end                      *)
(* (spinlock_linux-inl.h).  Every step is one atomic operation on the lock *)
(* word or one futex system call; everything between two of them is local  *)
(* to the thread.  A thread's control state names the operation it does    *)
(* next:                                                                   *)
(*   idle   outside the lock          slow   CAS Held -> Sleeper           *)
(*   spin   SpinLoop's final CAS      retry  CAS Free -> Sleeper           *)
(*   delay  futex(WAIT)               asleep blocked in the kernel         *)
(*   cs     owns the lock             wake   futex(WAKE) of SlowUnlock     *)
(***************************************************************************)
EXTENDS Naturals

CONSTANTS
  Threads,     \* the threads that use the lock
  NoOwner,     \* the abstract lock's "nobody"
  HaveFutex,   \* have_futex: FALSE means SpinLockDelay is a nanosleep
  MaxCalls     \* bound: Lock and TryLock calls one thread makes

ASSUME ThreadsAssumption == NoOwner \notin Threads
ASSUME BoundAssumption == MaxCalls \in Nat /\ HaveFutex \in BOOLEAN

VARIABLES
  lockword,    \* lockword_
  pc,          \* control state of each thread
  lock_value,  \* SlowLock's local: the last lock word it saw
  calls        \* how many calls each thread has made (for the bound only)

vars == <<lockword, pc, lock_value, calls>>

kSpinLockFree    == 0
kSpinLockHeld    == 1
kSpinLockSleeper == 2
LockWords == {kSpinLockFree, kSpinLockHeld, kSpinLockSleeper}

Init ==
  /\ lockword = kSpinLockFree
  /\ pc = [t \in Threads |-> "idle"]
  /\ lock_value = [t \in Threads |-> kSpinLockFree]
  /\ calls = [t \in Threads |-> 0]

Goto(t, label) == pc' = [pc EXCEPT ![t] = label]

(* The loop head of SlowLock, with v the value just read.                  *)
SlowLockHead(t, v) ==
  /\ lock_value' = [lock_value EXCEPT ![t] = v]
  /\ Goto(t, IF v = kSpinLockFree THEN "cs"
             ELSE IF v = kSpinLockHeld THEN "slow" ELSE "delay")
-----------------------------------------------------------------------------
(* Mutations of the code used to show that the properties can fail.        *)

SpinLoopSetsHeld(t) ==
  /\ pc[t] = "spin"
  /\ lockword' = IF lockword = kSpinLockFree THEN kSpinLockHeld ELSE lockword
  /\ SlowLockHead(t, lockword)
  /\ UNCHANGED calls

UnlockNeverWakes(t) ==
  /\ pc[t] = "cs"
  /\ lockword' = kSpinLockFree
  /\ Goto(t, "idle")
  /\ UNCHANGED <<lock_value, calls>>

RetryForgetsCheck(t) ==
  /\ pc[t] = "retry"
  /\ lockword' = kSpinLockSleeper
  /\ SlowLockHead(t, kSpinLockFree)
  /\ UNCHANGED calls
-----------------------------------------------------------------------------
(* Lock: compare_exchange_weak may fail although the word is free.         *)
Lock(t) ==
  /\ pc[t] = "idle" /\ calls[t] < MaxCalls
  /\ calls' = [calls EXCEPT ![t] = @ + 1]
  /\ \/ /\ lockword = kSpinLockFree
        /\ lockword' = kSpinLockHeld
        /\ Goto(t, "cs")
     \/ /\ Goto(t, "spin")
        /\ UNCHANGED lockword
  /\ UNCHANGED lock_value

(* TryLock: the failing call leaves everything as it was.                  *)
TryLock(t) ==
  /\ pc[t] = "idle" /\ calls[t] < MaxCalls
  /\ lockword = kSpinLockFree
  /\ calls' = [calls EXCEPT ![t] = @ + 1]
  /\ lockword' = kSpinLockHeld
  /\ Goto(t, "cs")
  /\ UNCHANGED lock_value

(* SpinLoop, and the loop test of SlowLock on what it returns.  The        *)
(* adaptive wait before the CAS only reads and may give up at any time.    *)
SpinLoop(t) ==
  /\ pc[t] = "spin"
  /\ lockword' = IF lockword = kSpinLockFree THEN kSpinLockSleeper ELSE lockword
  /\ SlowLockHead(t, lockword)
  /\ UNCHANGED calls

(* SlowLock: CAS Held -> Sleeper.  Seeing Free leads to a second CAS.      *)
MarkSleeper(t) ==
  /\ pc[t] = "slow"
  /\ lockword' = IF lockword = kSpinLockHeld THEN kSpinLockSleeper ELSE lockword
  /\ IF lockword = kSpinLockFree
       THEN /\ lock_value' = [lock_value EXCEPT ![t] = kSpinLockFree]
            /\ Goto(t, "retry")
       ELSE SlowLockHead(t, kSpinLockSleeper)
  /\ UNCHANGED calls

(* SlowLock: CAS Free -> Sleeper, then continue with the loop.             *)
RetryAcquire(t) ==
  /\ pc[t] = "retry"
  /\ lockword' = IF lockword = kSpinLockFree THEN kSpinLockSleeper ELSE lockword
  /\ SlowLockHead(t, lockword)
  /\ UNCHANGED calls

(* SpinLockDelay: futex(WAIT) returns at once when the word has changed;   *)
(* nanosleep always sleeps.                                                *)
SpinLockDelay(t) ==
  /\ pc[t] = "delay"
  /\ Goto(t, IF HaveFutex /\ lockword # lock_value[t] THEN "spin" ELSE "asleep")
  /\ UNCHANGED <<lockword, lock_value, calls>>

(* The timeout of futex(WAIT) or nanosleep, or a signal: the sleep ends.   *)
DelayExpires(t) ==
  /\ pc[t] = "asleep"
  /\ Goto(t, "spin")
  /\ UNCHANGED <<lockword, lock_value, calls>>

Unlock(t) ==
  /\ pc[t] = "cs"
  /\ lockword' = kSpinLockFree
  /\ Goto(t, IF lockword # kSpinLockHeld THEN "wake" ELSE "idle")
  /\ UNCHANGED <<lock_value, calls>>

(* SlowUnlock / SpinLockWake(all = false): one sleeper, whichever the      *)
(* kernel picks; without futexes there is nothing to call.                 *)
SlowUnlock(t) ==
  /\ pc[t] = "wake"
  /\ IF HaveFutex /\ \E u \in Threads : pc[u] = "asleep"
       THEN \E u \in Threads :
              /\ pc[u] = "asleep"
              /\ pc' = [pc EXCEPT ![t] = "idle", ![u] = "spin"]
       ELSE Goto(t, "idle")
  /\ UNCHANGED <<lockword, lock_value, calls>>

(* What a thread does by itself once it has called Lock.                   *)
Step(t) ==
  \/ SpinLoop(t) \/ MarkSleeper(t) \/ RetryAcquire(t) \/ SpinLockDelay(t)
  \/ Unlock(t) \/ SlowUnlock(t)

Next == \E t \in Threads : Lock(t) \/ TryLock(t) \/ Step(t) \/ DelayExpires(t)

Spec == Init /\ [][Next]_vars

(* The scheduler runs every thread that can run.  With futexes no sleep is *)
(* required to end by itself: waking sleepers is the lock's own job.       *)
Fairness ==
  /\ \A t \in Threads : WF_vars(Step(t))
  /\ ~HaveFutex => \A t \in Threads : WF_vars(DelayExpires(t))

FairSpec == Spec /\ Fairness
-----------------------------------------------------------------------------
(* The types of the variables; the lock word has three values only.        *)
TypeOK ==
  /\ lockword \in LockWords
  /\ pc \in [Threads -> {"idle", "spin", "slow", "retry", "delay", "asleep",
                         "cs", "wake"}]
  /\ lock_value \in [Threads -> LockWords]
  /\ calls \in [Threads -> 0..MaxCalls]

(* The abstract lock's state: the thread between Lock and Unlock.          *)
owner == IF \E t \in Threads : pc[t] = "cs"
           THEN CHOOSE t \in Threads : pc[t] = "cs"
           ELSE NoOwner

(* SpinLock.Lock/Unlock: at most one thread is between Lock and Unlock, and *)
(* the lock word is not Free exactly while one is (what IsHeld reports).   *)
MutualExclusion ==
  /\ \A t, u \in Threads : pc[t] = "cs" /\ pc[u] = "cs" => t = u
  /\ lockword # kSpinLockFree <=> \E t \in Threads : pc[t] = "cs"

(* The thread is on its way to the lock word and will leave it at Sleeper, *)
(* or is about to wake somebody.                                           *)
DesignatedWaker(t) == pc[t] \in {"spin", "slow", "retry", "delay", "wake"}

(* SpinLoop's comment on the "designated waker": sleepers are not counted, *)
(* so whenever a thread is blocked in futex(WAIT) either the lock word     *)
(* still says Sleeper (its owner will wake one) or some thread that is     *)
(* awake is responsible for the sleepers.                                  *)
NoForgottenSleeper ==
  HaveFutex /\ (\E t \in Threads : pc[t] = "asleep")
    => lockword = kSpinLockSleeper \/ \E u \in Threads : DesignatedWaker(u)

(* SlowLock terminates: without relying on futex timeouts, every thread    *)
(* that entered SlowLock gets the lock once callers stop competing for it. *)
EveryLockCallReturns ==
  \A t \in Threads : pc[t] \in {"spin", "slow", "retry", "delay", "asleep"}
                       ~> pc[t] = "cs"

(* A SpinLock implements the abstract lock.                                *)
Abstract == INSTANCE AbstractLock WITH Threads <- Threads, NoOwner <- NoOwner, owner <- owner
ImplementsLock == Abstract!Spec

(* The inductive strengthening of the two invariants.                      *)
IInv ==
  /\ TypeOK
  /\ MutualExclusion
  /\ NoForgottenSleeper
  /\ \A t \in Threads : pc[t] = "delay" => lock_value[t] = kSpinLockSleeper
=============================================================================
