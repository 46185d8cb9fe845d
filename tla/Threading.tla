----------------------------- MODULE Threading -----------------------------
(***************************************************************************)
(* What every allocation of a thread passes through, checked side by side: *)
(* the spin lock and the way to the thread's own cache.  An initial state  *)
(* picks one part, and only that part takes steps.                         *)
(***************************************************************************)
EXTENDS SpinLock

CONSTANTS TpThreads, Initial, Caches, None, EarlyThreads, MaxDepth, TpCalls, MaxLives

VARIABLES
  part,
  good, phinited, phLock, inits, keyReady, late, cacheOwner, fast, slot,
  chain, stack, life, tpCalls, lives       \* ThreadCachePtr

TP == INSTANCE ThreadCachePtr WITH Threads <- TpThreads, MaxCalls <- TpCalls,
                                   owner <- cacheOwner, calls <- tpCalls

tpVars == <<good, phinited, phLock, inits, keyReady, late, cacheOwner, fast, slot,
            chain, stack, life, tpCalls, lives>>
allVars == <<part, vars, tpVars>>

LockStep(A) == part = "spin lock" /\ A /\ UNCHANGED <<part, tpVars>>
CacheStep(A) == part = "thread caches" /\ A /\ UNCHANGED <<part, vars>>

ThreadingInit ==
  /\ part \in {"spin lock", "thread caches"}
  /\ Init
  /\ TP!Init
  /\ part = "spin lock" => good

ThreadingNext == LockStep(Next) \/ CacheStep(TP!Next)

(* The scheduler's fairness, as in the two modules.                        *)
ThreadingSpec ==
  /\ ThreadingInit /\ [][ThreadingNext]_allVars
  /\ \A t \in Threads : WF_allVars(LockStep(Step(t)))
  /\ \A t \in TpThreads : WF_allVars(CacheStep(TP!Proceed(t)))

(* A thread has at most one cache, finds no other and never loses it, and  *)
(* inside a stack trace scope its malloc is an emergency malloc            *)
(* (thread_cache_ptr.cc).                                                  *)
CachesOwned == TP!CachesOwned
ScopeUsesEmergency == TP!ScopeUsesEmergency

(* Every call that left the fast path returns: nobody waits for a lock of  *)
(* its own, however initialisation recurses.                               *)
CallsReturn == TP!CallsReturn
=============================================================================
