------------------------------ MODULE Profiler ------------------------------
(***************************************************************************)
(* The CPU profiler: CpuProfiler (profiler.cc) on top of ProfileHandler    *)
(* (profile-handler.cc) and the collector of ProfileData.                  *)
(*                                                                         *)
(* A thread's stack is a sequence of routines under way, innermost last,   *)
(* each given by the steps it still has to do.  A routine's steps are the  *)
(* source's lock operations, signal masks and state changes in order; a    *)
(* signal handler is a routine pushed at any step at which its signal is   *)
(* not blocked.                                                            *)
(***************************************************************************)
EXTENDS ProfileData, FiniteSets

CONSTANTS
  Threads,
  Tokens,          \* ProfileHandlerTokens
  None,            \* no thread, no token
  Environments,    \* what varies from process to process, see env
  SwitchAnywhere   \* whether the switch signal may interrupt a routine

VARIABLES
  env,           \* client: profiling is controlled by calls or by a signal,
                 \* on: CPUPROFILE is set, and CpuProfiler's constructor has
                 \* started the profile, per_thread:
                 \* per_thread_timer_enabled_, and two bounds:
                 \* maxCalls of calls and switch signals, maxInterrupts of
                 \* timer signals.  No other handler has the signal: allowed_
  holder,        \* who holds each of lock_, control_lock_ and signal_lock_
  blocked,       \* threads with the timer signal blocked
  callbacks,     \* callbacks_, as a set of tokens
  live,          \* tokens allocated and not deleted
  callback_count,
  token,         \* prof_handler_token_
  timer,         \* "on", "off", or "pending": off, with a last signal pending
  collector,     \* collector_, see ProfileData
  adding,        \* the sample Add has counted and not yet put in the table
  taken,         \* samples of each stack since the last Start
  started,       \* CpuProfilerSwitch's flag
  stack,         \* routines under way in each thread
  calls, interrupts

handler == <<callbacks, live, callback_count, timer>>
data == <<collector, adding, taken>>
vars == <<env, holder, blocked, handler, token, data, started, stack,
          calls, interrupts>>

Locks == {"lock_", "control_lock_", "signal_lock_"}

-----------------------------------------------------------------------------
(* The routines.                                                           *)

Acquire(l) == <<"acquire", l>>
Release(l) == <<"release", l>>
Do(what) == <<"do", what>>

(* What every routine outside the handler does around the callback list:   *)
(* block the signal, take signal_lock_, release it, unblock.               *)
UnderSignalLock(what) ==
  <<Do("block"), Acquire("signal_lock_"), Do(what), Release("signal_lock_"), Do("unblock")>>

GetState == <<Acquire("control_lock_")>> \o UnderSignalLock("read") \o <<Release("control_lock_")>>

RegisterCallback ==
  <<Acquire("control_lock_")>> \o UnderSignalLock("splice")
     \o <<Do("registered"), Release("control_lock_")>>

UnregisterCallback ==
  <<Acquire("control_lock_")>> \o UnderSignalLock("swap")
     \o <<Do("unregistered"), Release("control_lock_")>>

RegisterThread == <<Acquire("control_lock_"), Do("update timer"), Release("control_lock_")>>

EnableHandler == RegisterCallback
DisableHandler == UnregisterCallback

Start ==
  <<Acquire("lock_"), Do("return if enabled")>> \o GetState \o <<Do("collector start")>>
     \o EnableHandler \o <<Release("lock_")>>

(* Mutant of Stop: the collector is stopped before the handler.            *)
StopCollectorFirst ==
  <<Acquire("lock_"), Do("return unless enabled"), Do("collector stop")>> \o DisableHandler
     \o <<Release("lock_")>>

Stop ==
  <<Acquire("lock_"), Do("return unless enabled")>> \o DisableHandler
     \o <<Do("collector stop"), Release("lock_")>>

Flush ==
  <<Acquire("lock_"), Do("return unless enabled")>> \o DisableHandler
     \o <<Do("collector flush")>> \o EnableHandler \o <<Release("lock_")>>

(* Enabled and GetCurrentState only read under lock_.                      *)
GetCurrentState == <<Acquire("lock_"), Do("read"), Release("lock_")>>

SignalHandler ==
  <<Acquire("signal_lock_"), Do("callback"), Do("add"), Release("signal_lock_"), Do("sigreturn")>>

Switch == <<Do("switch"), Do("switched")>>

ApiCalls == {Start, Stop, Flush, GetCurrentState, RegisterThread}

-----------------------------------------------------------------------------
Running(t) == stack[t] # <<>>
Current(t) == stack[t][Len(stack[t])]
Outer(t) == SubSeq(stack[t], 1, Len(stack[t]) - 1)
At(t, step) == Running(t) /\ Head(Current(t)) = step

(* The current routine goes on with the steps given, or returns.           *)
Continue(t, steps) ==
  stack' = [stack EXCEPT ![t] = IF steps = <<>> THEN Outer(t) ELSE Append(Outer(t), steps)]

Advance(t) == Continue(t, Tail(Current(t)))

(* Early return: straight to the release of lock_.                         *)
Return(t) == Continue(t, <<Release("lock_")>>)

Call(t, routine) == stack' = [stack EXCEPT ![t] = Append(stack[t], routine)]

AcquireLock(t) ==
  \E l \in Locks :
     /\ At(t, Acquire(l)) /\ holder[l] = None
     /\ holder' = [holder EXCEPT ![l] = t]
     /\ Advance(t)
     /\ UNCHANGED <<env, blocked, handler, token, data, started, calls, interrupts>>

ReleaseLock(t) ==
  \E l \in Locks :
     /\ At(t, Release(l))
     /\ holder' = [holder EXCEPT ![l] = None]
     /\ Advance(t)
     /\ UNCHANGED <<env, blocked, handler, token, data, started, calls, interrupts>>

(* Mutant: the constructor of ScopedSignalBlocker does not block.          *)
BlockNothing(t) ==
  /\ At(t, Do("block")) \/ At(t, Do("unblock"))
  /\ Advance(t)
  /\ UNCHANGED <<env, holder, blocked, handler, token, data, started, calls, interrupts>>

(* ScopedSignalBlocker: the destructor unblocks whatever the mask was.     *)
BlockSignal(t) ==
  /\ \/ At(t, Do("block")) /\ blocked' = blocked \cup {t}
     \/ At(t, Do("unblock")) /\ blocked' = blocked \ {t}
  /\ Advance(t)
  /\ UNCHANGED <<env, holder, handler, token, data, started, calls, interrupts>>

(* UpdateTimer ignores its argument with per-thread timers.  A signal sent *)
(* before the timer is stopped may be delivered after.                     *)
UpdateTimer(enable) ==
  timer' \in IF env.per_thread \/ (enable <=> timer = "on") THEN {timer}
             ELSE IF enable THEN {"on"} ELSE {"off", "pending"}

Splice(t) ==
  /\ At(t, Do("splice"))
  /\ \E k \in Tokens \ live :
       /\ live' = live \cup {k}
       /\ callbacks' = callbacks \cup {k}
       /\ token' = k
  /\ Advance(t)
  /\ UNCHANGED <<env, holder, blocked, callback_count, timer, data, started,
                 calls, interrupts>>

Registered(t) ==
  /\ At(t, Do("registered"))
  /\ callback_count' = callback_count + 1
  /\ UpdateTimer(TRUE)
  /\ Advance(t)
  /\ UNCHANGED <<env, holder, blocked, callbacks, live, token, data, started,
                 calls, interrupts>>

(* UnregisterCallback of prof_handler_token_.                              *)
Swap(t) ==
  /\ At(t, Do("swap"))
  /\ callbacks' = callbacks \ {token}
  /\ Advance(t)
  /\ UNCHANGED <<env, holder, blocked, live, callback_count, timer, token,
                 data, started, calls, interrupts>>

Unregistered(t) ==
  /\ At(t, Do("unregistered"))
  /\ callback_count' = callback_count - 1
  /\ IF callback_count = 1 THEN UpdateTimer(FALSE) ELSE UNCHANGED timer
  /\ live' = live \ {token}
  /\ token' = None
  /\ Advance(t)
  /\ UNCHANGED <<env, holder, blocked, callbacks, data, started, calls, interrupts>>

(* RegisterThread; with per-thread timers it starts this thread's, which   *)
(* then runs for ever.                                                     *)
UpdateThreadTimer(t) ==
  /\ At(t, Do("update timer"))
  /\ IF env.per_thread THEN timer' = "on" ELSE UpdateTimer(callback_count > 0)
  /\ Advance(t)
  /\ UNCHANGED <<env, holder, blocked, callbacks, live, callback_count, token, data,
                 started, calls, interrupts>>

-----------------------------------------------------------------------------
(* CpuProfiler's steps under lock_.  A Start that fails ends the process   *)
(* when the switch signal asked for it.                                    *)
FailStart(t) == env.client = "api" /\ Return(t)

CheckEnabled(t) ==
  /\ \/ At(t, Do("return if enabled")) /\ (IF collector.enabled THEN FailStart(t) ELSE Advance(t))
     \/ At(t, Do("return unless enabled")) /\ (IF collector.enabled THEN Advance(t) ELSE Return(t))
     \/ At(t, Do("read")) /\ Advance(t)
  /\ UNCHANGED <<env, holder, blocked, handler, token, data, started, calls, interrupts>>

(* Start may fail to open the file.                                        *)
CollectorStart(t) ==
  /\ At(t, Do("collector start"))
  /\ \/ /\ collector' = StartCollector(collector)
        /\ taken' = [s \in Stacks |-> 0]
        /\ Advance(t)
     \/ FailStart(t) /\ UNCHANGED <<collector, taken>>
  /\ UNCHANGED <<env, holder, blocked, handler, token, adding, started, calls, interrupts>>

CollectorStop(t) ==
  /\ At(t, Do("collector stop"))
  /\ collector' = StopCollector(collector)
  /\ Advance(t)
  /\ UNCHANGED <<env, holder, blocked, handler, token, adding, taken, started,
                 calls, interrupts>>

CollectorFlush(t) ==
  /\ At(t, Do("collector flush"))
  /\ collector' = FlushTable(collector)
  /\ Advance(t)
  /\ UNCHANGED <<env, holder, blocked, handler, token, adding, taken, started,
                 calls, interrupts>>

-----------------------------------------------------------------------------
(* The timer signal, delivered to any thread that does not block it; a     *)
(* signal may still be pending when the timer is stopped.  It is blocked   *)
(* while its handler runs.                                                 *)
TimerSignal(t) ==
  /\ timer \in {"on", "pending"}
  /\ timer' = IF timer = "pending" THEN "off" ELSE timer
  /\ t \notin blocked /\ interrupts < env.maxInterrupts
  /\ interrupts' = interrupts + 1
  /\ blocked' = blocked \cup {t}
  /\ Call(t, SignalHandler)
  /\ UNCHANGED <<env, holder, callbacks, live, callback_count, token, data, started, calls>>

(* The callback, prof_handler: the filter may refuse the sample, and Add   *)
(* counts it only when the collector is enabled.                           *)
RunCallbacks(t) ==
  /\ At(t, Do("callback"))
  /\ \/ /\ callbacks # {} /\ collector.enabled
        /\ \E s \in Stacks :
             /\ adding' = s
             /\ taken' = [taken EXCEPT ![s] = taken[s] + 1]
             /\ collector' = [collector EXCEPT !.count = collector.count + 1]
     \/ UNCHANGED data
  /\ Advance(t)
  /\ UNCHANGED <<env, holder, blocked, handler, token, started, calls, interrupts>>

FinishAdd(t) ==
  /\ At(t, Do("add"))
  /\ IF adding = NoStack
       THEN UNCHANGED collector
       ELSE collector' = AddToTable(collector, adding)
  /\ adding' = NoStack
  /\ Advance(t)
  /\ UNCHANGED <<env, holder, blocked, handler, token, taken, started, calls, interrupts>>

SigReturn(t) ==
  /\ At(t, Do("sigreturn"))
  /\ blocked' = blocked \ {t}
  /\ Advance(t)
  /\ UNCHANGED <<env, holder, handler, token, data, started, calls, interrupts>>

(* CpuProfilerSwitch.  The signal is blocked while its handler runs.       *)
SwitchSignal(t) ==
  /\ env.client = "signal" /\ calls < env.maxCalls
  /\ IF SwitchAnywhere
       THEN \A i \in DOMAIN stack[t] : Head(stack[t][i]) \notin {Do("switch"), Do("switched")}
       ELSE \A u \in Threads : stack[u] = <<>>
  /\ calls' = calls + 1
  /\ Call(t, Switch)
  /\ UNCHANGED <<env, holder, blocked, handler, token, data, started, interrupts>>

RunSwitch(t) ==
  /\ At(t, Do("switch"))
  /\ stack' = [stack EXCEPT ![t] =
                 Append(Append(Outer(t), Tail(Current(t))), IF started THEN Stop ELSE Start)]
  /\ UNCHANGED <<env, holder, blocked, handler, token, data, started, calls, interrupts>>

Switched(t) ==
  /\ At(t, Do("switched"))
  /\ started' = ~started
  /\ Advance(t)
  /\ UNCHANGED <<env, holder, blocked, handler, token, data, calls, interrupts>>

(* A call of the program.                                                  *)
ApiCall(t) ==
  /\ stack[t] = <<>> /\ env.client = "api" /\ calls < env.maxCalls
  /\ calls' = calls + 1
  /\ \E routine \in ApiCalls : Call(t, routine)
  /\ UNCHANGED <<env, holder, blocked, handler, token, data, started, interrupts>>

-----------------------------------------------------------------------------
Init ==
  /\ env \in Environments
  /\ holder = [l \in Locks |-> None]
  /\ blocked = {}
  /\ token \in IF env.on THEN Tokens ELSE {None}
  /\ callbacks = {token} \ {None} /\ live = callbacks
  /\ callback_count = Cardinality(callbacks)
  /\ timer = IF env.on THEN "on" ELSE "off"
  /\ collector = IF env.on THEN StartCollector(Constructed) ELSE Constructed
  /\ adding = NoStack /\ taken = [s \in Stacks |-> 0]
  /\ started = FALSE
  /\ stack = [t \in Threads |-> <<>>]
  /\ calls = 0 /\ interrupts = 0

Proceed(t) ==
  \/ AcquireLock(t) \/ ReleaseLock(t) \/ BlockSignal(t)
  \/ Splice(t) \/ Registered(t) \/ Swap(t) \/ Unregistered(t) \/ UpdateThreadTimer(t)
  \/ CheckEnabled(t) \/ CollectorStart(t) \/ CollectorStop(t) \/ CollectorFlush(t)
  \/ RunCallbacks(t) \/ FinishAdd(t) \/ SigReturn(t) \/ RunSwitch(t) \/ Switched(t)

Next ==
  \E t \in Threads : Proceed(t) \/ TimerSignal(t) \/ SwitchSignal(t) \/ ApiCall(t)

Spec == Init /\ [][Next]_vars

-----------------------------------------------------------------------------
(* A callback that SignalHandler may be walking is never deleted.          *)
CallbacksLive == callbacks \subseteq live

(* Add never runs while the collector is being started, flushed, stopped,  *)
(* or is off: "DisableHandler waits for the currently running callback to  *)
(* complete" although Add itself takes no lock of CpuProfiler.             *)
CollectorExclusive ==
  adding # NoStack =>
     /\ collector.enabled
     /\ \A t \in Threads :
          ~\E step \in {"collector start", "collector stop", "collector flush"} : At(t, Do(step))

(* Every sample is in the table, in the eviction buffer or in the file,    *)
(* once: through evictions, flushes in mid-profile and the final dump.     *)
SamplesConserved ==
  \A s \in Stacks : Recorded(collector, s) + (IF adding = s THEN 1 ELSE 0) = taken[s]

(* The eviction buffer is never overrun.                                   *)
BufferInBounds == NumEvicted(collector) <= kBufferLength

(* A finished profile starts with the header, ends with the marker and has *)
(* neither in between.                                                     *)
FileWellFormed ==
  collector.file # <<>> =>
     /\ collector.file[1] = Header
     /\ \A i \in 2..Len(collector.file) :
          /\ collector.file[i] # Header
          /\ collector.file[i] = Trailer => i = Len(collector.file) /\ ~collector.enabled
     /\ ~collector.enabled => collector.file[Len(collector.file)] = Trailer

(* When no call is under way profiling is all on or all off: collector,    *)
(* callback and timer agree.                                               *)
OnOrOff ==
  (\A t \in Threads : stack[t] = <<>>) =>
     /\ collector.enabled <=> token # None
     /\ callback_count = Cardinality(callbacks)
     /\ callbacks = IF token = None THEN {} ELSE {token}
     /\ ~env.per_thread => (timer = "on" <=> collector.enabled)

(* No threads wait for each other, and no handler waits for the code it    *)
(* interrupted: routines are finite, so every call and handler returns.    *)
WaitsFor(t, u) == \E l \in Locks : At(t, Acquire(l)) /\ holder[l] = u

NoCircularWait ==
  \A S \in SUBSET Threads : S # {} => \E t \in S : \A u \in S : ~WaitsFor(t, u)

(* Nobody uses the collector or a callback while it is being changed, and   *)
(* between calls profiling is all on or all off.                           *)
SamplingExclusive == CallbacksLive /\ CollectorExclusive /\ OnOrOff

(* Every sample reaches the profile once, the buffer is never overrun, and *)
(* the file is well formed.                                                *)
ProfileComplete == SamplesConserved /\ BufferInBounds /\ FileWellFormed
=============================================================================
