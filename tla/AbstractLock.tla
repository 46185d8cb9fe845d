---------------------------- MODULE AbstractLock ----------------------------
(***************************************************************************)
(* What a SpinLock promises its users: at any time at most one thread owns *)
(* it, a thread acquires it only when nobody owns it, and only the owner   *)
(* gives it up.  SpinLock.tla is shown to implement this specification;    *)
(* every other module of the project takes a lock to be an owner variable  *)
(* that moves exactly as here.                                             *)
(***************************************************************************)
CONSTANTS
  Threads,   \* who may own the lock
  NoOwner    \* nobody: not a thread

VARIABLE owner

Init == owner = NoOwner

Acquire(t) == owner = NoOwner /\ owner' = t

Release(t) == owner = t /\ owner' = NoOwner

Next == \E t \in Threads : Acquire(t) \/ Release(t)

Spec == Init /\ [][Next]_owner
=============================================================================
