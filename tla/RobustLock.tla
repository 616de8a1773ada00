----------------------------- MODULE RobustLock -----------------------------
(***************************************************************************)
(* What the DRM hardware lock promises to its users: only a free lock is   *)
(* acquired, only the process that works under it gives it up, and an      *)
(* owner that dies does not take the lock with it.                         *)
(***************************************************************************)
CONSTANTS Proc, NoProc

VARIABLES
  owner,   \* the owner of the lock, NoProc if it is free
  inside,  \* the processes that work on the hardware
  alive    \* the processes that have the device open

vars == <<owner, inside, alive>>

TypeOK ==
  /\ owner \in Proc \cup {NoProc}
  /\ alive \in SUBSET Proc
  /\ inside \in SUBSET alive

Init == owner = NoProc /\ inside = {} /\ alive \in SUBSET Proc

Acquire(p) ==
  /\ p \in alive \ inside /\ owner = NoProc
  /\ owner' = p /\ inside' = inside \cup {p} /\ alive' = alive

Release(p) ==
  /\ p \in inside /\ owner = p
  /\ owner' = NoProc /\ inside' = inside \ {p} /\ alive' = alive

Die(p) ==
  /\ p \in alive
  /\ alive' = alive \ {p} /\ inside' = inside \ {p} /\ owner' = owner

\* The lock of a dead owner is freed.
Reclaim(p) ==
  /\ p \notin alive /\ owner = p
  /\ owner' = NoProc /\ UNCHANGED <<inside, alive>>

\* A new process comes; one that still owns the lock is not gone yet.
Join(p) ==
  /\ p \notin alive /\ owner # p
  /\ alive' = alive \cup {p} /\ UNCHANGED <<owner, inside>>

Next == \E p \in Proc : Acquire(p) \/ Release(p) \/ Die(p) \/ Reclaim(p) \/ Join(p)

Spec == Init /\ [][Next]_vars /\ \A p \in Proc : WF_vars(Reclaim(p))
=============================================================================
