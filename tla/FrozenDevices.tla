--------------------------- MODULE FrozenDevices ---------------------------
(***************************************************************************)
(* What the server promises about devices that synchronous grabs freeze:   *)
(* the events of a device wait while it is blocked, and are handled in the *)
(* order they arrived, each once, when it is not.  Events are numbered     *)
(* from 1 as they arrive.                                                  *)
(***************************************************************************)
EXTENDS Naturals

CONSTANT Device

VARIABLES
  arrived,  \* how many events arrived
  queue,    \* the events of each device that have not been handled
  blocked   \* the devices that are frozen

vars == <<arrived, queue, blocked>>

TypeOK ==
  /\ arrived \in Nat
  /\ queue \in [Device -> SUBSET (1 .. arrived)]
  /\ blocked \subseteq Device

Init == arrived = 0 /\ queue = [d \in Device |-> {}] /\ blocked = {}

Arrive(d) ==
  /\ arrived' = arrived + 1
  /\ queue' = [queue EXCEPT ![d] = @ \cup {arrived'}]
  /\ blocked' = blocked

\* The event that is handled may freeze and thaw any device.
Handle(d) ==
  /\ d \notin blocked
  /\ \E e \in queue[d] :
       /\ \A f \in queue[d] : e <= f
       /\ queue' = [queue EXCEPT ![d] = @ \ {e}]
  /\ blocked' \in SUBSET Device
  /\ arrived' = arrived

\* Clients allow events, grab and ungrab.
Change == blocked' \in SUBSET Device /\ UNCHANGED <<arrived, queue>>

Next == Change \/ \E d \in Device : Arrive(d) \/ Handle(d)

Spec == Init /\ [][Next]_vars /\ \A d \in Device : WF_vars(Handle(d))
=============================================================================
