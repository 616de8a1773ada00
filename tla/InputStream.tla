---------------------------- MODULE InputStream ----------------------------
(***************************************************************************)
(* What the hardware event queue promises for key and button events: an    *)
(* event that is accepted waits until those accepted before it are gone,   *)
(* and is taken once, to be handled or (to enter another screen) thrown    *)
(* away.  Events are numbered from 1 in the order they arrive.             *)
(***************************************************************************)
EXTENDS Naturals

VARIABLES
  arrived,  \* how many events arrived
  pending,  \* the key and button events that wait
  handled   \* the one being handled, 0 if there is none

vars == <<arrived, pending, handled>>

TypeOK ==
  /\ arrived \in Nat
  /\ pending \subseteq 1 .. arrived
  /\ handled \in 0 .. arrived

Init == arrived = 0 /\ pending = {} /\ handled = 0

Accept ==
  /\ arrived' = arrived + 1
  /\ pending' = pending \cup {arrived'}
  /\ handled' = handled

\* It finds the queue full, or is not a key or button event.
Pass ==
  /\ arrived' = arrived + 1
  /\ UNCHANGED <<pending, handled>>

Oldest(e) == e \in pending /\ \A f \in pending : e <= f

Take ==
  /\ handled = 0
  /\ \E e \in pending :
       Oldest(e) /\ handled' = e /\ pending' = pending \ {e}
  /\ arrived' = arrived

Discard ==
  /\ handled = 0
  /\ \E e \in pending : Oldest(e) /\ pending' = pending \ {e}
  /\ UNCHANGED <<arrived, handled>>

Finish == handled # 0 /\ handled' = 0 /\ UNCHANGED <<arrived, pending>>

Next == Accept \/ Pass \/ Take \/ Discard \/ Finish

Spec == Init /\ [][Next]_vars
=============================================================================
