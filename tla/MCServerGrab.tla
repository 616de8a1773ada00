---------------------------- MODULE MCServerGrab ----------------------------
(* Instances of ServerGrab for TLC.                                        *)
EXTENDS ServerGrab

\* Waiters are looked for in the last word of the mask first.
MCClients == {1, 2, 33}

\* Three clients: one that also waits for what others do, and two that want
\* the server even while another has it.
Compete ==
  [may |-> [c \in Clients |->
              IF c = 1 THEN {"plain", "grab", "ungrab", "sleep"}
              ELSE IF c = 2 THEN {"grab", "ungrab", "impervious", "pervious"}
              ELSE {"grab", "signal", "impervious"}],
   maxSend |-> [c \in Clients |-> IF c = 2 THEN 2 ELSE 1],
   maxConnect |-> [c \in Clients |-> 1], smart |-> FALSE]

\* Two that can kill each other, of which one may come back.
Kill ==
  [may |-> [c \in Clients |-> {"grab", "ungrab", "kill"} \cup (IF c = 1 THEN {} ELSE {"sleep"})],
   maxSend |-> [c \in Clients |-> 2],
   maxConnect |-> [c \in Clients |-> IF c = 33 THEN 0 ELSE c], smart |-> TRUE]

MCScenarios == {Compete, Kill}
=============================================================================
