----------------------------- MODULE XdmcpWire -----------------------------
(***************************************************************************)
(* What an X display and a display manager share: the datagrams of XDMCP,  *)
(* which may be lost, duplicated and reordered, and the connections of the *)
(* manager's clients to the display.                                       *)
(*                                                                         *)
(* There is one display and one manager, so addresses and the display's    *)
(* number are left out.  Of a message there is what its receiver decides   *)
(* by.                                                                     *)
(***************************************************************************)
EXTENDS Integers, FiniteSets

CONSTANTS
  MaxId,   \* bound on the sessions that the manager offers
  MaxKey,  \* bound on the authorization data it makes
  Capacity \* bound on the datagrams that wait at one moment

ASSUME WireAssumption ==
  MaxId \in Nat \ {0} /\ MaxKey \in Nat \ {0} /\ Capacity \in Nat \ {0}

\* "copy": the network duplicates a datagram; "unwilling": the manager turns the
\* display away at times; "hang": a display that would let the process in is not
\* opened in time; "fork": fork() fails; "restart", "power": the manager or the
\* display fails.  A copy, a restart and a power cut happen once.
Fault == {"copy", "unwilling", "hang", "fork", "restart", "power"}

Id   == 1 .. MaxId \* session ids, in the order they are handed out
NoId == 0
Key  == 1 .. MaxKey \* authorization data, in the order it is made

ToManager == [type : {"QUERY", "REQUEST"}]
             \cup [type : {"MANAGE", "KEEPALIVE"}, id : Id]

\* A DECLINE is not sent: the authentication that it needs is left out.
\* An ALIVE carries the id of the manager's session.
ToDisplay == [type : {"WILLING", "UNWILLING"}]
             \cup [type : {"ACCEPT"}, id : Id, key : Key]
             \cup [type : {"REFUSE", "FAILED"}, id : Id]
             \cup [type : {"ALIVE"}, running : BOOLEAN, id : Id \cup {NoId}]

VARIABLES
  net,    \* the datagrams that can still arrive; a lost one never does
  faults, \* what can still go wrong
  conns   \* sessions that have a connection to the display

WireTypeOK ==
  /\ net \subseteq ToManager \cup ToDisplay /\ Cardinality(net) <= Capacity
  /\ faults \subseteq Fault
  /\ conns \subseteq Id

\* Datagram m arrives, and may arrive again; rest are those that wait then.
Arrives(m, rest) ==
  \/ rest = net \ {m} /\ UNCHANGED faults
  \/ "copy" \in faults /\ rest = net /\ faults' = faults \ {"copy"}

\* Datagrams are sent into a network with the others in it, of which some are
\* lost if there are too many.
Send(new, others) ==
  \E S \in SUBSET (others \ new) :
    /\ Cardinality(S \cup new) <= Capacity
    /\ S # others \ new => Cardinality(S \cup new) = Capacity
    /\ net' = S \cup new
=============================================================================
