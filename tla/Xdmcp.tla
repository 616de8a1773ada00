------------------------------- MODULE Xdmcp -------------------------------
(***************************************************************************)
(* A display and a manager that speak XDMCP, and the processes that the    *)
(* manager starts to use the display, over a network that loses,           *)
(* duplicates and reorders datagrams.                                      *)
(***************************************************************************)
EXTENDS XdmcpDisplay, XdmcpManager

CONSTANT Scenarios \* sets of what else can go wrong in a behaviour

ASSUME XdmcpAssumption == Scenarios \subseteq SUBSET Fault

vars == <<net, conns, display, manager, faults>>

TypeOK == WireTypeOK /\ DisplayTypeOK /\ ManagerTypeOK

Init == DisplayInit /\ ManagerInit /\ faults \in Scenarios

-----------------------------------------------------------------------------
(* Steps of the display, of the manager, of the processes and the network. *)

DisplayHears(m) == ReceivePacket(m) /\ UNCHANGED manager
DisplayTimeout  == Timeout /\ UNCHANGED <<manager, faults>>
DisplayInput    == UserInput /\ UNCHANGED <<manager, faults>>

ManagerHears(m) ==
  /\ \E away, forked \in BOOLEAN :
       /\ away => "unwilling" \in faults
       /\ ~forked => "fork" \in faults /\ m.type = "MANAGE"
       /\ ProcessRequest(m, away, forked)
  /\ UNCHANGED <<display, conns>>

OfferExpires == TimeoutProtoDisplays /\ UNCHANGED <<display, conns, faults>>

\* XOpenDisplay of the process of session s succeeds.
Opens(s) ==
  /\ child[s].phase = "opening" /\ OpenDisplay(s, child[s].key) /\ Becomes(s, "open")
  /\ UNCHANGED <<proto, session, lastId, lastKey, faults>>

Welcome(s) == state # "EXITED" /\ child[s].key \in cookies

CannotOpen(s) ==
  /\ OpenFails(s) /\ (Welcome(s) => "hang" \in faults)
  /\ UNCHANGED <<display, conns, proto, session, lastId, lastKey, net, faults>>

Leaves(s) ==
  /\ Leave(s) /\ UNCHANGED <<display, conns, proto, session, lastId, lastKey, net, faults>>

Reaped(s) == Reap(s) /\ UNCHANGED <<display, conns, faults>>

\* The connection of a process that has exited is closed.
Closes(s) ==
  /\ child[s].phase # "open" /\ CloseDisplay(s) /\ UNCHANGED <<manager, faults>>

DisplayFails == "power" \in faults /\ PowerCycle /\ faults' = faults \ {"power"}
                /\ UNCHANGED manager

ManagerFails ==
  /\ "restart" \in faults /\ RestartManager /\ faults' = faults \ {"restart"}
  /\ UNCHANGED <<display, conns>>

Next ==
  \/ \E m \in net : DisplayHears(m) \/ ManagerHears(m)
  \/ DisplayTimeout \/ DisplayInput \/ DisplayFails
  \/ OfferExpires \/ ManagerFails
  \/ \E s \in Id : Opens(s) \/ CannotOpen(s) \/ Leaves(s) \/ Reaped(s) \/ Closes(s)

Spec == Init /\ [][Next]_vars

\* The timer of the display goes off when no client has been heard for long.
FairSpec == Spec /\ WF_vars(DisplayTimeout)

-----------------------------------------------------------------------------
\* The process that xdm starts for the session the display waits for holds
\* authorization data that the display was given, unless a REQUEST was answered
\* twice.
KeyPassed ==
  /\ lastKey = lastId /\ state = "AWAIT_MANAGE_RESPONSE"
  /\ child[sessionId].phase = "opening"
  => Welcome(sessionId)

\* The connection whose end is the end of the session is open.
SessionHasSocket == InSession => sessionSocket \in conns

\* The display and the manager come to agree on the sessions (XdmcpSessions).
Stage(s) ==
  IF session = [id |-> s, running |-> TRUE] THEN "running"
  ELSE IF s > lastId \/ s = proto.id THEN "new" ELSE "over"

Sessions == INSTANCE XdmcpSessions WITH
  stage <- [s \in Id |-> Stage(s)],
  taken <- IF InSession THEN sessionId ELSE NoId

ImplementsSessions == Sessions!Spec
=============================================================================
