---------------------------- MODULE XdmcpManager ----------------------------
(***************************************************************************)
(* The manager's side of XDMCP: xdm (programs/xdm: xdmcp.c, protodpy.c,    *)
(* dm.c, dpylist.c), which offers a session to a display (a protoDisplay), *)
(* starts it in a child process (a display) and stops it.                  *)
(*                                                                         *)
(* All of it is about one display.  Failed allocations, the chooser, and   *)
(* the displays of Xservers are left out.                                  *)
(***************************************************************************)
EXTENDS XdmcpWire

VARIABLES
  proto,     \* the entry of protoDisplays
  session,   \* the entry of displays
  child,     \* the process of each session, and the key it connects with
  lastId,    \* globalSessionID
  lastKey    \* authorization data made so far

manager == <<proto, session, child, lastId, lastKey>>

NoKey     == 0
NoProto   == [id |-> NoId, key |-> NoKey]
NoSession == [id |-> NoId, running |-> FALSE]
NoChild   == [phase |-> "none", key |-> NoKey]

\* "failed" and "over" have exited, with OPENFAILED_DISPLAY or anything else.
Phase == {"none", "opening", "open", "failed", "over"}

ManagerTypeOK ==
  /\ proto \in [id : Id \cup {NoId}, key : Key \cup {NoKey}]
  /\ session \in [id : Id \cup {NoId}, running : BOOLEAN]
  /\ child \in [Id -> [phase : Phase, key : Key \cup {NoKey}]]
  /\ lastId \in Id \cup {NoId} /\ lastKey \in Key \cup {NoKey}

ManagerInit ==
  /\ proto = NoProto /\ session = NoSession
  /\ child = [s \in Id |-> NoChild]
  /\ lastId = NoId /\ lastKey = NoKey

-----------------------------------------------------------------------------
(* ProcessRequestSocket.                                                   *)

\* query_respond.
Query(m, rest) ==
  /\ m.type = "QUERY"
  /\ Send({[type |-> "WILLING"]}, rest)
  /\ UNCHANGED manager

\* The id of the session that a REQUEST is about.
Offered == IF proto = NoProto THEN lastId + 1 ELSE proto.id

\* request_respond: authorization data is made anew for each REQUEST, also for
\* one that was sent again (SetProtoDisplayAuthorization).
Request(m, rest) ==
  /\ m.type = "REQUEST"
  /\ Offered \in Id /\ lastKey + 1 \in Key
  /\ proto' = [id |-> Offered, key |-> lastKey + 1]
  /\ lastId' = IF proto = NoProto THEN Offered ELSE lastId
  /\ lastKey' = lastKey + 1
  /\ Send({[type |-> "ACCEPT", id |-> Offered, key |-> lastKey + 1]}, rest)
  /\ UNCHANGED <<session, child>>

\* The access file says that this display is not to be managed.  A REQUEST is
\* not asked about (Accept of policy.c).
TurnAway(m, rest) ==
  /\ m.type = "QUERY"
  /\ Send({[type |-> "UNWILLING"]}, rest)
  /\ UNCHANGED manager

\* A MANAGE whose session has been started.
Duplicate(m) == proto = NoProto /\ session.id = m.id

\* manage: StopDisplay of the session before, whose process is killed and has
\* still to exit, NewDisplay, and StartDisplay, where fork() succeeds or not.
Manage(m, rest, forked) ==
  /\ m.type = "MANAGE"
  /\ IF proto.id = m.id
     THEN /\ session' = [id |-> m.id, running |-> forked]
          /\ child' = IF forked THEN [child EXCEPT ![m.id] = [phase |-> "opening", key |-> proto.key]]
                               ELSE child
          /\ proto' = NoProto
          /\ net' = rest
     ELSE /\ IF Duplicate(m) THEN net' = rest
                             ELSE Send({[type |-> "REFUSE", id |-> m.id]}, rest)
          /\ UNCHANGED <<proto, session, child>>
  /\ UNCHANGED <<lastId, lastKey>>

\* send_alive.
SendAlive(m, rest) ==
  /\ m.type = "KEEPALIVE"
  /\ Send({[type |-> "ALIVE", running |-> session.running /\ session.id = m.id,
            id |-> IF session.running THEN session.id ELSE NoId]}, rest)
  /\ UNCHANGED manager

\* away: the access file says no; forked: fork() would succeed.
ProcessRequest(m, away, forked) ==
  /\ m \in net \cap ToManager
  /\ \E rest \in {net, net \ {m}} :
       /\ Arrives(m, rest)
       /\ IF away THEN TurnAway(m, rest)
          ELSE Query(m, rest) \/ Request(m, rest) \/ Manage(m, rest, forked) \/ SendAlive(m, rest)

\* A REQUEST of another display makes TimeoutProtoDisplays drop an old offer.
TimeoutProtoDisplays ==
  /\ proto # NoProto /\ proto' = NoProto
  /\ UNCHANGED <<session, child, lastId, lastKey, net>>

\* xdm dies and is started again.  The processes of its sessions live on;
\* init_session_id takes ids that the last one is unlikely to have used.
RestartManager ==
  /\ proto' = NoProto /\ session' = NoSession
  /\ UNCHANGED <<child, lastId, lastKey, net>>

-----------------------------------------------------------------------------
(* The process of a session.                                               *)

\* WaitForChild takes notice of an exit if xdm has not stopped the session;
\* the key is not read again.
Becomes(s, p) ==
  child' = [child EXCEPT ![s] = [phase |-> IF p # "open" /\ session.id # s THEN "none" ELSE p,
                                 key   |-> NoKey]]

\* WaitForServer gives up.
OpenFails(s) == child[s].phase = "opening" /\ Becomes(s, "failed")

\* The user logs out, the connection breaks, or the process is killed.
Leave(s) == child[s].phase = "open" /\ Becomes(s, "over")

\* WaitForChild, for a process that has exited.
Reap(s) ==
  /\ child[s].phase \in {"failed", "over"}
  /\ child' = [child EXCEPT ![s] = NoChild]
  /\ IF session.id = s
     THEN /\ session' = NoSession
          /\ IF child[s].phase = "failed" THEN Send({[type |-> "FAILED", id |-> s]}, net)
                                          ELSE UNCHANGED net
     ELSE UNCHANGED <<session, net>>
  /\ UNCHANGED <<proto, lastId, lastKey>>
=============================================================================
