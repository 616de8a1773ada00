---------------------------- MODULE XdmcpDisplay ----------------------------
(***************************************************************************)
(* The display's side of XDMCP (os/xdmcp.c): a state machine driven by the *)
(* datagrams and the timeout that the server's wakeup handler sees, by the *)
(* clients that connect and leave, and by the user.                        *)
(*                                                                         *)
(* QUERY stands for the three ways to look for a manager, which differ in  *)
(* whom they ask.  A server reset follows the event that asks for it with  *)
(* nothing between (DE_RESET ends Dispatch), so it is part of the action.  *)
(***************************************************************************)
EXTENDS XdmcpWire

CONSTANTS
  RtxLimit,  \* XDM_RTX_LIMIT
  KaRtxLimit \* XDM_KA_RTX_LIMIT

ASSUME DisplayAssumption == RtxLimit \in Nat /\ KaRtxLimit \in 1 .. RtxLimit

VARIABLES
  state,         \* state, or "EXITED" when there is no server
  timeOutRtx,    \* timeouts since the last datagram
  sessionId,     \* SessionID
  sessionSocket, \* whose connection ends the session
  cookies        \* the authorization data that the server accepts

display == <<state, timeOutRtx, sessionId, sessionSocket, cookies>>

DisplayTypeOK ==
  /\ state \in {"COLLECT_QUERY", "START_CONNECTION", "AWAIT_REQUEST_RESPONSE",
                "AWAIT_MANAGE_RESPONSE", "RUN_SESSION", "AWAIT_ALIVE_RESPONSE",
                "AWAIT_USER_INPUT", "EXITED"}
  /\ timeOutRtx \in 0 .. RtxLimit
  /\ sessionId \in Id \cup {NoId} /\ sessionSocket \in Id \cup {NoId}
  /\ cookies \subseteq Key

\* XdmcpInit, the first time.
DisplayInit ==
  /\ state = "COLLECT_QUERY" /\ timeOutRtx = 0
  /\ sessionId = NoId /\ sessionSocket = NoId /\ cookies = {}
  /\ conns = {} /\ net = {[type |-> "QUERY"]}

InSession == state \in {"RUN_SESSION", "AWAIT_ALIVE_RESPONSE"}

\* send_packet in state s, for session id.  A REQUEST that the socket does not
\* take leaves its state behind, and is sent again after a timeout.
SendPacket(s, id, rest) ==
  \/ /\ s = "QUERY" /\ state' = "COLLECT_QUERY"
     /\ Send({[type |-> "QUERY"]}, rest)
  \/ /\ s = "START_CONNECTION" /\ state' = "AWAIT_REQUEST_RESPONSE"
     /\ Send({[type |-> "REQUEST"]}, rest)
  \/ s = "START_CONNECTION" /\ state' = s /\ net' = rest
  \/ /\ s = "MANAGE" /\ state' = "AWAIT_MANAGE_RESPONSE"
     /\ Send({[type |-> "MANAGE", id |-> id]}, rest)
  \/ /\ s = "KEEPALIVE" /\ state' = "AWAIT_ALIVE_RESPONSE"
     /\ Send({[type |-> "KEEPALIVE", id |-> id]}, rest)

\* Back to the first state, XDM_INIT_STATE.  What was known of a session is
\* not read again.
Restart(rest) ==
  /\ SendPacket("QUERY", NoId, rest)
  /\ timeOutRtx' = 0 /\ sessionId' = NoId /\ sessionSocket' = NoId

\* The server resets: KillAllClients, ResetAuthorization, XdmcpReset.
Reset(rest) == Restart(rest) /\ conns' = {} /\ cookies' = {}

\* FatalError.
Exit(rest) ==
  /\ state' = "EXITED" /\ net' = rest
  /\ timeOutRtx' = 0 /\ sessionId' = NoId /\ sessionSocket' = NoId
  /\ conns' = {} /\ cookies' = {}

-----------------------------------------------------------------------------
(* The datagrams that the state machine acts on.  Each sets timeOutRtx to  *)
(* zero, as do those that it ignores.                                      *)

Willing(m, rest) ==
  /\ m.type = "WILLING" /\ state = "COLLECT_QUERY"
  /\ SendPacket("START_CONNECTION", NoId, rest)
  /\ timeOutRtx' = 0 /\ UNCHANGED <<sessionId, sessionSocket, cookies, conns>>

\* Mutant: only the first authorization data is added.
MutAccept(m, rest) ==
  /\ m.type = "ACCEPT" /\ state = "AWAIT_REQUEST_RESPONSE"
  /\ cookies' = IF cookies = {} THEN {m.key} ELSE cookies
  /\ sessionId' = m.id
  /\ SendPacket("MANAGE", m.id, rest)
  /\ timeOutRtx' = 0 /\ UNCHANGED <<sessionSocket, conns>>

Accept(m, rest) ==
  /\ m.type = "ACCEPT" /\ state = "AWAIT_REQUEST_RESPONSE"
  /\ cookies' = cookies \cup {m.key} /\ sessionId' = m.id
  /\ SendPacket("MANAGE", m.id, rest)
  /\ timeOutRtx' = 0 /\ UNCHANGED <<sessionSocket, conns>>

Refuse(m, rest) ==
  /\ m.type = "REFUSE" /\ state = "AWAIT_MANAGE_RESPONSE" /\ m.id = sessionId
  /\ SendPacket("START_CONNECTION", NoId, rest)
  /\ sessionId' = NoId
  /\ timeOutRtx' = 0 /\ UNCHANGED <<sessionSocket, cookies, conns>>

\* What the manager says that ends the server.
Fatal(m, rest) ==
  /\ \/ m.type = "UNWILLING"
     \/ m.type = "FAILED" /\ state = "AWAIT_MANAGE_RESPONSE" /\ m.id = sessionId
  /\ Exit(rest)

\* Mutant: a manager that answers is taken to have the session.
MutAlive(m, rest) ==
  /\ m.type = "ALIVE" /\ state = "AWAIT_ALIVE_RESPONSE"
  /\ state' = "RUN_SESSION" /\ net' = rest
  /\ timeOutRtx' = 0 /\ UNCHANGED <<sessionId, sessionSocket, cookies, conns>>

Alive(m, rest) ==
  /\ m.type = "ALIVE" /\ state = "AWAIT_ALIVE_RESPONSE"
  /\ IF m.running /\ m.id = sessionId
     THEN /\ state' = "RUN_SESSION" /\ net' = rest
          /\ timeOutRtx' = 0 /\ UNCHANGED <<sessionId, sessionSocket, cookies, conns>>
     ELSE Reset(rest) \* XdmcpDeadSession

\* Whether the state machine acts on a datagram.
Heeds(m) ==
  \/ m.type = "WILLING" /\ state = "COLLECT_QUERY"
  \/ m.type = "ACCEPT" /\ state = "AWAIT_REQUEST_RESPONSE"
  \/ m.type \in {"REFUSE", "FAILED"} /\ state = "AWAIT_MANAGE_RESPONSE" /\ m.id = sessionId
  \/ m.type = "ALIVE" /\ state = "AWAIT_ALIVE_RESPONSE"
  \/ m.type = "UNWILLING"

Ignore(m, rest) ==
  /\ ~Heeds(m) /\ net' = rest
  /\ timeOutRtx' = 0 /\ UNCHANGED <<state, sessionId, sessionSocket, cookies, conns>>

ReceivePacket(m) ==
  /\ m \in net \cap ToDisplay /\ state # "EXITED"
  /\ \E rest \in {net, net \ {m}} :
       /\ Arrives(m, rest)
       /\ Willing(m, rest) \/ Accept(m, rest) \/ Refuse(m, rest) \/ Fatal(m, rest)
          \/ Alive(m, rest) \/ Ignore(m, rest)

-----------------------------------------------------------------------------
(* Time passes, and the user comes.                                        *)

\* A dormant session is asked after.  timeOutRtx is what it was.
Keepalive ==
  /\ state = "RUN_SESSION"
  /\ SendPacket("KEEPALIVE", sessionId, net)
  /\ UNCHANGED <<timeOutRtx, sessionId, sessionSocket, cookies, conns>>

\* What is sent again in a state that waits for an answer.
Again == [s \in {"COLLECT_QUERY", "START_CONNECTION", "AWAIT_REQUEST_RESPONSE",
                 "AWAIT_MANAGE_RESPONSE", "AWAIT_ALIVE_RESPONSE"} |->
            IF s = "COLLECT_QUERY" THEN "QUERY"
            ELSE IF s = "AWAIT_MANAGE_RESPONSE" THEN "MANAGE"
            ELSE IF s = "AWAIT_ALIVE_RESPONSE" THEN "KEEPALIVE"
            ELSE "START_CONNECTION"]

\* timeout.
DeadSession ==
  /\ state = "AWAIT_ALIVE_RESPONSE" /\ timeOutRtx + 1 >= KaRtxLimit
  /\ Reset(net)

GiveUp ==
  /\ state \in DOMAIN Again /\ state # "AWAIT_ALIVE_RESPONSE"
  /\ timeOutRtx + 1 >= RtxLimit
  /\ state' = "AWAIT_USER_INPUT"
  /\ timeOutRtx' = 0 /\ sessionId' = NoId
  /\ UNCHANGED <<sessionSocket, cookies, conns, net>>

Retransmit ==
  /\ state \in DOMAIN Again
  /\ timeOutRtx + 1 < (IF state = "AWAIT_ALIVE_RESPONSE" THEN KaRtxLimit ELSE RtxLimit)
  /\ SendPacket(Again[state], sessionId, net)
  /\ timeOutRtx' = timeOutRtx + 1
  /\ UNCHANGED <<sessionId, sessionSocket, cookies, conns>>

Timeout == Keepalive \/ DeadSession \/ GiveUp \/ Retransmit

\* A device is touched while the server waits for that.
UserInput == state = "AWAIT_USER_INPUT" /\ Restart(net) /\ UNCHANGED <<cookies, conns>>

-----------------------------------------------------------------------------
(* Clients.                                                                *)

\* XdmcpOpenDisplay, when the client of session s connects with key k.
OpenDisplay(s, k) ==
  /\ state # "EXITED" /\ k \in cookies
  /\ conns' = conns \cup {s}
  /\ IF state = "AWAIT_MANAGE_RESPONSE"
     THEN state' = "RUN_SESSION" /\ sessionSocket' = s
     ELSE UNCHANGED <<state, sessionSocket>>
  /\ UNCHANGED <<timeOutRtx, sessionId, cookies, net>>

\* Mutant: the session ends only in XDM_RUN_SESSION.
MutCloseDisplay(s) ==
  /\ s \in conns
  /\ IF (state = "RUN_SESSION" /\ sessionSocket = s) \/ conns = {s}
     THEN Reset(net)
     ELSE conns' = conns \ {s} /\ UNCHANGED <<state, timeOutRtx, sessionId, sessionSocket, cookies, net>>

\* CloseDownConnection with XdmcpCloseDisplay; the server also resets when its
\* last client leaves.
CloseDisplay(s) ==
  /\ s \in conns
  /\ IF (InSession /\ sessionSocket = s) \/ conns = {s}
     THEN Reset(net)
     ELSE conns' = conns \ {s} /\ UNCHANGED <<state, timeOutRtx, sessionId, sessionSocket, cookies, net>>

\* The display loses power, or its server was gone, and it starts again.
PowerCycle == Reset(net)
=============================================================================
