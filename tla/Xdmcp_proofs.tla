---------------------------- MODULE Xdmcp_proofs ----------------------------
(* Theorems about Xdmcp: the manager starts the session that the display   *)
(* waits for with authorization data that the display has, the connection  *)
(* that ends a session is open while the session lasts, and every step of  *)
(* the protocol is one that XdmcpSessions allows.                          *)
EXTENDS Xdmcp, FiniteSetTheorems, TLAPS

Message == ToManager \cup ToDisplay

\* What can be in the network.
Net(n) == n \subseteq Message /\ IsFiniteSet(n) /\ Cardinality(n) <= Capacity

-----------------------------------------------------------------------------
(* The inductive invariant.                                                *)

(* An offer and the session before it are two, and both were handed out.   *)
Offers ==
  /\ proto.id <= lastId /\ session.id <= lastId
  /\ proto = NoProto \/ (proto.id # NoId /\ proto.id # session.id)
  /\ session.running => session.id # NoId

(* If no REQUEST was answered twice, authorization data was made once for  *)
(* each session, in their order: whoever knows a session has its data.     *)
KeysMatch ==
  /\ lastId <= lastKey
  /\ lastId = lastKey =>
       /\ \A m \in net : m.type = "ACCEPT" => m.key = m.id
       /\ proto.key = proto.id
       /\ \A s \in Id : child[s].phase = "opening" => child[s].key = s
       /\ state = "AWAIT_MANAGE_RESPONSE" => sessionId \in cookies

(* A display that asks for a session, or has one, knows its id.            *)
KnowsSession == state = "AWAIT_MANAGE_RESPONSE" \/ InSession => sessionId # NoId

IInv == /\ Net(net) /\ faults \subseteq Fault /\ conns \subseteq Id
        /\ DisplayTypeOK /\ ManagerTypeOK
        /\ Offers /\ KeysMatch /\ KnowsSession /\ SessionHasSocket

USE WireAssumption, DisplayAssumption, XdmcpAssumption DEF Id, NoId, Key

-----------------------------------------------------------------------------
(* The network.                                                            *)

LEMMA EmptyNet == Net({})
BY FS_EmptySet DEF Net

LEMMA OneMessage ==
  ASSUME NEW m
  PROVE  IsFiniteSet({m}) /\ Cardinality({m}) = 1
BY FS_Singleton

(* What remains of a network after a message has arrived is one.           *)
LEMMA LessNet ==
  ASSUME NEW n, Net(n), NEW rest, rest \subseteq n
  PROVE  Net(rest)
<1>1. IsFiniteSet(rest) /\ Cardinality(rest) \in Nat /\ Cardinality(n) \in Nat
      /\ Cardinality(rest) <= Cardinality(n)
  BY FS_Subset, FS_CardinalityType DEF Net
<1> QED BY <1>1 DEF Net

(* Whatever the network loses, it has room for what is sent.               *)
LEMMA SendNet ==
  ASSUME NEW others, Net(others), NEW m \in Message, Send({m}, others)
  PROVE  Net(net') /\ net' \subseteq others \cup {m}
<1>1. PICK S \in SUBSET (others \ {m}) :
        Cardinality(S \cup {m}) <= Capacity /\ net' = S \cup {m}
  BY DEF Send
<1>2. IsFiniteSet(S)
  BY <1>1, FS_Subset DEF Net
<1>3. IsFiniteSet(S \cup {m})
  BY <1>2, OneMessage, FS_Union
<1> QED BY <1>1, <1>3 DEF Net

(* The display sends nothing but requests to the manager.                  *)
LEMMA PacketSent ==
  ASSUME NEW rest, Net(rest), NEW s, NEW id \in Id \cup {NoId},
         s \in {"MANAGE", "KEEPALIVE"} => id # NoId,
         SendPacket(s, id, rest)
  PROVE  /\ Net(net') /\ net' \subseteq rest \cup ToManager
         /\ \/ s = "QUERY" /\ state' = "COLLECT_QUERY"
            \/ s = "START_CONNECTION" /\ state' \in {"START_CONNECTION", "AWAIT_REQUEST_RESPONSE"}
            \/ s = "MANAGE" /\ state' = "AWAIT_MANAGE_RESPONSE"
            \/ s = "KEEPALIVE" /\ state' = "AWAIT_ALIVE_RESPONSE"
<1>1. CASE s = "QUERY" /\ state' = "COLLECT_QUERY" /\ Send({[type |-> "QUERY"]}, rest)
  <2>1. [type |-> "QUERY"] \in ToManager
    BY DEF ToManager
  <2> QED BY <1>1, <2>1, SendNet DEF Message
<1>2. CASE /\ s = "START_CONNECTION" /\ state' = "AWAIT_REQUEST_RESPONSE"
           /\ Send({[type |-> "REQUEST"]}, rest)
  <2>1. [type |-> "REQUEST"] \in ToManager
    BY DEF ToManager
  <2> QED BY <1>2, <2>1, SendNet DEF Message
<1>3. CASE s = "START_CONNECTION" /\ state' = s /\ net' = rest
  BY <1>3
<1>4. CASE /\ s = "MANAGE" /\ state' = "AWAIT_MANAGE_RESPONSE"
           /\ Send({[type |-> "MANAGE", id |-> id]}, rest)
  <2>1. [type |-> "MANAGE", id |-> id] \in ToManager
    BY <1>4 DEF ToManager
  <2> QED BY <1>4, <2>1, SendNet DEF Message
<1>5. CASE /\ s = "KEEPALIVE" /\ state' = "AWAIT_ALIVE_RESPONSE"
           /\ Send({[type |-> "KEEPALIVE", id |-> id]}, rest)
  <2>1. [type |-> "KEEPALIVE", id |-> id] \in ToManager
    BY <1>5 DEF ToManager
  <2> QED BY <1>5, <2>1, SendNet DEF Message
<1> QED BY <1>1, <1>2, <1>3, <1>4, <1>5 DEF SendPacket

-----------------------------------------------------------------------------
(* The display.  Its steps leave the manager alone and send no ACCEPT, so  *)
(* what is left to show of one is about the display.                       *)
DisplaySafe ==
  /\ DisplayTypeOK /\ conns \subseteq Id
  /\ KnowsSession /\ SessionHasSocket
  /\ lastId = lastKey /\ state = "AWAIT_MANAGE_RESPONSE" => sessionId \in cookies

LEMMA DisplayStep ==
  ASSUME IInv, DisplaySafe', Net(net'), net' \subseteq net \cup ToManager,
         UNCHANGED manager, faults' \subseteq faults
  PROVE  IInv'
<1>1. \A m \in ToManager : m.type # "ACCEPT"
  BY DEF ToManager
<1>2. KeysMatch'
  BY <1>1 DEF IInv, KeysMatch, DisplaySafe, manager
<1>3. Offers' /\ ManagerTypeOK'
  BY DEF IInv, Offers, ManagerTypeOK, manager, NoProto, NoKey
<1> QED BY <1>2, <1>3 DEF IInv, DisplaySafe

LEMMA RestartSafe ==
  ASSUME NEW rest, Net(rest), Restart(rest), cookies' \subseteq Key, conns' \subseteq Id
  PROVE  Net(net') /\ net' \subseteq rest \cup ToManager /\ DisplaySafe'
<1>1. Net(net') /\ net' \subseteq rest \cup ToManager /\ state' = "COLLECT_QUERY"
  BY PacketSent DEF Restart
<1> QED
  BY <1>1 DEF Restart, DisplaySafe, DisplayTypeOK, KnowsSession, SessionHasSocket, InSession

LEMMA ResetSafe ==
  ASSUME NEW rest, Net(rest), Reset(rest)
  PROVE  Net(net') /\ net' \subseteq rest \cup ToManager /\ DisplaySafe'
BY RestartSafe DEF Reset

(* A datagram arrives.                                                     *)
LEMMA HearsSafe ==
  ASSUME IInv, NEW m \in net, DisplayHears(m)
  PROVE  IInv'
<1>1. PICK rest \in {net, net \ {m}} :
        /\ Arrives(m, rest)
        /\ Willing(m, rest) \/ Accept(m, rest) \/ Refuse(m, rest) \/ Fatal(m, rest)
           \/ Alive(m, rest) \/ Ignore(m, rest)
  BY DEF DisplayHears, ReceivePacket
<1>2. m \in ToDisplay
  BY DEF DisplayHears, ReceivePacket
<1>3. Net(rest) /\ rest \subseteq net
  BY LessNet DEF IInv
<1>4. faults' \subseteq faults /\ UNCHANGED manager
  BY <1>1 DEF Arrives, DisplayHears
<1> SUFFICES Net(net') /\ net' \subseteq rest \cup ToManager /\ DisplaySafe'
  BY <1>3, <1>4, DisplayStep
<1> USE DEF DisplaySafe, DisplayTypeOK, KnowsSession, SessionHasSocket, InSession
<1>5. CASE Willing(m, rest)
  <2>1. Net(net') /\ net' \subseteq rest \cup ToManager
        /\ state' \in {"START_CONNECTION", "AWAIT_REQUEST_RESPONSE"}
    BY <1>3, <1>5, PacketSent DEF Willing
  <2> QED BY <1>5, <2>1 DEF Willing, IInv
<1>6. CASE Accept(m, rest)
  <2>1. m.id \in Id /\ m.key \in Key
    BY <1>2, <1>6 DEF Accept, ToDisplay
  <2>2. Net(net') /\ net' \subseteq rest \cup ToManager /\ state' = "AWAIT_MANAGE_RESPONSE"
    BY <1>3, <1>6, <2>1, PacketSent DEF Accept
  <2>3. lastId = lastKey => m.key = m.id
    BY <1>6 DEF Accept, IInv, KeysMatch
  <2>4. /\ cookies' = cookies \cup {m.key} /\ sessionId' = m.id /\ timeOutRtx' = 0
        /\ UNCHANGED <<sessionSocket, conns, lastId, lastKey>>
    BY <1>4, <1>6 DEF Accept, manager
  <2>5. cookies \subseteq Key /\ sessionSocket \in Id \cup {NoId} /\ conns \subseteq Id
    BY DEF IInv
  <2>6. conns' \subseteq Id /\ SessionHasSocket'
    BY <2>2, <2>4, <2>5
  <2>7. cookies' \subseteq Key
    BY <2>1, <2>4, <2>5
  <2>8. DisplayTypeOK'
    BY <2>1, <2>2, <2>4, <2>5, <2>7
  <2>9. sessionId' # NoId /\ (lastId' = lastKey' => sessionId' \in cookies')
    BY <2>1, <2>3, <2>4
  <2> QED BY <2>2, <2>6, <2>8, <2>9
<1>7. CASE Refuse(m, rest)
  <2>1. Net(net') /\ net' \subseteq rest \cup ToManager
        /\ state' \in {"START_CONNECTION", "AWAIT_REQUEST_RESPONSE"}
    BY <1>3, <1>7, PacketSent DEF Refuse
  <2> QED BY <1>7, <2>1 DEF Refuse, IInv
<1>8. CASE Fatal(m, rest)
  BY <1>3, <1>8 DEF Fatal, Exit
<1>9. CASE Alive(m, rest)
  <2>1. CASE m.running /\ m.id = sessionId
    <3>1. /\ state = "AWAIT_ALIVE_RESPONSE" /\ state' = "RUN_SESSION" /\ net' = rest
          /\ timeOutRtx' = 0 /\ UNCHANGED <<sessionId, sessionSocket, cookies, conns>>
      BY <1>9, <2>1, Zenon DEF Alive
    <3> QED BY <1>3, <3>1 DEF IInv
  <2>2. CASE ~(m.running /\ m.id = sessionId)
    <3>1. Reset(rest)
      BY <1>9, <2>2, Zenon DEF Alive
    <3> QED BY <1>3, <3>1, ResetSafe
  <2> QED BY <2>1, <2>2
<1>10. CASE Ignore(m, rest)
  BY <1>3, <1>4, <1>10 DEF Ignore, IInv, KeysMatch, manager
<1> QED BY <1>1, <1>5, <1>6, <1>7, <1>8, <1>9, <1>10

(* Time passes.                                                            *)
LEMMA TimeoutSafe ==
  ASSUME IInv, DisplayTimeout
  PROVE  IInv'
<1>1. Net(net) /\ faults' \subseteq faults /\ UNCHANGED manager
  BY DEF DisplayTimeout, IInv
<1> SUFFICES Net(net') /\ net' \subseteq net \cup ToManager /\ DisplaySafe'
  BY <1>1, DisplayStep
<1>2. sessionId \in Id \cup {NoId}
  BY DEF IInv, DisplayTypeOK
<1> USE DEF DisplaySafe, DisplayTypeOK, KnowsSession, SessionHasSocket, InSession
<1>3. CASE Keepalive
  <2>1. Net(net') /\ net' \subseteq net \cup ToManager /\ state' = "AWAIT_ALIVE_RESPONSE"
    BY <1>1, <1>2, <1>3, PacketSent DEF Keepalive, IInv
  <2> QED BY <1>3, <2>1 DEF Keepalive, IInv
<1>4. CASE DeadSession
  BY <1>1, <1>4, ResetSafe DEF DeadSession
<1>5. CASE GiveUp
  BY <1>1, <1>5 DEF GiveUp, IInv
<1>6. CASE Retransmit
  <2> DEFINE s == Again[state]
  <2>1. /\ state \in {"COLLECT_QUERY", "START_CONNECTION", "AWAIT_REQUEST_RESPONSE",
                      "AWAIT_MANAGE_RESPONSE", "AWAIT_ALIVE_RESPONSE"}
        /\ SendPacket(s, sessionId, net)
        /\ timeOutRtx' = timeOutRtx + 1 /\ timeOutRtx + 1 < RtxLimit
        /\ UNCHANGED <<sessionId, sessionSocket, cookies, conns>>
    BY <1>6 DEF Retransmit, Again, IInv
  <2>2. /\ s = "MANAGE" <=> state = "AWAIT_MANAGE_RESPONSE"
        /\ s = "KEEPALIVE" <=> state = "AWAIT_ALIVE_RESPONSE"
        /\ s \in {"QUERY", "START_CONNECTION", "MANAGE", "KEEPALIVE"}
    BY <2>1 DEF Again
  <2>3. s \in {"MANAGE", "KEEPALIVE"} => sessionId # NoId
    BY <2>2 DEF IInv
  <2> HIDE DEF s
  <2>4. /\ Net(net') /\ net' \subseteq net \cup ToManager
        /\ \/ s = "QUERY" /\ state' = "COLLECT_QUERY"
           \/ s = "START_CONNECTION" /\ state' \in {"START_CONNECTION", "AWAIT_REQUEST_RESPONSE"}
           \/ s = "MANAGE" /\ state' = "AWAIT_MANAGE_RESPONSE"
           \/ s = "KEEPALIVE" /\ state' = "AWAIT_ALIVE_RESPONSE"
    BY <1>1, <1>2, <2>1, <2>3, PacketSent
  <2>5. DisplayTypeOK' /\ conns' \subseteq Id
    BY <2>1, <2>4 DEF IInv
  <2>6. KnowsSession' /\ SessionHasSocket'
    BY <2>1, <2>2, <2>3, <2>4 DEF IInv
  <2>7. lastId' = lastKey' /\ state' = "AWAIT_MANAGE_RESPONSE" => sessionId' \in cookies'
    BY <1>1, <2>1, <2>2, <2>4 DEF IInv, KeysMatch, manager
  <2> QED BY <2>4, <2>5, <2>6, <2>7
<1> QED BY <1>3, <1>4, <1>5, <1>6 DEF DisplayTimeout, Timeout

LEMMA InputSafe ==
  ASSUME IInv, DisplayInput
  PROVE  IInv'
<1>1. /\ Net(net) /\ Restart(net) /\ cookies' \subseteq Key /\ conns' \subseteq Id
      /\ faults' \subseteq faults /\ UNCHANGED manager
  BY DEF DisplayInput, UserInput, IInv, DisplayTypeOK
<1> QED BY <1>1, RestartSafe, DisplayStep

LEMMA PowerSafe ==
  ASSUME IInv, DisplayFails
  PROVE  IInv'
<1>1. Net(net) /\ Reset(net) /\ faults' \subseteq faults /\ UNCHANGED manager
  BY DEF DisplayFails, PowerCycle, IInv
<1> QED BY <1>1, ResetSafe, DisplayStep

(* A connection is closed: the session's own ends the session with it.     *)
LEMMA ClosesSafe ==
  ASSUME IInv, NEW s \in Id, Closes(s)
  PROVE  IInv'
<1>1. Net(net) /\ faults' \subseteq faults /\ UNCHANGED manager
  BY DEF Closes, IInv
<1> SUFFICES Net(net') /\ net' \subseteq net \cup ToManager /\ DisplaySafe'
  BY <1>1, DisplayStep
<1>2. CASE (InSession /\ sessionSocket = s) \/ conns = {s}
  BY <1>1, <1>2, ResetSafe DEF Closes, CloseDisplay
<1>3. CASE ~((InSession /\ sessionSocket = s) \/ conns = {s})
  <2>1. /\ conns' = conns \ {s}
        /\ UNCHANGED <<state, timeOutRtx, sessionId, sessionSocket, cookies, net, manager>>
    BY <1>3 DEF Closes, CloseDisplay
  <2> QED
    BY <1>1, <1>3, <2>1 DEF IInv, DisplaySafe, DisplayTypeOK, KnowsSession, SessionHasSocket,
                            InSession, KeysMatch, manager
<1> QED BY <1>2, <1>3

-----------------------------------------------------------------------------
(* The processes of the sessions.                                          *)

(* A process that leaves "opening" takes its key with it.                  *)
LEMMA BecomesSafe ==
  ASSUME ManagerTypeOK, NEW s \in Id, NEW p \in {"open", "failed", "over"}, Becomes(s, p)
  PROVE  /\ child' \in [Id -> [phase : Phase, key : Key \cup {NoKey}]]
         /\ \A r \in Id : child'[r].phase = "opening" => child'[r] = child[r]
BY DEF ManagerTypeOK, Becomes, Phase, NoKey

LEMMA OpensSafe ==
  ASSUME IInv, NEW s \in Id, Opens(s)
  PROVE  IInv'
<1>1. /\ child' \in [Id -> [phase : Phase, key : Key \cup {NoKey}]]
      /\ \A r \in Id : child'[r].phase = "opening" => child'[r] = child[r]
  BY BecomesSafe DEF Opens, IInv
<1>2. /\ conns' = conns \cup {s} /\ UNCHANGED <<timeOutRtx, sessionId, cookies, net, faults>>
      /\ UNCHANGED <<proto, session, lastId, lastKey>>
      /\ \/ state = "AWAIT_MANAGE_RESPONSE" /\ state' = "RUN_SESSION" /\ sessionSocket' = s
         \/ state # "AWAIT_MANAGE_RESPONSE" /\ UNCHANGED <<state, sessionSocket>>
  BY DEF Opens, OpenDisplay
<1>3. Net(net') /\ faults' \subseteq Fault /\ conns' \subseteq Id
  BY <1>2 DEF IInv
<1>4. DisplayTypeOK' /\ KnowsSession' /\ SessionHasSocket'
  BY <1>2 DEF IInv, DisplayTypeOK, KnowsSession, SessionHasSocket, InSession
<1>5. ManagerTypeOK' /\ Offers'
  BY <1>1, <1>2 DEF IInv, ManagerTypeOK, Offers, NoProto, NoKey
<1>6. KeysMatch'
  BY <1>1, <1>2 DEF IInv, KeysMatch
<1> QED BY <1>3, <1>4, <1>5, <1>6 DEF IInv

(* A process that gives up, or leaves.                                     *)
LEMMA ProcessEndsSafe ==
  ASSUME IInv, NEW s \in Id, CannotOpen(s) \/ Leaves(s)
  PROVE  IInv'
<1>1. /\ child' \in [Id -> [phase : Phase, key : Key \cup {NoKey}]]
      /\ \A r \in Id : child'[r].phase = "opening" => child'[r] = child[r]
      /\ UNCHANGED <<display, conns, proto, session, lastId, lastKey, net, faults>>
  BY BecomesSafe DEF CannotOpen, Leaves, OpenFails, Leave, IInv
<1>2. Net(net') /\ faults' \subseteq Fault /\ conns' \subseteq Id
  BY <1>1 DEF IInv
<1>3. DisplayTypeOK' /\ KnowsSession' /\ SessionHasSocket'
  BY <1>1 DEF IInv, DisplayTypeOK, KnowsSession, SessionHasSocket, InSession, display
<1>4. ManagerTypeOK' /\ Offers'
  BY <1>1 DEF IInv, ManagerTypeOK, Offers, NoProto, NoKey
<1>5. KeysMatch'
  BY <1>1 DEF IInv, KeysMatch, display
<1> QED BY <1>2, <1>3, <1>4, <1>5 DEF IInv

-----------------------------------------------------------------------------
(* The manager.  Its steps leave the display alone.                        *)
ManagerSafe ==
  /\ ManagerTypeOK /\ Offers /\ lastId <= lastKey
  /\ lastId = lastKey =>
       /\ \A m \in net : m.type = "ACCEPT" => m.key = m.id
       /\ proto.key = proto.id
       /\ \A s \in Id : child[s].phase = "opening" => child[s].key = s

LEMMA ManagerStep ==
  ASSUME IInv, Net(net'), ManagerSafe', lastId' = lastKey' => lastId = lastKey,
         faults' \subseteq faults, UNCHANGED <<display, conns>>
  PROVE  IInv'
<1>1. DisplayTypeOK' /\ KnowsSession' /\ SessionHasSocket' /\ conns' \subseteq Id
  BY DEF IInv, display, DisplayTypeOK, KnowsSession, SessionHasSocket, InSession
<1>2. KeysMatch'
  BY DEF IInv, ManagerSafe, KeysMatch, display
<1> QED BY <1>1, <1>2 DEF IInv, ManagerSafe

(* A message that is no ACCEPT is sent, and nothing else changes.          *)
LEMMA AnswerSafe ==
  ASSUME IInv, NEW rest, Net(rest), rest \subseteq net, NEW m \in ToDisplay,
         m.type # "ACCEPT", Send({m}, rest), UNCHANGED manager
  PROVE  Net(net') /\ ManagerSafe'
<1>1. Net(net') /\ net' \subseteq rest \cup {m}
  BY SendNet DEF Message
<1>2. ManagerTypeOK' /\ Offers'
  BY DEF IInv, ManagerTypeOK, Offers, manager, NoProto, NoKey
<1> QED BY <1>1, <1>2 DEF IInv, ManagerSafe, KeysMatch, manager

(* A REQUEST is answered: the data that is made is that of a new session,  *)
(* or the number of the two is no longer the same.                         *)
LEMMA RequestSafe ==
  ASSUME IInv, NEW rest, Net(rest), rest \subseteq net, NEW m, Request(m, rest)
  PROVE  Net(net') /\ ManagerSafe' /\ (lastId' = lastKey' => lastId = lastKey)
<1> DEFINE id == Offered
<1>1. /\ id \in Id /\ lastKey + 1 \in Key
      /\ proto' = [id |-> id, key |-> lastKey + 1]
      /\ lastId' = (IF proto = NoProto THEN id ELSE lastId)
      /\ lastKey' = lastKey + 1
      /\ Send({[type |-> "ACCEPT", id |-> id, key |-> lastKey + 1]}, rest)
      /\ UNCHANGED <<session, child>>
  BY DEF Request
<1>2. \/ proto = NoProto /\ id = lastId + 1
      \/ proto # NoProto /\ id = proto.id
  BY DEF Offered
<1>3. /\ lastId \in Id \cup {NoId} /\ lastKey \in Key \cup {NoKey}
      /\ lastId <= lastKey /\ session.id <= lastId /\ proto.id <= lastId
      /\ proto = NoProto \/ (proto.id # NoId /\ proto.id # session.id)
      /\ session \in [id : Id \cup {NoId}, running : BOOLEAN]
      /\ proto \in [id : Id \cup {NoId}, key : Key \cup {NoKey}]
  BY DEF IInv, ManagerTypeOK, Offers, KeysMatch
<1> HIDE DEF id
<1>4. [type |-> "ACCEPT", id |-> id, key |-> lastKey + 1] \in Message
  BY <1>1 DEF Message, ToDisplay
<1>5. Net(net') /\ net' \subseteq rest \cup {[type |-> "ACCEPT", id |-> id, key |-> lastKey + 1]}
  BY <1>1, <1>4, SendNet
<1>6. ManagerTypeOK'
  BY <1>1 DEF IInv, ManagerTypeOK
<1>7. /\ lastId' <= lastKey' /\ id <= lastId' /\ session.id <= lastId' /\ id # session.id
      /\ id # NoId
  BY <1>1, <1>2, <1>3 DEF NoKey
<1>8. Offers'
  BY <1>1, <1>7 DEF IInv, Offers
<1>9. lastId' = lastKey' => lastId = lastKey /\ id = lastKey + 1
  BY <1>1, <1>2, <1>3 DEF NoKey
<1>10. lastId' = lastKey' =>
         /\ \A a \in net' : a.type = "ACCEPT" => a.key = a.id
         /\ proto'.key = proto'.id
         /\ \A s \in Id : child'[s].phase = "opening" => child'[s].key = s
  BY <1>1, <1>5, <1>9 DEF IInv, KeysMatch
<1> QED BY <1>5, <1>6, <1>7, <1>8, <1>9, <1>10 DEF ManagerSafe

(* A MANAGE starts the session that was offered, or is refused or ignored. *)
LEMMA ManageSafe ==
  ASSUME IInv, NEW rest, Net(rest), rest \subseteq net,
         NEW m \in ToManager, NEW forked \in BOOLEAN, Manage(m, rest, forked)
  PROVE  Net(net') /\ ManagerSafe' /\ (lastId' = lastKey' => lastId = lastKey)
<1>1. m.id \in Id /\ UNCHANGED <<lastId, lastKey>>
  BY DEF Manage, ToManager
<1>2. CASE proto.id = m.id
  <2>1. /\ session' = [id |-> m.id, running |-> forked]
        /\ child' = (IF forked THEN [child EXCEPT ![m.id] = [phase |-> "opening", key |-> proto.key]]
                               ELSE child)
        /\ proto' = NoProto /\ net' = rest
    BY <1>2 DEF Manage
  <2>2. ManagerTypeOK'
    BY <1>1, <2>1 DEF IInv, ManagerTypeOK, NoProto, Phase
  <2>3. Offers'
    BY <1>1, <1>2, <2>1 DEF IInv, Offers, NoProto, ManagerTypeOK
  <2>4. lastId = lastKey => \A s \in Id : child'[s].phase = "opening" => child'[s].key = s
    BY <1>1, <1>2, <2>1 DEF IInv, KeysMatch, ManagerTypeOK
  <2>5. lastId <= lastKey
        /\ (lastId = lastKey => \A a \in net' : a.type = "ACCEPT" => a.key = a.id)
    BY <2>1 DEF IInv, KeysMatch
  <2> QED BY <1>1, <2>1, <2>2, <2>3, <2>4, <2>5 DEF ManagerSafe, NoProto, NoKey
<1>3. CASE proto.id # m.id
  <2>1. /\ net' = rest \/ Send({[type |-> "REFUSE", id |-> m.id]}, rest)
        /\ UNCHANGED manager
    BY <1>3 DEF Manage, manager
  <2>2. CASE net' = rest
    <3>1. ManagerTypeOK' /\ Offers'
      BY <2>1 DEF IInv, ManagerTypeOK, Offers, manager, NoProto, NoKey
    <3> QED BY <2>1, <2>2, <3>1 DEF IInv, ManagerSafe, KeysMatch, manager
  <2>3. CASE Send({[type |-> "REFUSE", id |-> m.id]}, rest)
    <3>1. [type |-> "REFUSE", id |-> m.id] \in ToDisplay
      BY <1>1 DEF ToDisplay
    <3> QED BY <1>1, <2>1, <2>3, <3>1, AnswerSafe
  <2> QED BY <2>1, <2>2, <2>3
<1> QED BY <1>2, <1>3

LEMMA ManagerHearsSafe ==
  ASSUME IInv, NEW m \in net, ManagerHears(m)
  PROVE  IInv'
<1>1. PICK away \in BOOLEAN, forked \in BOOLEAN, rest \in {net, net \ {m}} :
        /\ m \in ToManager /\ Arrives(m, rest)
        /\ IF away THEN TurnAway(m, rest)
           ELSE Query(m, rest) \/ Request(m, rest) \/ Manage(m, rest, forked) \/ SendAlive(m, rest)
  BY DEF ManagerHears, ProcessRequest
<1>2. Net(rest) /\ rest \subseteq net
  BY LessNet DEF IInv
<1>3. faults' \subseteq faults /\ UNCHANGED <<display, conns>>
  BY <1>1 DEF Arrives, ManagerHears
<1> SUFFICES Net(net') /\ ManagerSafe' /\ (lastId' = lastKey' => lastId = lastKey)
  BY <1>3, ManagerStep
<1>4. CASE TurnAway(m, rest)
  <2>1. [type |-> "UNWILLING"] \in ToDisplay
    BY DEF ToDisplay
  <2> QED BY <1>2, <1>4, <2>1, AnswerSafe DEF TurnAway, manager
<1>5. CASE Query(m, rest)
  <2>1. [type |-> "WILLING"] \in ToDisplay
    BY DEF ToDisplay
  <2> QED BY <1>2, <1>5, <2>1, AnswerSafe DEF Query, manager
<1>6. CASE Request(m, rest)
  BY <1>2, <1>6, RequestSafe
<1>7. CASE Manage(m, rest, forked)
  BY <1>1, <1>2, <1>7, ManageSafe
<1>8. CASE SendAlive(m, rest)
  <2> DEFINE a == [type |-> "ALIVE", running |-> session.running /\ session.id = m.id,
                   id |-> IF session.running THEN session.id ELSE NoId]
  <2>1. a \in ToDisplay /\ a.type # "ACCEPT"
    BY DEF IInv, ManagerTypeOK, ToDisplay
  <2>2. Send({a}, rest) /\ UNCHANGED manager
    BY <1>8 DEF SendAlive
  <2> HIDE DEF a
  <2> QED BY <1>2, <2>1, <2>2, AnswerSafe DEF manager
<1> QED BY <1>1, <1>4, <1>5, <1>6, <1>7, <1>8

LEMMA NoSessionTyped == NoSession \in [id : Id \cup {NoId}, running : BOOLEAN]
BY DEF NoSession

(* Offers and sessions that end.                                           *)
LEMMA OfferEndsSafe ==
  ASSUME IInv, OfferExpires \/ ManagerFails
  PROVE  IInv'
<1>1. /\ proto' = NoProto /\ session' \in {session, NoSession}
      /\ UNCHANGED <<child, lastId, lastKey, net, display, conns>> /\ faults' \subseteq faults
  BY DEF OfferExpires, TimeoutProtoDisplays, ManagerFails, RestartManager
<1>2. ManagerTypeOK'
  <2>1. session' \in [id : Id \cup {NoId}, running : BOOLEAN]
    BY <1>1, NoSessionTyped DEF IInv, ManagerTypeOK
  <2> QED BY <1>1, <2>1 DEF IInv, ManagerTypeOK, NoProto, NoKey
<1>3. Offers'
  BY <1>1 DEF IInv, Offers, NoProto, NoSession, ManagerTypeOK
<1>4. ManagerSafe'
  BY <1>1, <1>2, <1>3 DEF IInv, ManagerSafe, KeysMatch, NoProto, NoKey
<1> QED BY <1>1, <1>4, ManagerStep DEF IInv

LEMMA ReapedSafe ==
  ASSUME IInv, NEW s \in Id, Reaped(s)
  PROVE  IInv'
<1>1. /\ child' = [child EXCEPT ![s] = NoChild] /\ session' \in {session, NoSession}
      /\ UNCHANGED <<proto, lastId, lastKey, display, conns, faults>>
      /\ net' = net \/ Send({[type |-> "FAILED", id |-> s]}, net)
  BY DEF Reaped, Reap
<1>2. [type |-> "FAILED", id |-> s] \in ToDisplay
  BY DEF ToDisplay
<1>3. Net(net') /\ net' \subseteq net \cup {[type |-> "FAILED", id |-> s]}
  BY <1>1, <1>2, SendNet DEF IInv, Message
<1>4. ManagerTypeOK'
  <2>1. session' \in [id : Id \cup {NoId}, running : BOOLEAN]
    BY <1>1, NoSessionTyped DEF IInv, ManagerTypeOK
  <2>2. child' \in [Id -> [phase : Phase, key : Key \cup {NoKey}]]
    BY <1>1 DEF IInv, ManagerTypeOK, NoChild, NoKey, Phase
  <2> QED BY <1>1, <2>1, <2>2 DEF IInv, ManagerTypeOK
<1>5. Offers'
  BY <1>1 DEF IInv, Offers, NoProto, NoKey, NoSession, ManagerTypeOK
<1>6. lastId = lastKey => \A r \in Id : child'[r].phase = "opening" => child'[r].key = r
  BY <1>1 DEF IInv, KeysMatch, ManagerTypeOK, NoChild
<1>7. ManagerSafe'
  BY <1>1, <1>3, <1>4, <1>5, <1>6 DEF IInv, ManagerSafe, KeysMatch
<1> QED BY <1>1, <1>3, <1>7, ManagerStep

-----------------------------------------------------------------------------

LEMMA InitIInv == Init => IInv
<1> SUFFICES ASSUME Init PROVE IInv
  OBVIOUS
<1>1. Net(net)
  <2>1. net = {[type |-> "QUERY"]} /\ [type |-> "QUERY"] \in ToManager
    BY DEF Init, DisplayInit, ToManager
  <2> QED BY <2>1, OneMessage DEF Net, Message
<1>2. DisplayTypeOK /\ KnowsSession /\ SessionHasSocket /\ conns \subseteq Id
  BY DEF Init, DisplayInit, DisplayTypeOK, KnowsSession, SessionHasSocket, InSession
<1>3. ManagerTypeOK /\ Offers
  BY DEF Init, ManagerInit, ManagerTypeOK, Offers, NoProto, NoKey, NoSession, NoChild, Phase
<1>4. KeysMatch
  BY DEF Init, DisplayInit, ManagerInit, KeysMatch, NoProto, NoKey, NoChild
<1>5. faults \subseteq Fault
  BY DEF Init
<1> QED BY <1>1, <1>2, <1>3, <1>4, <1>5 DEF IInv

LEMMA NextIInv == IInv /\ [Next]_vars => IInv'
<1> SUFFICES ASSUME IInv, [Next]_vars PROVE IInv'
  OBVIOUS
<1>1. ASSUME NEW m \in net, DisplayHears(m) \/ ManagerHears(m) PROVE IInv'
  BY <1>1, HearsSafe, ManagerHearsSafe
<1>2. CASE DisplayTimeout \/ DisplayInput \/ DisplayFails
  BY <1>2, TimeoutSafe, InputSafe, PowerSafe
<1>3. CASE OfferExpires \/ ManagerFails
  BY <1>3, OfferEndsSafe
<1>4. ASSUME NEW s \in Id, Opens(s) \/ CannotOpen(s) \/ Leaves(s) \/ Reaped(s) \/ Closes(s)
      PROVE  IInv'
  BY <1>4, OpensSafe, ProcessEndsSafe, ReapedSafe, ClosesSafe
<1>5. CASE UNCHANGED vars
  BY <1>5 DEF IInv, vars, display, manager, DisplayTypeOK, ManagerTypeOK, Offers, KeysMatch,
              KnowsSession, SessionHasSocket, InSession, NoProto, NoKey, Net
<1> QED BY <1>1, <1>2, <1>3, <1>4, <1>5 DEF Next

LEMMA Invariance == Spec => []IInv
BY InitIInv, NextIInv, PTL DEF Spec

(* No message, session, offer or process of the protocol leaves its range, *)
(* and the network never holds more than it has room for.                  *)
THEOREM TypeCorrect == Spec => []TypeOK
<1>1. IInv => TypeOK
  BY DEF IInv, TypeOK, WireTypeOK, Net, Message
<1> QED BY <1>1, Invariance, PTL

(* For any number of sessions, and whatever is lost, copied or reordered:  *)
(* unless a REQUEST was answered twice, the process that xdm starts for    *)
(* the session the display waits for can open the display.                 *)
THEOREM KeysArePassed == Spec => []KeyPassed
<1>1. IInv => KeyPassed
  BY DEF IInv, KeyPassed, KeysMatch, KnowsSession, Welcome, DisplayTypeOK
<1> QED BY <1>1, Invariance, PTL

(* While the display takes a session to run, the connection whose end it   *)
(* takes for the end of the session is open, for any number of sessions    *)
(* and whatever else the clients of the sessions do.                       *)
THEOREM SessionsHaveSockets == Spec => []SessionHasSocket
<1>1. IInv => SessionHasSocket
  BY DEF IInv
<1> QED BY <1>1, Invariance, PTL

-----------------------------------------------------------------------------
(* The refinement of XdmcpSessions.                                        *)

Taken == IF InSession THEN sessionId ELSE NoId

(* A step that ends sessions or none.                                      *)
LEMMA EndStep ==
  ASSUME \A s \in Id : Stage(s)' \in {Stage(s), "over"}, UNCHANGED Taken
  PROVE  Sessions!Next
<1> DEFINE S == {s \in Id : Stage(s)' = "over"}
<1>1. [s \in Id |-> Stage(s)]' = [r \in Id |-> IF r \in S THEN "over" ELSE Stage(r)]
  OBVIOUS
<1>2. [s \in Id |-> Stage(s)]' = [r \in Id |-> IF r \in S THEN "over" ELSE [s \in Id |-> Stage(s)][r]]
  BY <1>1
<1>3. S \in SUBSET Id
  OBVIOUS
<1> QED BY <1>2, <1>3, Zenon DEF Sessions!Next, Sessions!End, Taken

(* A step that leaves the sessions of the manager alone.                   *)
LEMMA DisplayImplements ==
  ASSUME IInv, IInv', UNCHANGED <<proto, session, lastId>>,
         InSession /\ InSession' => sessionId' = sessionId
  PROVE  [Sessions!Next]_(Sessions!vars)
<1>1. UNCHANGED [s \in Id |-> Stage(s)]
  BY DEF Stage
<1>2. CASE InSession /\ InSession'
  BY <1>1, <1>2 DEF Sessions!vars
<1>3. CASE ~InSession /\ InSession'
  <2>1. sessionId' \in Id
    BY <1>3 DEF IInv, KnowsSession, DisplayTypeOK
  <2>2. Sessions!Take
    BY <1>1, <1>3, <2>1 DEF Sessions!Take
  <2> QED BY <2>2 DEF Sessions!Next
<1>4. CASE InSession /\ ~InSession'
  <2>1. sessionId # NoId
    BY <1>4 DEF IInv, KnowsSession
  <2>2. Sessions!Drop
    BY <1>1, <1>4, <2>1 DEF Sessions!Drop
  <2> QED BY <2>2 DEF Sessions!Next
<1>5. CASE ~InSession /\ ~InSession'
  BY <1>1, <1>5 DEF Sessions!vars
<1> QED BY <1>2, <1>3, <1>4, <1>5

LEMMA StepImplements ==
  ASSUME IInv, IInv', [Next]_vars
  PROVE  [Sessions!Next]_(Sessions!vars)
<1>1. ASSUME NEW m \in net, DisplayHears(m) PROVE [Sessions!Next]_(Sessions!vars)
  <2>1. UNCHANGED <<proto, session, lastId>>
    BY <1>1 DEF DisplayHears, manager
  <2>2. PICK rest : \/ Willing(m, rest) \/ Accept(m, rest) \/ Refuse(m, rest)
                    \/ Fatal(m, rest) \/ Alive(m, rest) \/ Ignore(m, rest)
    BY <1>1 DEF DisplayHears, ReceivePacket
  <2>3. ~InSession \/ ~InSession' \/ sessionId' = sessionId
    BY <2>2 DEF Willing, Accept, Refuse, Fatal, Exit, Alive, Reset, Restart, SendPacket, Ignore, InSession
  <2> QED BY <2>1, <2>3, DisplayImplements
<1>2. CASE DisplayTimeout
  <2>1. UNCHANGED <<proto, session, lastId>>
    BY <1>2 DEF DisplayTimeout, manager
  <2>2. ~InSession' \/ sessionId' = sessionId
    BY <1>2 DEF DisplayTimeout, Timeout, Keepalive, DeadSession, GiveUp, Retransmit,
                Reset, Restart, SendPacket, InSession
  <2> QED BY <2>1, <2>2, DisplayImplements
<1>3. CASE DisplayInput \/ DisplayFails
  <2>1. UNCHANGED <<proto, session, lastId>>
    BY <1>3 DEF DisplayInput, DisplayFails, manager
  <2>2. ~InSession'
    BY <1>3 DEF DisplayInput, UserInput, DisplayFails, PowerCycle, Reset, Restart, SendPacket, InSession
  <2> QED BY <2>1, <2>2, DisplayImplements
<1>4. ASSUME NEW s \in Id, Opens(s) \/ CannotOpen(s) \/ Leaves(s) \/ Closes(s)
      PROVE  [Sessions!Next]_(Sessions!vars)
  <2>1. UNCHANGED <<proto, session, lastId>>
    BY <1>4 DEF Opens, CannotOpen, Leaves, Closes, manager
  <2>2. ~InSession' \/ sessionId' = sessionId
    BY <1>4 DEF Opens, OpenDisplay, CannotOpen, Leaves, Closes, CloseDisplay,
                Reset, Restart, SendPacket, InSession, display
  <2> QED BY <2>1, <2>2, DisplayImplements
<1>5. ASSUME NEW m \in net, ManagerHears(m) PROVE [Sessions!Next]_(Sessions!vars)
  <2>1. UNCHANGED Taken
    BY <1>5 DEF ManagerHears, display, Taken, InSession
  <2>2. PICK away \in BOOLEAN, forked \in BOOLEAN, rest \in {net, net \ {m}} :
          /\ m \in ToManager
          /\ IF away THEN TurnAway(m, rest)
             ELSE Query(m, rest) \/ Request(m, rest) \/ Manage(m, rest, forked) \/ SendAlive(m, rest)
    BY <1>5 DEF ManagerHears, ProcessRequest
  <2>3. CASE TurnAway(m, rest) \/ Query(m, rest) \/ SendAlive(m, rest)
    BY <2>1, <2>3, EndStep DEF TurnAway, Query, SendAlive, manager, Stage
  <2>4. CASE Request(m, rest)
    <3>1. /\ session' = session
          /\ proto'.id = Offered /\ lastId' = IF proto = NoProto THEN Offered ELSE lastId
      BY <2>4 DEF Request
    <3>2. \A s \in Id : Stage(s)' = Stage(s)
      BY <3>1 DEF IInv, Offers, ManagerTypeOK, Offered, Stage, NoProto, NoKey
    <3> QED BY <2>1, <3>2, EndStep
  <2>5. CASE Manage(m, rest, forked)
    <3>1. m.id \in Id /\ UNCHANGED lastId
      BY <2>2, <2>5 DEF Manage, ToManager
    <3>2. CASE proto.id # m.id
      BY <2>1, <2>5, <3>2, EndStep DEF Manage, Stage
    <3>3. CASE proto.id = m.id
      <4>1. session' = [id |-> m.id, running |-> forked] /\ proto' = NoProto
        BY <2>5, <3>3 DEF Manage
      <4>2. Stage(m.id) = "new"
        BY <3>1, <3>3 DEF IInv, Offers, Stage, NoProto
      <4>3. ASSUME NEW s \in Id, s # m.id
            PROVE  /\ Stage(s) = "running" => Stage(s)' = "over"
                   /\ Stage(s) # "running" => Stage(s)' = Stage(s)
        BY <3>1, <3>3, <4>1, <4>3 DEF IInv, Offers, ManagerTypeOK, Stage, NoProto
      <4>4. CASE forked
        <5>1. Stage(m.id)' = "running"
          BY <4>1, <4>4 DEF Stage
        <5>2. Sessions!Begin(m.id)
          BY <2>1, <3>1, <4>2, <4>3, <5>1 DEF Sessions!Begin, Taken
        <5> QED BY <3>1, <5>2 DEF Sessions!Next
      <4>5. CASE ~forked
        <5>1. Stage(m.id)' = "over"
          BY <3>1, <3>3, <4>1, <4>5 DEF IInv, Offers, Stage, NoProto, ManagerTypeOK
        <5> QED BY <2>1, <4>3, <5>1, EndStep
      <4> QED BY <4>4, <4>5
    <3> QED BY <3>2, <3>3
  <2> QED BY <2>2, <2>3, <2>4, <2>5
<1>6. CASE OfferExpires \/ ManagerFails
  <2>1. /\ proto' = NoProto /\ session' \in {session, NoSession} /\ UNCHANGED lastId
        /\ UNCHANGED Taken
    BY <1>6 DEF OfferExpires, TimeoutProtoDisplays, ManagerFails, RestartManager, display, Taken, InSession
  <2>2. ASSUME NEW s \in Id PROVE Stage(s)' \in {Stage(s), "over"}
    <3>1. session' = [id |-> s, running |-> TRUE] => session = [id |-> s, running |-> TRUE]
      BY <2>1 DEF NoSession
    <3>2. s > lastId => Stage(s) = "new"
      BY DEF IInv, Offers, ManagerTypeOK, Stage
    <3> QED BY <2>1, <3>1, <3>2 DEF Stage, NoProto
  <2> QED BY <2>1, <2>2, EndStep
<1>7. ASSUME NEW s \in Id, Reaped(s) PROVE [Sessions!Next]_(Sessions!vars)
  <2>1. /\ session' \in {session, NoSession} /\ UNCHANGED <<proto, lastId>>
        /\ UNCHANGED Taken
    BY <1>7 DEF Reaped, Reap, display, Taken, InSession
  <2>2. \A r \in Id : Stage(r)' \in {Stage(r), "over"}
    BY <2>1 DEF IInv, Offers, Stage, NoProto, NoSession, ManagerTypeOK
  <2> QED BY <2>1, <2>2, EndStep
<1>8. CASE UNCHANGED vars
  BY <1>8 DEF vars, display, manager, Sessions!vars, Stage, InSession
<1> QED BY <1>1, <1>2, <1>3, <1>4, <1>5, <1>6, <1>7, <1>8 DEF Next

(* The display and the manager come to agree on their sessions: each is    *)
(* begun at most once, also if its MANAGE is copied, late or sent again,   *)
(* and one runs at a time.  (The safety part of ImplementsSessions.)       *)
THEOREM ImplementsSessionsSafety ==
  Spec => Sessions!Init /\ [][Sessions!Next]_(Sessions!vars)
<1>1. Init => Sessions!Init
  BY DEF Init, DisplayInit, ManagerInit, Sessions!Init, Stage, InSession, NoSession, NoProto
<1>2. IInv /\ IInv' /\ [Next]_vars => [Sessions!Next]_(Sessions!vars)
  BY StepImplements
<1> QED BY <1>1, <1>2, Invariance, PTL DEF Spec
=============================================================================
