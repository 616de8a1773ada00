--------------------------- MODULE Dispatch_proofs ---------------------------
(* Theorems about the dispatch loop.  ServerGrab: the server grab of the   *)
(* dispatcher and the restriction of the descriptor sets are one, the sets *)
(* hold no descriptor of a closed connection, a grab excludes the other    *)
(* clients, and nobody is forgotten: neither its connection, nor input of  *)
(* it that was read, nor its request for the server.  SmartSched, for any  *)
(* clients and any limits: the data of the scheduler stay in range,        *)
(* clients of one priority take turns, and no busy client is passed over   *)
(* for longer than its share.                                              *)
EXTENDS ServerGrab, SmartSched, FiniteSetTheorems, WellFoundedInduction, TLAPS

LEMMA BeforeOrders ==
  ASSUME NEW b \in Nat, NEW c \in Nat
  PROVE  /\ Before(b, c) \/ Before(c, b)
         /\ Before(b, c) /\ Before(c, b) => b = c
         /\ \A d \in Nat : Before(b, c) /\ Before(c, d) => Before(b, d)
<1>1. b \div 32 \in Int /\ c \div 32 \in Int /\ \A d \in Nat : d \div 32 \in Int
  OBVIOUS
<1> QED BY <1>1 DEF Before

(* UngrabServer finds the first waiter: there is one, and only one.        *)
LEMMA FirstIn ==
  ASSUME NEW S \in SUBSET Clients, S # {}
  PROVE  First(S) \in S /\ \A d \in S : Before(First(S), d)
<1> DEFINE upTo(c) == {d \in Clients : Before(d, c)}
           ups == {upTo(c) : c \in S}
           R == StrictSubsetOrdering(Clients)
<1>1. IsWellFoundedOn(R, SUBSET Clients)
  BY ServerGrabAssumption, FS_FiniteSubsetsOfFinite, FS_StrictSubsetOrderingWellFounded
<1>2. PICK u \in ups : \A v \in ups : ~(<<v, u>> \in R)
  <2>1. ups \subseteq SUBSET Clients /\ ups # {}
    OBVIOUS
  <2> HIDE DEF ups, R
  <2> QED BY <1>1, <2>1, WFMin, Zenon
<1>3. PICK x \in S : u = upTo(x)
  BY <1>2
<1>4. ASSUME NEW d \in S PROVE Before(x, d)
  <2> SUFFICES ASSUME ~Before(x, d) PROVE FALSE
    OBVIOUS
  <2>1. x \in Nat /\ d \in Nat /\ Clients \subseteq Nat
    BY ServerGrabAssumption
  <2>2. Before(d, x) /\ Before(x, x)
    BY <2>1, BeforeOrders
  <2>3. upTo(d) \subseteq upTo(x)
    <3> SUFFICES ASSUME NEW e \in Clients, Before(e, d) PROVE Before(e, x)
      OBVIOUS
    <3> QED BY <2>1, <2>2, BeforeOrders
  <2>4. x \in upTo(x) /\ x \notin upTo(d)
    BY <2>2
  <2>5. <<upTo(d), upTo(x)>> \in R
    BY <2>3, <2>4 DEF StrictSubsetOrdering
  <2> QED BY <1>2, <1>3, <2>5
<1>5. \E c \in S : \A d \in S : Before(c, d)
  BY <1>4
<1> QED BY <1>5, Zenon DEF First

LEMMA FirstIs ==
  ASSUME NEW S \in SUBSET Clients, NEW c \in S, \A d \in S : Before(c, d)
  PROVE  First(S) = c
<1>1. First(S) \in S /\ Before(First(S), c) /\ Before(c, First(S))
  BY FirstIn
<1>2. First(S) \in Nat /\ c \in Nat
  BY <1>1, ServerGrabAssumption
<1> QED BY <1>1, <1>2, BeforeOrders

-----------------------------------------------------------------------------
(* The inductive invariant.  During a grab nobody but its client and the   *)
(* impervious clients can be in the live sets, in the list of ready        *)
(* clients once the round of the grab has ended, or be the one served.     *)
Restricted ==
  InProgress(fds) => (fds.all \cup fds.input) \subseteq (fds.impervious \cup {fds.grab})

CurrentOpen == /\ current \in open \cup {Nobody}
               /\ current \notin ready
               /\ taken => current # Nobody

CurrentAllowed ==
  grab.state # "none" /\ current # Nobody => current = grab.client \/ current \in fds.impervious

ReadyAllowed ==
  grab.state = "active" => (ready \cap open) \subseteq (fds.impervious \cup {grab.client})

IInv == /\ TypeOK /\ GrabsAgree /\ NoStaleDescriptor
        /\ Restricted /\ CurrentOpen /\ CurrentAllowed /\ ReadyAllowed

USE ServerGrabAssumption DEF Grab, Fds, InProgress

LEMMA InitIInv == Init => IInv
<1> SUFFICES ASSUME Init PROVE IInv
  OBVIOUS
<1>1. TypeOK
  BY DEF Init, TypeOK
<1>2. GrabsAgree /\ NoStaleDescriptor
  BY DEF Init, GrabsAgree, NoStaleDescriptor
<1>3. Restricted /\ CurrentOpen /\ CurrentAllowed /\ ReadyAllowed
  BY DEF Init, Restricted, CurrentOpen, CurrentAllowed, ReadyAllowed
<1> QED BY <1>1, <1>2, <1>3 DEF IInv

(* A client that is attended to while nobody has the server.               *)
LEMMA AttendFree ==
  ASSUME NEW f \in Fds, NEW c \in Clients, ~InProgress(f)
  PROVE  LET g == AttendClient(f, c)
         IN  /\ g \in Fds /\ g.grab = f.grab /\ g.impervious = f.impervious
             /\ g.all = f.all \cup {c} /\ g.input \subseteq f.input \cup {c}
  BY DEF AttendClient

(* What UngrabServer does to the grab and to the sets.                     *)
LEMMA UngrabEffect ==
  ASSUME IInv, NEW g, NEW f, g = Ungrabbed(grab), f = UngrabbedFds(grab, fds)
  PROVE  /\ g \in Grab /\ g.state = "none" /\ g.waiters \subseteq grab.waiters
         /\ f \in Fds /\ f.grab = Nobody
         /\ (f.all \cup f.input) \subseteq open
         /\ f.impervious = fds.impervious
<1>1. grab.waiters # {} => First(grab.waiters) \in grab.waiters
  BY FirstIn DEF IInv, TypeOK
<1>2. /\ g \in Grab /\ g.state = "none" /\ g.waiters \subseteq grab.waiters
  BY DEF IInv, TypeOK, Ungrabbed
<1> DEFINE h == ListenToAllClients(fds)
<1>3. /\ h \in Fds /\ h.grab = Nobody
      /\ (h.all \cup h.input) \subseteq open
      /\ h.impervious = fds.impervious
  <2>1. CASE InProgress(fds)
    BY <2>1 DEF IInv, TypeOK, NoStaleDescriptor, ListenToAllClients
  <2>2. CASE ~InProgress(fds)
    BY <2>2 DEF IInv, TypeOK, NoStaleDescriptor, ListenToAllClients
  <2> QED BY <2>1, <2>2
<1>4. CASE grab.waiters = {}
  BY <1>2, <1>3, <1>4 DEF UngrabbedFds
<1>5. CASE grab.waiters # {}
  <2> DEFINE w == First(grab.waiters)
  <2>1. w \in open /\ w \in Clients
    BY <1>1, <1>5 DEF IInv, TypeOK, NoStaleDescriptor
  <2>2. f = AttendClient(h, w)
    BY <1>5 DEF UngrabbedFds
  <2> HIDE DEF h, w
  <2>3. /\ f \in Fds /\ f.grab = h.grab /\ f.impervious = h.impervious
        /\ f.all = h.all \cup {w} /\ f.input \subseteq h.input \cup {w}
    BY <1>3, <2>1, <2>2, AttendFree
  <2> QED BY <1>2, <1>3, <2>1, <2>3
<1> QED BY <1>4, <1>5

LEMMA CloseDownIInv ==
  ASSUME IInv, NEW d \in open, CloseDownClient(d),
         UNCHANGED <<ready, alive, connects, sent>>, taken' \in BOOLEAN,
         current' \in {current, Nobody}, current' # d, taken' => current' # Nobody
  PROVE  IInv'
<1>0. d \in Clients
  BY DEF IInv, TypeOK
<1>1. CASE Holds(grab, d)
  <2> DEFINE g == Ungrabbed(grab)
             f == UngrabbedFds(grab, fds)
  <2>1. /\ g \in Grab /\ g.state = "none" /\ g.waiters \subseteq grab.waiters
        /\ f \in Fds /\ f.grab = Nobody
        /\ (f.all \cup f.input) \subseteq open
        /\ f.impervious = fds.impervious
    BY UngrabEffect
  <2>2. grab' = [g EXCEPT !.waiters = @ \ {d}] /\ fds' = CloseDownFileDescriptor(f, d)
    BY <1>1 DEF CloseDownClient
  <2> HIDE DEF g, f
  <2>3. /\ fds' \in Fds /\ fds'.grab = Nobody
        /\ fds'.all = f.all \ {d} /\ fds'.input = f.input \ {d}
    BY <2>1, <2>2 DEF CloseDownFileDescriptor
  <2>4. grab' \in Grab /\ grab'.state = "none" /\ grab'.waiters = g.waiters \ {d}
    BY <2>1, <2>2
  <2>5. TypeOK'
    BY <1>0, <2>3, <2>4 DEF IInv, TypeOK, CloseDownClient
  <2>6. GrabsAgree' /\ Restricted' /\ CurrentAllowed' /\ ReadyAllowed'
    BY <2>3, <2>4 DEF GrabsAgree, Restricted, CurrentAllowed, ReadyAllowed
  <2>7. NoStaleDescriptor'
    BY <2>1, <2>3, <2>4 DEF IInv, NoStaleDescriptor, CloseDownClient
  <2>8. CurrentOpen'
    BY DEF IInv, CurrentOpen, CloseDownClient, TypeOK
  <2> QED BY <2>5, <2>6, <2>7, <2>8 DEF IInv
<1>2. CASE ~Holds(grab, d)
  <2>1. grab' = [grab EXCEPT !.waiters = @ \ {d}] /\ fds' = CloseDownFileDescriptor(fds, d)
    BY <1>2 DEF CloseDownClient
  <2>2. /\ fds' \in Fds /\ fds'.grab = fds.grab
        /\ fds'.all = fds.all \ {d} /\ fds'.input = fds.input \ {d}
        /\ fds'.impervious = fds.impervious \ {d}
        /\ InProgress(fds) => fds'.saved = fds.saved \ {d} /\ fds'.savedInput = fds.savedInput \ {d}
    BY <2>1 DEF CloseDownFileDescriptor, IInv, TypeOK
  <2>3. /\ grab' \in Grab /\ grab'.state = grab.state /\ grab'.client = grab.client
        /\ grab'.waiters = grab.waiters \ {d}
    BY <2>1 DEF IInv, TypeOK
  <2>4. TypeOK'
    BY <1>0, <2>2, <2>3 DEF IInv, TypeOK, CloseDownClient
  <2>5. GrabsAgree'
    BY <1>2, <2>2, <2>3 DEF IInv, GrabsAgree, CloseDownClient, Holds
  <2>6. NoStaleDescriptor'
    BY <2>2, <2>3 DEF IInv, NoStaleDescriptor, CloseDownClient
  <2>7. Restricted' /\ CurrentAllowed'
    BY <1>2, <2>2, <2>3 DEF IInv, Restricted, CurrentAllowed, Holds, GrabsAgree
  <2>8. ReadyAllowed' /\ CurrentOpen'
    BY <2>2, <2>3 DEF IInv, ReadyAllowed, CurrentOpen, CloseDownClient, TypeOK
  <2> QED BY <2>4, <2>5, <2>6, <2>7, <2>8 DEF IInv
<1> QED BY <1>1, <1>2

-----------------------------------------------------------------------------
(* The other operators on the descriptor sets.                             *)
LEMMA IgnoreEffect ==
  ASSUME NEW f \in Fds, NEW c \in Clients
  PROVE  LET g == IgnoreClient(f, c)
         IN  /\ g \in Fds /\ g.grab = f.grab /\ g.impervious = f.impervious
             /\ g.all \subseteq f.all /\ g.input \subseteq f.input
             /\ g.saved \subseteq f.saved /\ g.savedInput \subseteq f.savedInput
  BY DEF IgnoreClient, With

LEMMA AttendEffect ==
  ASSUME NEW f \in Fds, NEW c \in Clients
  PROVE  LET g == AttendClient(f, c)
         IN  /\ g \in Fds /\ g.grab = f.grab /\ g.impervious = f.impervious
             /\ g.all \subseteq f.all \cup {c} /\ g.input \subseteq f.input \cup {c}
             /\ g.saved \subseteq f.saved \cup {c} /\ g.savedInput \subseteq f.savedInput \cup {c}
             /\ InProgress(f) /\ c \notin f.impervious \cup {f.grab} =>
                  g.all = f.all /\ g.input = f.input
  BY DEF AttendClient

LEMMA OnlyListenEffect ==
  ASSUME NEW f \in Fds, NEW c \in Clients
  PROVE  LET g == OnlyListenToOneClient(f, c)
         IN  /\ g \in Fds /\ g.impervious = f.impervious
             /\ g.grab = IF InProgress(f) THEN f.grab ELSE c
             /\ ~InProgress(f) => (g.all \cup g.input) \subseteq (f.impervious \cup {c})
             /\ InProgress(f) => g = f
             /\ (g.all \cup g.input) \subseteq (f.all \cup f.input \cup {c})
             /\ ~InProgress(f) => (g.saved \cup g.savedInput) \subseteq (f.all \cup f.input)
  BY DEF OnlyListenToOneClient

LEMMA MarkInputEffect ==
  ASSUME NEW f \in Fds, NEW c \in Clients, NEW b \in BOOLEAN
  PROVE  LET g == MarkInput(f, c, b)
         IN  /\ g \in Fds /\ g.grab = f.grab /\ g.impervious = f.impervious
             /\ g.all = f.all /\ g.input \subseteq f.input \cup {c}
             /\ g.saved = f.saved /\ g.savedInput = f.savedInput
  BY DEF MarkInput, With

(* A step that leaves the grab and the round, and changes the sets within  *)
(* what the grab allows, preserves the invariant.                          *)
LEMMA SameGrab ==
  ASSUME IInv, TypeOK', NoStaleDescriptor', Restricted',
         grab'.state = grab.state, grab'.client = grab.client, fds'.grab = fds.grab,
         open' = open, ready' = ready, current' \in {current, Nobody},
         taken' => current' # Nobody,
         fds'.impervious = fds.impervious \/ fds'.impervious = fds.impervious \cup {current}
           \/ (fds'.impervious = fds.impervious \ {current} /\ (InProgress(fds) /\ fds.grab # current => current' = Nobody))
  PROVE  IInv'
<1>1. GrabsAgree' /\ CurrentOpen'
  BY DEF IInv, GrabsAgree, CurrentOpen, TypeOK
<1>2. CurrentAllowed'
  BY DEF IInv, GrabsAgree, CurrentAllowed, TypeOK
<1>3. ReadyAllowed'
  BY DEF IInv, ReadyAllowed, CurrentOpen, TypeOK
<1> QED BY <1>1, <1>2, <1>3 DEF IInv

LEMMA SendIInv == ASSUME IInv, NEW c \in Clients, Send(c) PROVE IInv'
<1>0. /\ sent' = [sent EXCEPT ![c] = @ + 1] /\ sock' = [sock EXCEPT ![c] = @ + 1]
      /\ UNCHANGED <<open, alive, connects, buf, redo, asleep, grab, fds, ready, current, taken>>
  BY DEF Send, round
<1>1. TypeOK'
  BY <1>0 DEF IInv, TypeOK
<1>2. NoStaleDescriptor' /\ Restricted' /\ taken' = taken
  BY DEF IInv, NoStaleDescriptor, Restricted, Send, round
<1> QED BY <1>1, <1>2, SameGrab DEF Send, round, IInv, CurrentOpen

LEMMA ExitIInv == ASSUME IInv, NEW c \in Clients, Exit(c) PROVE IInv'
<1>1. TypeOK'
  BY DEF IInv, TypeOK, Exit, round, input
<1>2. NoStaleDescriptor' /\ Restricted' /\ taken' = taken
  BY DEF IInv, NoStaleDescriptor, Restricted, Exit, round
<1> QED BY <1>1, <1>2, SameGrab DEF Exit, round, IInv, CurrentOpen

LEMMA WakeupIInv == ASSUME IInv, NEW c \in Clients, Wakeup(c) PROVE IInv'
<1>0. fds \in Fds /\ c \in open
  BY DEF IInv, TypeOK, Wakeup, NoStaleDescriptor
<1>1. TypeOK'
  BY <1>0, AttendEffect DEF IInv, TypeOK, Wakeup, round, input, client
<1>2. NoStaleDescriptor'
  BY <1>0, AttendEffect DEF IInv, NoStaleDescriptor, Wakeup, client
<1>3. Restricted'
  BY <1>0, AttendEffect DEF IInv, Restricted, Wakeup
<1>4. fds'.grab = fds.grab /\ fds'.impervious = fds.impervious
  BY <1>0, AttendEffect DEF Wakeup
<1> QED BY <1>1, <1>2, <1>3, <1>4, SameGrab DEF Wakeup, round, client, IInv, CurrentOpen

LEMMA AcceptIInv == ASSUME IInv, NEW c \in Clients, Accept(c) PROVE IInv'
<1>0. /\ fds \in Fds /\ c \notin open
      /\ open' = open \cup {c} /\ fds' = AllocNewConnection(fds, c)
      /\ UNCHANGED <<asleep, grab, ready, current, taken>> /\ ready = {} /\ current = Nobody
  BY DEF IInv, TypeOK, Accept, round, BetweenRounds
<1>1. /\ fds' \in Fds /\ fds'.grab = fds.grab /\ fds'.impervious = fds.impervious
      /\ fds'.all = IF InProgress(fds) THEN fds.all ELSE fds.all \cup {c}
      /\ fds'.saved \subseteq fds.saved \cup {c}
      /\ fds'.input = fds.input /\ fds'.savedInput = fds.savedInput
  BY <1>0 DEF AllocNewConnection
<1>2. TypeOK'
  BY <1>1 DEF IInv, TypeOK, Accept, round, input
<1>3. GrabsAgree' /\ CurrentOpen'
  BY <1>0, <1>1 DEF IInv, GrabsAgree, CurrentOpen
<1>4. NoStaleDescriptor'
  BY <1>0, <1>1 DEF IInv, NoStaleDescriptor
<1>5. Restricted' /\ CurrentAllowed' /\ ReadyAllowed'
  BY <1>0, <1>1 DEF IInv, Restricted, CurrentAllowed, ReadyAllowed
<1> QED BY <1>2, <1>3, <1>4, <1>5 DEF IInv

LEMMA WaitIInv == ASSUME IInv, WaitForSomething PROVE IInv'
<1>1. ready' \subseteq fds.all \cup fds.input
  BY DEF WaitForSomething, Readable
<1>2. TypeOK'
  BY <1>1 DEF IInv, TypeOK, WaitForSomething, input, client
<1>3. GrabsAgree' /\ NoStaleDescriptor' /\ Restricted' /\ CurrentAllowed'
  BY DEF IInv, GrabsAgree, NoStaleDescriptor, Restricted, CurrentAllowed, WaitForSomething, client
<1>4. CurrentOpen'
  BY <1>1 DEF IInv, CurrentOpen, WaitForSomething, BetweenRounds, client, TypeOK
<1>5. ReadyAllowed'
  BY <1>1 DEF IInv, ReadyAllowed, Restricted, GrabsAgree, TypeOK, WaitForSomething, client
<1> QED BY <1>2, <1>3, <1>4, <1>5 DEF IInv

LEMMA PickIInv == ASSUME IInv, NEW c \in Clients, Pick(c) PROVE IInv'
<1>1. CASE c \in open /\ grab.state = "kickout"
  <2>1. /\ grab' = [grab EXCEPT !.state = "active"] /\ ready' = {}
        /\ UNCHANGED <<open, fds, asleep, current, taken>>
    BY <1>1 DEF Pick, client
  <2>2. TypeOK'
    BY <1>1 DEF IInv, TypeOK, Pick, input, client
  <2>3. GrabsAgree' /\ NoStaleDescriptor' /\ Restricted' /\ CurrentAllowed'
    BY <1>1, <2>1 DEF IInv, GrabsAgree, NoStaleDescriptor, Restricted, CurrentAllowed, TypeOK
  <2>4. CurrentOpen' /\ ReadyAllowed'
    BY <2>1 DEF IInv, CurrentOpen, ReadyAllowed
  <2> QED BY <2>2, <2>3, <2>4 DEF IInv
<1>2. CASE ~(c \in open /\ grab.state = "kickout")
  <2>1. /\ ready' = ready \ {c} /\ current' = IF c \in open THEN c ELSE Nobody
        /\ current = Nobody /\ c \in ready
        /\ UNCHANGED <<open, fds, grab, asleep, taken>>
    BY <1>2 DEF Pick, client
  <2>2. TypeOK'
    BY <1>2 DEF IInv, TypeOK, Pick, input, client
  <2>3. GrabsAgree' /\ NoStaleDescriptor' /\ Restricted'
    BY <2>1 DEF IInv, GrabsAgree, NoStaleDescriptor, Restricted
  <2>4. CurrentAllowed'
    BY <1>2, <2>1 DEF IInv, CurrentAllowed, ReadyAllowed, TypeOK
  <2>5. CurrentOpen' /\ ReadyAllowed'
    BY <2>1 DEF IInv, CurrentOpen, ReadyAllowed, TypeOK
  <2> QED BY <2>2, <2>3, <2>4, <2>5 DEF IInv
<1> QED BY <1>1, <1>2

LEMMA ReadIInv == ASSUME IInv, NEW c \in Clients, ReadRequestFromClient(c) PROVE IInv'
<1>0. /\ current = c /\ c \in open /\ fds \in Fds /\ c # Nobody
      /\ UNCHANGED <<alive, connects, sent, ready>>
  BY DEF IInv, TypeOK, CurrentOpen, ReadRequestFromClient
<1> DEFINE Marks(b) == /\ fds' = MarkInput(fds, c, b)
                       /\ UNCHANGED <<open, asleep, redo, grab>>
                       /\ current' \in {c, Nobody} /\ (taken' => current' = c)
                       /\ taken' \in BOOLEAN
                       /\ sock' \in [Clients -> Nat] /\ buf' \in [Clients -> Nat]
<1>1. ASSUME NEW b \in BOOLEAN, Marks(b) PROVE IInv'
  <2>1. /\ fds' \in Fds /\ fds'.grab = fds.grab /\ fds'.impervious = fds.impervious
        /\ fds'.all = fds.all /\ fds'.input \subseteq fds.input \cup {c}
        /\ fds'.saved = fds.saved /\ fds'.savedInput = fds.savedInput
    BY <1>0, <1>1, MarkInputEffect
  <2>2. TypeOK'
    BY <1>0, <1>1, <2>1 DEF IInv, TypeOK
  <2>3. NoStaleDescriptor'
    BY <1>0, <1>1, <2>1 DEF IInv, NoStaleDescriptor
  <2>4. Restricted'
    BY <1>0, <1>1, <2>1 DEF IInv, Restricted, CurrentAllowed, GrabsAgree
  <2> QED BY <1>0, <1>1, <2>1, <2>2, <2>3, <2>4, SameGrab
<1>2. ASSUME NEW n \in 0 .. sock[c], n > 0 <=> buf[c] = 0,
             sock' = [sock EXCEPT ![c] = @ - n], buf' = [buf EXCEPT ![c] = Left(@, n)],
             fds' = MarkInput(fds, c, buf[c] + n > 1), taken' = TRUE,
             UNCHANGED <<open, asleep, redo, grab, current>>
      PROVE  IInv'
  <2>1. sock' \in [Clients -> Nat] /\ buf' \in [Clients -> Nat]
    BY <1>2 DEF IInv, TypeOK, Left
  <2>2. Marks(buf[c] + n > 1) /\ (buf[c] + n > 1) \in BOOLEAN
    BY <1>0, <1>2, <2>1
  <2> HIDE DEF Marks
  <2> QED BY <1>1, <2>2
<1>3. ASSUME fds' = MarkInput(fds, c, FALSE), Break,
             UNCHANGED <<open, sock, buf, asleep, redo, grab, taken>>, ~taken
      PROVE  IInv'
  <2>1. Marks(FALSE)
    BY <1>3 DEF Break, IInv, TypeOK
  <2> HIDE DEF Marks
  <2> QED BY <1>1, <2>1
<1>4. ASSUME CloseDownClient(c), Break, UNCHANGED taken, ~taken
      PROVE  IInv'
  <2>1. current' = Nobody /\ current' # c /\ ~taken' /\ taken' \in BOOLEAN
    BY <1>0, <1>4 DEF Break, IInv, TypeOK
  <2> QED BY <1>0, <1>4, <2>1, CloseDownIInv
<1> HIDE DEF Marks
<1> QED BY <1>2, <1>3, <1>4 DEF ReadRequestFromClient

(* What every request does, and what those do that change only the sets.   *)
LEMMA ExecuteEffect ==
  ASSUME IInv, NEW c \in Clients, NEW k, Execute(c, k)
  PROVE  /\ current = c /\ c \in open /\ c # Nobody /\ fds \in Fds /\ grab \in Grab
         /\ taken' = FALSE /\ UNCHANGED <<alive, connects, sent, ready>>
         /\ Return => current' \in {c, Nobody}
         /\ Break => current' = Nobody
         /\ InProgress(fds) => c \in fds.impervious \cup {fds.grab}
  BY DEF IInv, TypeOK, Execute, CurrentOpen, CurrentAllowed, GrabsAgree, Return, Break, Yield

LEMMA PlainIInv == ASSUME IInv, NEW c \in Clients, Plain(c) PROVE IInv'
<1>1. TypeOK' /\ NoStaleDescriptor' /\ Restricted'
  BY ExecuteEffect DEF IInv, TypeOK, NoStaleDescriptor, Restricted, Plain, input
<1> QED BY <1>1, ExecuteEffect, SameGrab DEF Plain

LEMMA GrabServerIInv == ASSUME IInv, NEW c \in Clients, GrabServer(c) PROVE IInv'
<1>0. Execute(c, "grab") /\ Return
  BY DEF GrabServer
<1>1. /\ current = c /\ c \in open /\ c # Nobody /\ fds \in Fds /\ grab \in Grab
      /\ taken' = FALSE /\ UNCHANGED <<alive, connects, sent, ready, open, asleep, sock, buf>>
      /\ current' \in {c, Nobody}
  BY <1>0, ExecuteEffect DEF GrabServer
<1>2. /\ grab' \in Grab /\ grab'.state = "kickout" /\ grab'.client = c
      /\ grab'.waiters = grab.waiters
  BY <1>1 DEF GrabServer
<1>3. InProgress(fds) => fds.grab = c
  BY DEF IInv, GrabsAgree, GrabServer
<1>4. /\ fds' \in Fds /\ fds'.impervious = fds.impervious /\ fds'.grab = c
      /\ ~InProgress(fds) => (fds'.all \cup fds'.input) \subseteq (fds.impervious \cup {c})
      /\ InProgress(fds) => fds' = fds
      /\ (fds'.all \cup fds'.input) \subseteq (fds.all \cup fds.input \cup {c})
      /\ ~InProgress(fds) => (fds'.saved \cup fds'.savedInput) \subseteq (fds.all \cup fds.input)
  BY <1>1, <1>3, OnlyListenEffect DEF GrabServer
<1>5. TypeOK'
  BY <1>1, <1>2, <1>4 DEF IInv, TypeOK, GrabServer
<1>6. GrabsAgree' /\ CurrentAllowed' /\ ReadyAllowed' /\ CurrentOpen'
  <2>1. GrabsAgree'
    BY <1>1, <1>2, <1>4 DEF GrabsAgree
  <2>2. CurrentAllowed' /\ ReadyAllowed'
    BY <1>1, <1>2 DEF CurrentAllowed, ReadyAllowed
  <2>3. CurrentOpen'
    BY <1>1 DEF IInv, CurrentOpen, TypeOK
  <2> QED BY <2>1, <2>2, <2>3
<1>7. NoStaleDescriptor'
  BY <1>1, <1>2, <1>4 DEF IInv, NoStaleDescriptor
<1>8. Restricted'
  BY <1>3, <1>4 DEF IInv, Restricted
<1> QED BY <1>5, <1>6, <1>7, <1>8 DEF IInv

LEMMA WaitForGrabIInv == ASSUME IInv, NEW c \in Clients, WaitForGrab(c) PROVE IInv'
<1>0. Execute(c, "grab") /\ Break
  BY DEF WaitForGrab
<1>1. /\ current = c /\ c \in open /\ c # Nobody /\ fds \in Fds /\ grab \in Grab
      /\ taken' = FALSE /\ UNCHANGED <<alive, connects, sent, ready, open, asleep, sock>>
      /\ current' = Nobody
      /\ InProgress(fds) => c \in fds.impervious \cup {fds.grab}
  BY <1>0, ExecuteEffect DEF WaitForGrab
<1> DEFINE f == ResetCurrentRequest(fds, c)
<1>2. /\ f \in Fds /\ f.grab = fds.grab /\ f.impervious = fds.impervious
      /\ f.all = fds.all /\ f.input \subseteq fds.input \cup {c}
      /\ f.saved = fds.saved /\ f.savedInput = fds.savedInput
  BY <1>1 DEF ResetCurrentRequest
<1>3. fds' = IgnoreClient(f, c)
  BY DEF WaitForGrab
<1> HIDE DEF f
<1>4. /\ fds' \in Fds /\ fds'.grab = fds.grab /\ fds'.impervious = fds.impervious
      /\ fds'.all \subseteq fds.all /\ fds'.input \subseteq fds.input \cup {c}
      /\ fds'.saved \subseteq fds.saved /\ fds'.savedInput \subseteq fds.savedInput
  BY <1>2, <1>3, IgnoreEffect
<1>5. /\ grab' \in Grab /\ grab'.state = grab.state /\ grab'.client = grab.client
      /\ grab'.waiters = grab.waiters \cup {c}
  BY <1>1 DEF WaitForGrab
<1>6. TypeOK'
  <2>1. buf' \in [Clients -> Nat] /\ redo' \subseteq Clients
    BY DEF IInv, TypeOK, WaitForGrab
  <2> QED BY <1>1, <1>4, <1>5, <2>1 DEF IInv, TypeOK
<1>7. NoStaleDescriptor' /\ Restricted'
  BY <1>1, <1>4, <1>5 DEF IInv, NoStaleDescriptor, Restricted
<1> QED BY <1>1, <1>4, <1>5, <1>6, <1>7, SameGrab

LEMMA UngrabServerIInv == ASSUME IInv, NEW c \in Clients, UngrabServer(c) PROVE IInv'
<1>0. Execute(c, "ungrab") /\ Return
  BY DEF UngrabServer
<1>1. /\ current = c /\ c \in open /\ taken' = FALSE
      /\ UNCHANGED <<alive, connects, sent, ready, open, asleep, sock, buf, redo>>
      /\ current' \in {c, Nobody}
  BY <1>0, ExecuteEffect DEF UngrabServer, input
<1>2. /\ grab' \in Grab /\ grab'.state = "none" /\ grab'.waiters \subseteq grab.waiters
      /\ fds' \in Fds /\ fds'.grab = Nobody
      /\ (fds'.all \cup fds'.input) \subseteq open
  BY UngrabEffect DEF UngrabServer
<1>3. TypeOK'
  BY <1>1, <1>2 DEF IInv, TypeOK
<1>4. GrabsAgree' /\ Restricted' /\ CurrentAllowed' /\ ReadyAllowed'
  BY <1>2 DEF GrabsAgree, Restricted, CurrentAllowed, ReadyAllowed
<1>5. NoStaleDescriptor' /\ CurrentOpen'
  BY <1>1, <1>2 DEF IInv, NoStaleDescriptor, CurrentOpen, TypeOK
<1> QED BY <1>3, <1>4, <1>5 DEF IInv

LEMMA SleepIInv == ASSUME IInv, NEW c \in Clients, Sleep(c) PROVE IInv'
<1>0. Execute(c, "sleep") /\ Break
  BY DEF Sleep
<1>1. /\ current = c /\ c \in open /\ fds \in Fds /\ taken' = FALSE
      /\ UNCHANGED <<alive, connects, sent, ready, open, sock, buf, redo, grab>>
      /\ current' = Nobody
  BY <1>0, ExecuteEffect DEF Sleep, input
<1>2. /\ fds' \in Fds /\ fds'.grab = fds.grab /\ fds'.impervious = fds.impervious
      /\ fds'.all \subseteq fds.all /\ fds'.input \subseteq fds.input
      /\ fds'.saved \subseteq fds.saved /\ fds'.savedInput \subseteq fds.savedInput
  BY <1>1, IgnoreEffect DEF Sleep
<1>3. TypeOK'
  BY <1>1, <1>2 DEF IInv, TypeOK, Sleep
<1>4. NoStaleDescriptor' /\ Restricted'
  BY <1>1, <1>2 DEF IInv, NoStaleDescriptor, Restricted, Sleep
<1> QED BY <1>1, <1>2, <1>3, <1>4, SameGrab

LEMMA SignalIInv == ASSUME IInv, NEW c \in Clients, Signal(c) PROVE IInv'
<1>0. Execute(c, "signal") /\ Return
  BY DEF Signal
<1>1. /\ current = c /\ c \in open /\ fds \in Fds /\ taken' = FALSE
      /\ UNCHANGED <<alive, connects, sent, ready, open, sock, buf, redo, grab>>
      /\ current' \in {c, Nobody}
  BY <1>0, ExecuteEffect DEF Signal, input
<1>2. PICK d \in asleep : asleep' = asleep \ {d} /\ fds' = AttendClient(fds, d)
  BY DEF Signal
<1>3. d \in open /\ d \in Clients
  BY <1>2 DEF IInv, TypeOK, NoStaleDescriptor
<1>4. /\ fds' \in Fds /\ fds'.grab = fds.grab /\ fds'.impervious = fds.impervious
      /\ fds'.all \subseteq fds.all \cup {d} /\ fds'.input \subseteq fds.input \cup {d}
      /\ fds'.saved \subseteq fds.saved \cup {d} /\ fds'.savedInput \subseteq fds.savedInput \cup {d}
      /\ InProgress(fds) /\ d \notin fds.impervious \cup {fds.grab} =>
           fds'.all = fds.all /\ fds'.input = fds.input
  BY <1>1, <1>2, <1>3, AttendEffect
<1>5. TypeOK'
  BY <1>1, <1>2, <1>4 DEF IInv, TypeOK
<1>6. NoStaleDescriptor'
  BY <1>1, <1>2, <1>3, <1>4 DEF IInv, NoStaleDescriptor
<1>7. Restricted'
  BY <1>4 DEF IInv, Restricted
<1> QED BY <1>1, <1>4, <1>5, <1>6, <1>7, SameGrab

LEMMA KillClientIInv == ASSUME IInv, NEW c \in Clients, KillClient(c) PROVE IInv'
<1>0. Execute(c, "kill")
  BY DEF KillClient
<1>1. PICK d \in open : CloseDownClient(d) /\ IF d = c THEN Break ELSE Return
  BY DEF KillClient
<1>2. /\ current = c /\ c # Nobody /\ taken' = FALSE
      /\ UNCHANGED <<ready, alive, connects, sent>>
      /\ current' \in {c, Nobody} /\ current' # d
  BY <1>0, <1>1, ExecuteEffect DEF IInv, TypeOK
<1> QED BY <1>1, <1>2, CloseDownIInv

LEMMA ImperviousIInv == ASSUME IInv, NEW c \in Clients, Impervious(c) PROVE IInv'
<1>0. Execute(c, "impervious") /\ Return
  BY DEF Impervious
<1>1. /\ current = c /\ c \in open /\ fds \in Fds /\ taken' = FALSE
      /\ UNCHANGED <<alive, connects, sent, ready, open, asleep, sock, buf, redo, grab>>
      /\ current' \in {c, Nobody}
  BY <1>0, ExecuteEffect DEF Impervious, input
<1>2. /\ fds' \in Fds /\ fds'.grab = fds.grab /\ fds'.impervious = fds.impervious \cup {c}
      /\ fds'.all = fds.all /\ fds'.input = fds.input
      /\ fds'.saved = fds.saved /\ fds'.savedInput = fds.savedInput
  BY <1>1 DEF Impervious, MakeClientGrabImpervious
<1>3. TypeOK'
  BY <1>1, <1>2 DEF IInv, TypeOK
<1>4. NoStaleDescriptor' /\ Restricted'
  BY <1>1, <1>2 DEF IInv, NoStaleDescriptor, Restricted
<1> QED BY <1>1, <1>2, <1>3, <1>4, SameGrab

LEMMA PerviousIInv == ASSUME IInv, NEW c \in Clients, Pervious(c) PROVE IInv'
<1>0. Execute(c, "pervious") /\ current' \in {current, Nobody}
      /\ (InProgress(fds) /\ fds.grab # c => current' = Nobody)
  BY DEF Pervious, Break, Return, Yield
<1>1. /\ current = c /\ c \in open /\ fds \in Fds /\ taken' = FALSE
      /\ UNCHANGED <<alive, connects, sent, ready, open, asleep, sock, buf, redo, grab>>
  BY <1>0, ExecuteEffect DEF Pervious, input
<1>2. /\ fds' \in Fds /\ fds'.grab = fds.grab /\ fds'.impervious = fds.impervious \ {c}
      /\ fds'.all \subseteq fds.all /\ fds'.input \subseteq fds.input
      /\ InProgress(fds) /\ fds.grab # c => c \notin fds'.all \cup fds'.input
      /\ fds'.saved = fds.saved /\ fds'.savedInput \subseteq fds.savedInput \cup {c}
  <2>1. fds' = MakeClientGrabPervious(fds, c)
    BY DEF Pervious
  <2>2. CASE InProgress(fds) /\ fds.grab # c
    BY <1>1, <2>1, <2>2 DEF MakeClientGrabPervious
  <2>3. CASE ~(InProgress(fds) /\ fds.grab # c)
    BY <1>1, <2>1, <2>3 DEF MakeClientGrabPervious
  <2> QED BY <2>2, <2>3
<1>3. TypeOK'
  BY <1>0, <1>1, <1>2 DEF IInv, TypeOK
<1>4. NoStaleDescriptor' /\ Restricted'
  BY <1>1, <1>2 DEF IInv, NoStaleDescriptor, Restricted
<1> QED BY <1>0, <1>1, <1>2, <1>3, <1>4, SameGrab

LEMMA NextIInv == IInv /\ [Next]_vars => IInv'
<1> SUFFICES ASSUME IInv, [Next]_vars PROVE IInv'
  OBVIOUS
<1>1. CASE WaitForSomething
  BY <1>1, WaitIInv
<1>2. ASSUME NEW c \in Clients, Pick(c) \/ ReadRequestFromClient(c) PROVE IInv'
  BY <1>2, PickIInv, ReadIInv
<1>3. ASSUME NEW c \in Clients, Request(c) PROVE IInv'
  BY <1>3, PlainIInv, GrabServerIInv, WaitForGrabIInv, UngrabServerIInv, SleepIInv,
     SignalIInv, KillClientIInv, ImperviousIInv, PerviousIInv DEF Request
<1>4. ASSUME NEW c \in Clients, Accept(c) \/ Wakeup(c) \/ Send(c) \/ Exit(c) PROVE IInv'
  BY <1>4, AcceptIInv, WakeupIInv, SendIInv, ExitIInv
<1>5. CASE UNCHANGED vars
  BY <1>5 DEF vars, client, input, round, IInv, TypeOK, GrabsAgree, NoStaleDescriptor,
     Restricted, CurrentOpen, CurrentAllowed, ReadyAllowed
<1> QED BY <1>1, <1>2, <1>3, <1>4, <1>5 DEF Next, Serve

THEOREM Invariance == Spec => []IInv
  BY InitIInv, NextIInv, PTL DEF Spec

-----------------------------------------------------------------------------
(* Where a connection and its input are kept.  In each grab the sets that  *)
(* were saved before it stand for the live ones, which have to hold every  *)
(* client that is served (ICurrent, IReady) or has input (IInput, ISaved); *)
(* one that may become pervious must be in what was saved (IKept).         *)
Held == asleep \cup grab.waiters

IHeard(c)   == c \notin Held => c \in fds.all \/ (InProgress(fds) /\ c \in fds.saved)
ICurrent(c) == current = c => c \in fds.all
IInput(c)   == c \in fds.input => c \in fds.all
ISaved(c)   == InProgress(fds) /\ c \in fds.savedInput => c \in fds.saved
IReady(c)   == c \in ready => c \in fds.all \/ (grab.state = "kickout" /\ c \in fds.saved)
IKept(c)    == {"impervious", "pervious"} \subseteq scene.may[c] =>
                 IF InProgress(fds) THEN c \in fds.saved ELSE c \in fds.all
IMore(c)    == current = c /\ taken /\ buf[c] > 0 => c \in fds.input
IRemembered(c) ==
  buf[c] > 0 => \/ c \in fds.input \/ current = c
                \/ InProgress(fds) /\ c \in fds.savedInput
                \/ c \in fds.ignored \cap Held

Place(c) == /\ IHeard(c) /\ ICurrent(c) /\ IInput(c) /\ ISaved(c)
            /\ IReady(c) /\ IKept(c) /\ IMore(c) /\ IRemembered(c)

\* What is known of all clients.
Known == /\ scene \in Scenarios
         /\ \A c \in asleep : "sleep" \in scene.may[c]
         /\ \A c \in fds.impervious : "impervious" \in scene.may[c]
         /\ \A c \in Clients \ open : buf[c] = 0

PInv == Known /\ \A c \in open : ~Lapses(c) => Place(c)

USE DEF Held, IHeard, ICurrent, IInput, ISaved, IReady, IKept, IMore, IRemembered

LEMMA InitPInv == Init => PInv
BY DEF Init, PInv, Known

\* Two states of the sets are the same for a client.
Same(f, g, c) == /\ c \in f.all <=> c \in g.all
                 /\ c \in f.input <=> c \in g.input
                 /\ c \in f.saved <=> c \in g.saved
                 /\ c \in f.savedInput <=> c \in g.savedInput
                 /\ c \in f.ignored <=> c \in g.ignored

(* An operator on the descriptor of one client is none on that of another. *)
LEMMA OthersSame ==
  ASSUME NEW f \in Fds, NEW d \in Clients, NEW c \in Clients \ {d}
  PROVE  /\ Same(f, IgnoreClient(f, d), c) /\ Same(f, AttendClient(f, d), c)
         /\ Same(f, ResetCurrentRequest(f, d), c)
         /\ \A b \in BOOLEAN : Same(f, MarkInput(f, d, b), c)
         /\ Same(f, MakeClientGrabPervious(f, d), c) /\ Same(f, AllocNewConnection(f, d), c)
         /\ Same(f, CloseDownFileDescriptor(f, d), c)
<1>1. Same(f, IgnoreClient(f, d), c)
  BY DEF Same, IgnoreClient, With
<1>2. Same(f, AttendClient(f, d), c)
  BY DEF Same, AttendClient
<1>3. ASSUME NEW b \in BOOLEAN PROVE Same(f, MarkInput(f, d, b), c)
  BY DEF Same, MarkInput, With
<1>4. Same(f, ResetCurrentRequest(f, d), c)
  BY DEF Same, ResetCurrentRequest
<1>5. Same(f, MakeClientGrabPervious(f, d), c)
  BY DEF Same, MakeClientGrabPervious
<1>6. Same(f, AllocNewConnection(f, d), c)
  BY DEF Same, AllocNewConnection
<1>7. Same(f, CloseDownFileDescriptor(f, d), c)
  BY DEF Same, CloseDownFileDescriptor
<1> QED BY <1>1, <1>2, <1>3, <1>4, <1>5, <1>6, <1>7

(* A client keeps its place in a step that does not change what is kept of *)
(* it, unless it is served and has not been read.                          *)
LEMMA SamePlace ==
  ASSUME NEW c \in open, Place(c), Same(fds, fds', c), InProgress(fds') <=> InProgress(fds),
         c \in Held' <=> c \in Held, buf'[c] = buf[c], scene' = scene,
         ready' \subseteq ready, grab'.state = grab.state,
         current' = c => current = c, taken' /\ current' = c => taken,
         current = c => taken \/ current' = c
  PROVE  Place(c)'
BY DEF Place, Same

(* The clients that sets other than these are about.                       *)
LEMMA KnownKept ==
  ASSUME PInv, scene' = scene, asleep' \subseteq asleep, fds'.impervious \subseteq fds.impervious,
         \A c \in Clients \ open' : buf'[c] = 0
  PROVE  Known'
BY DEF PInv, Known

(* The end of a grab puts every place where it is without one.             *)
LEMMA ListenPlace ==
  ASSUME IInv, NEW c \in open, Place(c), NEW f, f = ListenToAllClients(fds)
  PROVE  /\ f \in Fds /\ ~InProgress(f) /\ f.impervious = fds.impervious
         /\ c \notin Held => c \in f.all
         /\ current = c \/ c \in ready \/ c \in f.input => c \in f.all
         /\ {"impervious", "pervious"} \subseteq scene.may[c] => c \in f.all
         /\ current = c /\ taken /\ buf[c] > 0 => c \in f.input
         /\ buf[c] > 0 => c \in f.input \/ current = c \/ c \in f.ignored \cap Held
<1>1. CASE InProgress(fds)
  BY <1>1 DEF IInv, TypeOK, ListenToAllClients, Place
<1>2. CASE ~InProgress(fds)
  BY <1>2 DEF IInv, TypeOK, GrabsAgree, ListenToAllClients, Place
<1> QED BY <1>1, <1>2

LEMMA UngrabPlace ==
  ASSUME IInv, NEW c \in open, Place(c),
         NEW f, NEW g, f = UngrabbedFds(grab, fds), g = Ungrabbed(grab)
  PROVE  /\ f \in Fds /\ ~InProgress(f) /\ f.impervious = fds.impervious
         /\ c \notin asleep \cup g.waiters => c \in f.all
         /\ current = c \/ c \in ready \/ c \in f.input => c \in f.all
         /\ {"impervious", "pervious"} \subseteq scene.may[c] => c \in f.all
         /\ current = c /\ taken /\ buf[c] > 0 => c \in f.input
         /\ buf[c] > 0 => c \in f.input \/ current = c \/ c \in f.ignored \cap (asleep \cup g.waiters)
<1> DEFINE h == ListenToAllClients(fds)
<1>0. c \in Clients
  BY DEF IInv, TypeOK
<1>1. /\ h \in Fds /\ ~InProgress(h) /\ h.impervious = fds.impervious
      /\ c \notin Held => c \in h.all
      /\ current = c \/ c \in ready \/ c \in h.input => c \in h.all
      /\ {"impervious", "pervious"} \subseteq scene.may[c] => c \in h.all
      /\ current = c /\ taken /\ buf[c] > 0 => c \in h.input
      /\ buf[c] > 0 => c \in h.input \/ current = c \/ c \in h.ignored \cap Held
  BY ListenPlace
<1> HIDE DEF h
<1>2. CASE grab.waiters = {}
  <2>1. f = h /\ g.waiters = {}
    BY <1>2 DEF UngrabbedFds, Ungrabbed, h, IInv, TypeOK
  <2> QED BY <1>1, <1>2, <2>1
<1>3. CASE grab.waiters # {}
  <2> DEFINE w == First(grab.waiters)
  <2>1. w \in Clients /\ w \in grab.waiters
    BY <1>3, FirstIn DEF IInv, TypeOK
  <2>2. f = AttendClient(h, w) /\ g.waiters = grab.waiters \ {w}
    BY <1>3 DEF UngrabbedFds, Ungrabbed, h, IInv, TypeOK
  <2> HIDE DEF w
  <2>0. h \in Fds /\ ~InProgress(h) /\ h.impervious = fds.impervious
    BY <1>1
  <2>3. f \in Fds /\ ~InProgress(f) /\ f.impervious = fds.impervious
    BY <2>0, <2>1, <2>2, AttendFree
  <2>4. CASE c # w
    <3>1. c \in Clients \ {w}
      BY <1>0, <2>4
    <3>2. Same(h, AttendClient(h, w), c)
      BY <2>0, <2>1, <3>1, OthersSame, Zenon
    <3>3. Same(h, f, c)
      BY <2>2, <3>2, Zenon
    <3> QED BY <1>1, <2>2, <2>3, <2>4, <3>3 DEF Same
  <2>5. CASE c = w
    <3>1. c \in f.all /\ (c \in f.input <=> c \in h.input \/ c \in h.ignored)
      BY <1>0, <2>0, <2>2, <2>5 DEF AttendClient
    <3> QED BY <1>1, <2>2, <2>3, <2>5, <3>1
  <2> QED BY <2>4, <2>5
<1> QED BY <1>2, <1>3

-----------------------------------------------------------------------------
(* Each step keeps the places.                                             *)
LEMMA ClosePInv ==
  ASSUME IInv, PInv, NEW d \in open, CloseDownClient(d), UNCHANGED <<scene, ready>>,
         current' \in {current, Nobody}, current' # d, taken' = FALSE, current = d \/ taken
  PROVE  PInv'
<1>0. /\ d \in Clients /\ open' = open \ {d} /\ asleep' = asleep \ {d} /\ Nobody \notin Clients
      /\ open \subseteq Clients /\ \A c \in Clients \ {d} : buf'[c] = buf[c]
      /\ buf'[d] = 0
  BY DEF IInv, TypeOK, CloseDownClient
<1> DEFINE g == Ungrabbed(grab)
           f == UngrabbedFds(grab, fds)
<1>1. /\ g \in Grab /\ g.state = "none" /\ g.waiters \subseteq grab.waiters
      /\ f \in Fds /\ f.grab = Nobody /\ f.impervious = fds.impervious
  BY UngrabEffect
<1>2. /\ Holds(grab, d) => /\ grab' = [g EXCEPT !.waiters = @ \ {d}]
                           /\ fds' = CloseDownFileDescriptor(f, d)
      /\ ~Holds(grab, d) => /\ grab' = [grab EXCEPT !.waiters = @ \ {d}]
                            /\ fds' = CloseDownFileDescriptor(fds, d)
  BY DEF CloseDownClient
<1>3. ASSUME NEW c \in open', ~Lapses(c)', Holds(grab, d) PROVE Place(c)'
  <2>1. Place(c) /\ c \in Clients \ {d} /\ c # Nobody
    BY <1>0, <1>3 DEF PInv, Lapses
  <2>2. /\ c \notin asleep \cup g.waiters => c \in f.all
        /\ current = c \/ c \in ready \/ c \in f.input => c \in f.all
        /\ {"impervious", "pervious"} \subseteq scene.may[c] => c \in f.all
        /\ current = c /\ taken /\ buf[c] > 0 => c \in f.input
        /\ buf[c] > 0 => c \in f.input \/ current = c \/ c \in f.ignored \cap (asleep \cup g.waiters)
    BY <1>0, <1>3, <2>1, UngrabPlace
  <2> HIDE DEF f, g
  <2>3. Same(f, fds', c)
    BY <1>0, <1>1, <1>2, <1>3, <2>1, OthersSame
  <2>4. fds'.grab = Nobody /\ grab'.state = "none" /\ grab'.waiters = g.waiters \ {d}
    BY <1>1, <1>2, <1>3 DEF CloseDownFileDescriptor
  <2> QED BY <1>0, <2>1, <2>2, <2>3, <2>4 DEF Place, Same
<1>4. ASSUME NEW c \in open', ~Lapses(c)', ~Holds(grab, d) PROVE Place(c)'
  <2> HIDE DEF f, g
  <2>1. Place(c) /\ c \in Clients \ {d} /\ c \in open /\ fds \in Fds
    BY <1>0, <1>4 DEF PInv, Lapses, IInv, TypeOK
  <2>2. Same(fds, fds', c) /\ fds'.grab = fds.grab
    <3>1. fds' = CloseDownFileDescriptor(fds, d)
      BY <1>2, <1>4
    <3>2. fds'.grab = fds.grab
      BY <2>1, <3>1 DEF CloseDownFileDescriptor
    <3> QED BY <1>0, <2>1, <3>1, <3>2, OthersSame
  <2>3. grab'.state = grab.state /\ grab'.waiters = grab.waiters \ {d}
    BY <1>2, <1>4 DEF IInv, TypeOK
  <2> QED BY <1>0, <2>1, <2>2, <2>3, SamePlace
<1>5. fds'.impervious \subseteq fds.impervious
  <2> HIDE DEF f, g
  <2>1. \A h \in Fds : CloseDownFileDescriptor(h, d).impervious \subseteq h.impervious
    BY DEF CloseDownFileDescriptor
  <2>2. fds \in Fds
    BY DEF IInv, TypeOK
  <2> QED BY <1>1, <1>2, <2>1, <2>2
<1>6. Known'
  <2>1. \A c \in Clients \ open' : buf'[c] = 0
    BY <1>0 DEF PInv, Known
  <2> QED BY <1>0, <1>5, <2>1, KnownKept
<1> QED BY <1>3, <1>4, <1>6 DEF PInv

(* Steps that do not touch the sets, the grab or what is in the buffers.   *)
LEMMA AsidePInv ==
  ASSUME IInv, PInv, NEW c \in Clients, scene' = scene, Send(c) \/ Exit(c) \/ Plain(c)
  PROVE  PInv'
<1>1. /\ UNCHANGED <<open, buf, asleep, grab, fds, ready>> /\ current' \in {current, Nobody}
      /\ (current' = current /\ taken' = taken) \/ (taken /\ taken' = FALSE)
  <2>1. CASE Send(c) \/ Exit(c)
    BY <2>1 DEF Send, Exit, round, input
  <2>2. CASE Plain(c)
    BY <2>2, ExecuteEffect DEF Plain, Execute, input
  <2> QED BY <2>1, <2>2
<1>2. ASSUME NEW d \in open, ~Lapses(d)' PROVE Place(d)'
  <2>1. Place(d) /\ d # Nobody
    BY <1>2 DEF PInv, Lapses, IInv, TypeOK
  <2>2. Same(fds, fds', d)
    BY <1>1 DEF Same
  <2> QED BY <1>1, <2>1, <2>2, SamePlace
<1>3. Known'
  BY <1>1 DEF PInv, Known
<1> QED BY <1>1, <1>2, <1>3 DEF PInv

LEMMA ImperviousPInv ==
  ASSUME IInv, PInv, NEW c \in Clients, scene' = scene, Impervious(c)
  PROVE  PInv'
<1>0. Execute(c, "impervious") /\ Return
  BY DEF Impervious
<1>1. /\ UNCHANGED <<open, buf, asleep, grab, ready>> /\ current' \in {current, Nobody}
      /\ taken /\ taken' = FALSE /\ fds' = [fds EXCEPT !.impervious = @ \cup {c}]
      /\ fds \in Fds
  BY <1>0, ExecuteEffect DEF Impervious, MakeClientGrabImpervious, input, Execute
<1>2. ASSUME NEW d \in open, ~Lapses(d)' PROVE Place(d)'
  <2>1. Place(d) /\ d # Nobody
    BY <1>2 DEF PInv, Lapses, IInv, TypeOK
  <2>2. Same(fds, fds', d) /\ fds'.grab = fds.grab
    BY <1>1 DEF Same
  <2>3. /\ (InProgress(fds') <=> InProgress(fds)) /\ (d \in Held' <=> d \in Held)
        /\ buf'[d] = buf[d] /\ ready' \subseteq ready /\ grab'.state = grab.state
    BY <1>1, <2>2
  <2>4. /\ current' = d => current = d
        /\ taken' /\ current' = d => taken
        /\ current = d => taken \/ current' = d
    BY <1>1, <2>1
  <2> QED BY <2>1, <2>2, <2>3, <2>4, SamePlace
<1>3. "impervious" \in scene.may[c] \/ c \in redo
  BY <1>0 DEF Execute
<1>4. c \notin redo
  BY <1>0 DEF Execute
<1>5. Known'
  BY <1>1, <1>3, <1>4 DEF PInv, Known
<1> QED BY <1>1, <1>2, <1>5 DEF PInv

LEMMA WaitPInv == ASSUME IInv, PInv, scene' = scene, WaitForSomething PROVE PInv'
<1>1. /\ UNCHANGED <<open, buf, asleep, grab, fds, current, taken>> /\ current = Nobody
      /\ ready' \subseteq fds.all \cup fds.input
  BY DEF WaitForSomething, Readable, input, client, BetweenRounds
<1>2. ASSUME NEW d \in open, ~Lapses(d)' PROVE Place(d)'
  <2>1. Place(d) /\ d # Nobody
    BY <1>2 DEF PInv, Lapses, IInv, TypeOK
  <2> QED BY <1>1, <2>1 DEF Place
<1>3. Known'
  BY <1>1 DEF PInv, Known
<1> QED BY <1>1, <1>2, <1>3 DEF PInv

LEMMA PickPInv == ASSUME IInv, PInv, scene' = scene, NEW c \in Clients, Pick(c) PROVE PInv'
<1>1. UNCHANGED <<open, buf, asleep, fds, taken>> /\ current = Nobody /\ taken = FALSE
      /\ grab'.waiters = grab.waiters
  BY DEF Pick, input, client, IInv, CurrentOpen, TypeOK
<1>2. CASE c \in open /\ grab.state = "kickout"
  <2>1. ready' = {} /\ current' = Nobody
    BY <1>1, <1>2 DEF Pick
  <2>2. ASSUME NEW d \in open, ~Lapses(d)' PROVE Place(d)'
    <3>1. Place(d) /\ d # Nobody
      BY <2>2 DEF PInv, Lapses, IInv, TypeOK
    <3> QED BY <1>1, <2>1, <3>1 DEF Place
  <2> QED BY <1>1, <2>2 DEF PInv, Known
<1>3. CASE ~(c \in open /\ grab.state = "kickout")
  <2>1. /\ ready' = ready \ {c} /\ current' = IF c \in open THEN c ELSE Nobody
        /\ c \in ready /\ grab' = grab
    BY <1>3 DEF Pick
  <2>2. ASSUME NEW d \in open, ~Lapses(d)' PROVE Place(d)'
    <3>1. Place(d) /\ d # Nobody
      BY <2>2 DEF PInv, Lapses, IInv, TypeOK
    <3> QED BY <1>1, <1>3, <2>1, <3>1 DEF Place
  <2> QED BY <1>1, <2>1, <2>2 DEF PInv, Known
<1> QED BY <1>2, <1>3

LEMMA ReadPInv == ASSUME IInv, PInv, scene' = scene, NEW c \in Clients, ReadRequestFromClient(c) PROVE PInv'
<1>0. /\ current = c /\ c \in open /\ fds \in Fds /\ c # Nobody /\ ~taken /\ taken = FALSE
      /\ UNCHANGED ready /\ buf \in [Clients -> Nat] /\ open \subseteq Clients
  BY DEF IInv, TypeOK, CurrentOpen, ReadRequestFromClient
<1>1. ASSUME NEW b \in BOOLEAN, fds' = MarkInput(fds, c, b), UNCHANGED <<open, asleep, grab>>,
             \A d \in Clients \ {c} : buf'[d] = buf[d], buf'[c] > 0 => b,
             (current' = c /\ taken' = TRUE) \/ (current' = Nobody /\ taken' = taken)
      PROVE  PInv'
  <2>1. ASSUME NEW d \in open \ {c}, ~Lapses(d)' PROVE Place(d)'
    <3>1. Place(d) /\ d \in Clients \ {c}
      BY <1>0, <2>1 DEF PInv, Lapses
    <3>2. Same(fds, fds', d) /\ fds'.grab = fds.grab
      BY <1>0, <1>1, <3>1, OthersSame DEF MarkInput
    <3>3. /\ d \in open /\ d # c /\ current' # d /\ d # Nobody
          /\ (d \in Held' <=> d \in Held) /\ buf'[d] = buf[d] /\ grab'.state = grab.state
      BY <1>0, <1>1, <2>1, <3>1
    <3>4. (InProgress(fds') <=> InProgress(fds)) /\ ready' \subseteq ready
      BY <1>0, <3>2
    <3> QED BY <1>0, <3>1, <3>2, <3>3, <3>4, SamePlace
  <2>2. ASSUME ~Lapses(c)' PROVE Place(c)'
    <3>1. Place(c)
      BY <1>0, <2>2 DEF PInv, Lapses
    <3>2. /\ fds'.all = fds.all /\ fds'.saved = fds.saved /\ fds'.savedInput = fds.savedInput
          /\ fds'.grab = fds.grab /\ (c \in fds'.input <=> b)
      BY <1>0, <1>1 DEF MarkInput, With
    <3> QED BY <1>0, <1>1, <3>1, <3>2 DEF Place
  <2>3. fds'.impervious = fds.impervious
    BY <1>0, <1>1 DEF MarkInput
  <2>4. Known'
    BY <1>0, <1>1, <2>3 DEF PInv, Known
  <2> QED BY <1>1, <2>1, <2>2, <2>4 DEF PInv
<1>2. ASSUME NEW n \in 0 .. sock[c], buf' = [buf EXCEPT ![c] = Left(@, n)],
             fds' = MarkInput(fds, c, buf[c] + n > 1), taken' = TRUE,
             UNCHANGED <<open, asleep, redo, grab, current>>
      PROVE  PInv'
  <2>1. buf'[c] = buf[c] + n - 1 /\ buf[c] \in Nat /\ n \in Nat
    BY <1>0, <1>2 DEF Left, IInv, TypeOK
  <2>2. /\ buf'[c] > 0 => buf[c] + n > 1
        /\ (buf[c] + n > 1) \in BOOLEAN /\ \A d \in Clients \ {c} : buf'[d] = buf[d]
    BY <1>0, <1>2, <2>1
  <2> QED BY <1>0, <1>1, <1>2, <2>2
<1>3. ASSUME fds' = MarkInput(fds, c, FALSE), Break, buf[c] = 0,
             UNCHANGED <<open, sock, buf, asleep, redo, grab, taken>>
      PROVE  PInv'
  <2>1. buf'[c] > 0 => FALSE
    BY <1>3
  <2>2. current' = Nobody /\ taken' = taken /\ \A d \in Clients \ {c} : buf'[d] = buf[d]
    BY <1>3 DEF Break
  <2> QED BY <1>1, <1>3, <2>1, <2>2
<1>4. ASSUME CloseDownClient(c), Break, UNCHANGED taken PROVE PInv'
  BY <1>0, <1>4, ClosePInv DEF Break
<1> QED BY <1>2, <1>3, <1>4 DEF ReadRequestFromClient

(* A step about one client c: the others keep their places.                *)
LEMMA OnePInv ==
  ASSUME IInv, PInv, scene' = scene, NEW c \in Clients,
         fds'.grab = fds.grab, grab'.state = grab.state, ready' \subseteq ready,
         open' \ {c} \subseteq open,
         \A d \in open \ {c} : /\ Same(fds, fds', d) /\ buf'[d] = buf[d]
                               /\ (d \in Held' <=> d \in Held),
         current' \in {current, Nobody}, taken' => taken, current' = current \/ taken,
         c \in open' /\ ~Lapses(c) => Place(c)', Known'
  PROVE  PInv'
<1>1. ASSUME NEW d \in open', ~Lapses(d)', d # c PROVE Place(d)'
  <2>1. d \in open /\ Place(d) /\ d # Nobody
    BY <1>1 DEF PInv, Lapses, IInv, TypeOK
  <2>2. Same(fds, fds', d) /\ buf'[d] = buf[d] /\ (d \in Held' <=> d \in Held)
    BY <1>1, <2>1
  <2>3. InProgress(fds') <=> InProgress(fds)
    OBVIOUS
  <2>4. /\ current' = d => current = d
        /\ taken' /\ current' = d => taken
        /\ current = d => taken \/ current' = d
    BY <2>1
  <2> QED BY <2>1, <2>2, <2>3, <2>4, SamePlace
<1>2. ASSUME NEW d \in open', ~Lapses(d)' PROVE Place(d)'
  <2>1. ~Lapses(d)
    BY <1>2 DEF Lapses
  <2> QED BY <1>1, <1>2, <2>1
<1> QED BY <1>2 DEF PInv

(* A client that is attended to has its place.                             *)
LEMMA AttendPInv ==
  ASSUME IInv, PInv, scene' = scene, NEW c \in asleep,
         asleep' = asleep \ {c}, fds' = AttendClient(fds, c),
         UNCHANGED <<open, buf, grab, ready>>,
         current' \in {current, Nobody}, taken' => taken, current' = current \/ taken
  PROVE  PInv'
<1>0. c \in open /\ c \in Clients /\ fds \in Fds /\ c # Nobody
  BY DEF IInv, TypeOK, NoStaleDescriptor
<1>1. fds'.grab = fds.grab /\ fds'.impervious = fds.impervious
  BY <1>0, AttendEffect
<1>2. ASSUME NEW d \in open \ {c}
      PROVE  Same(fds, fds', d) /\ buf'[d] = buf[d] /\ (d \in Held' <=> d \in Held)
  <2>1. d \in Clients \ {c}
    BY DEF IInv, TypeOK
  <2> QED BY <1>0, <2>1, OthersSame
<1>3. ASSUME Place(c) PROVE Place(c)'
  <2>1. CASE ~InProgress(fds) \/ fds.grab = c \/ c \in fds.impervious
    <3>1. /\ c \in fds'.all /\ (c \in fds'.input <=> c \in fds.input \/ c \in fds.ignored)
          /\ fds'.saved = fds.saved /\ fds'.savedInput = fds.savedInput
      BY <1>0, <2>1 DEF AttendClient
    <3> QED BY <1>0, <1>1, <1>3, <3>1 DEF Place
  <2>2. CASE ~(~InProgress(fds) \/ fds.grab = c \/ c \in fds.impervious)
    <3>1. /\ c \in fds'.saved /\ fds'.all = fds.all /\ fds'.input = fds.input
          /\ (c \in fds'.savedInput <=> c \in fds.savedInput \/ c \in fds.ignored)
          /\ InProgress(fds) /\ InProgress(fds')
      BY <1>0, <1>1, <2>2 DEF AttendClient
    <3> QED BY <1>0, <1>1, <1>3, <3>1 DEF Place
  <2> QED BY <2>1, <2>2
<1>4. ~Lapses(c) => Place(c)
  BY <1>0 DEF PInv
<1>5. Known'
  BY <1>1 DEF PInv, Known
<1> QED BY <1>0, <1>1, <1>2, <1>3, <1>4, <1>5, OnePInv

LEMMA WakeupPInv == ASSUME IInv, PInv, scene' = scene, NEW c \in Clients, Wakeup(c) PROVE PInv'
<1>1. c \in asleep /\ UNCHANGED <<open, buf, grab, ready, current, taken>>
  BY DEF Wakeup, client, input, round
<1> QED BY <1>1, AttendPInv DEF Wakeup

LEMMA SignalPInv == ASSUME IInv, PInv, scene' = scene, NEW c \in Clients, Signal(c) PROVE PInv'
<1>0. Execute(c, "signal") /\ Return
  BY DEF Signal
<1>1. /\ UNCHANGED <<open, buf, grab, ready>> /\ current' \in {current, Nobody}
      /\ taken /\ taken' = FALSE
  BY <1>0, ExecuteEffect DEF Signal, Execute, input
<1>2. PICK d \in asleep : asleep' = asleep \ {d} /\ fds' = AttendClient(fds, d)
  BY DEF Signal
<1> QED BY <1>1, <1>2, AttendPInv

LEMMA AcceptPInv == ASSUME IInv, PInv, scene' = scene, NEW c \in Clients, Accept(c) PROVE PInv'
<1>0. /\ c \notin open /\ open' = open \cup {c} /\ fds' = AllocNewConnection(fds, c)
      /\ UNCHANGED <<buf, asleep, grab, ready, current, taken>>
      /\ ready = {} /\ current = Nobody /\ c # Nobody /\ fds \in Fds
  BY DEF Accept, BetweenRounds, round, input, IInv, TypeOK
<1>1. fds'.grab = fds.grab /\ fds'.impervious = fds.impervious
  BY <1>0 DEF AllocNewConnection
<1>2. ASSUME NEW d \in open \ {c}
      PROVE  Same(fds, fds', d) /\ buf'[d] = buf[d] /\ (d \in Held' <=> d \in Held)
  <2>1. d \in Clients \ {c}
    BY DEF IInv, TypeOK
  <2> QED BY <1>0, <2>1, OthersSame
<1>3. Place(c)'
  <2>1. buf[c] = 0 /\ c \notin fds.input /\ (InProgress(fds) => c \notin fds.savedInput)
    BY <1>0 DEF PInv, Known, IInv, NoStaleDescriptor
  <2>2. /\ fds'.input = fds.input /\ fds'.savedInput = fds.savedInput
        /\ IF InProgress(fds') THEN c \in fds'.saved ELSE c \in fds'.all
    BY <1>0 DEF AllocNewConnection
  <2> QED BY <1>0, <1>1, <2>1, <2>2 DEF Place
<1>4. Known'
  BY <1>0, <1>1 DEF PInv, Known
<1> QED BY <1>0, <1>1, <1>2, <1>3, <1>4, OnePInv

LEMMA SleepPInv == ASSUME IInv, PInv, scene' = scene, NEW c \in Clients, Sleep(c) PROVE PInv'
<1>0. Execute(c, "sleep") /\ Break
  BY DEF Sleep
<1>1. /\ UNCHANGED <<open, buf, grab, ready>> /\ current = c /\ current' = Nobody
      /\ taken /\ taken' = FALSE /\ asleep' = asleep \cup {c} /\ fds' = IgnoreClient(fds, c)
      /\ c \in open /\ c # Nobody /\ fds \in Fds /\ c \notin ready
  BY <1>0, ExecuteEffect DEF Sleep, Execute, input, IInv, CurrentOpen
<1>2. fds'.grab = fds.grab /\ fds'.impervious = fds.impervious
  BY <1>1, IgnoreEffect
<1>3. ASSUME NEW d \in open \ {c}
      PROVE  Same(fds, fds', d) /\ buf'[d] = buf[d] /\ (d \in Held' <=> d \in Held)
  <2>1. d \in Clients \ {c}
    BY DEF IInv, TypeOK
  <2> QED BY <1>1, <2>1, OthersSame
<1>4. "sleep" \in scene.may[c]
  BY <1>0 DEF Execute
<1>5. ASSUME ~Lapses(c) PROVE Place(c)'
  <2>1. Place(c) /\ ~({"impervious", "pervious"} \subseteq scene.may[c])
    BY <1>1, <1>4, <1>5 DEF PInv, Lapses
  <2>2. c \in fds.all
    BY <1>1, <2>1 DEF Place
  <2>3. /\ c \notin fds'.input /\ (c \in fds.input => c \in fds'.ignored)
        /\ fds'.saved = fds.saved /\ fds'.savedInput = fds.savedInput
    BY <1>1, <2>2 DEF IgnoreClient, With
  <2> QED BY <1>1, <1>2, <2>1, <2>3 DEF Place
<1>6. Known'
  BY <1>1, <1>2, <1>4 DEF PInv, Known
<1>7. grab'.state = grab.state /\ open' \ {c} \subseteq open /\ ready' \subseteq ready
  BY <1>1
<1> QED BY <1>1, <1>2, <1>3, <1>5, <1>6, <1>7, OnePInv

LEMMA WaitForGrabPInv == ASSUME IInv, PInv, scene' = scene, NEW c \in Clients, WaitForGrab(c) PROVE PInv'
<1>0. Execute(c, "grab") /\ Break
  BY DEF WaitForGrab
<1> DEFINE f == ResetCurrentRequest(fds, c)
<1>1. /\ UNCHANGED <<open, asleep, ready>> /\ current = c /\ current' = Nobody
      /\ taken /\ taken' = FALSE /\ fds' = IgnoreClient(f, c)
      /\ grab' = [grab EXCEPT !.waiters = @ \cup {c}] /\ grab \in Grab
      /\ c \in open /\ c # Nobody /\ fds \in Fds /\ c \notin ready /\ grab.state # "none"
  BY <1>0, ExecuteEffect DEF WaitForGrab, Execute, input, IInv, CurrentOpen
<1>2. /\ f \in Fds /\ f.grab = fds.grab /\ f.impervious = fds.impervious /\ f.all = fds.all
      /\ f.saved = fds.saved /\ f.savedInput = fds.savedInput
      /\ c \in fds.all => c \in f.input
  BY <1>1 DEF ResetCurrentRequest
<1>3. ASSUME NEW d \in open \ {c} PROVE Same(fds, f, d)
  <2>1. d \in Clients \ {c}
    BY DEF IInv, TypeOK
  <2> QED BY <1>1, <2>1, OthersSame
<1> HIDE DEF f
<1>4. fds'.grab = fds.grab /\ fds'.impervious = fds.impervious
  BY <1>1, <1>2, IgnoreEffect
<1>5. /\ grab'.state = grab.state /\ grab'.waiters = grab.waiters \cup {c}
      /\ buf' = [buf EXCEPT ![c] = @ + 1]
  BY <1>1 DEF WaitForGrab
<1>6. ASSUME NEW d \in open \ {c}
      PROVE  Same(fds, fds', d) /\ buf'[d] = buf[d] /\ (d \in Held' <=> d \in Held)
  <2>1. d \in Clients \ {c} /\ buf'[d] = buf[d]
    BY <1>5 DEF IInv, TypeOK
  <2>2. Same(f, fds', d)
    BY <1>1, <1>2, <2>1, OthersSame
  <2>3. Same(fds, fds', d)
    BY <1>3, <2>2 DEF Same
  <2> QED BY <1>1, <1>5, <2>1, <2>3
<1>7. ASSUME ~Lapses(c) PROVE Place(c)'
  <2>1. Place(c)
    BY <1>1, <1>7 DEF PInv
  <2>2. c \in fds.all
    BY <1>1, <2>1 DEF Place
  <2>3. /\ c \notin fds'.input /\ c \in fds'.ignored
        /\ fds'.saved = fds.saved /\ fds'.savedInput = fds.savedInput
    BY <1>1, <1>2, <2>2 DEF IgnoreClient, With
  <2>4. InProgress(fds) /\ c \in Held'
    BY <1>1, <1>5 DEF IInv, GrabsAgree
  <2> QED BY <1>1, <1>4, <1>5, <2>1, <2>3, <2>4 DEF Place
<1>8. Known'
  BY <1>1, <1>4, <1>5 DEF PInv, Known, IInv, TypeOK
<1>9. open' \ {c} \subseteq open /\ ready' \subseteq ready
  BY <1>1
<1> QED BY <1>1, <1>4, <1>5, <1>6, <1>7, <1>8, <1>9, OnePInv

LEMMA PerviousPInv == ASSUME IInv, PInv, scene' = scene, NEW c \in Clients, Pervious(c) PROVE PInv'
<1>0. Execute(c, "pervious") /\ (IF InProgress(fds) /\ fds.grab # c THEN Break ELSE Return)
  BY DEF Pervious
<1>1. /\ UNCHANGED <<open, buf, asleep, grab, ready>> /\ current = c /\ current' \in {c, Nobody}
      /\ taken /\ taken' = FALSE /\ fds' = MakeClientGrabPervious(fds, c)
      /\ c \in open /\ c # Nobody /\ fds \in Fds /\ c \notin ready
      /\ InProgress(fds) => c \in fds.impervious \cup {fds.grab}
  BY <1>0, ExecuteEffect DEF Pervious, Execute, input, IInv, CurrentOpen
<1>2. fds'.grab = fds.grab /\ fds'.impervious = fds.impervious \ {c}
  BY <1>1 DEF MakeClientGrabPervious
<1>3. ASSUME NEW d \in open \ {c}
      PROVE  Same(fds, fds', d) /\ buf'[d] = buf[d] /\ (d \in Held' <=> d \in Held)
  <2>1. d \in Clients \ {c}
    BY DEF IInv, TypeOK
  <2> QED BY <1>1, <2>1, OthersSame
<1>4. "pervious" \in scene.may[c]
  BY <1>0 DEF Execute
<1>5. ASSUME ~Lapses(c) PROVE Place(c)'
  <2>1. Place(c)
    BY <1>1, <1>5 DEF PInv
  <2>2. CASE InProgress(fds) /\ fds.grab # c
    <3>1. current' = Nobody
      BY <1>0, <2>2 DEF Break
    <3>2. c \in fds.saved
      <4>1. "impervious" \in scene.may[c]
        BY <1>1, <2>2 DEF PInv, Known
      <4> QED BY <1>4, <2>1, <2>2, <4>1 DEF Place
    <3>3. /\ c \notin fds'.input /\ (c \in fds'.savedInput <=> c \in fds.input \/ c \in fds.savedInput)
          /\ fds'.saved = fds.saved
      BY <1>1, <2>2 DEF MakeClientGrabPervious
    <3>4. InProgress(fds') /\ (buf[c] > 0 => c \in fds.input)
      BY <1>1, <1>2, <2>1, <2>2 DEF Place
    <3> QED BY <1>1, <2>1, <2>2, <3>1, <3>2, <3>3, <3>4 DEF Place
  <2>3. CASE ~(InProgress(fds) /\ fds.grab # c)
    <3>1. Same(fds, fds', c)
      BY <1>1, <2>3 DEF MakeClientGrabPervious, Same
    <3>2. /\ (InProgress(fds') <=> InProgress(fds)) /\ (c \in Held' <=> c \in Held)
          /\ grab'.state = grab.state /\ buf'[c] = buf[c] /\ ready' \subseteq ready
      BY <1>1, <1>2
    <3> QED BY <1>1, <2>1, <3>1, <3>2, SamePlace
  <2> QED BY <2>2, <2>3
<1>6. Known'
  BY <1>1, <1>2 DEF PInv, Known
<1>7. grab'.state = grab.state /\ open' \ {c} \subseteq open /\ ready' \subseteq ready
  BY <1>1
<1> QED BY <1>1, <1>2, <1>3, <1>5, <1>6, <1>7, OnePInv

LEMMA KillPInv == ASSUME IInv, PInv, scene' = scene, NEW c \in Clients, KillClient(c) PROVE PInv'
<1>0. Execute(c, "kill")
  BY DEF KillClient
<1>1. /\ ready' = ready /\ current = c /\ taken /\ taken' = FALSE /\ c # Nobody
      /\ Return => current' \in {c, Nobody}
      /\ Break => current' = Nobody
  BY <1>0, ExecuteEffect DEF Execute
<1>2. PICK d \in open : CloseDownClient(d) /\ (IF d = c THEN Break ELSE Return)
  BY DEF KillClient
<1>3. current' \in {current, Nobody} /\ current' # d
  BY <1>1, <1>2 DEF IInv, TypeOK
<1> QED BY <1>1, <1>2, <1>3, ClosePInv

LEMMA UngrabServerPInv == ASSUME IInv, PInv, scene' = scene, NEW c \in Clients, UngrabServer(c) PROVE PInv'
<1>0. Execute(c, "ungrab") /\ Return
  BY DEF UngrabServer
<1> DEFINE f == UngrabbedFds(grab, fds)
           g == Ungrabbed(grab)
<1>1. /\ UNCHANGED <<open, buf, asleep, ready>> /\ current = c /\ current' \in {c, Nobody}
      /\ taken /\ taken' = FALSE /\ fds' = f /\ grab' = g /\ c # Nobody
  BY <1>0, ExecuteEffect DEF UngrabServer, Execute, input
<1>2. fds'.impervious = fds.impervious
  BY <1>1, UngrabEffect
<1>3. ASSUME NEW d \in open, ~Lapses(d)' PROVE Place(d)'
  <2>1. Place(d) /\ d # Nobody
    BY <1>3 DEF PInv, Lapses, IInv, TypeOK
  <2> HIDE DEF f, g
  <2>2. /\ ~InProgress(f)
        /\ d \notin asleep \cup g.waiters => d \in f.all
        /\ current = d \/ d \in ready \/ d \in f.input => d \in f.all
        /\ {"impervious", "pervious"} \subseteq scene.may[d] => d \in f.all
        /\ current = d /\ taken /\ buf[d] > 0 => d \in f.input
        /\ buf[d] > 0 => d \in f.input \/ current = d \/ d \in f.ignored \cap (asleep \cup g.waiters)
    BY <2>1, UngrabPlace DEF f, g
  <2> QED BY <1>1, <2>1, <2>2 DEF Place
<1>4. Known'
  BY <1>1, <1>2 DEF PInv, Known
<1> QED BY <1>1, <1>3, <1>4 DEF PInv

LEMMA GrabServerPInv == ASSUME IInv, PInv, scene' = scene, NEW c \in Clients, GrabServer(c) PROVE PInv'
<1>0. Execute(c, "grab") /\ Return
  BY DEF GrabServer
<1>1. /\ UNCHANGED <<open, buf, asleep, ready>> /\ current = c /\ current' \in {c, Nobody}
      /\ taken /\ taken' = FALSE /\ fds' = OnlyListenToOneClient(fds, c)
      /\ fds \in Fds /\ c \in open /\ c # Nobody /\ (grab.state # "none" => grab.client = c)
  BY <1>0, ExecuteEffect DEF GrabServer, Execute
<1>2. grab'.state = "kickout" /\ grab'.waiters = grab.waiters
  BY DEF GrabServer, IInv, TypeOK
<1>3. fds'.impervious = fds.impervious
  BY <1>1, OnlyListenEffect
<1>4. ASSUME NEW d \in open, Place(d), InProgress(fds) PROVE Place(d)'
  <2>1. fds' = fds
    BY <1>1, <1>4 DEF OnlyListenToOneClient
  <2>2. d # Nobody
    BY DEF IInv, TypeOK
  <2> QED BY <1>1, <1>2, <1>4, <2>1, <2>2 DEF Place
<1>5. ASSUME NEW d \in open, Place(d), ~InProgress(fds) PROVE Place(d)'
  <2>1. /\ d \in fds'.saved <=> d \in fds.all
        /\ d \in fds'.all <=> (d \in fds.all /\ d \in fds.impervious) \/ d = c
        /\ d \in fds'.input <=> d \in fds.input /\ (d \in fds.impervious \/ d = c)
        /\ d \in fds'.savedInput <=> d \in fds.input /\ ~(d \in fds.impervious \/ d = c)
        /\ fds'.ignored = fds.ignored /\ InProgress(fds')
    BY <1>1, <1>5 DEF OnlyListenToOneClient
  <2>2. d # Nobody /\ grab.state = "none"
    BY <1>5 DEF IInv, TypeOK, GrabsAgree
  <2> QED BY <1>1, <1>2, <1>5, <2>1, <2>2 DEF Place
<1>6. Known'
  BY <1>1, <1>3 DEF PInv, Known
<1>7. ASSUME NEW d \in open, ~Lapses(d)' PROVE Place(d)'
  <2>1. Place(d)
    BY <1>7 DEF PInv, Lapses
  <2> QED BY <1>4, <1>5, <2>1
<1> QED BY <1>1, <1>6, <1>7 DEF PInv

LEMMA NextPInv == ASSUME IInv, PInv, [Next]_vars PROVE PInv'
<1>1. CASE Next
  <2>1. scene' = scene
    BY <1>1 DEF Next
  <2>2. CASE WaitForSomething
    BY <2>1, <2>2, WaitPInv
  <2>3. ASSUME NEW c \in Clients, Pick(c) \/ ReadRequestFromClient(c) PROVE PInv'
    BY <2>1, <2>3, PickPInv, ReadPInv
  <2>4. ASSUME NEW c \in Clients, Plain(c) \/ GrabServer(c) \/ WaitForGrab(c) \/ UngrabServer(c) PROVE PInv'
    BY <2>1, <2>4, AsidePInv, GrabServerPInv, WaitForGrabPInv, UngrabServerPInv
  <2>5. ASSUME NEW c \in Clients, Sleep(c) \/ Signal(c) \/ KillClient(c) \/ Impervious(c) \/ Pervious(c) PROVE PInv'
    BY <2>1, <2>5, SleepPInv, SignalPInv, KillPInv, ImperviousPInv, PerviousPInv
  <2>6. ASSUME NEW c \in Clients, Accept(c) \/ Wakeup(c) \/ Send(c) \/ Exit(c) PROVE PInv'
    BY <2>1, <2>6, AcceptPInv, WakeupPInv, AsidePInv
  <2> QED BY <1>1, <2>2, <2>3, <2>4, <2>5, <2>6 DEF Next, Serve, Request
<1>2. CASE UNCHANGED vars
  BY <1>2 DEF vars, client, input, round, PInv, Known, Place, Lapses
<1> QED BY <1>1, <1>2

-----------------------------------------------------------------------------
(* Whose turn it is.  A request that was put back is read again, so its    *)
(* client asks again; of two rivals the one that UngrabServer wakes is the *)
(* only waiter, or the first of both, that has its request put back.       *)
Redone == \A c \in redo : /\ c \in open /\ "grab" \in scene.may[c]
                          /\ buf[c] > 0 \/ (current = c /\ taken)

Turn == /\ grab.state = "none" => First(Rivals) \notin grab.waiters
        /\ First(Rivals) \in grab.waiters => First(Rivals) \in redo /\ grab.client # First(Rivals)
        /\ WaiterHasTurn

KInv == Redone /\ grab.waiters \subseteq Rivals /\ (Orderly => Turn)

LEMMA InitKInv == Init => KInv
  BY DEF Init, KInv, Redone, Turn, WaiterHasTurn

\* Who the rivals are does not change.
LEMMA SameRivals ==
  ASSUME scene' = scene
  PROVE  Rivals' = Rivals /\ (Orderly' <=> Orderly) /\ First(Rivals)' = First(Rivals)
<1>1. Rivals' = Rivals
  BY DEF Rivals
<1>2. Orderly' <=> Orderly
  BY <1>1 DEF Orderly
<1> QED BY <1>1, <1>2

(* UngrabServer takes the first rival from the waiters, if it is one; then *)
(* only may there be another left.                                         *)
LEMMA UngrabTurn ==
  ASSUME IInv, KInv, Orderly, NEW g, g = Ungrabbed(grab)
  PROVE  /\ g.state = "none" /\ g.waiters \subseteq grab.waiters
         /\ First(Rivals) \notin g.waiters
         /\ g.waiters # {} => First(Rivals) \in grab.waiters
<1> DEFINE W == grab.waiters
           m == First(Rivals)
<1>0. /\ W \subseteq Rivals /\ Rivals \in SUBSET Clients /\ grab \in Grab
      /\ g.state = "none" /\ g.waiters = IF W = {} THEN {} ELSE W \ {First(W)}
  BY DEF KInv, Rivals, IInv, TypeOK, Ungrabbed
<1>1. CASE m \in W
  <2>1. \A d \in W : Before(m, d)
    BY <1>0, <1>1, FirstIn
  <2>2. First(W) = m
    <3> HIDE DEF m
    <3> QED BY <1>0, <1>1, <2>1, FirstIs
  <2> QED BY <1>0, <1>1, <2>2
<1>2. CASE m \notin W
  <2>1. CASE W = {}
    BY <1>0, <1>2, <2>1
  <2>2. CASE W # {}
    <3>1. First(W) \in W /\ m \in Rivals
      BY <1>0, <2>2, FirstIn
    <3> HIDE DEF m
    <3>2. ASSUME NEW d \in W PROVE d = First(W)
      <4>1. \A a, b, c \in Rivals : a = b \/ b = c \/ a = c
        BY DEF Orderly
      <4>2. m # d /\ m # First(W) /\ d \in Rivals /\ First(W) \in Rivals
        BY <1>0, <1>2, <3>1
      <4> HIDE DEF W
      <4> QED BY <3>1, <4>1, <4>2
    <3> QED BY <1>0, <1>2, <2>2, <3>2 DEF m
  <2> QED BY <2>1, <2>2
<1> QED BY <1>1, <1>2

(* A step that puts nothing back and serves nothing that was, and leaves   *)
(* who has the server.                                                     *)
LEMMA QuietKInv ==
  ASSUME IInv, KInv, UNCHANGED <<scene, redo, buf>>, open \subseteq open',
         grab'.state = "none" <=> grab.state = "none", grab'.client = grab.client,
         grab'.waiters = grab.waiters, current \notin redo \/ UNCHANGED <<current, taken>>
  PROVE  KInv'
<1>1. Redone'
  BY DEF KInv, Redone
<1>2. Rivals' = Rivals /\ (Orderly' <=> Orderly) /\ First(Rivals)' = First(Rivals)
  BY SameRivals
<1>3. ASSUME Orderly PROVE Turn'
  BY <1>2, <1>3 DEF KInv, Turn, WaiterHasTurn
<1> QED BY <1>1, <1>2, <1>3 DEF KInv

LEMMA CloseKInv ==
  ASSUME IInv, KInv, scene' = scene, NEW d \in open, CloseDownClient(d),
         current \notin redo \/ ~taken, Orderly => d \notin redo
  PROVE  KInv'
<1>0. /\ open' = open \ {d} /\ redo' = redo \ {d} /\ \A c \in Clients \ {d} : buf'[c] = buf[c]
      /\ open \subseteq Clients /\ redo \subseteq Clients /\ d \in Clients /\ grab \in Grab
  BY DEF CloseDownClient, IInv, TypeOK
<1> DEFINE g == IF Holds(grab, d) THEN Ungrabbed(grab) ELSE grab
<1>1. g \in Grab /\ g.waiters \subseteq grab.waiters
  BY <1>0, UngrabEffect
<1>2. grab' = [g EXCEPT !.waiters = @ \ {d}]
  BY DEF CloseDownClient
<1>3. Rivals' = Rivals /\ (Orderly' <=> Orderly) /\ First(Rivals)' = First(Rivals)
  BY SameRivals
<1>4. Redone'
  BY <1>0 DEF KInv, Redone
<1>5. /\ grab'.state = g.state /\ grab'.client = g.client /\ grab'.waiters = g.waiters \ {d}
  <2> HIDE DEF g
  <2> QED BY <1>1, <1>2
<1>6. ASSUME Orderly PROVE Turn'
  <2>1. redo' = redo /\ d \notin redo
    BY <1>0, <1>6
  <2>2. CASE Holds(grab, d)
    <3>1. /\ g.state = "none" /\ First(Rivals) \notin g.waiters
          /\ g.waiters # {} => First(Rivals) \in grab.waiters
      BY <1>6, <2>2, UngrabTurn
    <3> HIDE DEF g
    <3>2. g.waiters # {} => First(Rivals) \in redo /\ First(Rivals) \in open'
      BY <1>0, <1>6, <2>1, <3>1 DEF KInv, Turn, Redone
    <3>3. WaiterHasTurn'
      BY <1>3, <1>5, <2>1, <3>1, <3>2 DEF WaiterHasTurn
    <3> QED BY <1>3, <1>5, <3>1, <3>3 DEF Turn
  <2>3. CASE ~Holds(grab, d)
    <3>1. g = grab
      BY <2>3
    <3> HIDE DEF g
    <3>2. WaiterHasTurn'
      BY <1>0, <1>3, <1>5, <1>6, <2>1, <3>1 DEF KInv, Turn, WaiterHasTurn
    <3> QED BY <1>3, <1>5, <1>6, <2>1, <3>1, <3>2 DEF KInv, Turn
  <2> QED BY <2>2, <2>3
<1> QED BY <1>1, <1>3, <1>4, <1>5, <1>6 DEF KInv

LEMMA ReadKInv ==
  ASSUME IInv, KInv, scene' = scene, NEW c \in Clients, ReadRequestFromClient(c)
  PROVE  KInv'
<1>0. current = c /\ ~taken /\ c \in open /\ buf \in [Clients -> Nat]
  BY DEF ReadRequestFromClient, IInv, CurrentOpen, TypeOK
<1>1. Rivals' = Rivals /\ (Orderly' <=> Orderly) /\ First(Rivals)' = First(Rivals)
  BY SameRivals
<1>2. ASSUME NEW n \in 0 .. sock[c], buf' = [buf EXCEPT ![c] = Left(@, n)], taken' = TRUE,
             UNCHANGED <<open, redo, grab, current>>
      PROVE  KInv'
  <2>1. Redone'
    BY <1>0, <1>2 DEF KInv, Redone, IInv, TypeOK
  <2>2. ASSUME Orderly PROVE Turn'
    BY <1>1, <1>2, <2>2 DEF KInv, Turn, WaiterHasTurn
  <2> QED BY <1>1, <1>2, <2>1, <2>2 DEF KInv
<1>3. ASSUME Break, buf[c] = 0, UNCHANGED <<open, buf, redo, grab, taken>> PROVE KInv'
  <2>1. c \notin redo
    BY <1>0, <1>3 DEF KInv, Redone
  <2> QED BY <1>0, <1>3, <2>1, QuietKInv
<1>4. ASSUME CloseDownClient(c), buf[c] = 0 PROVE KInv'
  <2>1. c \notin redo
    BY <1>0, <1>4 DEF KInv, Redone
  <2> QED BY <1>0, <1>4, <2>1, CloseKInv
<1> QED BY <1>2, <1>3, <1>4 DEF ReadRequestFromClient

LEMMA KillKInv ==
  ASSUME IInv, KInv, scene' = scene, NEW c \in Clients, KillClient(c)
  PROVE  KInv'
<1>1. current = c /\ c \notin redo /\ "kill" \in scene.may[c]
  BY DEF KillClient, Execute
<1>2. ~Orderly
  BY <1>1 DEF Orderly
<1>3. PICK d \in open : CloseDownClient(d)
  BY DEF KillClient
<1> QED BY <1>1, <1>2, <1>3, CloseKInv

LEMMA GrabServerKInv ==
  ASSUME IInv, KInv, scene' = scene, NEW c \in Clients, GrabServer(c)
  PROVE  KInv'
<1>1. /\ UNCHANGED <<open, buf>> /\ redo' = redo \ {c} /\ current = c
      /\ grab.state # "none" => grab.client = c
      /\ grab'.state = "kickout" /\ grab'.client = c /\ grab'.waiters = grab.waiters
  BY DEF GrabServer, Execute, IInv, TypeOK
<1>2. Rivals' = Rivals /\ (Orderly' <=> Orderly) /\ First(Rivals)' = First(Rivals)
  BY SameRivals
<1>3. Redone'
  BY <1>1 DEF KInv, Redone
<1>4. ASSUME Orderly PROVE Turn'
  <2>1. WaiterHasTurn'
    BY <1>1 DEF WaiterHasTurn
  <2> QED BY <1>1, <1>2, <1>4, <2>1 DEF KInv, Turn
<1> QED BY <1>1, <1>2, <1>3, <1>4 DEF KInv

LEMMA WaitForGrabKInv ==
  ASSUME IInv, PInv, KInv, scene' = scene, NEW c \in Clients, WaitForGrab(c)
  PROVE  KInv'
<1>0. Execute(c, "grab")
  BY DEF WaitForGrab
<1>1. /\ open' = open /\ buf' = [buf EXCEPT ![c] = @ + 1] /\ redo' = redo \cup {c} /\ current = c
      /\ grab.state # "none" /\ grab.client # c
      /\ grab'.state = grab.state /\ grab'.client = grab.client /\ grab'.waiters = grab.waiters \cup {c}
      /\ buf \in [Clients -> Nat] /\ redo \subseteq Clients /\ c \in open
  BY <1>0, ExecuteEffect DEF WaitForGrab, IInv, TypeOK, Execute
<1>2. "grab" \in scene.may[c]
  BY <1>0 DEF Execute, KInv, Redone
<1>3. "impervious" \in scene.may[c]
  BY <1>0, <1>1, ExecuteEffect DEF PInv, Known, IInv, GrabsAgree
<1>4. Rivals' = Rivals /\ (Orderly' <=> Orderly) /\ First(Rivals)' = First(Rivals)
  BY SameRivals
<1>5. c \in Rivals
  BY <1>2, <1>3 DEF Rivals
<1>6. Redone'
  BY <1>1, <1>2 DEF KInv, Redone
<1>7. ASSUME Orderly PROVE Turn'
  <2>1. WaiterHasTurn'
    BY <1>1 DEF WaiterHasTurn
  <2> QED BY <1>1, <1>4, <1>7, <2>1 DEF KInv, Turn
<1> QED BY <1>1, <1>4, <1>5, <1>6, <1>7 DEF KInv

LEMMA UngrabServerKInv ==
  ASSUME IInv, KInv, scene' = scene, NEW c \in Clients, UngrabServer(c)
  PROVE  KInv'
<1>1. /\ UNCHANGED <<open, buf, redo>> /\ current = c /\ c \notin redo /\ grab' = Ungrabbed(grab)
  BY DEF UngrabServer, Execute, input
<1>2. Rivals' = Rivals /\ (Orderly' <=> Orderly) /\ First(Rivals)' = First(Rivals)
  BY SameRivals
<1>3. grab'.waiters \subseteq grab.waiters
  BY <1>1, UngrabEffect
<1>4. Redone'
  BY <1>1 DEF KInv, Redone
<1>5. ASSUME Orderly PROVE Turn'
  <2>1. /\ grab'.state = "none" /\ First(Rivals) \notin grab'.waiters
        /\ grab'.waiters # {} => First(Rivals) \in grab.waiters
    BY <1>1, <1>5, UngrabTurn
  <2>2. grab'.waiters # {} => First(Rivals) \in redo /\ First(Rivals) \in open
    BY <1>5, <2>1 DEF KInv, Turn, Redone
  <2>3. WaiterHasTurn'
    BY <1>1, <2>1, <2>2 DEF WaiterHasTurn
  <2> QED BY <1>2, <2>1, <2>3 DEF Turn
<1> QED BY <1>2, <1>3, <1>4, <1>5 DEF KInv

LEMMA NextKInv == ASSUME IInv, PInv, KInv, [Next]_vars PROVE KInv'
<1>0. Nobody \notin redo
  BY DEF IInv, TypeOK
<1>1. CASE Next
  <2>1. scene' = scene
    BY <1>1 DEF Next
  <2>2. CASE WaitForSomething
    <3>1. /\ UNCHANGED <<open, redo, buf, grab, current, taken>>
      BY <2>2 DEF WaitForSomething, client, input
    <3> QED BY <2>1, <3>1, QuietKInv
  <2>3. ASSUME NEW c \in Clients, Accept(c) \/ Wakeup(c) \/ Send(c) \/ Exit(c) PROVE KInv'
    <3>1. UNCHANGED <<redo, buf, grab, current, taken>> /\ open \subseteq open'
      BY <2>3 DEF Accept, Wakeup, Send, Exit, client, input, round
    <3> QED BY <2>1, <3>1, QuietKInv
  <2>4. ASSUME NEW c \in Clients, Pick(c) PROVE KInv'
    <3>1. /\ UNCHANGED <<open, redo, buf>> /\ current = Nobody
          /\ grab' = grab \/ (grab.state = "kickout" /\ grab' = [grab EXCEPT !.state = "active"])
      BY <2>4 DEF Pick, client, input
    <3>2. /\ grab'.state = "none" <=> grab.state = "none"
          /\ grab'.client = grab.client /\ grab'.waiters = grab.waiters
      BY <3>1 DEF IInv, TypeOK
    <3> QED BY <1>0, <2>1, <3>1, <3>2, QuietKInv
  <2>5. ASSUME NEW c \in Clients, Plain(c) \/ Sleep(c) \/ Signal(c) \/ Impervious(c) \/ Pervious(c) PROVE KInv'
    <3>1. UNCHANGED <<open, redo, buf, grab>> /\ current = c /\ c \notin redo
      BY <2>5 DEF Plain, Sleep, Signal, Impervious, Pervious, Execute, input
    <3> QED BY <2>1, <3>1, QuietKInv
  <2>6. ASSUME NEW c \in Clients, ReadRequestFromClient(c) \/ KillClient(c) PROVE KInv'
    BY <2>1, <2>6, ReadKInv, KillKInv
  <2>7. ASSUME NEW c \in Clients, GrabServer(c) \/ WaitForGrab(c) \/ UngrabServer(c) PROVE KInv'
    BY <2>1, <2>7, GrabServerKInv, WaitForGrabKInv, UngrabServerKInv
  <2> QED BY <1>1, <2>2, <2>3, <2>4, <2>5, <2>6, <2>7 DEF Next, Serve, Request
<1>2. CASE UNCHANGED vars
  <2>1. UNCHANGED <<scene, redo, buf, open, grab, current, taken>>
    BY <1>2 DEF vars, client, input, round
  <2> QED BY <2>1, QuietKInv
<1> QED BY <1>1, <1>2

THEOREM PlacesInvariance == Spec => [](IInv /\ PInv /\ KInv)
<1>1. Init => IInv /\ PInv /\ KInv
  BY InitIInv, InitPInv, InitKInv
<1>2. IInv /\ PInv /\ KInv /\ [Next]_vars => IInv' /\ PInv' /\ KInv'
  BY NextIInv, NextPInv, NextKInv
<1> QED BY <1>1, <1>2, PTL DEF Spec

-----------------------------------------------------------------------------
(* The state of the server stays within its types.                         *)
THEOREM Typed == Spec => []TypeOK
  BY Invariance, PTL DEF IInv

(* The grab of the dispatcher and the restriction of the descriptor sets   *)
(* are one, however the client that has the server ends.                   *)
THEOREM GrabsAlwaysAgree == Spec => []GrabsAgree
  BY Invariance, PTL DEF IInv

(* The server never waits on the descriptor of a closed connection.        *)
THEOREM DescriptorsOpen == Spec => []NoStaleDescriptor
  BY Invariance, PTL DEF IInv

(* Whoever is served while a client has the server is that client, or one  *)
(* that is impervious: whatever was ready before, sleeping or new.         *)
THEOREM GrabHolds == Spec => GrabExcludes
<1>1. IInv /\ [Next]_vars =>
        [\A c \in Clients : Executes(c) =>
           \/ grab.state = "none" \/ grab.client = c \/ c \in fds.impervious]_vars
  BY DEF IInv, CurrentAllowed, Executes, TypeOK
<1> QED BY <1>1, Invariance, PTL DEF Spec, GrabExcludes

(* A complete request that the server has read is never forgotten while    *)
(* its client is ignored, shut out or waiting: select() would not tell.    *)
THEOREM InputIsRemembered == Spec => []InputRemembered
<1>1. IInv /\ PInv => InputRemembered
  <2> SUFFICES ASSUME IInv, PInv, NEW c \in open, buf[c] > 0, ~Lapses(c)
               PROVE  \/ c \in fds.input \/ current = c
                      \/ InProgress(fds) /\ c \in fds.savedInput
                      \/ c \in fds.ignored \cap (asleep \cup grab.waiters)
    BY DEF InputRemembered
  <2> QED BY DEF PInv, Place
<1> QED BY <1>1, PlacesInvariance, PTL

(* Every connection that does not sleep or wait is listened to, now or     *)
(* when the grab ends.                                                     *)
THEOREM EveryoneIsHeard == Spec => []Heard
<1>1. IInv /\ PInv => Heard
  BY DEF PInv, Place, Heard
<1> QED BY <1>1, PlacesInvariance, PTL

(* A client that waits for the server waits for somebody: one that has it, *)
(* or was woken and has its GrabServer to execute again.                   *)
THEOREM WaitersHaveTheirTurn == Spec => []WaiterHasTurn
<1>1. KInv => WaiterHasTurn
  BY DEF KInv, Turn, WaiterHasTurn
<1> QED BY <1>1, PlacesInvariance, PTL

-----------------------------------------------------------------------------
(* SmartSched.                                                             *)

-----------------------------------------------------------------------------
(* Numbers and sets.                                                       *)

(* What the remainder is for the difference of two indices.                *)
LEMMA Remainder ==
  ASSUME NEW M \in Nat \ {0}, NEW a \in 0 .. M - 1, NEW b \in 0 .. M - 1
  PROVE  (a - b) % M = IF a >= b THEN a - b ELSE a - b + M
OBVIOUS

(* There is a finite number of clients.                                    *)
LEMMA Finite == IsFiniteSet(Indices) /\ Cardinality(Indices) \in Nat
<1>1. Modulus - 1 \in Int
  BY SmartSchedAssumption
<1>2. IsFiniteSet(1 .. Modulus - 1)
  BY <1>1, FS_Interval
<1>3. IsFiniteSet(Indices)
  BY <1>2, FS_Subset, SmartSchedAssumption
<1> QED BY <1>3, FS_CardinalityType

(* A set of clients that is a part of another has fewer elements.          *)
LEMMA Fewer ==
  ASSUME NEW A \in SUBSET Indices, NEW B \in SUBSET A, NEW x \in A, x \notin B
  PROVE  /\ Cardinality(A) \in Nat /\ Cardinality(B) \in Nat
         /\ Cardinality(B) + 1 <= Cardinality(A)
<1>1. IsFiniteSet(A)
  BY Finite, FS_Subset
<1>2. IsFiniteSet(A \ {x}) /\ Cardinality(A \ {x}) = Cardinality(A) - 1
  BY <1>1, FS_RemoveElement
<1>3. B \subseteq A \ {x}
  OBVIOUS
<1>4. Cardinality(B) <= Cardinality(A \ {x})
  BY <1>2, <1>3, FS_Subset
<1> QED BY <1>1, <1>2, <1>3, <1>4, FS_Subset, FS_CardinalityType

-----------------------------------------------------------------------------
(* The choice of a client.                                                 *)

LEMMA RobinIs ==
  ASSUME SchedTypeOK, NEW c \in Indices, NEW p \in Priority
  PROVE  /\ Robin(c, p) = IF c >= last[p] THEN c - last[p] ELSE c - last[p] + Modulus
         /\ Robin(c, p) \in 0 .. Modulus - 1
<1>1. Modulus \in Nat \ {0} /\ c \in 0 .. Modulus - 1 /\ last[p] \in 0 .. Modulus - 1
  BY SmartSchedAssumption DEF SchedTypeOK
<1>2. (c - last[p]) % Modulus = IF c >= last[p] THEN c - last[p] ELSE c - last[p] + Modulus
  BY <1>1, Remainder
<1> QED BY <1>1, <1>2 DEF Robin

(* A set of natural numbers has a least element.                           *)
LEMMA LeastOf ==
  ASSUME NEW S \in SUBSET Nat, S # {}
  PROVE  \E x \in S : \A y \in S : x <= y
<1>1. PICK R : IsWellFoundedOn(R, Nat) /\ \A x, y \in Nat : <<x, y>> \in R <=> x < y
  <2>1. \A x, y \in Nat : <<x, y>> \in OpToRel(<, Nat) <=> x < y
    BY DEF OpToRel
  <2> QED BY <2>1, NatLessThanWellFounded, Zenon
<1>2. PICK x \in S : \A y \in S : ~ (<<y, x>> \in R)
  <2>1. IsWellFoundedOn(R, Nat) /\ S \subseteq Nat
    BY <1>1
  <2> QED BY <2>1, WFMin, Zenon
<1>3. \A y \in S : ~(y < x)
  BY <1>1, <1>2
<1> QED BY <1>2, <1>3

(* Best is one of the ready clients: none has a higher priority, and none  *)
(* of its own priority is before it in the round robin.                    *)
LEMMA BestIs ==
  ASSUME SchedTypeOK, NEW R \in SUBSET Indices, R # {}, NEW prio \in [Indices -> Priority]
  PROVE  /\ Best(R, prio) \in R
         /\ \A d \in R : prio[d] <= prio[Best(R, prio)]
         /\ \A d \in R : prio[d] = prio[Best(R, prio)] =>
              Robin(d, prio[d]) <= Robin(Best(R, prio), prio[d])
<1> DEFINE top == {c \in R : \A d \in R : prio[c] >= prio[d]}
           Heights == {MaxPriority - prio[d] : d \in R}
           Gaps == {Modulus - Robin(d, prio[d]) : d \in top}
<1>0. \A d \in R : /\ prio[d] \in Priority /\ prio[d] \in Int /\ prio[d] <= MaxPriority
                   /\ Robin(d, prio[d]) \in Int
                   /\ MaxPriority - prio[d] \in Nat /\ Modulus - Robin(d, prio[d]) \in Nat
  <2>1. \A p \in Priority : p \in Int /\ p <= MaxPriority /\ MaxPriority - p \in Nat
    BY SmartSchedAssumption DEF Priority
  <2>2. \A d \in R : prio[d] \in Priority
    OBVIOUS
  <2>3. \A d \in R : Robin(d, prio[d]) \in 0 .. Modulus - 1
    BY <2>2, RobinIs
  <2>4. \A r \in 0 .. Modulus - 1 : r \in Int /\ Modulus - r \in Nat
    BY SmartSchedAssumption
  <2> QED BY <2>1, <2>2, <2>3, <2>4
<1>1. top # {}
  <2>1. Heights \in SUBSET Nat /\ Heights # {}
    BY <1>0
  <2>2. PICK h \in Heights : \A k \in Heights : h <= k
    BY <2>1, LeastOf
  <2>3. PICK c \in R : h = MaxPriority - prio[c]
    BY <2>2
  <2>4. \A d \in R : MaxPriority - prio[c] <= MaxPriority - prio[d]
    BY <2>2, <2>3
  <2>5. \A d \in R : prio[c] >= prio[d]
    BY <2>4, <1>0, SmartSchedAssumption
  <2> QED BY <2>5
<1>2. \E c \in top : \A d \in top : Robin(c, prio[c]) >= Robin(d, prio[d])
  <2>1. Gaps \in SUBSET Nat /\ Gaps # {}
    BY <1>0, <1>1
  <2>2. PICK g \in Gaps : \A k \in Gaps : g <= k
    BY <2>1, LeastOf
  <2>3. PICK c \in top : g = Modulus - Robin(c, prio[c])
    BY <2>2
  <2>4. \A d \in top : Modulus - Robin(c, prio[c]) <= Modulus - Robin(d, prio[d])
    BY <2>2, <2>3
  <2>5. \A d \in top : Robin(c, prio[c]) >= Robin(d, prio[d])
    BY <2>4, <1>0, SmartSchedAssumption
  <2> QED BY <2>5
<1> DEFINE b == Best(R, prio)
<1>3. b \in top /\ \A d \in top : Robin(b, prio[b]) >= Robin(d, prio[d])
  BY <1>2 DEF Best
<1>4. b \in R /\ \A d \in R : prio[d] <= prio[b]
  BY <1>3, <1>0
<1>5. ASSUME NEW d \in R, prio[d] = prio[b]
      PROVE  Robin(d, prio[d]) <= Robin(b, prio[d])
  <2>1. d \in top
    BY <1>3, <1>4, <1>5, <1>0
  <2> QED BY <2>1, <1>3, <1>5, <1>0
<1> QED BY <1>4, <1>5

-----------------------------------------------------------------------------
(* Types.                                                                  *)

LEMMA ElapseType ==
  ASSUME SchedTypeOK, NEW t \in 0 .. MaxSlice, Elapse(t)
  PROVE  idle' \in [Indices -> 0 .. 2 * MaxSlice] /\ alone' \in 0 .. LongTime + 1
<1>1. /\ \A i \in 0 .. 2 * MaxSlice : Least(i + t, 2 * MaxSlice) \in 0 .. 2 * MaxSlice
      /\ Least(alone + t, LongTime + 1) \in 0 .. LongTime + 1
  BY SmartSchedAssumption DEF Least, SchedTypeOK
<1> QED BY <1>1 DEF Elapse, SchedTypeOK

LEMMA PraisedType ==
  ASSUME SchedTypeOK, NEW R \in SUBSET Indices
  PROVE  Praised(R) \in [Indices -> Priority]
<1>1. \A p \in Priority : p < 0 => p + 1 \in Priority
  BY SmartSchedAssumption DEF Priority
<1> QED BY <1>1 DEF Praised, SchedTypeOK

LEMMA ScheduleType ==
  ASSUME SchedTypeOK, NEW R \in SUBSET Indices, SmartScheduleClient(R)
  PROVE  SchedTypeOK'
<1> DEFINE prio == Praised(R)
           best == Best(R, prio)
<1>1. prio \in [Indices -> Priority]
  BY PraisedType
<1>2. R # {}
  BY DEF SmartScheduleClient
<1>3. best \in Indices
  BY <1>1, <1>2, BestIs
<1> HIDE DEF prio, best
<1>4. best \in 0 .. Modulus - 1 /\ prio[best] \in Priority
  BY <1>1, <1>3, SmartSchedAssumption
<1>5. /\ priority' = prio /\ last' = [last EXCEPT ![prio[best]] = best]
      /\ lastClient' = best /\ running' = best
  BY DEF SmartScheduleClient, prio, best
<1>6. /\ priority' \in [Indices -> Priority] /\ last' \in [Priority -> 0 .. Modulus - 1]
      /\ lastClient' \in Indices /\ running' \in Indices
  BY <1>1, <1>3, <1>4, <1>5 DEF SchedTypeOK
<1>7. idle' \in [Indices -> 0 .. 2 * MaxSlice] /\ alone' \in 0 .. LongTime + 1 /\ busy' \in BOOLEAN
  BY SmartSchedAssumption DEF SmartScheduleClient, SchedTypeOK
<1>8. slice' \in 1 .. MaxSlice
  BY SmartSchedAssumption DEF SmartScheduleClient, SchedTypeOK
<1>9. passed' \in [Indices -> Nat] /\ waits' \in [Indices -> Nat]
  BY DEF SmartScheduleClient, SchedTypeOK
<1> QED BY <1>6, <1>7, <1>8, <1>9 DEF SchedTypeOK

LEMMA TypeStep ==
  ASSUME SchedTypeOK, [SchedNext]_schedVars
  PROVE  SchedTypeOK'
<1>1. ASSUME NEW R \in SUBSET Indices, SmartScheduleClient(R)
      PROVE  SchedTypeOK'
  BY <1>1, ScheduleType
<1>2. ASSUME NEW t \in 0 .. MaxSlice, NEW yields \in BOOLEAN, ClientTurn(t, yields)
      PROVE  SchedTypeOK'
  <2>1. idle' \in [Indices -> 0 .. 2 * MaxSlice] /\ alone' \in 0 .. LongTime + 1
    BY <1>2, ElapseType DEF ClientTurn
  <2>2. \A p \in Priority : p > MinPriority => p - 1 \in Priority
    BY SmartSchedAssumption DEF Priority
  <2>3. priority' \in [Indices -> Priority]
    BY <1>2, <2>2 DEF ClientTurn, Penalty, SchedTypeOK
  <2> QED BY <1>2, <2>1, <2>3 DEF ClientTurn, SchedTypeOK
<1>3. CASE Wait
  <2>1. idle' \in [Indices -> 0 .. 2 * MaxSlice] /\ alone' \in 0 .. LongTime + 1
    BY <1>3, ElapseType, SmartSchedAssumption DEF Wait
  <2> QED BY <1>3, <2>1 DEF Wait, SchedTypeOK
<1>4. CASE AllBusy
  BY <1>4 DEF AllBusy, SchedTypeOK
<1>5. ASSUME NEW c \in Indices, CriticalEvent(c)
      PROVE  SchedTypeOK'
  <2>1. \A p \in Priority : p < MaxPriority => p + 1 \in Priority
    BY SmartSchedAssumption DEF Priority
  <2>2. priority' \in [Indices -> Priority]
    BY <1>5, <2>1 DEF CriticalEvent, SchedTypeOK
  <2> QED BY <1>5, <2>2 DEF CriticalEvent, SchedTypeOK
<1>6. ASSUME NEW c \in Indices, Reconnect(c)
      PROVE  SchedTypeOK'
  <2>1. 0 \in Priority /\ 0 \in 0 .. 2 * MaxSlice
    BY SmartSchedAssumption DEF Priority
  <2> QED BY <1>6, <2>1 DEF Reconnect, SchedTypeOK
<1>7. CASE UNCHANGED schedVars
  BY <1>7 DEF schedVars, SchedTypeOK
<1> QED BY <1>1, <1>2, <1>3, <1>4, <1>5, <1>6, <1>7 DEF SchedNext

-----------------------------------------------------------------------------
(* The round robin.  What bounds the turns of others before a client is    *)
(* the number of those that are ahead of it, seen from the client of its   *)
(* priority that had the last turn: each turn takes one of them away.      *)

AheadOf(c, x) == {e \in Indices : (e - x) % Modulus > (c - x) % Modulus}

TurnsLeft ==
  \A c \in Indices : passed[c] + Cardinality(AheadOf(c, last[priority[c]])) < Cardinality(Indices)

LEMMA AheadIs ==
  ASSUME NEW c \in Indices, NEW x \in 0 .. Modulus - 1, NEW e \in Indices
  PROVE  e \in AheadOf(c, x) <=> (IF e >= x THEN e - x ELSE e - x + Modulus)
                                   > (IF c >= x THEN c - x ELSE c - x + Modulus)
<1>1. Modulus \in Nat \ {0} /\ c \in 0 .. Modulus - 1 /\ e \in 0 .. Modulus - 1
  BY SmartSchedAssumption
<1> QED BY <1>1, Remainder DEF AheadOf

LEMMA FewAhead ==
  ASSUME NEW c \in Indices, NEW x \in 0 .. Modulus - 1
  PROVE  Cardinality(AheadOf(c, x)) \in Nat /\ Cardinality(AheadOf(c, x)) < Cardinality(Indices)
<1>1. c \notin AheadOf(c, x)
  BY AheadIs, SmartSchedAssumption
<1>2. AheadOf(c, x) \in SUBSET Indices
  BY DEF AheadOf
<1>3. /\ Cardinality(AheadOf(c, x)) \in Nat /\ Cardinality(Indices) \in Nat
      /\ Cardinality(AheadOf(c, x)) + 1 <= Cardinality(Indices)
  BY <1>1, <1>2, Fewer
<1> QED BY <1>3

(* A client that had its turn before another is behind it from then on,    *)
(* and no other comes before that one which was not before it already.     *)
LEMMA AheadAfter ==
  ASSUME NEW c \in Indices, NEW d \in Indices, c # d, NEW x \in 0 .. Modulus - 1,
         (c - x) % Modulus <= (d - x) % Modulus
  PROVE  /\ d \in AheadOf(c, x) /\ d \notin AheadOf(c, d)
         /\ AheadOf(c, d) \subseteq AheadOf(c, x)
<1>1. Modulus \in Nat \ {0} /\ c \in 0 .. Modulus - 1 /\ d \in 0 .. Modulus - 1
  BY SmartSchedAssumption
<1>2. (IF c >= x THEN c - x ELSE c - x + Modulus) <= (IF d >= x THEN d - x ELSE d - x + Modulus)
  BY <1>1, Remainder
<1>3. d \in AheadOf(c, x)
  BY <1>1, <1>2, AheadIs
<1>4. d \notin AheadOf(c, d)
  BY <1>1, AheadIs
<1>5. ASSUME NEW e \in AheadOf(c, d)
      PROVE  e \in AheadOf(c, x)
  <2>1. e \in Indices
    BY DEF AheadOf
  <2>2. e \in 0 .. Modulus - 1
    BY <2>1, SmartSchedAssumption
  <2>3. (IF e >= d THEN e - d ELSE e - d + Modulus) > (IF c >= d THEN c - d ELSE c - d + Modulus)
    BY <1>1, <2>1, AheadIs
  <2>4. (IF e >= x THEN e - x ELSE e - x + Modulus) > (IF c >= x THEN c - x ELSE c - x + Modulus)
    BY <1>1, <1>2, <2>2, <2>3
  <2> QED BY <2>1, <2>4, AheadIs
<1> QED BY <1>3, <1>4, <1>5

LEMMA AheadShrinks ==
  ASSUME NEW c \in Indices, NEW d \in Indices, c # d, NEW x \in 0 .. Modulus - 1,
         (c - x) % Modulus <= (d - x) % Modulus
  PROVE  Cardinality(AheadOf(c, d)) + 1 <= Cardinality(AheadOf(c, x))
<1>1. d \in AheadOf(c, x) /\ d \notin AheadOf(c, d)
  BY AheadAfter
<1>2. AheadOf(c, d) \in SUBSET AheadOf(c, x)
  BY AheadAfter
<1>3. AheadOf(c, x) \in SUBSET Indices
  BY DEF AheadOf
<1> QED BY <1>1, <1>2, <1>3, Fewer

(* Where a client's count starts again, nothing has to be known of before. *)
LEMMA StartsAgain ==
  ASSUME SchedTypeOK', NEW c \in Indices, passed'[c] = 0
  PROVE  passed'[c] + Cardinality(AheadOf(c, last'[priority'[c]])) < Cardinality(Indices)
<1>1. last'[priority'[c]] \in 0 .. Modulus - 1
  BY DEF SchedTypeOK
<1>2. /\ Cardinality(AheadOf(c, last'[priority'[c]])) \in Nat
      /\ Cardinality(AheadOf(c, last'[priority'[c]])) < Cardinality(Indices)
  BY <1>1, FewAhead
<1> QED BY <1>2

LEMMA ScheduleTurns ==
  ASSUME SchedTypeOK, SchedTypeOK', TurnsLeft, NEW R \in SUBSET Indices, SmartScheduleClient(R)
  PROVE  TurnsLeft'
<1> DEFINE prio == Praised(R)
           b == Best(R, prio)
<1>1. prio \in [Indices -> Priority] /\ R # {}
  BY PraisedType DEF SmartScheduleClient
<1>2. /\ b \in R
      /\ \A d \in R : prio[d] = prio[b] => Robin(d, prio[d]) <= Robin(b, prio[d])
  BY <1>1, BestIs
<1> HIDE DEF prio, b
<1>3. /\ priority' = prio
      /\ last' = [last EXCEPT ![prio[b]] = b]
      /\ passed' = [c \in Indices |-> IF c \notin R \/ c = b \/ prio[c] # priority[c] THEN 0
                                      ELSE IF prio[c] = prio[b] THEN passed[c] + 1 ELSE passed[c]]
  BY DEF SmartScheduleClient, prio, b
<1>4. SUFFICES ASSUME NEW c \in Indices
      PROVE  passed'[c] + Cardinality(AheadOf(c, last'[priority'[c]])) < Cardinality(Indices)
  BY DEF TurnsLeft
<1>5. CASE c \notin R \/ c = b \/ prio[c] # priority[c]
  BY <1>3, <1>5, StartsAgain
<1>6. CASE c \in R /\ c # b /\ prio[c] = priority[c]
  <2>1. /\ prio[c] \in Priority /\ prio[b] \in Priority /\ last[prio[c]] \in 0 .. Modulus - 1
        /\ passed[c] \in Nat
    BY <1>1, <1>2 DEF SchedTypeOK
  <2>2. passed[c] + Cardinality(AheadOf(c, last[prio[c]])) < Cardinality(Indices)
    BY <1>6 DEF TurnsLeft
  <2>3. CASE prio[c] = prio[b]
    <3>1. passed'[c] = passed[c] + 1 /\ last'[priority'[c]] = b
      BY <1>3, <1>6, <2>1, <2>3 DEF SchedTypeOK
    <3>2. (c - last[prio[c]]) % Modulus <= (b - last[prio[c]]) % Modulus
      BY <1>2, <1>6, <2>3 DEF Robin
    <3>3. Cardinality(AheadOf(c, b)) + 1 <= Cardinality(AheadOf(c, last[prio[c]]))
      BY <1>2, <1>6, <2>1, <3>2, AheadShrinks
    <3>4. b \in 0 .. Modulus - 1
      BY <1>2, SmartSchedAssumption
    <3>5. Cardinality(AheadOf(c, b)) \in Nat /\ Cardinality(AheadOf(c, last[prio[c]])) \in Nat
      BY <2>1, <3>4, FewAhead
    <3> QED BY <2>1, <2>2, <3>1, <3>3, <3>5, Finite
  <2>4. CASE prio[c] # prio[b]
    <3>1. passed'[c] = passed[c] /\ last'[priority'[c]] = last[prio[c]]
      BY <1>3, <1>6, <2>1, <2>4 DEF SchedTypeOK
    <3> QED BY <2>2, <3>1
  <2> QED BY <2>3, <2>4
<1> QED BY <1>5, <1>6

LEMMA TurnsStep ==
  ASSUME SchedTypeOK, SchedTypeOK', TurnsLeft, [SchedNext]_schedVars
  PROVE  TurnsLeft'
<1>1. ASSUME NEW R \in SUBSET Indices, SmartScheduleClient(R)
      PROVE  TurnsLeft'
  BY <1>1, ScheduleTurns
<1>2. CASE ~ \E R \in SUBSET Indices : SmartScheduleClient(R)
  <2>1. ASSUME NEW c \in Indices
        PROVE  passed'[c] = 0 \/ (passed'[c] = passed[c] /\ priority'[c] = priority[c] /\ last' = last)
    BY <1>2 DEF SchedNext, schedVars, ClientTurn, Penalty, Wait, AllBusy, CriticalEvent, Reconnect, SchedTypeOK
  <2> QED BY <2>1, StartsAgain DEF TurnsLeft
<1> QED BY <1>1, <1>2

-----------------------------------------------------------------------------
(* The share of a busy client.  The turns that another can still have      *)
(* before it depend on the priorities e of the other and p of the client,  *)
(* and on whether the other is ahead of it in the round robin of p: one    *)
(* for each priority between them; one at the priority of the client; and, *)
(* when long turns have raised the client, one at 0, where the praise      *)
(* ends, and one at the priority above the lowest, if the other was level  *)
(* with it there because no turn could lower it.                           *)

Owed(e, p, before) ==
  IF p >= 0 THEN IF e > p THEN e - p + 1
                 ELSE IF e = p \/ p = 0 THEN before ELSE 0
  ELSE IF p = MinPriority THEN IF e > p THEN e - p + 3 ELSE before + 2
  ELSE IF e >= p THEN e - p + 2 ELSE 1

\* 1 for a client that comes before another when x had its turn.
FirstTurn(d, c, x) == IF d \in AheadOf(c, x) THEN 1 ELSE 0

Shares == MaxPriority - MinPriority + 3

Raised(p)  == IF p < 0 THEN p + 1 ELSE p
Lowered(p) == IF p > MinPriority THEN p - 1 ELSE p

LEMMA OwedRange ==
  ASSUME NEW e \in Priority, NEW p \in Priority, NEW a \in {0, 1}
  PROVE  Shares \in Nat /\ Owed(e, p, a) \in 0 .. Shares
<1>1. MinPriority \in Int /\ MaxPriority \in Nat /\ MinPriority <= 0
  BY SmartSchedAssumption
<1> QED BY <1>1 DEF Owed, Shares, Priority

(* When all are praised, no client gets more turns before another.         *)
LEMMA OwedRaised ==
  ASSUME NEW e \in Priority, NEW p \in Priority, NEW a \in {0, 1}, NEW b \in {0, 1},
         p >= 0 => b = a
  PROVE  Owed(Raised(e), Raised(p), b) <= Owed(e, p, a)
<1>1. MinPriority \in Int /\ MaxPriority \in Nat /\ MinPriority <= 0
  BY SmartSchedAssumption
<1>2. e \in Int /\ p \in Int /\ MinPriority <= e /\ MinPriority <= p
  BY <1>1 DEF Priority
<1>3. CASE p >= 0
  BY <1>1, <1>2, <1>3 DEF Owed, Raised
<1>4. CASE p < 0 /\ p = MinPriority
  BY <1>1, <1>2, <1>4 DEF Owed, Raised
<1>5. CASE p < 0 /\ p # MinPriority
  BY <1>1, <1>2, <1>5 DEF Owed, Raised
<1> QED BY <1>2, <1>3, <1>4, <1>5

(* A client that was served has one turn less.                             *)
LEMMA OwedServed ==
  ASSUME NEW e \in Priority, NEW p \in Priority, NEW a \in {0, 1}, NEW b \in {0, 1},
         e >= p, e = p => a = 1 /\ b = 0
  PROVE  Owed(Lowered(e), p, b) + 1 <= Owed(e, p, a)
<1>1. MinPriority \in Int /\ MaxPriority \in Nat /\ MinPriority <= 0
  BY SmartSchedAssumption
<1>2. e \in Int /\ p \in Int /\ MinPriority <= e /\ MinPriority <= p
  BY <1>1 DEF Priority
<1> QED BY <1>1, <1>2 DEF Owed, Lowered

LEMMA OwedLess ==
  ASSUME NEW e \in Priority, NEW p \in Priority, NEW a \in {0, 1}, NEW b \in {0, 1}, b <= a
  PROVE  Owed(e, p, b) <= Owed(e, p, a)
<1>1. MinPriority \in Int /\ MaxPriority \in Nat /\ MinPriority <= 0
  BY SmartSchedAssumption
<1>2. e \in Int /\ p \in Int /\ MinPriority <= e /\ MinPriority <= p
  BY <1>1 DEF Priority
<1> QED BY <1>1, <1>2 DEF Owed

\* The priority that a client has when its turn is over.
Then(d) == IF busy /\ d = running THEN Lowered(priority[d]) ELSE priority[d]

TurnsOf(d, c) == Owed(Then(d), priority[c], FirstTurn(d, c, last[priority[c]]))

\* The turns that others cannot have any more before the client.
Spent(c) == {t \in (Indices \ {c}) \X (0 .. Shares - 1) : TurnsOf(t[1], c) <= t[2]}

(* What bounds the turns of others, and what is so when one has waited: it *)
(* has had none itself, and all were idle for the same time.               *)
SharesLeft ==
  /\ \A c \in Indices : waits[c] <= Cardinality(Spent(c))
  /\ \A c \in Indices : waits[c] # 0 =>
       busy /\ c # running /\ \A d, e \in Indices : idle[d] = idle[e]

LEMMA FewPairs ==
  ASSUME NEW c \in Indices, NEW S \in SUBSET ((Indices \ {c}) \X (0 .. Shares - 1))
  PROVE  /\ IsFiniteSet(S) /\ Cardinality(S) \in Nat
         /\ Cardinality(S) <= (Cardinality(Indices) - 1) * Shares
<1>1. Shares \in Nat /\ 0 \in Int /\ Shares - 1 \in Int
  BY SmartSchedAssumption DEF Shares
<1>2. /\ IsFiniteSet(Indices \ {c}) /\ Cardinality(Indices \ {c}) = Cardinality(Indices) - 1
  BY Finite, FS_RemoveElement
<1>3. IsFiniteSet(0 .. Shares - 1)
  BY <1>1, FS_Interval
<1>4. Cardinality(0 .. Shares - 1) = Shares
  <2>1. Cardinality(0 .. Shares - 1) = IF 0 > Shares - 1 THEN 0 ELSE Shares - 1 - 0 + 1
    BY <1>1, FS_Interval
  <2> QED BY <1>1, <2>1
<1> DEFINE all == (Indices \ {c}) \X (0 .. Shares - 1)
<1>5. /\ IsFiniteSet(all)
      /\ Cardinality(all) = Cardinality(Indices \ {c}) * Cardinality(0 .. Shares - 1)
  BY <1>2, <1>3, FS_Product
<1>6. S \subseteq all
  OBVIOUS
<1> HIDE DEF all
<1>7. IsFiniteSet(S) /\ Cardinality(S) <= Cardinality(all)
  BY <1>5, <1>6, FS_Subset
<1> QED BY <1>2, <1>4, <1>5, <1>7, FS_CardinalityType

(* A client is served: what was spent remains spent, and one turn more is. *)
LEMMA ServedOne ==
  ASSUME NEW c \in Indices, NEW b \in Indices, b # c,
         NEW old \in 0 .. Shares, TurnsOf(b, c)' \in Nat, TurnsOf(b, c)' + 1 <= old,
         NEW w \in Nat, w <= Cardinality(Spent(c)),
         w # 0 => /\ old <= TurnsOf(b, c)
                  /\ TurnsOf(b, c) \in Nat
                  /\ \A d \in Indices \ {c} :
                       /\ TurnsOf(d, c)' \in Nat /\ TurnsOf(d, c) \in Nat
                       /\ TurnsOf(d, c)' <= TurnsOf(d, c)
  PROVE  w + 1 <= Cardinality(Spent(c)')
<1> DEFINE one == <<b, TurnsOf(b, c)'>>
           kept == IF w = 0 THEN {} ELSE Spent(c)
<1>1. Shares \in Nat
  BY SmartSchedAssumption DEF Shares
<1>2. one \in Spent(c)'
  <2>1. TurnsOf(b, c)' \in 0 .. Shares - 1
    BY <1>1
  <2>2. one \in (Indices \ {c}) \X (0 .. Shares - 1) /\ one[1] = b /\ one[2] = TurnsOf(b, c)'
    BY <2>1
  <2> QED BY <2>1, <2>2 DEF Spent
<1>3. one \notin kept
  <2>1. ASSUME w # 0, one \in Spent(c)
        PROVE  FALSE
    <3>1. TurnsOf(b, c) <= TurnsOf(b, c)'
      BY <2>1 DEF Spent
    <3> QED BY <2>1, <3>1
  <2> QED BY <2>1
<1>4. kept \subseteq Spent(c)'
  <2>1. ASSUME w # 0, NEW t \in Spent(c)
        PROVE  t \in Spent(c)'
    <3>1. t[1] \in Indices \ {c} /\ t[2] \in Nat /\ TurnsOf(t[1], c) <= t[2]
      BY <1>1 DEF Spent
    <3>2. TurnsOf(t[1], c)' <= t[2]
      BY <2>1, <3>1
    <3> QED BY <3>2 DEF Spent
  <2> QED BY <2>1
<1> HIDE DEF one
<1>5. IsFiniteSet(Spent(c)') /\ Cardinality(Spent(c)') \in Nat
  <2>1. Spent(c)' \in SUBSET ((Indices \ {c}) \X (0 .. Shares - 1))
    BY DEF Spent, Shares
  <2> QED BY <2>1, FewPairs
<1>6. IsFiniteSet(kept) /\ w <= Cardinality(kept)
  <2>1. Spent(c) \in SUBSET ((Indices \ {c}) \X (0 .. Shares - 1))
    BY DEF Spent
  <2>2. IsFiniteSet(Spent(c))
    BY <2>1, FewPairs
  <2> QED BY <2>2, FS_EmptySet
<1> HIDE DEF kept
<1>7. IsFiniteSet(kept \cup {one}) /\ Cardinality(kept \cup {one}) = Cardinality(kept) + 1
  BY <1>3, <1>6, FS_AddElement
<1>8. Cardinality(kept \cup {one}) <= Cardinality(Spent(c)')
  <2>1. kept \cup {one} \subseteq Spent(c)'
    BY <1>2, <1>4
  <2> QED BY <1>5, <2>1, FS_Subset
<1> QED BY <1>5, <1>6, <1>7, <1>8, FS_CardinalityType

(* What is spent when a client has just been served, or another's turn is  *)
(* over, or the client itself was served.                                  *)
LEMMA ThenType ==
  ASSUME SchedTypeOK
  PROVE  \A d \in Indices : Then(d) \in Priority /\ priority[d] \in Priority
<1>1. \A p \in Priority : Lowered(p) \in Priority
  BY SmartSchedAssumption DEF Priority, Lowered
<1> QED BY <1>1 DEF Then, SchedTypeOK

LEMMA TurnsOfType ==
  ASSUME SchedTypeOK, NEW c \in Indices, NEW d \in Indices
  PROVE  TurnsOf(d, c) \in 0 .. Shares
<1>1. FirstTurn(d, c, last[priority[c]]) \in {0, 1}
  BY DEF FirstTurn
<1> QED BY <1>1, ThenType, OwedRange DEF TurnsOf

(* All are praised, or none.                                               *)
LEMMA PraisedAll ==
  ASSUME SchedTypeOK, \A d, e \in Indices : idle[d] = idle[e]
  PROVE  \/ Praised(Indices) = [c \in Indices |-> Raised(priority[c])]
         \/ Praised(Indices) = [c \in Indices |-> priority[c]]
<1>1. CASE \A c \in Indices : idle[c] >= 2 * slice
  BY <1>1 DEF Praised, Raised, SchedTypeOK
<1>2. CASE \E c \in Indices : ~(idle[c] >= 2 * slice)
  <2>1. \A c \in Indices : ~(idle[c] >= 2 * slice)
    BY <1>2
  <2> QED BY <2>1 DEF Praised
<1> QED BY <1>1, <1>2

LEMMA ScheduleShares ==
  ASSUME SchedTypeOK, SchedTypeOK', SharesLeft, NEW R \in SUBSET Indices, SmartScheduleClient(R)
  PROVE  SharesLeft'
<1> DEFINE prio == Praised(R)
           best == Best(R, prio)
<1>1. prio \in [Indices -> Priority] /\ R # {}
  BY PraisedType DEF SmartScheduleClient
<1>0. PICK b \in R : b = best
  BY <1>1, BestIs
<1>2. /\ b \in R
      /\ \A d \in R : prio[d] <= prio[b]
      /\ \A d \in R : prio[d] = prio[b] => Robin(d, prio[d]) <= Robin(b, prio[d])
  BY <1>0, <1>1, BestIs
<1>3. /\ busy => /\ R = Indices
                 /\ \/ \E d, e \in Indices : idle[d] # idle[e]
                    \/ prio = [c \in Indices |-> Raised(priority[c])]
                    \/ prio = [c \in Indices |-> priority[c]]
      /\ running = NoClient
  BY PraisedAll DEF SmartScheduleClient
<1> HIDE DEF prio, best
<1>4. /\ priority' = prio /\ running' = b /\ busy' = busy
      /\ last' = [last EXCEPT ![prio[b]] = b]
      /\ idle' = [c \in Indices |-> IF c \in R THEN 0 ELSE idle[c]]
      /\ waits' = [c \in Indices |-> IF ~busy \/ c = b THEN 0 ELSE waits[c] + 1]
  BY <1>0 DEF SmartScheduleClient, prio, best
<1>5. \A c \in Indices : waits'[c] # 0 =>
        busy' /\ c # running' /\ \A d, e \in Indices : idle'[d] = idle'[e]
  BY <1>3, <1>4
<1>6. ASSUME NEW c \in Indices
      PROVE  waits'[c] <= Cardinality(Spent(c)')
  <2>1. CASE ~busy \/ c = b
    <3>1. Spent(c)' \in SUBSET ((Indices \ {c}) \X (0 .. Shares - 1))
      BY DEF Spent, Shares
    <3>2. Cardinality(Spent(c)') \in Nat
      BY <3>1, FewPairs
    <3> QED BY <1>4, <2>1, <3>2
  <2>2. CASE busy /\ c # b
    <3>1. b \in Indices /\ R = Indices /\ prio[b] \in Priority /\ prio[c] \in Priority
      BY <1>1, <1>2, <1>3, <2>2
    <3>2. last[prio[c]] \in 0 .. Modulus - 1
      BY <3>1 DEF SchedTypeOK
    <3> DEFINE x == last[prio[c]]
    <3>3. last'[prio[c]] = IF prio[c] = prio[b] THEN b ELSE x
      BY <1>4, <3>1 DEF SchedTypeOK
    <3>4. prio[c] = prio[b] => /\ b \in AheadOf(c, x) /\ b \notin AheadOf(c, b)
                               /\ AheadOf(c, b) \subseteq AheadOf(c, x)
      <4>1. ASSUME prio[c] = prio[b]
            PROVE  (c - x) % Modulus <= (b - x) % Modulus
        BY <1>2, <3>1, <4>1 DEF Robin
      <4> QED BY <2>2, <3>1, <3>2, <4>1, AheadAfter
    <3> DEFINE owed(d) == Owed(prio[d], prio[c], FirstTurn(d, c, x))
               y == last'[prio[c]]
    <3>5. \A d \in Indices : owed(d) \in 0 .. Shares
      BY <1>1, <3>1, OwedRange DEF FirstTurn
    <3>6. \A d \in Indices :
            TurnsOf(d, c)' = Owed(IF d = b THEN Lowered(prio[d]) ELSE prio[d], prio[c], FirstTurn(d, c, y))
      BY <1>4, <2>2 DEF TurnsOf, Then, FirstTurn, AheadOf, Owed, Lowered
    <3>7. FirstTurn(b, c, x) \in {0, 1} /\ FirstTurn(b, c, y) \in {0, 1}
      BY DEF FirstTurn
    <3>8. TurnsOf(b, c)' + 1 <= owed(b)
      <4>1. prio[b] >= prio[c]
        BY <1>2, <3>1 DEF Priority
      <4>2. prio[b] = prio[c] => FirstTurn(b, c, x) = 1 /\ FirstTurn(b, c, y) = 0
        BY <3>3, <3>4 DEF FirstTurn
      <4>3. /\ TurnsOf(b, c)' = Owed(Lowered(prio[b]), prio[c], FirstTurn(b, c, y))
            /\ owed(b) = Owed(prio[b], prio[c], FirstTurn(b, c, x))
        BY <3>1, <3>6
      <4> HIDE DEF x, y, owed
      <4>4. Owed(Lowered(prio[b]), prio[c], FirstTurn(b, c, y)) + 1 <= Owed(prio[b], prio[c], FirstTurn(b, c, x))
        BY <3>1, <3>7, <4>1, <4>2, OwedServed
      <4> QED BY <4>4, <4>3
    <3>9. ASSUME NEW d \in Indices, d # b
          PROVE  TurnsOf(d, c)' <= owed(d)
      <4>1. FirstTurn(d, c, x) \in {0, 1} /\ FirstTurn(d, c, y) \in {0, 1}
        BY DEF FirstTurn
      <4>2. FirstTurn(d, c, y) <= FirstTurn(d, c, x)
        BY <3>3, <3>4 DEF FirstTurn
      <4>3. prio[d] \in Priority
        BY <1>1
      <4> HIDE DEF x, y
      <4>4. Owed(prio[d], prio[c], FirstTurn(d, c, y)) <= Owed(prio[d], prio[c], FirstTurn(d, c, x))
        BY <3>1, <4>1, <4>2, <4>3, OwedLess
      <4> QED BY <3>6, <3>9, <4>4
    <3>10. \A d \in Indices : TurnsOf(d, c)' \in Nat
      <4>1. \A p \in Priority : Lowered(p) \in Priority
        BY SmartSchedAssumption DEF Priority, Lowered
      <4>2. \A d \in Indices : FirstTurn(d, c, y) \in {0, 1}
        BY DEF FirstTurn
      <4> HIDE DEF y
      <4>3. ASSUME NEW d \in Indices
            PROVE  TurnsOf(d, c)' \in 0 .. Shares
        <5>1. (IF d = b THEN Lowered(prio[d]) ELSE prio[d]) \in Priority
          BY <1>1, <4>1
        <5> QED BY <3>1, <3>6, <4>2, <5>1, OwedRange
      <4> QED BY <4>3
    <3> HIDE DEF y
    <3>11. ASSUME waits[c] # 0, NEW d \in Indices
          PROVE  owed(d) <= TurnsOf(d, c) /\ TurnsOf(d, c) \in Nat
      <4>1. Then(d) = priority[d] /\ priority[d] \in Priority /\ priority[c] \in Priority
        BY <1>3, SmartSchedAssumption DEF Then, SchedTypeOK
      <4> DEFINE z == last[priority[c]]
      <4>2. TurnsOf(d, c) = Owed(priority[d], priority[c], FirstTurn(d, c, z))
        BY <4>1 DEF TurnsOf
      <4>3. TurnsOf(d, c) \in Nat
        BY TurnsOfType
      <4>4. CASE prio = [e \in Indices |-> priority[e]]
        <5>1. owed(d) = TurnsOf(d, c)
          BY <4>2, <4>4
        <5> QED BY <4>3, <5>1
      <4>5. CASE prio = [e \in Indices |-> Raised(priority[e])]
        <5>1. prio[d] = Raised(priority[d]) /\ prio[c] = Raised(priority[c])
          BY <4>5
        <5>2. priority[c] >= 0 => x = z
          BY <4>1, <5>1, SmartSchedAssumption DEF Raised, Priority
        <5>3. FirstTurn(d, c, x) \in {0, 1} /\ FirstTurn(d, c, z) \in {0, 1}
          BY DEF FirstTurn
        <5>4. owed(d) = Owed(Raised(priority[d]), Raised(priority[c]), FirstTurn(d, c, x))
          BY <5>1
        <5> HIDE DEF x, z
        <5>5. Owed(Raised(priority[d]), Raised(priority[c]), FirstTurn(d, c, x))
                <= Owed(priority[d], priority[c], FirstTurn(d, c, z))
          BY <4>1, <5>2, <5>3, OwedRaised
        <5> HIDE DEF owed
        <5> QED BY <4>2, <4>3, <5>4, <5>5
      <4>6. \A e, f \in Indices : idle[e] = idle[f]
        BY <3>11 DEF SharesLeft
      <4> QED BY <1>3, <2>2, <4>4, <4>5, <4>6
    <3>12. waits[c] \in Nat /\ waits[c] <= Cardinality(Spent(c)) /\ waits'[c] = waits[c] + 1
      BY <1>4, <2>2 DEF SharesLeft, SchedTypeOK
    <3> HIDE DEF owed
    <3>13. \A d \in Indices : owed(d) \in Int /\ TurnsOf(d, c)' <= owed(d)
      <4>1. \A d \in Indices : owed(d) \in Int /\ TurnsOf(d, c)' \in Int
        BY <3>5, <3>10
      <4>2. TurnsOf(b, c)' <= owed(b)
        BY <3>1, <3>8, <4>1
      <4> QED BY <3>9, <4>1, <4>2
    <3>14. waits[c] # 0 => \A d \in Indices \ {c} :
             /\ TurnsOf(d, c)' \in Nat /\ TurnsOf(d, c) \in Nat
             /\ TurnsOf(d, c)' <= TurnsOf(d, c)
      BY <3>10, <3>11, <3>13
    <3>15. waits[c] + 1 <= Cardinality(Spent(c)')
      <4>1. waits[c] # 0 => owed(b) <= TurnsOf(b, c) /\ TurnsOf(b, c) \in Nat
        BY <3>1, <3>11
      <4> DEFINE old == owed(b)
                 w == waits[c]
      <4>2. old \in 0 .. Shares /\ TurnsOf(b, c)' \in Nat /\ TurnsOf(b, c)' + 1 <= old
        BY <3>1, <3>5, <3>8, <3>10
      <4>3. w # 0 => /\ old <= TurnsOf(b, c)
                     /\ TurnsOf(b, c) \in Nat
                     /\ \A d \in Indices \ {c} :
                          /\ TurnsOf(d, c)' \in Nat /\ TurnsOf(d, c) \in Nat
                          /\ TurnsOf(d, c)' <= TurnsOf(d, c)
        BY <3>14, <4>1
      <4>4. w \in Nat /\ w <= Cardinality(Spent(c))
        BY <3>12
      <4> HIDE DEF old, w
      <4>5. w + 1 <= Cardinality(Spent(c)')
        BY <2>2, <3>1, <4>2, <4>3, <4>4, ServedOne
      <4> QED BY <4>5 DEF w
    <3> QED BY <3>12, <3>15
  <2> QED BY <2>1, <2>2
<1> QED BY <1>5, <1>6 DEF SharesLeft

LEMMA SharesStep ==
  ASSUME SchedTypeOK, SchedTypeOK', SharesLeft, [SchedNext]_schedVars
  PROVE  SharesLeft'
<1>1. ASSUME NEW R \in SUBSET Indices, SmartScheduleClient(R)
      PROVE  SharesLeft'
  BY <1>1, ScheduleShares
<1>2. CASE ~ \E R \in SUBSET Indices : SmartScheduleClient(R)
  <2>1. ASSUME NEW c \in Indices, waits'[c] = 0
        PROVE  waits'[c] <= Cardinality(Spent(c)')
    <3>1. Spent(c)' \in SUBSET ((Indices \ {c}) \X (0 .. Shares - 1))
      BY DEF Spent, Shares
    <3>2. Cardinality(Spent(c)') \in Nat
      BY <3>1, FewPairs
    <3> QED BY <2>1, <3>2
  <2>2. waits' = waits
    BY <1>2 DEF SchedNext, schedVars, ClientTurn, Wait, AllBusy, CriticalEvent, Reconnect
  <2>3. ASSUME NEW c \in Indices, waits[c] # 0
        PROVE  /\ waits'[c] <= Cardinality(Spent(c)')
               /\ busy' /\ c # running' /\ \A d, e \in Indices : idle'[d] = idle'[e]
    <3>1. /\ busy /\ c # running /\ waits[c] <= Cardinality(Spent(c))
          /\ \A d, e \in Indices : idle[d] = idle[e]
      BY <2>3 DEF SharesLeft
    <3>2. CASE UNCHANGED schedVars
      <4>1. Spent(c)' = Spent(c)
        BY <3>2 DEF schedVars, Spent, TurnsOf, Then, AheadOf
      <4> QED BY <2>2, <3>1, <3>2, <4>1 DEF schedVars
    <3>3. ASSUME NEW t \in 0 .. MaxSlice, NEW yields \in BOOLEAN, ClientTurn(t, yields)
          PROVE  /\ waits'[c] <= Cardinality(Spent(c)')
                 /\ busy' /\ c # running' /\ \A d, e \in Indices : idle'[d] = idle'[e]
      <4>1. /\ running \in Indices /\ ~yields /\ busy' = busy /\ last' = last /\ running' = NoClient
            /\ priority' = [priority EXCEPT ![running] = IF @ > MinPriority THEN @ - 1 ELSE @]
            /\ idle' = [d \in Indices |-> Least(idle[d] + t, 2 * MaxSlice)]
        BY <3>1, <3>3 DEF ClientTurn, Penalty, Elapse, SchedTypeOK
      <4>2. priority'[c] = priority[c]
        BY <3>1, <4>1 DEF SchedTypeOK
      <4>3. \A d \in Indices : Then(d)' = Then(d)
        BY <3>1, <4>1, SmartSchedAssumption DEF Then, Lowered, SchedTypeOK
      <4>4. \A d \in Indices : TurnsOf(d, c)' = TurnsOf(d, c)
        BY <4>1, <4>2, <4>3 DEF TurnsOf, AheadOf
      <4>5. Spent(c)' = Spent(c)
        BY <4>4 DEF Spent, Shares
      <4> QED BY <2>2, <3>1, <4>1, <4>5, SmartSchedAssumption
    <3> QED BY <1>2, <3>1, <3>2, <3>3 DEF SchedNext, Wait, AllBusy, CriticalEvent, Reconnect
  <2> QED BY <2>1, <2>2, <2>3 DEF SharesLeft
<1> QED BY <1>1, <1>2

-----------------------------------------------------------------------------
(* The theorems.                                                           *)

(* Every index, priority, time and slice of the scheduler stays in its     *)
(* range: SmartLastIndex is never indexed outside of its bounds.           *)
THEOREM SchedTyped == SchedSpec => []SchedTypeOK
<1>1. SchedInit => SchedTypeOK
  <2>1. /\ 0 \in Priority /\ 0 \in 0 .. 2 * MaxSlice /\ 0 \in 0 .. Modulus - 1
        /\ 0 \in 0 .. LongTime + 1 /\ 1 \in 1 .. MaxSlice
    BY SmartSchedAssumption DEF Priority
  <2> HIDE DEF Priority
  <2>2. SchedInit => /\ priority \in [Indices -> Priority] /\ idle \in [Indices -> 0 .. 2 * MaxSlice]
                     /\ last \in [Priority -> 0 .. Modulus - 1]
    BY <2>1 DEF SchedInit
  <2>3. SchedInit => alone \in 0 .. LongTime + 1 /\ slice \in 1 .. MaxSlice
    BY <2>1 DEF SchedInit
  <2>4. SchedInit => passed \in [Indices -> Nat] /\ waits \in [Indices -> Nat]
    BY DEF SchedInit
  <2> QED BY <2>2, <2>3, <2>4 DEF SchedInit, SchedTypeOK
<1>2. SchedTypeOK /\ [SchedNext]_schedVars => SchedTypeOK'
  BY TypeStep
<1> QED BY <1>1, <1>2, PTL DEF SchedSpec

(* While a client is ready, each of the others of its priority has at most *)
(* one turn before it, for any number of clients and any indices.          *)
THEOREM RoundRobinHolds == SchedSpec => []RoundRobin
<1>1. SchedInit /\ SchedTypeOK => TurnsLeft
  <2>1. ASSUME SchedInit, SchedTypeOK, NEW c \in Indices
        PROVE  passed[c] + Cardinality(AheadOf(c, last[priority[c]])) < Cardinality(Indices)
    <3>1. passed[c] = 0 /\ last[priority[c]] \in 0 .. Modulus - 1
      BY <2>1 DEF SchedInit, SchedTypeOK
    <3>2. /\ Cardinality(AheadOf(c, last[priority[c]])) \in Nat
          /\ Cardinality(AheadOf(c, last[priority[c]])) < Cardinality(Indices)
      BY <3>1, FewAhead
    <3> QED BY <3>1, <3>2
  <2> QED BY <2>1 DEF TurnsLeft
<1>2. SchedTypeOK /\ SchedTypeOK' /\ TurnsLeft /\ [SchedNext]_schedVars => TurnsLeft'
  BY TurnsStep
<1>3. SchedTypeOK /\ TurnsLeft => RoundRobin
  <2>1. ASSUME SchedTypeOK, TurnsLeft, NEW c \in Indices
        PROVE  passed[c] < Cardinality(Indices)
    <3>1. last[priority[c]] \in 0 .. Modulus - 1 /\ passed[c] \in Nat
      BY <2>1 DEF SchedTypeOK
    <3>2. Cardinality(AheadOf(c, last[priority[c]])) \in Nat
      BY <3>1, FewAhead
    <3>3. passed[c] + Cardinality(AheadOf(c, last[priority[c]])) < Cardinality(Indices)
      BY <2>1 DEF TurnsLeft
    <3> QED BY <3>1, <3>2, <3>3, Finite
  <2> QED BY <2>1 DEF RoundRobin
<1> QED BY SchedTyped, <1>1, <1>2, <1>3, PTL DEF SchedSpec

(* A client that is busy with others that all are has its turn after at    *)
(* most as many of each of the others as there are priorities, and two     *)
(* more, whatever the priorities were and however long the turns are.      *)
THEOREM BusyShareHolds == SchedSpec => []BusyShare
<1>1. SchedInit /\ SchedTypeOK => SharesLeft
  <2>1. ASSUME SchedInit, SchedTypeOK, NEW c \in Indices
        PROVE  waits[c] = 0 /\ waits[c] <= Cardinality(Spent(c))
    <3>1. Spent(c) \in SUBSET ((Indices \ {c}) \X (0 .. Shares - 1))
      BY DEF Spent
    <3>2. Cardinality(Spent(c)) \in Nat
      BY <3>1, FewPairs
    <3> QED BY <2>1, <3>2 DEF SchedInit
  <2> QED BY <2>1 DEF SharesLeft
<1>2. SchedTypeOK /\ SchedTypeOK' /\ SharesLeft /\ [SchedNext]_schedVars => SharesLeft'
  BY SharesStep
<1>3. SchedTypeOK /\ SharesLeft => BusyShare
  <2>1. ASSUME SchedTypeOK, SharesLeft, NEW c \in Indices
        PROVE  waits[c] <= (Cardinality(Indices) - 1) * (MaxPriority - MinPriority + 3)
    <3>1. Spent(c) \in SUBSET ((Indices \ {c}) \X (0 .. Shares - 1))
      BY DEF Spent
    <3>2. /\ Cardinality(Spent(c)) \in Nat
          /\ Cardinality(Spent(c)) <= (Cardinality(Indices) - 1) * Shares
      BY <3>1, FewPairs
    <3>3. waits[c] \in Nat /\ waits[c] <= Cardinality(Spent(c))
      BY <2>1 DEF SharesLeft, SchedTypeOK
    <3>4. (Cardinality(Indices) - 1) * Shares \in Int
      BY Finite, SmartSchedAssumption DEF Shares
    <3>5. waits[c] <= (Cardinality(Indices) - 1) * Shares
      BY <3>2, <3>3, <3>4
    <3> QED BY <3>5 DEF Shares
  <2> QED BY <2>1 DEF BusyShare
<1> QED BY SchedTyped, <1>1, <1>2, <1>3, PTL DEF SchedSpec
=============================================================================
