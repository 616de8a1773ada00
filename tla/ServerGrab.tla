----------------------------- MODULE ServerGrab -----------------------------
(***************************************************************************)
(* The dispatch loop, the descriptor sets it waits on, and the requests    *)
(* that change whom it listens to: GrabServer and UngrabServer, requests   *)
(* that put their client to sleep, and XTestGrabControl.                   *)
(*                                                                         *)
(* The server is one thread: a round begins in WaitForSomething, which     *)
(* makes the list of ready clients, and ends when that list is served.     *)
(* Clients send requests and exit at any point of it.                      *)
(*                                                                         *)
(* A request has no content until it is executed, except one that was put  *)
(* back and will be read again (redo).  A connection keeps its descriptor  *)
(* and its index while it lives, so both are the client here, and the part *)
(* of AllSockets that belongs to clients always equals AllClients, so they *)
(* are one set.  All clients have the same XSYNC priority.                 *)
(***************************************************************************)
EXTENDS Integers, FiniteSets

CONSTANTS
  Clients,      \* connections, by index
  Nobody,       \* no client
  Scenarios     \* of each behaviour: what its clients may send, the bounds
                \* on how much and how often they connect, and whether the
                \* smart scheduler is used (~SmartScheduleDisable)

Kind == {"plain", "grab", "ungrab", "sleep", "signal", "kill", "impervious", "pervious"}

ASSUME ServerGrabAssumption ==
  /\ Clients \subseteq Nat /\ IsFiniteSet(Clients)
  /\ Nobody \notin Clients
  /\ Scenarios \subseteq [may : [Clients -> SUBSET Kind], maxSend : [Clients -> Nat],
                         maxConnect : [Clients -> Nat], smart : BOOLEAN]

VARIABLES
  scene,    \* the scenario
  open,     \* clients[i] is set, and its connection is open
  alive,    \* the client process is there
  connects, \* number of connections of each index so far
  sent,     \* number of requests sent so far
  sock,     \* complete requests that the server has not read
  buf,      \* complete requests in the input buffer
  redo,     \* the next of them is a GrabServer that was put back
  asleep,   \* clients whose request waits for something
  grab,     \* grabState, grabClient and grabWaiters
  fds,      \* the descriptor sets, and GrabInProgress
  ready,    \* clientReady
  current,  \* requestingClient
  taken     \* it has a request to execute

client == <<open, alive, connects, sent>>
input  == <<sock, buf, redo>>
round  == <<ready, current, taken>>
vars   == <<scene, client, input, asleep, grab, fds, round>>

Grab == [state : {"none", "kickout", "active"}, client : Clients \cup {Nobody},
         waiters : SUBSET Clients]
Fds  == [all : SUBSET Clients, input : SUBSET Clients,
         saved : SUBSET Clients, savedInput : SUBSET Clients,
         ignored : SUBSET Clients, impervious : SUBSET Clients,
         grab : Clients \cup {Nobody}]

TypeOK ==
  /\ open \subseteq Clients /\ alive \subseteq Clients
  /\ connects \in [Clients -> Nat] /\ sent \in [Clients -> Nat]
  /\ sock \in [Clients -> Nat] /\ buf \in [Clients -> Nat]
  /\ redo \subseteq Clients /\ asleep \subseteq Clients
  /\ grab \in Grab /\ fds \in Fds
  /\ ready \subseteq Clients /\ current \in Clients \cup {Nobody}
  /\ taken \in BOOLEAN

InProgress(f) == f.grab # Nobody

Init ==
  /\ scene \in Scenarios
  /\ open = {} /\ alive = {}
  /\ connects = [c \in Clients |-> 0] /\ sent = [c \in Clients |-> 0]
  /\ sock = [c \in Clients |-> 0] /\ buf = [c \in Clients |-> 0]
  /\ redo = {} /\ asleep = {}
  /\ grab = [state |-> "none", client |-> Nobody, waiters |-> {}]
  /\ fds = [all |-> {}, input |-> {}, saved |-> {}, savedInput |-> {},
            ignored |-> {}, impervious |-> {}, grab |-> Nobody]
  /\ ready = {} /\ current = Nobody /\ taken = FALSE

-----------------------------------------------------------------------------
(* The descriptor sets: each operator takes them and returns them changed. *)

With(S, c, b) == IF b THEN S \cup {c} ELSE S \ {c}

\* Mutant: the input of the others is not remembered.
MutOnlyListenLoses(f, c) ==
  IF InProgress(f) THEN f
  ELSE [f EXCEPT !.savedInput = {}, !.input = @ \cap (f.impervious \cup {c}),
                 !.saved = f.all, !.all = (@ \cap f.impervious) \cup {c}, !.grab = c]

\* Mutant: the sets are saved after they are restricted.
MutOnlyListenLate(f, c) ==
  IF InProgress(f) THEN f
  ELSE LET all == (f.all \cap f.impervious) \cup {c}
       IN  [f EXCEPT !.savedInput = f.input \ all, !.input = f.input \cap all,
                     !.saved = all, !.all = all, !.grab = c]

OnlyListenToOneClient(f, c) ==
  IF InProgress(f) THEN f
  ELSE [f EXCEPT !.savedInput = f.input \ (f.impervious \cup {c}),
                 !.input      = f.input \cap (f.impervious \cup {c}),
                 !.saved      = f.all,
                 !.all        = (f.all \cap f.impervious) \cup {c},
                 !.grab       = c]

ListenToAllClients(f) ==
  IF InProgress(f)
  THEN [f EXCEPT !.all   = @ \cup f.saved,
                 !.input = @ \cup f.savedInput,
                 !.grab  = Nobody]
  ELSE f

IgnoreClient(f, c) ==
  IF ~InProgress(f) \/ c \in f.all
  THEN [f EXCEPT !.ignored = With(@, c, c \in f.input),
                 !.input = @ \ {c}, !.all = @ \ {c}]
  ELSE [f EXCEPT !.ignored = With(@, c, c \in f.savedInput),
                 !.savedInput = @ \ {c}, !.saved = @ \ {c}]

AttendClient(f, c) ==
  IF ~InProgress(f) \/ f.grab = c \/ c \in f.impervious
  THEN [f EXCEPT !.all = @ \cup {c},
                 !.input = IF c \in f.ignored THEN @ \cup {c} ELSE @]
  ELSE [f EXCEPT !.saved = @ \cup {c},
                 !.savedInput = IF c \in f.ignored THEN @ \cup {c} ELSE @]

MakeClientGrabImpervious(f, c) == [f EXCEPT !.impervious = @ \cup {c}]

MakeClientGrabPervious(f, c) ==
  LET g == [f EXCEPT !.impervious = @ \ {c}]
  IN  IF InProgress(f) /\ f.grab # c
      THEN [g EXCEPT !.savedInput = IF c \in f.input THEN @ \cup {c} ELSE @,
                     !.input = @ \ {c}, !.all = @ \ {c}]
      ELSE g

\* Mutant: a new client is listened to, grab or not.
MutAllocNewConnection(f, c) == [f EXCEPT !.all = @ \cup {c}]

\* During a grab the new client is heard when the grab ends.
AllocNewConnection(f, c) ==
  IF InProgress(f) THEN [f EXCEPT !.saved = @ \cup {c}] ELSE [f EXCEPT !.all = @ \cup {c}]

\* Mutant: the saved sets keep the descriptor of a closed connection.
MutCloseDownFd(f, c) ==
  [f EXCEPT !.all = @ \ {c}, !.input = @ \ {c}, !.impervious = @ \ {c}]

CloseDownFileDescriptor(f, c) ==
  [f EXCEPT !.all = @ \ {c}, !.input = @ \ {c}, !.impervious = @ \ {c},
            !.saved      = IF InProgress(f) THEN @ \ {c} ELSE @,
            !.savedInput = IF InProgress(f) THEN @ \ {c} ELSE @]

-----------------------------------------------------------------------------
(* The server grab.                                                        *)

\* The mask of waiters has words of 32 bits, and is searched from its last
\* word, each from its first bit.
Before(c, d) == c \div 32 > d \div 32 \/ (c \div 32 = d \div 32 /\ c <= d)

First(S) == CHOOSE c \in S : \A d \in S : Before(c, d)

\* UngrabServer hands the sets and the grab to the first waiter, who has yet
\* to execute its request again.
UngrabbedFds(g, f) ==
  IF g.waiters = {} THEN ListenToAllClients(f)
  ELSE AttendClient(ListenToAllClients(f), First(g.waiters))

\* Mutant: the waiter stays in the list.
MutUngrabbed(g) == [g EXCEPT !.state = "none"]

Ungrabbed(g) ==
  [g EXCEPT !.state = "none",
            !.waiters = IF @ = {} THEN @ ELSE @ \ {First(@)}]

Holds(g, c) == g.state # "none" /\ g.client = c

CloseDownClient(c) ==
  /\ open' = open \ {c}
  /\ asleep' = asleep \ {c}
  /\ redo' = redo \ {c}
  /\ sock' = [sock EXCEPT ![c] = 0]
  /\ buf' = [buf EXCEPT ![c] = 0]
  /\ LET g == IF Holds(grab, c) THEN Ungrabbed(grab) ELSE grab
         f == IF Holds(grab, c) THEN UngrabbedFds(grab, fds) ELSE fds
     IN  /\ grab' = [g EXCEPT !.waiters = @ \ {c}]
         /\ fds' = CloseDownFileDescriptor(f, c)

-----------------------------------------------------------------------------
(* A round: WaitForSomething and the list of ready clients.                *)

BetweenRounds == ready = {} /\ current = Nobody

\* The work that runs first, in any order: new connections, the continuations
\* of requests that slept, the timers and wakeup handlers of extensions.
Accept(c) ==
  /\ BetweenRounds
  /\ c \notin open /\ connects[c] < scene.maxConnect[c]
  /\ connects' = [connects EXCEPT ![c] = @ + 1]
  /\ open' = open \cup {c} /\ alive' = alive \cup {c}
  /\ sent' = [sent EXCEPT ![c] = 0]
  /\ fds' = AllocNewConnection(fds, c)
  /\ UNCHANGED <<input, asleep, grab, round>>

Wakeup(c) ==
  /\ BetweenRounds
  /\ c \in asleep
  /\ asleep' = asleep \ {c}
  /\ fds' = AttendClient(fds, c)
  /\ UNCHANGED <<client, input, grab, round>>

\* Mutant: the end of a connection is not input.
MutReadable == {c \in fds.all : sock[c] > 0}

\* The end of a connection can be read, too.
Readable == {c \in fds.all : sock[c] > 0 \/ c \notin alive}

\* With the smart scheduler, sockets without buffered input are polled even if
\* others have some, and SmartScheduleClient picks one of all.
WaitForSomething ==
  /\ BetweenRounds
  /\ IF scene.smart
     THEN \E c \in IF Readable \subseteq fds.input THEN fds.input
                   ELSE (Readable \cup fds.input) \cap fds.all :
            ready' = {c}
     ELSE IF fds.input # {} THEN ready' = fds.input
     ELSE Readable # {} /\ ready' = Readable
  /\ UNCHANGED <<client, input, asleep, grab, fds, current, taken>>

\* KillClient can close a client that is in the list, and a grab ends the round.
Pick(c) ==
  /\ current = Nobody /\ c \in ready
  /\ IF c \in open /\ grab.state = "kickout"
     THEN /\ grab' = [grab EXCEPT !.state = "active"]
          /\ ready' = {}
          /\ UNCHANGED current
     ELSE /\ ready' = ready \ {c}
          /\ current' = IF c \in open THEN c ELSE Nobody
          /\ UNCHANGED grab
  /\ UNCHANGED <<client, input, asleep, fds, taken>>

Break == current' = Nobody
Yield == current' \in {current, Nobody}   \* or not

\* What is in the buffer when n requests were read and one is taken.
Left(b, n) == b + n - 1

\* A request that is complete in the buffer needs no select().
MarkInput(f, c, more) == [f EXCEPT !.input = With(@, c, more)]

ReadRequestFromClient(c) ==
  /\ current = c /\ ~taken
  /\ \/ \E n \in 0 .. sock[c] :
          /\ n > 0 <=> buf[c] = 0
          /\ sock' = [sock EXCEPT ![c] = @ - n]
          /\ buf' = [buf EXCEPT ![c] = Left(@, n)]
          /\ fds' = MarkInput(fds, c, buf[c] + n > 1)
          /\ taken' = TRUE
          /\ UNCHANGED <<open, asleep, redo, grab, current>>
     \/ /\ buf[c] = 0 /\ sock[c] = 0 /\ c \in alive
        /\ fds' = MarkInput(fds, c, FALSE)
        /\ Break
        /\ UNCHANGED <<open, sock, buf, asleep, redo, grab, taken>>
     \/ /\ buf[c] = 0 /\ sock[c] = 0 /\ c \notin alive
        /\ CloseDownClient(c)
        /\ Break
        /\ UNCHANGED taken
  /\ UNCHANGED <<alive, connects, sent, ready>>

\* The next request: without the smart scheduler, a client whose buffer holds
\* no further request yields.
Execute(c, kind) ==
  /\ current = c /\ taken
  /\ taken' = FALSE
  /\ IF c \in redo THEN kind = "grab" ELSE kind \in scene.may[c]
  /\ UNCHANGED <<alive, connects, sent, ready>>

Return == IF scene.smart \/ buf[current] > 0 THEN Yield ELSE Break

Plain(c) ==
  /\ Execute(c, "plain")
  /\ Return
  /\ UNCHANGED <<open, input, asleep, grab, fds>>

GrabServer(c) ==
  /\ Execute(c, "grab")
  /\ grab.state # "none" => grab.client = c
  /\ fds' = OnlyListenToOneClient(fds, c)
  /\ grab' = [grab EXCEPT !.state = "kickout", !.client = c]
  /\ redo' = redo \ {c}
  /\ Return
  /\ UNCHANGED <<open, sock, buf, asleep>>

ResetCurrentRequest(f, c) ==
  IF c \in f.all THEN [f EXCEPT !.input = @ \cup {c}] ELSE [f EXCEPT !.ignored = @ \cup {c}]

\* GrabServer while another has the grab: it will be executed again.
WaitForGrab(c) ==
  /\ Execute(c, "grab")
  /\ grab.state # "none" /\ grab.client # c
  /\ buf' = [buf EXCEPT ![c] = @ + 1] /\ redo' = redo \cup {c}
  /\ fds' = IgnoreClient(ResetCurrentRequest(fds, c), c)
  /\ grab' = [grab EXCEPT !.waiters = @ \cup {c}]
  /\ Break
  /\ UNCHANGED <<open, sock, asleep>>

\* It does not ask who has the grab.
UngrabServer(c) ==
  /\ Execute(c, "ungrab")
  /\ fds' = UngrabbedFds(grab, fds)
  /\ grab' = Ungrabbed(grab)
  /\ Return
  /\ UNCHANGED <<open, input, asleep>>

Sleep(c) ==
  /\ Execute(c, "sleep")
  /\ fds' = IgnoreClient(fds, c)
  /\ asleep' = asleep \cup {c}
  /\ Break
  /\ UNCHANGED <<open, input, grab>>

\* A request that fires the trigger another client awaits.
Signal(c) ==
  /\ Execute(c, "signal")
  /\ \E d \in asleep :
       /\ asleep' = asleep \ {d}
       /\ fds' = AttendClient(fds, d)
  /\ Return
  /\ UNCHANGED <<open, input, grab>>

KillClient(c) ==
  /\ Execute(c, "kill")
  /\ \E d \in open :
       /\ CloseDownClient(d)
       /\ IF d = c THEN Break ELSE Return

Impervious(c) ==
  /\ Execute(c, "impervious")
  /\ fds' = MakeClientGrabImpervious(fds, c)
  /\ Return
  /\ UNCHANGED <<open, input, asleep, grab>>

Pervious(c) ==
  /\ Execute(c, "pervious")
  /\ fds' = MakeClientGrabPervious(fds, c)
  /\ IF InProgress(fds) /\ fds.grab # c THEN Break ELSE Return
  /\ UNCHANGED <<open, input, asleep, grab>>

-----------------------------------------------------------------------------
(* The clients.                                                            *)

Send(c) ==
  /\ c \in open \cap alive
  /\ sent[c] < scene.maxSend[c]
  /\ sent' = [sent EXCEPT ![c] = @ + 1]
  /\ sock' = [sock EXCEPT ![c] = @ + 1]
  /\ UNCHANGED <<open, alive, connects, buf, redo, asleep, grab, fds, round>>

Exit(c) ==
  /\ c \in open \cap alive
  /\ alive' = alive \ {c}
  /\ UNCHANGED <<open, connects, sent, input, asleep, grab, fds, round>>

Request(c) ==
  \/ Plain(c) \/ GrabServer(c) \/ WaitForGrab(c) \/ UngrabServer(c)
  \/ Sleep(c) \/ Signal(c) \/ KillClient(c)
  \/ Impervious(c) \/ Pervious(c)

Serve == \/ WaitForSomething
         \/ \E c \in Clients : Pick(c) \/ ReadRequestFromClient(c) \/ Request(c)

Next == /\ \/ Serve
           \/ \E c \in Clients : Accept(c) \/ Wakeup(c) \/ Send(c) \/ Exit(c)
        /\ UNCHANGED scene

Spec == Init /\ [][Next]_vars

\* The server runs, what a client sleeps for happens, and clients exit.
Fairness == /\ WF_vars(Serve /\ UNCHANGED scene)
            /\ \A c \in Clients : /\ WF_vars(Exit(c) /\ UNCHANGED scene)
                                  /\ SF_vars(Wakeup(c) /\ UNCHANGED scene)

FairSpec == Spec /\ Fairness

-----------------------------------------------------------------------------
(* Properties.                                                             *)

\* c's request is executed, and not put back.
Executes(c) == current = c /\ taken /\ ~taken' /\ buf'[c] <= buf[c]

(* While a client has the server, only it and clients that made themselves *)
(* impervious are served: whoever was ready when GrabServer was executed   *)
(* is turned away.                                                         *)
GrabExcludes ==
  [][\A c \in Clients : Executes(c) =>
       \/ grab.state = "none" \/ grab.client = c \/ c \in fds.impervious]_vars

(* The server grab of the dispatcher and that of the descriptor sets are   *)
(* one: the restriction of the sets ends when the grab does, whichever way *)
(* its client goes.                                                        *)
GrabsAgree ==
  /\ grab.state = "none" <=> fds.grab = Nobody
  /\ grab.state # "none" => fds.grab = grab.client /\ grab.client \in open

(* No descriptor of a closed connection is waited for, or will be when the *)
(* grab ends: select() would fail, or read another client's requests.      *)
NoStaleDescriptor ==
  /\ (fds.all \cup fds.input \cup asleep \cup grab.waiters) \subseteq open
  /\ InProgress(fds) => (fds.saved \cup fds.savedInput) \subseteq open

\* c may become pervious while another has the server, of whose grab the
\* sets were saved while it slept: they do not have it.
Lapses(c) == {"impervious", "sleep", "pervious"} \subseteq scene.may[c]

(* A complete request in the buffer of a client is remembered somewhere:   *)
(* select() would never report it.  Not so for a client that lapses.       *)
InputRemembered ==
  \A c \in open : buf[c] > 0 /\ ~Lapses(c) =>
    \/ c \in fds.input \/ current = c
    \/ InProgress(fds) /\ c \in fds.savedInput
    \/ c \in fds.ignored \cap (asleep \cup grab.waiters)

(* Every connection is either ignored, and something will attend to it, or *)
(* listened to, now or when the grab ends.  Not so for one that lapses.    *)
Heard ==
  \A c \in open \ (asleep \cup grab.waiters) : ~Lapses(c) =>
    c \in fds.all \/ (InProgress(fds) /\ c \in fds.saved)

\* The clients that can ask for the server during a grab.
Rivals == {c \in Clients : {"impervious", "grab"} \subseteq scene.may[c]}

\* None is killed, and there are at most two of them.
Orderly == /\ \A c \in Clients : "kill" \notin scene.may[c]
           /\ \A b, c, d \in Rivals : b = c \/ c = d \/ b = d

(* A client waits for the server only while another has it, or is about to *)
(* ask for it again: an UngrabServer wakes one waiter only, so that one    *)
(* must not be lost.  Not so if it is killed, or if one of three that wait *)
(* is served before its turn because it sends more.                        *)
WaiterHasTurn ==
  Orderly /\ grab.waiters # {} =>
    grab.state # "none" \/ \E c \in open \ grab.waiters : c \in redo

(* A client that is gone is noticed and closed, whatever it or the others  *)
(* were doing: ignored, waiting, shut out by a grab.  Not so for one that  *)
(* is in no set because it lapsed, or slept before it waited in vain.      *)
GoneIsClosed ==
  \A c \in Clients :
    c \in open \ alive /\ ~({"impervious", "sleep"} \subseteq scene.may[c])
      ~> (c \notin open \/ c \in alive)
=============================================================================
