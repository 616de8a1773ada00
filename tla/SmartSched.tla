----------------------------- MODULE SmartSched -----------------------------
(***************************************************************************)
(* The smart scheduler (SmartScheduleClient and the turn that Dispatch     *)
(* gives to the client it returns).  Clients that use up their slice are   *)
(* lowered, clients that were idle or get the user's input are raised, and *)
(* clients of one priority take turns by their index.                      *)
(*                                                                         *)
(* Time passes in ticks of SmartScheduleInterval.  Only differences of     *)
(* times are compared, so what is kept is how long ago something was, up   *)
(* to the largest difference that matters.                                 *)
(***************************************************************************)
EXTENDS Integers, FiniteSets

CONSTANTS
  Indices,     \* indices of clients
  NoClient,
  MinPriority, \* SMART_MIN_PRIORITY
  MaxPriority, \* SMART_MAX_PRIORITY
  MaxSlice,    \* SmartScheduleMaxSlice
  LongTime,    \* the second after which a client alone gets longer slices
  Modulus      \* 256: the robin is taken modulo 0xff + 1

ASSUME SmartSchedAssumption ==
  /\ Indices \subseteq 1 .. Modulus - 1 /\ NoClient \notin Indices
  /\ MinPriority \in Int /\ MaxPriority \in Nat /\ MinPriority <= 0
  /\ MaxSlice \in Nat \ {0} /\ LongTime \in Nat /\ Modulus \in Nat \ {0}

VARIABLES
  priority,   \* smart_priority
  idle,       \* time since smart_check_tick
  last,       \* SmartLastIndex
  lastClient, \* SmartLastClient
  alone,      \* time since its smart_start_tick
  slice,      \* SmartScheduleSlice
  running,    \* the client that has its turn
  busy,       \* from now on every client is ready and uses up its slices
  passed,     \* how often others of its priority had theirs since a client became ready
  waits       \* how often others had theirs since all clients are busy

schedVars == <<priority, idle, last, lastClient, alone, slice, running, busy, passed, waits>>

Priority == MinPriority .. MaxPriority

(* The type invariant.  The priority indexes SmartLastIndex, an array of   *)
(* one element for each priority: no sequence of turns, idle times and     *)
(* events leaves its range, and no slice leaves its own.                   *)
SchedTypeOK ==
  /\ priority \in [Indices -> Priority]
  /\ idle \in [Indices -> 0 .. 2 * MaxSlice]
  /\ last \in [Priority -> 0 .. Modulus - 1]
  /\ lastClient \in Indices \cup {NoClient} /\ running \in Indices \cup {NoClient}
  /\ alone \in 0 .. LongTime + 1
  /\ slice \in 1 .. MaxSlice
  /\ busy \in BOOLEAN
  /\ passed \in [Indices -> Nat] /\ waits \in [Indices -> Nat]

SchedInit ==
  /\ priority = [c \in Indices |-> 0] /\ idle = [c \in Indices |-> 0]
  /\ last = [p \in Priority |-> 0]
  /\ lastClient = NoClient /\ alone = 0 /\ slice = 1
  /\ running = NoClient /\ busy = FALSE
  /\ passed = [c \in Indices |-> 0] /\ waits = [c \in Indices |-> 0]

Least(m, n) == IF m < n THEN m ELSE n

\* Mutant: the difference of the indices as it is.
MutRobin(c, p) == c - last[p]

\* Of two clients the one further below the last one served, cyclically, goes
\* first: the one served last has the distance 0.
Robin(c, p) == (c - last[p]) % Modulus

\* Praise clients which are idle.
Praised(R) ==
  [c \in Indices |-> IF c \in R /\ idle[c] >= 2 * slice /\ priority[c] < 0
                     THEN priority[c] + 1 ELSE priority[c]]

\* Mutant: the best of the clients by robin alone.
MutBest(R, prio) == CHOOSE c \in R : \A d \in R : Robin(c, prio[c]) >= Robin(d, prio[d])

Best(R, prio) ==
  LET top == {c \in R : \A d \in R : prio[c] >= prio[d]}
  IN  CHOOSE c \in top : \A d \in top : Robin(c, prio[c]) >= Robin(d, prio[d])

\* The turn goes to the best of the ready clients.
SmartScheduleClient(R) ==
  /\ running = NoClient /\ R # {}
  /\ busy => R = Indices
  /\ LET prio == Praised(R)
         best == Best(R, prio)
         time == IF lastClient = best THEN alone ELSE 0
     IN  /\ priority' = prio
         /\ idle' = [c \in Indices |-> IF c \in R THEN 0 ELSE idle[c]]
         /\ last' = [last EXCEPT ![prio[best]] = best]
         /\ lastClient' = best
         /\ alone' = time
         /\ slice' = IF Cardinality(R) > 1 THEN 1
                     ELSE IF time > LongTime /\ slice < MaxSlice THEN slice + 1
                     ELSE slice
         /\ running' = best
         /\ passed' = [c \in Indices |->
                         IF c \notin R \/ c = best \/ prio[c] # priority[c] THEN 0
                         ELSE IF prio[c] = prio[best] THEN passed[c] + 1
                         ELSE passed[c]]
         /\ waits' = [c \in Indices |-> IF ~busy \/ c = best THEN 0 ELSE waits[c] + 1]
         /\ UNCHANGED busy

Elapse(t) ==
  /\ idle' = [c \in Indices |-> Least(idle[c] + t, 2 * MaxSlice)]
  /\ alone' = Least(alone + t, LongTime + 1)

\* Penalize clients which consume ticks.
Penalty(c) == [priority EXCEPT ![c] = IF @ > MinPriority THEN @ - 1 ELSE @]

\* The client runs until its slice is used up, or it yields before that is
\* seen: it has no more requests, or has to wait.
ClientTurn(t, yields) ==
  /\ running # NoClient
  /\ IF busy THEN t >= slice /\ ~yields ELSE t < slice => yields
  /\ Elapse(t)
  /\ priority' = IF yields THEN priority ELSE Penalty(running)
  /\ running' = NoClient
  /\ passed' = [passed EXCEPT ![running] = 0]
  /\ UNCHANGED <<last, lastClient, slice, busy, waits>>

\* Nobody is ready, and the server waits.
Wait ==
  /\ running = NoClient /\ ~busy
  /\ Elapse(1)
  /\ passed' = [c \in Indices |-> 0]
  /\ UNCHANGED <<priority, last, lastClient, slice, running, busy, waits>>

\* A client is sent an event of the keyboard or the pointer.
CriticalEvent(c) ==
  /\ ~busy
  /\ priority[c] < MaxPriority
  /\ priority' = [priority EXCEPT ![c] = @ + 1]
  /\ passed' = [passed EXCEPT ![c] = 0]
  /\ UNCHANGED <<idle, last, lastClient, alone, slice, running, busy, waits>>

\* CloseDownClient, and another client with the same index.
Reconnect(c) ==
  /\ ~busy
  /\ priority' = [priority EXCEPT ![c] = 0]
  /\ idle' = [idle EXCEPT ![c] = 0]
  /\ lastClient' = NoClient
  /\ running' = IF running = c THEN NoClient ELSE running
  /\ passed' = [passed EXCEPT ![c] = 0]
  /\ UNCHANGED <<last, alone, slice, busy, waits>>

\* The environment: the clients are busy, and will be.
AllBusy ==
  /\ ~busy /\ busy' = TRUE
  /\ UNCHANGED <<priority, idle, last, lastClient, alone, slice, running, passed, waits>>

SchedNext ==
  \/ \E R \in SUBSET Indices : SmartScheduleClient(R)
  \/ \E t \in 0 .. MaxSlice, yields \in BOOLEAN : ClientTurn(t, yields)
  \/ Wait \/ AllBusy
  \/ \E c \in Indices : CriticalEvent(c) \/ Reconnect(c)

SchedSpec == SchedInit /\ [][SchedNext]_schedVars

-----------------------------------------------------------------------------
(* Properties.                                                             *)

(* Among clients of one priority there is a round robin: while a client is *)
(* ready, each of the others has at most one turn before it.               *)
RoundRobin == \A c \in Indices : passed[c] < Cardinality(Indices)

(* When all clients are busy, no priority that they have come to by then   *)
(* keeps one from its turn: those that have more turns are lowered for it. *)
(* All the others together have at most as many turns before it as if each *)
(* had one for each priority, and two more: where long turns have all the  *)
(* clients praised, one can be level with it once more.  (A ready client   *)
(* can wait for ever behind one that always yields in time.)               *)
BusyShare ==
  \A c \in Indices : waits[c] <= (Cardinality(Indices) - 1) * (MaxPriority - MinPriority + 3)
=============================================================================
