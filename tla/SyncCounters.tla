---------------------------- MODULE SyncCounters ----------------------------
(***************************************************************************)
(* Counters, awaits and alarms of the SYNC extension (Xext/sync.c).        *)
(*                                                                         *)
(* A counter has a list of triggers.  A trigger is an alarm, or one of the *)
(* conditions of the request that a client waits in.  When the counter     *)
(* changes or is destroyed its list is walked, and what one trigger does   *)
(* may take others from the list, and from memory: the server has one      *)
(* thread, but a walk takes several steps here.                            *)
(***************************************************************************)
EXTENDS SyncValue, Sequences, SequencesExt

CONSTANTS
  Clients,
  Counters,   \* XIDs of counters
  Alarms,     \* XIDs of alarms
  None,
  Freed,      \* what a trigger refers to whose counter was freed without its knowing
  WaitValues, \* wait values of triggers, and amounts of changes
  Deltas,     \* deltas of alarms
  Scenarios   \* what clients do, and bounds on how much of it

TestTypes == {"PositiveTransition", "NegativeTransition",
              "PositiveComparison", "NegativeComparison"}
Comparisons == {"PositiveComparison", "NegativeComparison"}
Positive == {"PositiveTransition", "PositiveComparison"}

\* What clients may do: "same" waits for a counter in two ways, "own" for a
\* counter of one's own, "mismatch" and "overflow" change an alarm in ways
\* that are refused.
Habit == {"await", "same", "own", "alarm", "mismatch", "overflow"}

\* Of a behaviour: the habits of its clients, the test types of its triggers
\* and the number of its counters.
Scenario == [habits : SUBSET Habit, types : SUBSET TestTypes, counters : Nat]

\* Conditions are numbered by their place in the request.
Conditions == Clients \X (1 .. 2)
Triggers == Alarms \cup Conditions

ASSUME SyncCountersAssumption ==
  /\ WaitValues \subseteq Values /\ Deltas \subseteq Values
  /\ None \notin Clients \cup Counters \cup Triggers
  /\ Freed \notin Counters \cup {None}
  /\ Alarms \cap Conditions = {}
  /\ Scenarios \subseteq Scenario

VARIABLES
  scenario, \* the scenario of this behaviour
  open,     \* which clients are connected
  dying,    \* the client whose resources are being freed, or None
  counter,  \* the counters
  await,    \* the conditions each client waits for; empty when it does not wait
  alarm,    \* the alarms
  list,     \* the triggers of each counter, pTriglist
  lost,     \* history: the triggers in front of one that was taken from their list
  walk      \* the walk of a list; of no list, at an alarm whose loop has no end

vars == <<scenario, open, dying, counter, await, alarm, list, lost, walk>>

\* test is the type, check the function that was chosen for it.
Condition == [counter : Counters \cup {Freed}, check : TestTypes, value : Values]

Alarm == [state : {"none", "active", "inactive"}, owner : Clients \cup {None},
          counter : Counters \cup {None, Freed}, test : TestTypes,
          check : TestTypes, value : Values, delta : Values]

NoAlarm == [state |-> "none", owner |-> None, counter |-> None,
            test |-> "PositiveComparison", check |-> "PositiveComparison",
            value |-> 0, delta |-> 0]
NoCounter == [owner |-> None, value |-> 0, beingDestroyed |-> FALSE]
Idle == [counter |-> None, node |-> None, old |-> 0]

TypeOK ==
  /\ scenario \in Scenarios
  /\ open \in [Clients -> BOOLEAN] /\ dying \in Clients \cup {None}
  /\ counter \in [Counters -> [owner : Clients \cup {None}, value : Values,
                               beingDestroyed : BOOLEAN]]
  /\ await \in [Clients -> {<<>>} \cup [1 .. 1 -> Condition] \cup [1 .. 2 -> Condition]]
  /\ alarm \in [Alarms -> Alarm]
  /\ list \in [Counters -> Seq(Triggers)] /\ lost \subseteq Triggers
  /\ walk \in [counter : Counters \cup {None}, node : Triggers \cup {None}, old : Values]

Init ==
  /\ scenario \in Scenarios
  /\ open = [c \in Clients |-> TRUE] /\ dying = None
  /\ counter = [k \in Counters |-> NoCounter]
  /\ await = [c \in Clients |-> <<>>]
  /\ alarm = [a \in Alarms |-> NoAlarm]
  /\ list = [k \in Counters |-> <<>>] /\ lost = {}
  /\ walk = Idle

Does(habit) == habit \in scenario.habits

Exists(k) == counter[k].owner # None
Blocked(c) == await[c] # <<>>

\* A client whose requests are executed: the server does nothing else.
Runs(c) == open[c] /\ ~Blocked(c) /\ dying = None /\ walk = Idle

\* The trigger's memory is allocated.
Live(t) == IF t \in Alarms THEN alarm[t].state # "none"
                           ELSE t[2] \in DOMAIN await[t[1]]
Trigger(t) == IF t \in Alarms THEN alarm[t] ELSE await[t[1]][t[2]]

\* CheckTrigger of a trigger on a counter that went from old to new.
Check(trig, old, new) ==
  \/ trig.check = "PositiveComparison" /\ new >= trig.value
  \/ trig.check = "NegativeComparison" /\ new <= trig.value
  \/ trig.check = "PositiveTransition" /\ old < trig.value /\ new >= trig.value
  \/ trig.check = "NegativeTransition" /\ old > trig.value /\ new <= trig.value

-----------------------------------------------------------------------------
(* What a trigger does when it fires.                                      *)

\* A list has a trigger once.
Place(s, t) == CHOOSE i \in DOMAIN s : s[i] = t
InFront(s, t) == IF t \in ToSet(s) THEN {s[i] : i \in 1 .. Place(s, t) - 1} ELSE {}

\* pPrev stays NULL: a list that has the trigger begins behind it afterwards,
\* and what was in front of it is on no list any more.
Behind(s, t) == IF t \in ToSet(s) THEN SubSeq(s, Place(s, t) + 1, Len(s)) ELSE s

\* Does nothing for a trigger that has no counter.
SyncDeleteTriggerFromCounter(lists, t, from) ==
  [k \in Counters |-> IF k = from THEN Behind(lists[k], t) ELSE lists[k]]

\* The triggers that go with it.
Dropped(t, from) == IF from \in Counters THEN InFront(list[from], t) ELSE {}

\* The trigger comes to the front, unless it is there already.
SyncAddTriggerToCounter(lists, t, to) ==
  [k \in Counters |-> IF k = to /\ t \notin ToSet(lists[k]) THEN <<t>> \o lists[k] ELSE lists[k]]

\* The counter that a condition is taken from: one that is being destroyed
\* frees its list itself.
TakenFrom(c, i) ==
  IF i \in DOMAIN await[c] /\ ~counter[await[c][i].counter].beingDestroyed
    THEN await[c][i].counter ELSE None

\* Mutant: only the first condition is taken from its counter.
MutWithout(c) == SyncDeleteTriggerFromCounter(list, <<c, 1>>, TakenFrom(c, 1))

\* FreeAwait: the conditions are taken from their counters.
Without(c) ==
  SyncDeleteTriggerFromCounter(
    SyncDeleteTriggerFromCounter(list, <<c, 1>>, TakenFrom(c, 1)), <<c, 2>>, TakenFrom(c, 2))

LostWithout(c) ==
  (lost \cup Dropped(<<c, 1>>, TakenFrom(c, 1)) \cup Dropped(<<c, 2>>, TakenFrom(c, 2)))
    \ ({c} \X (1 .. 2))

\* No more is known of a server that uses a freed counter: an alarm, or the
\* conditions of a client, can be used.
Usable(a) == alarm[a].state # "none" /\ alarm[a].counter # Freed
Intact(c) == \A i \in DOMAIN await[c] : await[c][i].counter # Freed

\* "The alarm is updated by repeatedly adding delta to the value of the
\* trigger and re-initializing it until it becomes FALSE", or overflows:
\* the numbers of additions after which it may end.
After(al, n) == al.value + n * al.delta
Ends(al, new) ==
  {n \in 1 .. Word * Word :
     After(al, n) \notin Values \/ ~Check([al EXCEPT !.value = After(al, n)], new, new)}

\* Mutant: the delta is added once.
MutAdvanced(al, new) ==
  IF al.value + al.delta \in Values THEN [al EXCEPT !.value = @ + al.delta]
                                    ELSE [al EXCEPT !.state = "inactive"]

Advanced(al, new) ==
  LET n == CHOOSE m \in Ends(al, new) : \A l \in Ends(al, new) : m <= l
  IN  IF After(al, n) \in Values THEN [al EXCEPT !.value = After(al, n)]
                                 ELSE [al EXCEPT !.state = "inactive"]

\* The alarm is updated when it fires.
Advances(al) ==
  al.state = "active" /\ al.counter # None /\ ~(al.delta = 0 /\ al.test \in Comparisons)

\* SyncAlarmTriggerFired, with the alarm's counter at new.
AlarmTriggerFired(al, new) ==
  IF al.state # "active" THEN al
  ELSE IF Advances(al) THEN Advanced(al, new)
  ELSE [al EXCEPT !.state = "inactive"]

\* The server adds for ever.
Loops(al, new) == Advances(al) /\ Ends(al, new) = {}

-----------------------------------------------------------------------------
(* The walk of SyncChangeCounter.                                          *)

First(s) == IF s = <<>> THEN None ELSE Head(s)

\* Mutant: the next trigger is skipped when one leaves the list.
MutFollowing(k, t) ==
  LET i == Place(list[k], t)
      n == IF t \in Alarms THEN i + 1 ELSE i + 2
  IN  IF n <= Len(list[k]) THEN list[k][n] ELSE None

\* Mutant: the next trigger is asked of the one that has fired, and been freed.
MutFollowingLate(k, t) == t

\* ptl->next.
Following(k, t) ==
  LET i == Place(list[k], t)
  IN  IF i < Len(list[k]) THEN list[k][i + 1] ELSE None

Change(k, new) ==
  /\ counter' = [counter EXCEPT ![k].value = new]
  /\ walk' = [counter |-> k, node |-> First(list[k]), old |-> counter[k].value]
  /\ UNCHANGED <<open, dying, await, alarm, list, lost>>

\* The server is in the loop of an alarm, and does nothing else any more.
Stopped(a) == [Idle EXCEPT !.node = a]

\* The next trigger is remembered, and this one checked.
Visit ==
  LET k == walk.counter
      t == walk.node
  IN  /\ k # None /\ ~counter[k].beingDestroyed
      /\ t # None /\ Live(t) /\ t \in ToSet(list[k])
      /\ IF ~Check(Trigger(t), walk.old, counter[k].value)
           THEN /\ walk' = [walk EXCEPT !.node = Following(k, t)]
                /\ UNCHANGED <<await, alarm, list, lost>>
         ELSE IF t \in Conditions
           THEN /\ Intact(t[1])
                /\ walk' = [walk EXCEPT !.node = Following(k, t)]
                /\ await' = [await EXCEPT ![t[1]] = <<>>]
                /\ list' = Without(t[1]) /\ lost' = LostWithout(t[1])
                /\ UNCHANGED alarm
         ELSE IF Loops(alarm[t], counter[k].value)
           THEN walk' = Stopped(t) /\ UNCHANGED <<await, alarm, list, lost>>
           ELSE /\ walk' = [walk EXCEPT !.node = Following(k, t)]
                /\ alarm' = [alarm EXCEPT ![t] = AlarmTriggerFired(@, counter[k].value)]
                /\ UNCHANGED <<await, list, lost>>
      /\ UNCHANGED <<open, dying, counter>>

Changed ==
  /\ walk.counter # None /\ ~counter[walk.counter].beingDestroyed
  /\ walk.node = None
  /\ walk' = Idle
  /\ UNCHANGED <<open, dying, counter, await, alarm, list, lost>>

-----------------------------------------------------------------------------
(* The walk of FreeCounter.                                                *)

Destroy(k) ==
  /\ counter' = [counter EXCEPT ![k].beingDestroyed = TRUE]
  /\ walk' = [Idle EXCEPT !.counter = k]

\* The next trigger is told, and its place in the list freed.
Tell ==
  LET k == walk.counter
      t == Head(list[k])
  IN  /\ k # None /\ counter[k].beingDestroyed
      /\ list[k] # <<>> /\ Live(t)
      /\ IF t \in Alarms
           THEN /\ alarm' = [alarm EXCEPT ![t].state = "inactive", ![t].counter = None]
                /\ list' = [list EXCEPT ![k] = Tail(@)]
                /\ UNCHANGED <<await, lost>>
           ELSE /\ Intact(t[1])
                /\ await' = [await EXCEPT ![t[1]] = <<>>]
                /\ list' = [Without(t[1]) EXCEPT ![k] = Tail(@)]
                /\ lost' = LostWithout(t[1])
                /\ UNCHANGED alarm
      /\ UNCHANGED <<open, dying, counter, walk>>

\* A trigger that was not told refers to a counter that is not there.
Dangling(trig, k) == IF trig.counter = k THEN [trig EXCEPT !.counter = Freed] ELSE trig

Destroyed ==
  /\ walk.counter # None /\ counter[walk.counter].beingDestroyed
  /\ list[walk.counter] = <<>>
  /\ counter' = [counter EXCEPT ![walk.counter] = NoCounter]
  /\ alarm' = [a \in Alarms |-> Dangling(alarm[a], walk.counter)]
  /\ await' = [c \in Clients |-> [i \in DOMAIN await[c] |-> Dangling(await[c][i], walk.counter)]]
  /\ walk' = Idle
  /\ UNCHANGED <<open, dying, list, lost>>

-----------------------------------------------------------------------------
(* Requests about counters.                                                *)

CreateCounter(c, k) ==
  /\ Runs(c) /\ ~Exists(k)
  /\ Cardinality({l \in Counters : Exists(l)}) < scenario.counters
  /\ \E v \in WaitValues : counter' = [counter EXCEPT ![k] = [NoCounter EXCEPT !.owner = c, !.value = v]]
  /\ UNCHANGED <<open, dying, await, alarm, list, lost, walk>>

SetCounter(c, k, v) == Runs(c) /\ Exists(k) /\ Change(k, v)

ChangeCounter(c, k, v) ==
  /\ Runs(c) /\ Exists(k)
  /\ ~XSyncValueAdd(counter[k].value, v).overflow
  /\ Change(k, XSyncValueAdd(counter[k].value, v).value)

DestroyCounter(c, k) ==
  /\ Runs(c) /\ Exists(k)
  /\ Destroy(k)
  /\ UNCHANGED <<open, dying, await, alarm, list, lost>>

\* The test value of a trigger: its wait value, or relative to the counter.
TestValues(k) ==
  WaitValues \cup {XSyncValueAdd(counter[k].value, w).value :
                     w \in {v \in WaitValues : ~XSyncValueAdd(counter[k].value, v).overflow}}

\* A condition of the request is put on the list of its counter.
Registered(lists, c, i, conds) ==
  IF i \in DOMAIN conds THEN SyncAddTriggerToCounter(lists, <<c, i>>, conds[i].counter) ELSE lists

\* Mutant: a client that waits for what is true already goes to sleep.
MutAwait(c, conds) ==
  /\ Runs(c)
  /\ await' = [await EXCEPT ![c] = conds]
  /\ list' = Registered(Registered(list, c, 1, conds), c, 2, conds)
  /\ UNCHANGED <<open, dying, counter, alarm, lost, walk>>

\* The client is ignored, unless a condition is true already.
Await(c, conds) ==
  /\ Runs(c)
  /\ \A i \in DOMAIN conds :
       ~Check(conds[i], counter[conds[i].counter].value, counter[conds[i].counter].value)
  /\ await' = [await EXCEPT ![c] = conds]
  /\ list' = Registered(Registered(list, c, 1, conds), c, 2, conds)
  /\ UNCHANGED <<open, dying, counter, alarm, lost, walk>>

\* The conditions that clients wait for.
Conds(c) ==
  UNION {{[counter |-> k, check |-> y, value |-> v] : y \in scenario.types, v \in TestValues(k)} :
           k \in {l \in Counters : /\ Exists(l) /\ Does("await")
                               /\ (Does("own") \/ counter[l].owner # c)}}

-----------------------------------------------------------------------------
(* Requests about alarms.                                                  *)

Mismatch(al) == IF al.test \in Positive THEN al.delta < 0 ELSE al.delta > 0

\* The alarm's trigger leaves the list of one counter for that of another.
Listed(a, from, to) ==
  IF from = to THEN list
  ELSE SyncAddTriggerToCounter(SyncDeleteTriggerFromCounter(list, a, from), a, to)

LostListed(a, from, to) == IF from = to THEN lost ELSE (lost \cup Dropped(a, from)) \ {a}

\* See if the alarm is triggered already.
Value(k) == IF k = None THEN 0 ELSE counter[k].value
Triggered(al) == al.counter = None \/ Check(al, Value(al.counter), Value(al.counter))
Started(al) == IF Triggered(al) THEN AlarmTriggerFired(al, Value(al.counter)) ELSE al

CreateAlarm(c, a, al) ==
  /\ Runs(c) /\ alarm[a].state = "none"
  /\ al.counter # None => Exists(al.counter)
  /\ ~Mismatch(al)
  /\ alarm' = [alarm EXCEPT ![a] = Started([al EXCEPT !.owner = c])]
  /\ list' = Listed(a, None, al.counter) /\ lost' = LostListed(a, None, al.counter)
  /\ UNCHANGED <<open, dying, counter, await, walk>>

\* The attributes that the request stores before anything is checked.
Stored(al, m, to) ==
  [al EXCEPT !.test = IF "test" \in m THEN to.test ELSE @,
             !.delta = IF "delta" \in m THEN to.delta ELSE @]

\* SyncInitTrigger up to the test value.
Initialized(al, m, to) ==
  [Stored(al, m, to) EXCEPT !.counter = IF "counter" \in m THEN to.counter ELSE @,
                            !.check = IF "test" \in m THEN to.test ELSE @]

BadMatch(al, m, to) == m \cap {"test", "delta"} # {} /\ Mismatch(Stored(al, m, to))
BadCounter(m, to) == "counter" \in m /\ to.counter # None /\ ~Exists(to.counter)

ChangeAlarm(c, a, m, to) ==
  LET init == Initialized(alarm[a], m, to)
      al   == [init EXCEPT !.value = IF "value" \in m THEN to.value ELSE @, !.state = "active"]
  IN  /\ Runs(c) /\ Usable(a)
      /\ ~BadMatch(alarm[a], m, to) /\ ~BadCounter(m, to)
      /\ "value" \in m => to.value \in IF init.counter = None THEN WaitValues
                                                             ELSE TestValues(init.counter)
      /\ IF Triggered(al) /\ Loops(al, Value(al.counter))
           THEN alarm' = [alarm EXCEPT ![a] = al] /\ walk' = Stopped(a)
           ELSE alarm' = [alarm EXCEPT ![a] = Started(al)] /\ UNCHANGED walk
      /\ list' = Listed(a, alarm[a].counter, init.counter)
      /\ lost' = LostListed(a, alarm[a].counter, init.counter)
      /\ UNCHANGED <<open, dying, counter, await>>

\* Mutant: the trigger is initialized before the delta is checked.
MutChangeAlarmMismatch(c, a, m, to) ==
  /\ Does("mismatch")
  /\ Runs(c) /\ Usable(a)
  /\ BadMatch(alarm[a], m, to)
  /\ alarm' = [alarm EXCEPT ![a] = Initialized(@, m, to)]
  /\ UNCHANGED <<open, dying, counter, await, list, lost, walk>>

\* A delta of the wrong sign, or a counter that does not exist.
ChangeAlarmMismatch(c, a, m, to) ==
  /\ Does("mismatch")
  /\ Runs(c) /\ Usable(a)
  /\ BadMatch(alarm[a], m, to) \/ BadCounter(m, to)
  /\ alarm' = [alarm EXCEPT ![a] = Stored(@, m, to)]
  /\ UNCHANGED <<open, dying, counter, await, list, lost, walk>>

\* A relative value that has no counter, or overflows: the trigger has left
\* its old counter already, and is not put on the new one.
ChangeAlarmOverflow(c, a, m, to) ==
  LET init == Initialized(alarm[a], m, to)
      sum  == XSyncValueAdd(counter[init.counter].value, to.value)
  IN  /\ Does("overflow")
      /\ Runs(c) /\ Usable(a)
      /\ ~BadMatch(alarm[a], m, to) /\ ~BadCounter(m, to)
      /\ "value" \in m
      /\ init.counter # None => sum.overflow
      /\ alarm' = [alarm EXCEPT ![a] = IF init.counter = None THEN init
                                       ELSE [init EXCEPT !.value = sum.value]]
      /\ IF init.counter = alarm[a].counter THEN UNCHANGED <<list, lost>>
         ELSE /\ list' = Listed(a, alarm[a].counter, None)
              /\ lost' = LostListed(a, alarm[a].counter, None)
      /\ UNCHANGED <<open, dying, counter, await, walk>>

\* FreeAlarm.
Free(a) ==
  /\ alarm' = [alarm EXCEPT ![a] = NoAlarm]
  /\ list' = Listed(a, alarm[a].counter, None)
  /\ lost' = LostListed(a, alarm[a].counter, None)

DestroyAlarm(c, a) ==
  /\ Runs(c) /\ Usable(a)
  /\ Free(a)
  /\ UNCHANGED <<open, dying, counter, await, walk>>

-----------------------------------------------------------------------------
(* Clients come and go.                                                    *)

\* CloseDownClient: the connection is closed, and then the resources are freed.
CloseDownClient(c) ==
  /\ dying = None /\ walk = Idle /\ open[c]
  /\ open' = [open EXCEPT ![c] = FALSE]
  /\ dying' = c
  /\ UNCHANGED <<counter, await, alarm, list, lost, walk>>

\* FreeClientResources, in the order of the resource table.
FreeAwait ==
  /\ walk = Idle /\ dying # None /\ Blocked(dying) /\ Intact(dying)
  /\ list' = Without(dying) /\ lost' = LostWithout(dying)
  /\ await' = [await EXCEPT ![dying] = <<>>]
  /\ UNCHANGED <<open, dying, counter, alarm, walk>>

FreeAlarm ==
  /\ walk = Idle
  /\ dying # None
  /\ \E a \in Alarms : alarm[a].owner = dying /\ Usable(a) /\ Free(a)
  /\ UNCHANGED <<open, dying, counter, await, walk>>

FreeCounter ==
  /\ walk = Idle /\ dying # None
  /\ \E k \in Counters : counter[k].owner = dying /\ Destroy(k)
  /\ UNCHANGED <<open, dying, await, alarm, list, lost>>

Remains(c) == \/ Blocked(c)
              \/ \E a \in Alarms : alarm[a].owner = c
              \/ \E k \in Counters : counter[k].owner = c

Gone ==
  /\ walk = Idle /\ dying # None /\ ~Remains(dying)
  /\ dying' = None
  /\ UNCHANGED <<open, counter, await, alarm, list, lost, walk>>

Connect(c) ==
  /\ dying = None /\ walk = Idle /\ ~open[c]
  /\ open' = [open EXCEPT ![c] = TRUE]
  /\ UNCHANGED <<dying, counter, await, alarm, list, lost, walk>>

CounterRequest(c) ==
  \/ \E k \in Counters :
       \/ CreateCounter(c, k) \/ DestroyCounter(c, k)
       \/ \E v \in WaitValues : SetCounter(c, k, v) \/ ChangeCounter(c, k, v)
  \/ \E one \in Conds(c) : Await(c, <<one>>)
  \/ \E one, two \in Conds(c) :
       (Does("same") \/ one.counter # two.counter) /\ Await(c, <<one, two>>)

\* m is the mask of the attributes that a request gives.
AlarmRequest(c, a) ==
  \/ \E k \in Counters \cup {None}, y \in scenario.types, d \in Deltas :
       \E v \in IF k = None THEN {0} ELSE TestValues(k) :
         CreateAlarm(c, a, [state |-> "active", owner |-> None, counter |-> k,
                            test |-> y, check |-> y, value |-> v, delta |-> d])
  \/ DestroyAlarm(c, a)
  \/ Usable(a) /\ \E m \in SUBSET {"counter", "value", "test", "delta"} :
       LET was == alarm[a]
       IN  \E k \in IF "counter" \in m THEN Counters \cup {None} ELSE {was.counter},
              y \in IF "test" \in m THEN scenario.types ELSE {was.test},
              v \in IF "value" \in m THEN Values ELSE {was.value},
              d \in IF "delta" \in m THEN Deltas ELSE {was.delta} :
             LET to == [counter |-> k, test |-> y, value |-> v, delta |-> d]
             IN  \/ ChangeAlarm(c, a, m, to)
                 \/ ChangeAlarmMismatch(c, a, m, to)
                 \/ ChangeAlarmOverflow(c, a, m, to)

Next ==
  /\ \/ Visit \/ Changed \/ Tell \/ Destroyed
     \/ FreeAwait \/ FreeAlarm \/ FreeCounter \/ Gone
     \/ \E c \in Clients :
          \/ Runs(c) /\ CounterRequest(c)
          \/ Runs(c) /\ Does("alarm") /\ \E a \in Alarms : AlarmRequest(c, a)
          \/ CloseDownClient(c) \/ Connect(c)
  /\ UNCHANGED scenario

Spec == Init /\ [][Next]_vars

-----------------------------------------------------------------------------
(* Properties.                                                             *)

(* "Each counter maintains a simple linked list of triggers that are       *)
(* interested in the counter": the list, that a change of the counter or   *)
(* its end walks, has triggers of the counter, once, and no other, and it  *)
(* has all of them but those that were in front of a trigger that left it, *)
(* whatever frees triggers or moves them.  Not so while a counter is       *)
(* destroyed for which a client waits in two ways, and not so an alarm     *)
(* whose move to another counter overflows.                                *)
ListsExact ==
  /\ ~Does("same") =>
       \A k \in Counters :
         /\ \A i, j \in DOMAIN list[k] : list[k][i] = list[k][j] => i = j
         /\ \A t \in ToSet(list[k]) : Live(t) /\ Trigger(t).counter = k /\ t \notin lost
  /\ ~Does("overflow") =>
       \A k \in Counters : \A t \in Triggers :
         Live(t) /\ Trigger(t).counter = k => t \in ToSet(list[k]) \cup lost

(* SyncAwaitTriggerFired is "called when an Await unblocks": the trigger   *)
(* that a walk comes to, remembered before the one in front of it fired,   *)
(* has not been freed by it (not so if a client waits for the counter in   *)
(* two ways), and the client that it is about to unblock still has its     *)
(* connection (not so if it waits for its own counter).  An alarm that     *)
(* goes off is updated at some time, "until it becomes FALSE" (not so if   *)
(* its test type was changed by a request that was refused).  And the end  *)
(* of a counter is told to all its triggers, but for those that its list   *)
(* has lost.                                                               *)
WalkSound ==
  LET k == walk.counter
      t == IF counter[k].beingDestroyed THEN First(list[k]) ELSE walk.node
      fires == t # None /\ t \notin Alarms /\ Live(t)
                 /\ (counter[k].beingDestroyed \/ Check(Trigger(t), walk.old, counter[k].value))
  IN  /\ k = None => walk = Idle \/ Does("mismatch")
      /\ k # None =>
        /\ ~Does("same") =>
             IF counter[k].beingDestroyed THEN list[k] # <<>> => Live(Head(list[k]))
             ELSE walk.node # None => Live(walk.node) /\ walk.node \in ToSet(list[k])
        /\ ~Does("own") /\ fires => open[t[1]]
      /\ ~Does("overflow") =>
           \A u \in Triggers : Live(u) /\ Trigger(u).counter = Freed => u \in lost

(* Nobody sleeps, and no alarm is set, on a comparison that is true: a     *)
(* counter that changes wakes everyone, through all that is freed and      *)
(* re-initialized on the way.  Not so a trigger that its list has lost,    *)
(* nor an alarm whose new value overflows.                                 *)
NothingDue ==
  walk = Idle /\ ~Does("overflow") =>
    \A t \in Triggers \ lost : Live(t) =>
      LET trig == Trigger(t)
      IN  (t \in Alarms => trig.state = "active") /\ trig.check \in Comparisons =>
            trig.counter # None /\ ~Check(trig, counter[trig.counter].value, counter[trig.counter].value)

(* A transition is seen: at the end of a walk nobody waits for one that    *)
(* the change of the counter has made, unless the list has lost it.        *)
TransitionsSeen ==
  walk.counter # None /\ ~counter[walk.counter].beingDestroyed /\ walk.node = None =>
    \A t \in Triggers \ (Alarms \cup lost) :
      Live(t) /\ Trigger(t).counter = walk.counter =>
        ~Check(Trigger(t), walk.old, counter[walk.counter].value)
=============================================================================
