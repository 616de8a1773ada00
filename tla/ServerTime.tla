----------------------------- MODULE ServerTime -----------------------------
(***************************************************************************)
(* The system counter SERVERTIME of the SYNC extension (Xext/sync.c): its  *)
(* value is asked for when a request needs it, and changed when the time   *)
(* is past the next test value, the bracket, at which the block handler    *)
(* makes the server wake up.                                               *)
(***************************************************************************)
EXTENDS Integers, FiniteSets, Sequences, SequencesExt

CONSTANTS
  TimeAlarms,
  TimeDeltas, \* deltas of alarms
  MaxTime     \* the last moment; test values are not later

ASSUME ServerTimeAssumption ==
  MaxTime \in Nat \ {0} /\ TimeDeltas \subseteq 0 .. MaxTime /\ TimeDeltas # {}

\* What clients may do: "query" asks for the time, or sets an alarm, while
\* another is due; "past" sets a repeating alarm for a time that has come.
TimeHabit == {"query", "past"}

VARIABLES
  habits,    \* what the clients of this behaviour do
  now,       \* Now, the time
  value,     \* the counter's value
  bracket,   \* bracket_greater
  less,      \* bracket_less
  armed,     \* pnext_time points to the bracket, and the handlers are there
  timeAlarm, \* the alarms of the counter
  timeList,  \* its list, pTriglist
  timeLost,  \* history: the alarms in front of one that was freed
  phase      \* where the server is in its loop

timeVars == <<habits, now, value, bracket, less, armed, timeAlarm, timeList, timeLost, phase>>

Times == 0 .. MaxTime
Never == 2 * MaxTime + 1 \* the largest value: no test value is larger
Least == -1               \* the smallest

\* Alarms of the types that a counter that never decreases can make true.
TimeAlarm == [state : {"none", "active", "inactive"}, test : {"comparison", "transition"},
              value : 0 .. 2 * MaxTime, delta : TimeDeltas]

Smallest(S) == CHOOSE m \in S : \A n \in S : m <= n
Largest(S) == CHOOSE m \in S : \A n \in S : n <= m

NoTimeAlarm == [state |-> "none", test |-> "comparison", value |-> 0, delta |-> Smallest(TimeDeltas)]

TimeTypeOK ==
  /\ habits \subseteq TimeHabit
  /\ now \in Times /\ value \in Times
  /\ bracket \in 0 .. Never /\ less \in Least .. Never /\ armed \in BOOLEAN
  /\ timeAlarm \in [TimeAlarms -> TimeAlarm]
  /\ timeList \in Seq(TimeAlarms) /\ timeLost \subseteq TimeAlarms
  /\ phase \in {"dispatch", "asleep"}

TimeInit ==
  /\ habits \in SUBSET TimeHabit
  /\ now = 0 /\ value = 0 /\ bracket = Never /\ less = Least /\ armed = FALSE
  /\ timeAlarm = [a \in TimeAlarms |-> NoTimeAlarm]
  /\ timeList = <<>> /\ timeLost = {}
  /\ phase = "dispatch"

Active(a) == timeAlarm[a].state = "active"

\* CheckTrigger of an alarm, when the time goes from old to new.
CheckTime(al, old, new) == new >= al.value /\ (al.test = "transition" => old < al.value)

\* SyncAlarmTriggerFired: the delta is added until the alarm is false.
Fired(al, new) ==
  IF al.state # "active" THEN al
  ELSE IF al.delta = 0 /\ al.test = "comparison" THEN [al EXCEPT !.state = "inactive"]
  ELSE LET After(n) == al.value + n * al.delta
           ends == {n \in 1 .. MaxTime + 1 :
                      ~CheckTime([al EXCEPT !.value = After(n)], new, new)}
       IN  [al EXCEPT !.value = After(Smallest(ends))]

\* The alarms on a list, active or not, that are ahead of the counter, and
\* those of them that are nearer than the bracket from and all before them.
AheadOn(s, als, v) == {i \in DOMAIN s : v < als[s[i]].value}
Nearer(s, als, v, from) ==
  {i \in AheadOn(s, als, v) :
     /\ als[s[i]].value < from
     /\ \A j \in AheadOn(s, als, v) : j < i => als[s[i]].value < als[s[j]].value}

\* The list is gone through once, and each alarm that is nearer becomes the
\* bracket; of the others a transition may become bracket_less, though the
\* counter never decreases.  If there are only such, ServertimeBracketValues
\* removes the handlers.
SyncComputeBracketValues(s, als, v, startOver) ==
  LET from   == IF startOver THEN Never ELSE bracket
      least  == IF startOver THEN Least ELSE less
      nearer == Nearer(s, als, v, from)
      other  == {i \in AheadOn(s, als, v) \ nearer :
                   als[s[i]].test = "transition" /\ als[s[i]].value > least}
      Value(i) == als[s[i]].value
  IN  /\ bracket' = IF nearer = {} THEN from ELSE Smallest({Value(i) : i \in nearer})
      /\ less' = IF other = {} THEN least ELSE Largest({Value(i) : i \in other})
      /\ armed' = IF nearer # {} THEN TRUE ELSE IF other # {} THEN FALSE ELSE armed

-----------------------------------------------------------------------------
(* The loop.                                                               *)

\* ServertimeBlockHandler: the server sleeps, at most until the bracket.
Block ==
  /\ phase = "dispatch"
  /\ phase' = "asleep"
  /\ UNCHANGED <<now, value, bracket, less, armed, timeAlarm, timeList, timeLost>>

\* Mutant: the value is stored and the alarms are not looked at.
MutSyncChangeCounter ==
  value' = now /\ UNCHANGED <<timeAlarm, bracket, less, armed>>

\* The alarms on the list are checked; what fires leaves the list as it is.
SyncChangeCounter ==
  LET als == [a \in TimeAlarms |->
                IF a \in ToSet(timeList) /\ CheckTime(timeAlarm[a], value, now)
                  THEN Fired(timeAlarm[a], now) ELSE timeAlarm[a]]
  IN  /\ value' = now
      /\ timeAlarm' = als
      /\ SyncComputeBracketValues(timeList, als, now, FALSE)

\* Mutant: the time is compared for equality with the bracket.
MutWakeup ==
  /\ phase = "asleep"
  /\ phase' = "dispatch"
  /\ IF armed /\ now = bracket THEN SyncChangeCounter ELSE UNCHANGED <<value, bracket, less, armed, timeAlarm>>
  /\ UNCHANGED <<now, timeList, timeLost>>

\* ServertimeWakeupHandler; other input may have ended the sleep before.
Wakeup ==
  /\ phase = "asleep"
  /\ phase' = "dispatch"
  /\ IF armed /\ now >= bracket THEN SyncChangeCounter ELSE UNCHANGED <<value, bracket, less, armed, timeAlarm>>
  /\ UNCHANGED <<now, timeList, timeLost>>

Tick ==
  /\ now < MaxTime /\ now' = now + 1
  /\ UNCHANGED <<value, bracket, less, armed, timeAlarm, timeList, timeLost, phase>>

\* Something is due that the wakeup handler has not seen.
Due == \E a \in ToSet(timeList) : Active(a) /\ CheckTime(timeAlarm[a], value, now)

-----------------------------------------------------------------------------
(* Requests.                                                               *)

\* ProcSyncQueryCounter: ServertimeQueryValue stores the time in the counter.
QueryCounter ==
  /\ phase = "dispatch" /\ (Due => "query" \in habits)
  /\ value' = now
  /\ UNCHANGED <<now, bracket, less, armed, timeAlarm, timeList, timeLost, phase>>

\* SyncAddTriggerToCounter: only a new alarm is put on the list, one that
\* was lost is not.
Added(a) == IF timeAlarm[a].state = "none" THEN <<a>> \o timeList ELSE timeList

\* Mutant: a changed trigger does not change the bracket.
MutSetAlarm(a, al) ==
  /\ phase = "dispatch" /\ (Due => "query" \in habits)
  /\ value' = now
  /\ timeAlarm' = [timeAlarm EXCEPT ![a] = IF CheckTime(al, now, now) THEN Fired(al, now) ELSE al]
  /\ timeList' = Added(a)
  /\ IF timeAlarm[a].state = "none"
       THEN SyncComputeBracketValues(Added(a), [timeAlarm EXCEPT ![a] = al], now, TRUE)
       ELSE UNCHANGED <<bracket, less, armed>>
  /\ UNCHANGED <<now, timeLost, phase>>

\* CreateAlarm or ChangeAlarm: SyncInitTrigger asks for the time, stores the
\* trigger and starts the bracket over; then the alarm may be due already.
SetAlarm(a, al) ==
  /\ phase = "dispatch" /\ (Due => "query" \in habits)
  /\ value' = now
  /\ timeAlarm' = [timeAlarm EXCEPT ![a] = IF CheckTime(al, now, now) THEN Fired(al, now) ELSE al]
  /\ timeList' = Added(a)
  /\ SyncComputeBracketValues(Added(a), [timeAlarm EXCEPT ![a] = al], now, TRUE)
  /\ UNCHANGED <<now, timeLost, phase>>

\* SyncDeleteTriggerFromCounter: pPrev stays NULL, and the list begins behind
\* the alarm that is taken from it.
TimePlace(a) == CHOOSE i \in DOMAIN timeList : timeList[i] = a
Rest(a) == IF a \in ToSet(timeList) THEN SubSeq(timeList, TimePlace(a) + 1, Len(timeList)) ELSE timeList
InFrontOf(a) == IF a \in ToSet(timeList) THEN {timeList[i] : i \in 1 .. TimePlace(a) - 1} ELSE {}

\* FreeAlarm: the counter is not asked for the time.
DestroyTimeAlarm(a) ==
  /\ phase = "dispatch" /\ timeAlarm[a].state # "none"
  /\ timeAlarm' = [timeAlarm EXCEPT ![a] = NoTimeAlarm]
  /\ timeList' = Rest(a) /\ timeLost' = (timeLost \cup InFrontOf(a)) \ {a}
  /\ SyncComputeBracketValues(Rest(a), [timeAlarm EXCEPT ![a] = NoTimeAlarm], value, TRUE)
  /\ UNCHANGED <<now, value, phase>>

Request ==
  \/ QueryCounter
  \/ \E a \in TimeAlarms :
       \/ \E t \in {"comparison", "transition"}, v \in Times, d \in TimeDeltas :
            /\ v <= now /\ d # 0 /\ t = "comparison" => "past" \in habits
            /\ SetAlarm(a, [state |-> "active", test |-> t, value |-> v, delta |-> d])
       \/ DestroyTimeAlarm(a)

TimeNext == (Block \/ Wakeup \/ Tick \/ Request) /\ UNCHANGED habits

TimeSpec == TimeInit /\ [][TimeNext]_timeVars

\* The server goes round its loop, and time passes.
FairTimeSpec ==
  /\ TimeSpec
  /\ WF_timeVars(Block /\ UNCHANGED habits)
  /\ WF_timeVars(Wakeup /\ UNCHANGED habits)
  /\ WF_timeVars(Tick /\ UNCHANGED habits)

-----------------------------------------------------------------------------
(* Properties.                                                             *)

\* The handlers were removed for a transition that is ahead.
Removed ==
  ~armed /\ \E a \in ToSet(timeList) : timeAlarm[a].test = "transition" /\ timeAlarm[a].value = less

(* The server never sleeps past an alarm that is still ahead of the        *)
(* counter: whatever order alarms were set, fired and destroyed in, it     *)
(* wakes up at the first of them.  Not so for the next time of a repeating *)
(* alarm that is set for the past, nor for an alarm that the list has      *)
(* lost, nor when the handlers were removed for a transition.              *)
NoOversleep ==
  "past" \notin habits =>
    \A a \in TimeAlarms \ timeLost :
      Active(a) /\ timeAlarm[a].value > value => Removed \/ (armed /\ bracket <= timeAlarm[a].value)

(* "This function should always be used to change a counter's value so     *)
(* that any triggers depending on the counter will be checked": the        *)
(* counter's value has not reached a comparison that has not fired, unless *)
(* the list has lost it.  Not so if a client asks for the time before the  *)
(* wakeup handler does.                                                    *)
AllChecked ==
  "query" \notin habits =>
    \A a \in TimeAlarms \ timeLost :
      Active(a) /\ timeAlarm[a].test = "comparison" => value < timeAlarm[a].value

(* An alarm that is not changed goes off when its time has come, unless    *)
(* the list loses it or the handlers are removed.                          *)
GoesOff ==
  \A a \in TimeAlarms : \A v \in Times :
    LET set == Active(a) /\ timeAlarm[a].value = v /\ timeAlarm[a].test = "comparison"
    IN  habits = {} /\ set /\ v <= now ~> ~set \/ a \in timeLost \/ Removed
=============================================================================
