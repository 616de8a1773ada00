------------------------------ MODULE SyncGrabs ------------------------------
(***************************************************************************)
(* Grabs of the keyboard and the pointer, and the freezing of the two by   *)
(* synchronous grabs (dix/events.c).  The events of a frozen device wait   *)
(* in syncEvents.pending until a client allows them, ungrabs or dies; a    *)
(* saved event may be replayed to the windows below the grab.              *)
(*                                                                         *)
(* The server is one thread, but its handlers nest: an event thaws a       *)
(* device, whose events are played, which freeze devices again.  todo      *)
(* holds the calls of processInputProc that the outermost handler has yet  *)
(* to make, played those of PlayReleasedEvents.  A request or an input     *)
(* event is read when there are none.                                      *)
(*                                                                         *)
(* Motion events neither freeze nor thaw a device and are left out.  Stale *)
(* timestamps, unviewable windows and events that nobody selects are       *)
(* requests and events without an effect: where they can occur, the effect *)
(* may occur or not.                                                       *)
(***************************************************************************)
EXTENDS FiniteSets, Integers, SequencesExt

CONSTANTS
  Client,      \* client connections, which may be reused
  Guest,       \* those that create a window, and that come and go
  Nobody,      \* the client of no grab
  Key,         \* keys of the keyboard, buttons of the pointer
  Passives,    \* the passive grabs that clients may establish
  AutoRepeat,  \* may the hardware press a key that is down?
  MaxEvents    \* bound on the input events

Device   == {"keyboard", "pointer"}
NoDevice == "none"
Other(d) == IF d = "keyboard" THEN "pointer" ELSE "keyboard"

\* A window is told by the client that created it; the server created the root.
Root   == "root"
Window == Guest \cup {Root}

Passive == [device : Device, client : Client, window : Window,
            sync : BOOLEAN, syncOther : BOOLEAN]

ASSUME SyncGrabsAssumption ==
  /\ Guest \subseteq Client /\ Nobody \notin Client
  /\ Root \notin Client
  /\ Passives \subseteq Passive
  /\ AutoRepeat \in BOOLEAN
  /\ MaxEvents \in Nat

VARIABLES
  client,      \* where each client is in its life
  passive,     \* the passive grabs on the windows
  grab,        \* dev->grab, fromPassiveGrab
  state,       \* dev->sync.state
  other,       \* dev->sync.other: the device with the grab that freezes this one
  frozen,      \* dev->sync.frozen
  saved,       \* dev->sync.event, in the state FROZEN_WITH_EVENT
  activating,  \* keybd->activatingKey
  down,        \* the logical state of the keys and buttons
  hardware,    \* their physical state
  pending,     \* syncEvents.pending
  playing,     \* syncEvents.playingEvents
  todo, played,
  arrived      \* number of input events so far

freezes == <<grab, state, other, frozen, saved, playing>>
vars == <<client, passive, activating, down, hardware, pending, todo, played, arrived, freezes>>

Grab   == [client : Client, window : Window, passive : BOOLEAN]
NoGrab == [client |-> Nobody, window |-> Root, passive |-> FALSE]

FrozenStates == {"FROZEN_NO_EVENT", "FROZEN_WITH_EVENT"}
SyncStates   == {"NOT_GRABBED", "THAWED", "FREEZE_NEXT_EVENT", "FREEZE_BOTH_NEXT_EVENT"}
                  \cup FrozenStates

\* Input events are numbered from 1; a saved event, which may be replayed, is 0, and
\* the second half of an event that is split has its number negated.
Event == [device : Device, key : Key, press : BOOLEAN, id : -MaxEvents .. MaxEvents]
Saved(e) == [e EXCEPT !.id = 0]

Grabs(c, d)   == grab[d].client = c
Freezes(c, d) == \E x \in Device : other[d] = x /\ Grabs(c, x)
Exists        == {Root} \cup {c \in Guest : client[c] # "gone"}

Init ==
  /\ client = [c \in Client |-> IF c \in Guest THEN "gone" ELSE "running"]
  /\ passive = {}
  /\ grab = [d \in Device |-> NoGrab]
  /\ state = [d \in Device |-> "NOT_GRABBED"]
  /\ other = [d \in Device |-> NoDevice]
  /\ frozen = [d \in Device |-> FALSE]
  /\ saved = [d \in Device |-> <<>>]
  /\ activating = {}
  /\ down = [d \in Device |-> {}]
  /\ hardware = [d \in Device |-> {}]
  /\ pending = <<>> /\ todo = <<>> /\ played = <<>>
  /\ playing = FALSE
  /\ arrived = 0

-----------------------------------------------------------------------------
(* Freezing and thawing. *)

Thaws(events) == \E i \in DOMAIN events : ~frozen'[events[i].device]

\* Pending events are played unless they are being played already.  event was saved
\* for the devices that are now in FROZEN_WITH_EVENT and were not; it is never read
\* in another state.
ComputeFreezes(event, replay) ==
  /\ saved' = [d \in Device |-> IF state'[d] # "FROZEN_WITH_EVENT" THEN <<>>
                                 ELSE IF state'[d] = state[d] THEN saved[d] ELSE event]
  /\ frozen' = [d \in Device |-> other'[d] # NoDevice \/ state'[d] \in FrozenStates]
  /\ playing' = (playing \/ replay # <<>> \/ Thaws(pending))
  /\ played' = IF playing THEN Tail(played) ELSE replay

\* CheckGrabForSyncs, after the grab is in place.
CheckGrabForSyncs(d, c, sync, syncOther) ==
  other' = [x \in Device |->
    IF x # d /\ syncOther THEN d
    ELSE IF (x = d => ~sync) /\ other[x] # NoDevice /\ grab'[other[x]].client = c
      THEN NoDevice ELSE other[x]]

\* ActivatePointerGrab, ActivateKeyboardGrab; event is what set off a passive grab.
Activate(d, g, sync, syncOther, event) ==
  /\ grab' = [grab EXCEPT ![d] = g]
  /\ CheckGrabForSyncs(d, g.client, sync, syncOther)
  /\ state' = [state EXCEPT ![d] = IF ~sync THEN "THAWED"
                                   ELSE IF event = <<>> THEN "FROZEN_NO_EVENT"
                                   ELSE "FROZEN_WITH_EVENT"]
  /\ ComputeFreezes(event, <<>>)

\* Mutant: the grab still freezes the other device.
DeactivateForgetsOther(d, replay) ==
  /\ grab' = [grab EXCEPT ![d] = NoGrab]
  /\ state' = [state EXCEPT ![d] = "NOT_GRABBED"]
  /\ other' = other
  /\ ComputeFreezes(<<>>, replay)

\* DeactivatePointerGrab, DeactivateKeyboardGrab
Deactivate(d, replay) ==
  /\ grab' = [grab EXCEPT ![d] = NoGrab]
  /\ state' = [state EXCEPT ![d] = "NOT_GRABBED"]
  /\ other' = [x \in Device |-> IF other[x] = d THEN NoDevice ELSE other[x]]
  /\ ComputeFreezes(<<>>, replay)

-----------------------------------------------------------------------------
(* One call of processInputProc: by the loop of PlayReleasedEvents, or by  *)
(* the hardware event queue.                                               *)

Calls == IF playing THEN played ELSE todo

Return(rest) ==
  IF playing THEN played' = rest /\ todo' = todo
             ELSE todo' = rest /\ played' = played

\* The call returns after it has computed the freezes.
Pop == todo' = IF playing THEN todo ELSE Tail(todo)

\* Mutant: the event is put before those that wait.
EnqueueFirst(e) ==
  /\ e.id # 0 /\ frozen[e.device]
  /\ pending' = <<e>> \o pending
  /\ Return(Tail(Calls))
  /\ UNCHANGED <<client, passive, activating, down, hardware, arrived, freezes>>

\* enqueueInputProc of a frozen device: EnqueueEvent.
Enqueue(e) ==
  /\ e.id # 0 /\ frozen[e.device]
  /\ pending' = Append(pending, e)
  /\ Return(Tail(Calls))
  /\ UNCHANGED <<client, passive, activating, down, hardware, arrived, freezes>>

Processed(e) == e.id # 0 /\ ~frozen[e.device]

Half(e) == [e EXCEPT !.id = IF e.id > 0 THEN -e.id ELSE e.id]

\* The press of a key that is down is a release and another press.
Repeat(e) ==
  /\ Processed(e) /\ e.device = "keyboard" /\ e.press /\ e.key \in down[e.device]
  /\ Return(<<[e EXCEPT !.press = FALSE], Half(e)>> \o Tail(Calls))
  /\ UNCHANGED <<client, passive, activating, down, hardware, pending, arrived, freezes>>

\* "guard against duplicates"
Ignore(e) ==
  /\ Processed(e) /\ e.device = "keyboard" /\ ~e.press /\ e.key \notin down[e.device]
  /\ Return(Tail(Calls))
  /\ UNCHANGED <<client, passive, activating, down, hardware, pending, arrived, freezes>>

\* DeliverGrabbedEvent freezes the device, and with FREEZE_BOTH the other one.
FreezeNext(e) ==
  LET d == e.device
      o == Other(d)
      both == state[d] = "FREEZE_BOTH_NEXT_EVENT"
      joins == both /\ state[o] = "FREEZE_BOTH_NEXT_EVENT" /\ grab[o].client = grab[d].client
  IN /\ both \/ state[d] = "FREEZE_NEXT_EVENT"
     /\ state' = [state EXCEPT ![d] = "FROZEN_WITH_EVENT",
                               ![o] = IF joins THEN "FROZEN_NO_EVENT" ELSE @]
     /\ other' = IF both /\ ~joins THEN [other EXCEPT ![o] = d] ELSE other
     /\ frozen' = [x \in Device |-> x = d \/ both \/ frozen[x]]
     /\ saved' = [saved EXCEPT ![d] = <<Saved(e)>>]
     /\ Return(Tail(Calls))
     /\ UNCHANGED <<grab, playing>>

NoEffect == Return(Tail(Calls)) /\ UNCHANGED freezes

\* CheckDeviceGrabs on some of the windows; pressed: the buttons that are down,
\* this one included.
PassiveGrab(e, pressed, windows) ==
  \E g \in {x \in passive : x.window \in windows} :
    /\ g.device = e.device
    /\ e.device = "pointer" => Cardinality(pressed) = 1
    /\ Activate(e.device, [client |-> g.client, window |-> g.window, passive |-> TRUE],
                g.sync, g.syncOther, <<Saved(e)>>)
    /\ Pop

\* DeliverEventsToWindow: a button press that is delivered grabs the pointer.
AutomaticGrab(e) ==
  /\ e.device = "pointer"
  /\ \E c \in Client, w \in Exists :
       /\ client[c] \in {"running", "releasing"}
       /\ Activate("pointer", [client |-> c, window |-> w, passive |-> TRUE], FALSE, FALSE, <<>>)
  /\ Pop

\* ProcessKeyboardEvent, ProcessPointerEvent
Press(e) ==
  LET d == e.device
      pressed == down[d] \cup {e.key}
      grabbed == grab[d] # NoGrab
  IN /\ Processed(e) /\ e.press /\ (d = "keyboard" => e.key \notin down[d])
     /\ down' = [down EXCEPT ![d] = pressed]
     /\ \/ /\ ~grabbed /\ PassiveGrab(e, pressed, Window)
           /\ activating' = IF d = "keyboard" THEN {e.key} ELSE activating
        \/ /\ (~grabbed /\ AutomaticGrab(e)) \/ (grabbed /\ FreezeNext(e)) \/ NoEffect
           /\ activating' = activating
     /\ UNCHANGED <<client, passive, hardware, pending, arrived>>

\* The key that set off a passive grab ends it, as does the last button.
Release(e) ==
  LET d == e.device
      left == down[d] \ {e.key}
      ends == grab[d].passive /\ IF d = "keyboard" THEN e.key \in activating ELSE left = {}
  IN /\ Processed(e) /\ ~e.press /\ (d = "keyboard" => e.key \in down[d])
     /\ down' = [down EXCEPT ![d] = left]
     /\ IF ends THEN Deactivate(d, <<>>) /\ Pop
                ELSE NoEffect \/ (grab[d] # NoGrab /\ FreezeNext(e))
     /\ UNCHANGED <<client, passive, activating, hardware, pending, arrived>>

\* ComputeFreezes delivers a replayed event without processing it, and looks for
\* passive grabs below the window of the grab that saved it.
Again(e) ==
  /\ e.id = 0
  /\ \/ e.press /\ (PassiveGrab(e, down[e.device], Guest) \/ AutomaticGrab(e))
     \/ NoEffect
  /\ UNCHANGED <<client, passive, activating, down, hardware, pending, arrived>>

ProcessInput ==
  /\ Calls # <<>>
  /\ LET e == Head(Calls) IN
       Enqueue(e) \/ Repeat(e) \/ Ignore(e) \/ Press(e) \/ Release(e) \/ Again(e)

-----------------------------------------------------------------------------
(* PlayReleasedEvents takes the first event that is not frozen, each time. *)

Thawed(i) == ~frozen[pending[i].device]

PlayNext ==
  /\ playing /\ played = <<>>
  /\ \E i \in DOMAIN pending :
       /\ Thawed(i) /\ \A j \in 1 .. i - 1 : ~Thawed(j)
       /\ played' = <<pending[i]>>
       /\ pending' = RemoveAt(pending, i)
  /\ UNCHANGED <<client, passive, activating, down, hardware, todo, arrived, freezes>>

\* Mutant: an event of a frozen device ends the search.
PlayEndEarly ==
  /\ playing /\ played = <<>>
  /\ \A i \in DOMAIN pending : i = 1 => ~Thawed(i)
  /\ playing' = FALSE
  /\ UNCHANGED <<client, passive, activating, down, hardware, pending, todo, played, arrived,
                 grab, state, other, frozen, saved>>

PlayEnd ==
  /\ playing /\ played = <<>>
  /\ \A i \in DOMAIN pending : ~Thawed(i)
  /\ playing' = FALSE
  /\ UNCHANGED <<client, passive, activating, down, hardware, pending, todo, played, arrived,
                 grab, state, other, frozen, saved>>

-----------------------------------------------------------------------------
(* Input from the hardware, and requests: one at a time. *)

Quiet   == todo = <<>> /\ ~playing
Waiting == Quiet /\ \A c \in Client : client[c] \in {"gone", "running"}

Input(d, k) ==
  /\ Waiting /\ arrived < MaxEvents
  /\ arrived' = arrived + 1
  /\ \E press \in BOOLEAN :
       /\ IF press THEN k \notin hardware[d] \/ (AutoRepeat /\ d = "keyboard")
                   ELSE k \in hardware[d]
       /\ hardware' = [hardware EXCEPT ![d] = IF press THEN @ \cup {k} ELSE @ \ {k}]
       /\ todo' = <<[device |-> d, key |-> k, press |-> press, id |-> arrived']>>
  /\ UNCHANGED <<client, passive, activating, down, pending, played, freezes>>

Others == <<client, passive, activating, down, hardware, pending, todo, arrived>>

Requests(c) == Waiting /\ client[c] = "running"

\* ProcGrabPointer, GrabDevice: not AlreadyGrabbed, GrabFrozen or GrabNotViewable.
GrabDevice(c, d) ==
  /\ Requests(c)
  /\ grab[d] = NoGrab \/ Grabs(c, d)
  /\ ~(frozen[d] /\ other[d] # NoDevice) \/ Freezes(c, d)
  /\ \E w \in Exists, sync, syncOther \in BOOLEAN :
       Activate(d, [client |-> c, window |-> w, passive |-> FALSE], sync, syncOther, <<>>)
  /\ UNCHANGED Others

Ungrab(c, d) ==
  /\ Requests(c) /\ Grabs(c, d)
  /\ Deactivate(d, <<>>)
  /\ UNCHANGED Others

\* Another client, or this one, destroys or unmaps the window of a grab.
LoseWindow(d) ==
  /\ Waiting /\ grab[d].window # Root
  /\ Deactivate(d, <<>>)
  /\ UNCHANGED Others

\* GrabKey and GrabButton of any key or button; UngrabKey, UngrabButton and the end
\* of the window.  AddPassiveGrabToList refuses what another client has grabbed.
ChangePassive(g) ==
  /\ Waiting
  /\ client[g.client] = "running" /\ g.window \in Exists
  /\ \A h \in passive : h.device = g.device /\ h.window = g.window => h.client = g.client
  /\ passive' = IF g \in passive THEN passive \ {g} ELSE passive \cup {g}
  /\ UNCHANGED <<client, activating, down, hardware, pending, todo, played, arrived, freezes>>

-----------------------------------------------------------------------------
(* ProcAllowEvents, AllowSome *)

\* Mutant: whoever has the grab.
SyncedByAnyone(c, d) == other[d] = Other(d)

SyncedBy(c, d) == LET o == Other(d) IN Grabs(c, o) /\ other[d] = o

May(c, d) ==
  /\ Requests(c)
  /\ (Grabs(c, d) /\ state[d] \in FrozenStates) \/ SyncedBy(c, d)

OthersFrozen(c, d) ==
  LET o == Other(d) IN IF Grabs(c, o) THEN state[o] \in FrozenStates ELSE Freezes(c, o)

\* AsyncPointer and AsyncKeyboard, or SyncPointer and SyncKeyboard.
AllowOne(c, d, new) ==
  /\ May(c, d)
  /\ new = "FREEZE_NEXT_EVENT" => Grabs(c, d)
  /\ state' = IF Grabs(c, d) THEN [state EXCEPT ![d] = new] ELSE state
  /\ other' = IF SyncedBy(c, d) THEN [other EXCEPT ![d] = NoDevice] ELSE other
  /\ ComputeFreezes(<<>>, <<>>)
  /\ UNCHANGED <<grab, Others>>

\* AsyncBoth or SyncBoth
AllowBoth(c, new) ==
  /\ May(c, "keyboard") /\ OthersFrozen(c, "keyboard")
  /\ state' = [x \in Device |-> IF Grabs(c, x) THEN new ELSE state[x]]
  /\ other' = [x \in Device |-> IF Freezes(c, x) THEN NoDevice ELSE other[x]]
  /\ ComputeFreezes(<<>>, <<>>)
  /\ UNCHANGED <<grab, Others>>

\* ReplayPointer, ReplayKeyboard; the grab that goes leaves no device behind it frozen.
Replay(c, d) ==
  /\ May(c, d) /\ Grabs(c, d) /\ state[d] = "FROZEN_WITH_EVENT"
  /\ grab' = [grab EXCEPT ![d] = NoGrab]
  /\ state' = [state EXCEPT ![d] = "NOT_GRABBED"]
  /\ other' = [x \in Device |-> IF other[x] = d \/ (x = d /\ SyncedBy(c, d))
                                  THEN NoDevice ELSE other[x]]
  /\ ComputeFreezes(<<>>, saved[d])
  /\ UNCHANGED Others

AllowEvents(c) ==
  \/ \E d \in Device : Replay(c, d) \/ \E new \in {"THAWED", "FREEZE_NEXT_EVENT"} : AllowOne(c, d, new)
  \/ \E new \in {"THAWED", "FREEZE_BOTH_NEXT_EVENT"} : AllowBoth(c, new)

-----------------------------------------------------------------------------
(* A client connects; CloseDownClient: first its active grabs are released *)
(* (ReleaseActiveGrabs looks again as long as it finds one), then its      *)
(* resources are freed, windows and passive grabs in any order.            *)

Enter(c, from, to) ==
  /\ client[c] = from
  /\ client' = [client EXCEPT ![c] = to]
  /\ UNCHANGED <<passive, activating, down, hardware, pending, todo, played, arrived, freezes>>

Connect(c) == Waiting /\ c \in Guest /\ Enter(c, "gone", "running")
Die(c)     == Waiting /\ c \in Guest /\ Enter(c, "running", "releasing")

ReleaseGrab(c, d) ==
  /\ Quiet /\ client[c] = "releasing" /\ Grabs(c, d)
  /\ Deactivate(d, <<>>)
  /\ UNCHANGED Others

Released(c) ==
  /\ Quiet /\ \A d \in Device : ~Grabs(c, d)
  /\ Enter(c, "releasing", "freeing")

FreePassive(c, g) ==
  /\ Quiet /\ client[c] = "freeing" /\ g \in passive /\ c \in {g.client, g.window}
  /\ passive' = passive \ {g}
  /\ UNCHANGED <<client, activating, down, hardware, pending, todo, played, arrived, freezes>>

FreeWindow(c, d) ==
  /\ Quiet /\ client[c] = "freeing" /\ grab[d].window = c
  /\ Deactivate(d, <<>>)
  /\ UNCHANGED Others

Freed(c) ==
  /\ Quiet
  /\ \A g \in passive : c \notin {g.client, g.window}
  /\ \A d \in Device : grab[d].window # c
  /\ Enter(c, "freeing", "gone")

CloseDown(c) ==
  \/ Released(c) \/ Freed(c)
  \/ \E d \in Device : ReleaseGrab(c, d) \/ FreeWindow(c, d)
  \/ \E g \in Passives : FreePassive(c, g)

-----------------------------------------------------------------------------
Request(c) ==
  \/ \E d \in Device : GrabDevice(c, d) \/ Ungrab(c, d)
  \/ AllowEvents(c)

Server == ProcessInput \/ PlayNext \/ PlayEnd \/ \E c \in Client : CloseDown(c)

Next ==
  \/ Server
  \/ \E d \in Device, k \in Key : Input(d, k)
  \/ \E c \in Client : Request(c) \/ Connect(c) \/ Die(c)
  \/ \E d \in Device : LoseWindow(d)
  \/ \E g \in Passives : ChangePassive(g)

Spec == Init /\ [][Next]_vars

(* The server does not stop in the middle of a handler.                    *)
FairSpec == Spec /\ WF_vars(Server)
-----------------------------------------------------------------------------
(* Properties.                                                             *)

TypeOK ==
  /\ client \in [Client -> {"gone", "running", "releasing", "freeing"}]
  /\ passive \subseteq Passives
  /\ grab \in [Device -> Grab \cup {NoGrab}]
  /\ state \in [Device -> SyncStates]
  /\ other \in [Device -> Device \cup {NoDevice}]
  /\ frozen \in [Device -> BOOLEAN]
  /\ saved \in [Device -> Seq(Event)]
  /\ activating \subseteq Key
  /\ down \in [Device -> SUBSET Key] /\ hardware \in [Device -> SUBSET Key]
  /\ pending \in Seq(Event) /\ todo \in Seq(Event) /\ played \in Seq(Event)
  /\ playing \in BOOLEAN
  /\ arrived \in 0 .. MaxEvents

(* A frozen device can be thawed: its own grab or the grab it names in     *)
(* sync.other is there, whoever released, replayed or lost grabs since.    *)
FreezeHasGrab ==
  \A d \in Device :
    /\ frozen[d] <=> other[d] # NoDevice \/ state[d] \in FrozenStates
    /\ state[d] = "NOT_GRABBED" <=> grab[d] = NoGrab
    /\ other[d] # NoDevice => other[d] = Other(d) /\ grab[Other(d)] # NoGrab
    /\ state[d] = "FROZEN_WITH_EVENT" => saved[d] # <<>>

(* No event is stuck: when the server waits, an event that is pending      *)
(* belongs to a frozen device.                                             *)
NothingStuck == ~playing => \A i \in DOMAIN pending : frozen[pending[i].device]

(* A request of one client thaws no device that another client froze.      *)
OnlyTheFreezerThaws ==
  [][\A d \in Device, x \in Client :
       frozen[d] /\ ~frozen'[d] /\ (Freezes(x, d) \/ (Grabs(x, d) /\ state[d] \in FrozenStates))
       => \A c \in Client \ {x} : ~Request(c)]_vars

Events == ToSet(played) \cup ToSet(pending) \cup ToSet(todo)

\* The events of a device that have not been handled; of one that was split, that
\* is a matter of its first half.
Queue == [d \in Device |-> {e.id : e \in {x \in Events : x.device = d /\ x.id > 0}}]

Blocked == {d \in Device : frozen[d]}

Devices == INSTANCE FrozenDevices WITH queue <- Queue, blocked <- Blocked

(* The pending list implements one queue for each device: its events are   *)
(* handled in their order, each once, while it is not frozen, and they are *)
(* handled when it thaws.  (The press that ends a repeated key stroke can  *)
(* be late: it is put behind the events that wait when the release before  *)
(* it froze the keyboard.)                                                 *)
ImplementsFrozenDevices == Devices!Spec

(* "The active grab is terminated automatically when the logical state of  *)
(* the keyboard has the specified key released."                           *)
PassiveGrabEnds ==
  Waiting /\ grab["keyboard"].passive => down["keyboard"] # {}
=============================================================================
