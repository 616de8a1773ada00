-------------------------- MODULE SyncGrabs_proofs --------------------------
(***************************************************************************)
(* Proofs about SyncGrabs, for any clients, keys and passive grabs: a      *)
(* device that is frozen is frozen by a grab that is there, whatever the   *)
(* order of events, requests and deaths.                                   *)
(*                                                                         *)
(* The two properties are proved together: that a call has an event to     *)
(* handle rests on the types, and that the device a grab freezes can be    *)
(* told rests on every grab being the one its state says.                  *)
(***************************************************************************)
EXTENDS SyncGrabs, SequenceTheorems, TLAPS

Inv == TypeOK /\ FreezeHasGrab

\* What an operation on grabs must leave right.
FreezeInv ==
  /\ grab \in [Device -> Grab \cup {NoGrab}]
  /\ state \in [Device -> SyncStates]
  /\ other \in [Device -> Device \cup {NoDevice}]
  /\ frozen \in [Device -> BOOLEAN]
  /\ saved \in [Device -> Seq(Event)]
  /\ playing \in BOOLEAN
  /\ FreezeHasGrab

\* What is left to the rest of a handler.
InputInv ==
  /\ client \in [Client -> {"gone", "running", "releasing", "freeing"}]
  /\ passive \subseteq Passives
  /\ activating \subseteq Key
  /\ down \in [Device -> SUBSET Key] /\ hardware \in [Device -> SUBSET Key]
  /\ pending \in Seq(Event) /\ todo \in Seq(Event) /\ played \in Seq(Event)
  /\ arrived \in 0 .. MaxEvents

-----------------------------------------------------------------------------
(* The invariant is about the grabs and about the input.                   *)
LEMMA InvParts == Inv <=> FreezeInv /\ InputInv
BY DEF Inv, FreezeInv, InputInv, TypeOK

(* The same, of the next state.                                            *)
LEMMA InvPartsNext == Inv' <=> FreezeInv' /\ InputInv'
BY DEF Inv, FreezeInv, InputInv, TypeOK

(* There are two devices.                                                  *)
LEMMA TwoDevices ==
  /\ "keyboard" \in Device /\ "pointer" \in Device /\ NoDevice \notin Device
  /\ \A d \in Device : Other(d) \in Device /\ Other(d) # d /\ Other(Other(d)) = d
  /\ \A d, x \in Device : x = d \/ x = Other(d)
BY DEF Device, NoDevice, Other

(* A grab of a client is a grab.                                           *)
LEMMA GrabIsGrab == \A g \in Grab : g # NoGrab
BY SyncGrabsAssumption DEF Grab, NoGrab

(* ComputeFreezes, after the grab, state and other have been set, freezes  *)
(* what they say, and keeps the events that are saved.                     *)
LEMMA ComputeFreezesInv ==
  ASSUME FreezeInv, played \in Seq(Event), playing => played # <<>>,
         NEW event \in Seq(Event), NEW replay \in Seq(Event),
         state' \in [Device -> SyncStates],
         \A d \in Device : state'[d] = "FROZEN_WITH_EVENT" /\ state'[d] # state[d] => event # <<>>,
         ComputeFreezes(event, replay)
  PROVE  /\ frozen' \in [Device -> BOOLEAN]
         /\ saved' \in [Device -> Seq(Event)]
         /\ playing' \in BOOLEAN
         /\ played' \in Seq(Event)
         /\ \A d \in Device : frozen'[d] <=> other'[d] # NoDevice \/ state'[d] \in FrozenStates
         /\ \A d \in Device : state'[d] = "FROZEN_WITH_EVENT" => saved'[d] # <<>>
<1>1. frozen' \in [Device -> BOOLEAN]
      /\ \A d \in Device : frozen'[d] <=> other'[d] # NoDevice \/ state'[d] \in FrozenStates
  BY DEF ComputeFreezes
<1>2. saved' \in [Device -> Seq(Event)]
      /\ \A d \in Device : state'[d] = "FROZEN_WITH_EVENT" => saved'[d] # <<>>
  <2>1. <<>> \in Seq(Event)
    OBVIOUS
  <2> QED
    BY <2>1 DEF ComputeFreezes, FreezeInv, FreezeHasGrab
<1>3. playing' \in BOOLEAN
  <2>1. Thaws(pending) \in BOOLEAN
    BY DEF Thaws
  <2> QED
    BY <2>1 DEF ComputeFreezes, FreezeInv
<1>4. played' \in Seq(Event)
  BY DEF ComputeFreezes, FreezeInv
<1> QED
  BY <1>1, <1>2, <1>3, <1>4

(* A grab that is activated keeps the invariant: it may freeze the other   *)
(* device, and lets go of what grabs of its client freeze.                 *)
LEMMA ActivateInv ==
  ASSUME FreezeInv, played \in Seq(Event), playing => played # <<>>,
         NEW d \in Device, NEW g \in Grab, NEW sync \in BOOLEAN, NEW syncOther \in BOOLEAN,
         NEW event \in Seq(Event), Activate(d, g, sync, syncOther, event)
  PROVE  FreezeInv' /\ played' \in Seq(Event)
<1>1. grab' \in [Device -> Grab \cup {NoGrab}] /\ grab'[d] # NoGrab
  BY GrabIsGrab DEF Activate, FreezeInv
<1>2. /\ state' \in [Device -> SyncStates]
      /\ state'[d] # "NOT_GRABBED"
      /\ state'[d] = "FROZEN_WITH_EVENT" => event # <<>>
      /\ \A x \in Device : x # d => state'[x] = state[x]
  BY DEF Activate, FreezeInv, SyncStates, FrozenStates
<1>3. /\ other' \in [Device -> Device \cup {NoDevice}]
      /\ \A x \in Device : \/ other'[x] = NoDevice
                           \/ other'[x] = other[x]
                           \/ x # d /\ other'[x] = d
  BY TwoDevices DEF Activate, CheckGrabForSyncs, FreezeInv
<1>4. \A x \in Device : other'[x] # NoDevice => other'[x] = Other(x) /\ grab'[Other(x)] # NoGrab
  BY <1>1, <1>3, TwoDevices DEF Activate, FreezeInv, FreezeHasGrab
<1>5. \A x \in Device : state'[x] = "NOT_GRABBED" <=> grab'[x] = NoGrab
  BY <1>1, <1>2 DEF Activate, FreezeInv, FreezeHasGrab
<1>6. /\ frozen' \in [Device -> BOOLEAN]
      /\ saved' \in [Device -> Seq(Event)]
      /\ playing' \in BOOLEAN
      /\ played' \in Seq(Event)
      /\ \A x \in Device : frozen'[x] <=> other'[x] # NoDevice \/ state'[x] \in FrozenStates
      /\ \A x \in Device : state'[x] = "FROZEN_WITH_EVENT" => saved'[x] # <<>>
  <2>1. \A x \in Device : state'[x] = "FROZEN_WITH_EVENT" /\ state'[x] # state[x] => event # <<>>
    BY <1>2
  <2>2. ComputeFreezes(event, <<>>)
    BY DEF Activate
  <2>3. <<>> \in Seq(Event)
    OBVIOUS
  <2> QED
    BY <1>2, <2>1, <2>2, <2>3, ComputeFreezesInv
<1> QED
  BY <1>1, <1>2, <1>3, <1>4, <1>5, <1>6 DEF FreezeInv, FreezeHasGrab

(* A grab that ends keeps the invariant: it leaves no device frozen that   *)
(* only it could thaw.                                                     *)
LEMMA DeactivateInv ==
  ASSUME FreezeInv, played \in Seq(Event), playing => played # <<>>,
         NEW d \in Device, NEW replay \in Seq(Event), Deactivate(d, replay)
  PROVE  FreezeInv' /\ played' \in Seq(Event)
<1>1. grab' \in [Device -> Grab \cup {NoGrab}] /\ grab'[d] = NoGrab
      /\ \A x \in Device : x # d => grab'[x] = grab[x]
  BY DEF Deactivate, FreezeInv
<1>2. state' \in [Device -> SyncStates] /\ state'[d] = "NOT_GRABBED"
      /\ \A x \in Device : x # d => state'[x] = state[x]
  BY DEF Deactivate, FreezeInv, SyncStates
<1>3. /\ other' \in [Device -> Device \cup {NoDevice}]
      /\ \A x \in Device : other'[x] # NoDevice => other'[x] = other[x] /\ other[x] # d
  BY DEF Deactivate, FreezeInv
<1>4. \A x \in Device : other'[x] # NoDevice => other'[x] = Other(x) /\ grab'[Other(x)] # NoGrab
  BY <1>1, <1>3, TwoDevices DEF FreezeInv, FreezeHasGrab
<1>5. \A x \in Device : state'[x] = "NOT_GRABBED" <=> grab'[x] = NoGrab
  BY <1>1, <1>2 DEF FreezeInv, FreezeHasGrab
<1>6. /\ frozen' \in [Device -> BOOLEAN]
      /\ saved' \in [Device -> Seq(Event)]
      /\ playing' \in BOOLEAN
      /\ played' \in Seq(Event)
      /\ \A x \in Device : frozen'[x] <=> other'[x] # NoDevice \/ state'[x] \in FrozenStates
      /\ \A x \in Device : state'[x] = "FROZEN_WITH_EVENT" => saved'[x] # <<>>
  <2>1. \A x \in Device : ~(state'[x] = "FROZEN_WITH_EVENT" /\ state'[x] # state[x])
    BY <1>2
  <2>2. ComputeFreezes(<<>>, replay)
    BY DEF Deactivate
  <2>3. <<>> \in Seq(Event)
    OBVIOUS
  <2> QED
    BY <1>2, <2>1, <2>2, <2>3, ComputeFreezesInv
<1> QED
  BY <1>1, <1>2, <1>3, <1>4, <1>5, <1>6 DEF FreezeInv, FreezeHasGrab

(* The event that a client asked to freeze the device for freezes it, with *)
(* its grab; the other device is frozen by a grab of its own or by this    *)
(* one.                                                                    *)
LEMMA FreezeNextInv ==
  ASSUME FreezeInv, NEW e \in Event, FreezeNext(e)
  PROVE  FreezeInv'
<1> DEFINE d == e.device
           o == Other(d)
           both == state[d] = "FREEZE_BOTH_NEXT_EVENT"
           joins == both /\ state[o] = "FREEZE_BOTH_NEXT_EVENT" /\ grab[o].client = grab[d].client
<1>1. d \in Device /\ o \in Device /\ o # d /\ \A x \in Device : x = d \/ x = o
  BY TwoDevices DEF Event
<1>2. /\ both \/ state[d] = "FREEZE_NEXT_EVENT"
      /\ state' = [state EXCEPT ![d] = "FROZEN_WITH_EVENT",
                                ![o] = IF joins THEN "FROZEN_NO_EVENT" ELSE @]
      /\ other' = IF both /\ ~joins THEN [other EXCEPT ![o] = d] ELSE other
      /\ frozen' = [x \in Device |-> x = d \/ both \/ frozen[x]]
      /\ saved' = [saved EXCEPT ![d] = <<Saved(e)>>]
      /\ grab' = grab /\ playing' = playing
  BY DEF FreezeNext
<1>3. <<Saved(e)>> \in Seq(Event) /\ <<Saved(e)>> # <<>>
  BY SyncGrabsAssumption DEF Saved, Event
<1>4. /\ state' \in [Device -> SyncStates]
      /\ state'[d] = "FROZEN_WITH_EVENT"
      /\ state'[o] = IF joins THEN "FROZEN_NO_EVENT" ELSE state[o]
  BY <1>1, <1>2 DEF FreezeInv, SyncStates, FrozenStates
<1>5. /\ other' \in [Device -> Device \cup {NoDevice}]
      /\ other'[d] = other[d]
      /\ other'[o] = IF both /\ ~joins THEN d ELSE other[o]
  BY <1>1, <1>2 DEF FreezeInv
<1>6. /\ frozen' \in [Device -> BOOLEAN]
      /\ frozen'[d]
      /\ frozen'[o] <=> both \/ frozen[o]
  BY <1>1, <1>2 DEF FreezeInv
<1>7. /\ saved' \in [Device -> Seq(Event)]
      /\ saved'[d] # <<>> /\ saved'[o] = saved[o]
  BY <1>1, <1>2, <1>3 DEF FreezeInv
<1>8. \A x \in Device : state'[x] = "NOT_GRABBED" <=> grab'[x] = NoGrab
  <2>1. state[d] # "NOT_GRABBED" /\ (joins => state[o] # "NOT_GRABBED")
    BY <1>2
  <2> QED
    BY <1>1, <1>2, <1>4, <2>1 DEF FreezeInv, FreezeHasGrab
<1>9. \A x \in Device : other'[x] # NoDevice => other'[x] = Other(x) /\ grab'[Other(x)] # NoGrab
  <2>1. Other(o) = d /\ grab[d] # NoGrab /\ d # NoDevice
    BY <1>1, <1>2, TwoDevices DEF FreezeInv, FreezeHasGrab
  <2> HIDE DEF both, joins
  <2> QED
    BY <1>1, <1>2, <1>5, <2>1 DEF FreezeInv, FreezeHasGrab
<1>10. \A x \in Device : frozen'[x] <=> other'[x] # NoDevice \/ state'[x] \in FrozenStates
  <2>1. joins => both
    OBVIOUS
  <2>2. d # NoDevice
    BY <1>1, TwoDevices
  <2>3. \A x \in Device : frozen[x] <=> other[x] # NoDevice \/ state[x] \in FrozenStates
    BY DEF FreezeInv, FreezeHasGrab
  <2> HIDE DEF both, joins
  <2>4. CASE joins
    BY <1>1, <1>4, <1>5, <1>6, <2>1, <2>2, <2>3, <2>4 DEF FrozenStates
  <2>5. CASE ~joins
    BY <1>1, <1>4, <1>5, <1>6, <2>1, <2>2, <2>3, <2>5 DEF FrozenStates
  <2> QED
    BY <2>4, <2>5
<1>11. \A x \in Device : state'[x] = "FROZEN_WITH_EVENT" => saved'[x] # <<>>
  <2>1. state'[o] = "FROZEN_WITH_EVENT" => state[o] = "FROZEN_WITH_EVENT"
    BY <1>4
  <2>2. state[o] = "FROZEN_WITH_EVENT" => saved[o] # <<>>
    BY <1>1 DEF FreezeInv, FreezeHasGrab
  <2> HIDE DEF d, o
  <2> QED
    BY <1>1, <1>7, <2>1, <2>2
<1>12. playing' \in BOOLEAN /\ grab' \in [Device -> Grab \cup {NoGrab}]
  BY <1>2 DEF FreezeInv
<1> HIDE DEF d, o, both, joins
<1> QED
  BY <1>4, <1>5, <1>6, <1>7, <1>8, <1>9, <1>10, <1>11, <1>12 DEF FreezeInv, FreezeHasGrab

-----------------------------------------------------------------------------
(* A call returns to calls of events.                                      *)
LEMMA ReturnType ==
  ASSUME todo \in Seq(Event), played \in Seq(Event), NEW rest \in Seq(Event), Return(rest)
  PROVE  todo' \in Seq(Event) /\ played' \in Seq(Event)
BY DEF Return

(* The second half of an event is an event.                                *)
LEMMA HalfIsEvent == \A e \in Event : Half(e) \in Event /\ Half(e).id <= 0
<1> SUFFICES ASSUME NEW e \in Event  PROVE Half(e) \in Event /\ Half(e).id <= 0
  OBVIOUS
<1> DEFINE n == IF e.id > 0 THEN -e.id ELSE e.id
<1>1. n \in -MaxEvents .. MaxEvents /\ n <= 0
  BY SyncGrabsAssumption DEF Event
<1>2. Half(e) = [e EXCEPT !.id = n]
  BY DEF Half
<1> HIDE DEF n
<1> QED  BY <1>1, <1>2 DEF Event

(* What stays the same keeps the part of the invariant about grabs.        *)
LEMMA FreezesUnchanged == FreezeInv /\ UNCHANGED freezes => FreezeInv'
BY DEF FreezeInv, FreezeHasGrab, freezes

(* A call has an event to handle, and more events to come after it.        *)
LEMMA CallType ==
  ASSUME FreezeInv, todo \in Seq(Event), played \in Seq(Event), Calls # <<>>
  PROVE  /\ Head(Calls) \in Event /\ Tail(Calls) \in Seq(Event)
         /\ playing => played # <<>>
         /\ ~playing => Tail(todo) \in Seq(Event)
BY DEF Calls, FreezeInv

(* An event that is delivered without an effect, or freezes its device.    *)
LEMMA DeliverInv ==
  ASSUME FreezeInv, todo \in Seq(Event), played \in Seq(Event), Calls # <<>>,
         NEW e \in Event, FreezeNext(e) \/ NoEffect
  PROVE  FreezeInv' /\ todo' \in Seq(Event) /\ played' \in Seq(Event)
<1>1. Tail(Calls) \in Seq(Event)
  BY CallType
<1>2. todo' \in Seq(Event) /\ played' \in Seq(Event)
  <2>1. Return(Tail(Calls))
    BY DEF FreezeNext, NoEffect
  <2> QED
    BY <1>1, <2>1, ReturnType
<1>3. FreezeInv'
  BY FreezeNextInv, FreezesUnchanged DEF NoEffect
<1> QED
  BY <1>2, <1>3

(* An event that grabs its device.                                         *)
LEMMA EventGrabInv ==
  ASSUME FreezeInv, InputInv, Calls # <<>>, NEW e \in Event,
         NEW pressed, NEW windows,
         PassiveGrab(e, pressed, windows) \/ AutomaticGrab(e)
  PROVE  FreezeInv' /\ todo' \in Seq(Event) /\ played' \in Seq(Event)
<1>1. /\ todo \in Seq(Event) /\ played \in Seq(Event)
      /\ playing => played # <<>>
      /\ ~playing => Tail(todo) \in Seq(Event)
  BY CallType DEF InputInv
<1>2. todo' \in Seq(Event)
  <2>1. Pop
    BY DEF PassiveGrab, AutomaticGrab
  <2> QED
    BY <1>1, <2>1 DEF Pop
<1>3. CASE PassiveGrab(e, pressed, windows)
  <2>1. PICK g \in passive :
          Activate(e.device, [client |-> g.client, window |-> g.window, passive |-> TRUE],
                   g.sync, g.syncOther, <<Saved(e)>>)
    BY <1>3 DEF PassiveGrab
  <2>2. g \in Passive
    BY SyncGrabsAssumption DEF InputInv
  <2>3. /\ e.device \in Device
        /\ [client |-> g.client, window |-> g.window, passive |-> TRUE] \in Grab
        /\ g.sync \in BOOLEAN /\ g.syncOther \in BOOLEAN
    BY <2>2 DEF Event, Passive, Grab
  <2>4. <<Saved(e)>> \in Seq(Event)
    BY SyncGrabsAssumption DEF Saved, Event
  <2> QED
    BY <1>1, <1>2, <2>1, <2>3, <2>4, ActivateInv
<1>4. CASE AutomaticGrab(e)
  <2>1. PICK c \in Client, w \in Exists :
          Activate("pointer", [client |-> c, window |-> w, passive |-> TRUE], FALSE, FALSE, <<>>)
    BY <1>4 DEF AutomaticGrab
  <2>2. [client |-> c, window |-> w, passive |-> TRUE] \in Grab /\ "pointer" \in Device
    BY DEF Exists, Window, Grab, Device
  <2>3. <<>> \in Seq(Event)
    OBVIOUS
  <2> QED
    BY <1>1, <1>2, <2>1, <2>2, <2>3, ActivateInv
<1> QED
  BY <1>3, <1>4

-----------------------------------------------------------------------------
(* One call of processInputProc keeps the invariant.                       *)
LEMMA ProcessInputInv == Inv /\ ProcessInput => Inv'
<1> SUFFICES ASSUME Inv, ProcessInput
             PROVE  Inv'
  OBVIOUS
<1> DEFINE e == Head(Calls)
<1>1. FreezeInv /\ InputInv
  BY InvParts
<1>2. Calls # <<>>
  BY DEF ProcessInput
<1>3. e \in Event /\ Tail(Calls) \in Seq(Event) /\ todo \in Seq(Event) /\ played \in Seq(Event)
  BY <1>1, <1>2, CallType DEF InputInv
<1>4. e.device \in Device /\ e.key \in Key
  BY <1>3 DEF Event
<1> HIDE DEF e
<1>5. CASE Enqueue(e)
  <2>1. Return(Tail(Calls)) /\ pending' = Append(pending, e)
    BY <1>5 DEF Enqueue
  <2>2. todo' \in Seq(Event) /\ played' \in Seq(Event)
    BY <1>3, <2>1, ReturnType
  <2>3. FreezeInv'
    BY <1>1, <1>5, FreezesUnchanged DEF Enqueue
  <2>4. InputInv'
    BY <1>1, <1>3, <1>5, <2>1, <2>2 DEF Enqueue, InputInv
  <2> QED
    BY <2>3, <2>4, InvPartsNext
<1>6. CASE Repeat(e)
  <2>1. <<[e EXCEPT !.press = FALSE], Half(e)>> \o Tail(Calls) \in Seq(Event)
    <3>1. [e EXCEPT !.press = FALSE] \in Event /\ Half(e) \in Event
      BY <1>3, HalfIsEvent DEF Event
    <3>2. <<[e EXCEPT !.press = FALSE], Half(e)>> \in Seq(Event)
      BY <1>3, <3>1
    <3> QED
      BY <1>3, <3>2
  <2>2. todo' \in Seq(Event) /\ played' \in Seq(Event)
    BY <1>3, <1>6, <2>1, ReturnType DEF Repeat
  <2>3. FreezeInv'
    BY <1>1, <1>6, FreezesUnchanged DEF Repeat
  <2>4. InputInv'
    BY <1>1, <1>6, <2>2 DEF Repeat, InputInv
  <2> QED
    BY <2>3, <2>4, InvPartsNext
<1>7. CASE Ignore(e)
  <2>1. todo' \in Seq(Event) /\ played' \in Seq(Event)
    BY <1>3, <1>7, ReturnType DEF Ignore
  <2>2. FreezeInv'
    BY <1>1, <1>7, FreezesUnchanged DEF Ignore
  <2>3. InputInv'
    BY <1>1, <1>7, <2>1 DEF Ignore, InputInv
  <2> QED
    BY <2>2, <2>3, InvPartsNext
<1>8. CASE Press(e)
  <2>1. /\ down' = [down EXCEPT ![e.device] = down[e.device] \cup {e.key}]
        /\ activating' = activating \/ activating' = {e.key}
        /\ UNCHANGED <<client, passive, hardware, pending, arrived>>
    BY <1>8 DEF Press
  <2>2. \/ PassiveGrab(e, down[e.device] \cup {e.key}, Window) \/ AutomaticGrab(e)
        \/ FreezeNext(e) \/ NoEffect
    BY <1>8 DEF Press
  <2>3. FreezeInv' /\ todo' \in Seq(Event) /\ played' \in Seq(Event)
    BY <1>1, <1>2, <1>3, <2>2, EventGrabInv, DeliverInv
  <2>4. down' \in [Device -> SUBSET Key] /\ activating' \subseteq Key
    BY <1>1, <1>4, <2>1 DEF InputInv
  <2>5. InputInv'
    BY <1>1, <2>1, <2>3, <2>4 DEF InputInv
  <2> QED
    BY <2>3, <2>5, InvPartsNext
<1>9. CASE Release(e)
  <2>1. /\ down' = [down EXCEPT ![e.device] = down[e.device] \ {e.key}]
        /\ UNCHANGED <<client, passive, activating, hardware, pending, arrived>>
    BY <1>9 DEF Release
  <2>2. (Deactivate(e.device, <<>>) /\ Pop) \/ FreezeNext(e) \/ NoEffect
    BY <1>9 DEF Release
  <2>3. FreezeInv' /\ todo' \in Seq(Event) /\ played' \in Seq(Event)
    <3>1. CASE Deactivate(e.device, <<>>) /\ Pop
      <4>1. (playing => played # <<>>) /\ (~playing => Tail(todo) \in Seq(Event))
        BY <1>1, <1>2, <1>3, CallType
      <4>2. todo' \in Seq(Event)
        BY <1>3, <3>1, <4>1 DEF Pop
      <4>3. <<>> \in Seq(Event)
        OBVIOUS
      <4> QED
        BY <1>1, <1>3, <1>4, <3>1, <4>1, <4>2, <4>3, DeactivateInv
    <3>2. CASE FreezeNext(e) \/ NoEffect
      BY <1>1, <1>2, <1>3, <3>2, DeliverInv
    <3> QED
      BY <2>2, <3>1, <3>2
  <2>4. down' \in [Device -> SUBSET Key]
    BY <1>1, <2>1 DEF InputInv
  <2>5. InputInv'
    BY <1>1, <2>1, <2>3, <2>4 DEF InputInv
  <2> QED
    BY <2>3, <2>5, InvPartsNext
<1>10. CASE Again(e)
  <2>1. PassiveGrab(e, down[e.device], Guest) \/ AutomaticGrab(e) \/ NoEffect
    BY <1>10 DEF Again
  <2>2. FreezeInv' /\ todo' \in Seq(Event) /\ played' \in Seq(Event)
    BY <1>1, <1>2, <1>3, <2>1, EventGrabInv, DeliverInv
  <2>3. InputInv'
    BY <1>1, <1>10, <2>2 DEF Again, InputInv
  <2> QED
    BY <2>2, <2>3, InvPartsNext
<1> QED
  BY <1>5, <1>6, <1>7, <1>8, <1>9, <1>10 DEF ProcessInput, e

(* Playing the pending events keeps the invariant.                         *)
LEMMA PlayInv == Inv /\ (PlayNext \/ PlayEnd) => Inv'
<1> SUFFICES ASSUME Inv, PlayNext \/ PlayEnd
             PROVE  Inv'
  OBVIOUS
<1>1. FreezeInv /\ InputInv
  BY InvParts
<1>2. CASE PlayNext
  <2>1. PICK i \in DOMAIN pending : played' = <<pending[i]>> /\ pending' = RemoveAt(pending, i)
    BY <1>2 DEF PlayNext
  <2>2. pending \in Seq(Event) /\ i \in 1 .. Len(pending)
    BY <1>1 DEF InputInv
  <2>3. played' \in Seq(Event)
    BY <2>1, <2>2
  <2>4. pending' \in Seq(Event)
    <3>1. SubSeq(pending, 1, i - 1) \in Seq(Event) /\ SubSeq(pending, i + 1, Len(pending)) \in Seq(Event)
      BY <2>2
    <3> QED
      BY <2>1, <3>1 DEF RemoveAt
  <2>5. FreezeInv'
    BY <1>1, <1>2, FreezesUnchanged DEF PlayNext
  <2>6. InputInv'
    BY <1>1, <1>2, <2>3, <2>4 DEF PlayNext, InputInv
  <2> QED
    BY <2>5, <2>6, InvPartsNext
<1>3. CASE PlayEnd
  <2>1. FreezeInv' /\ InputInv'
    BY <1>1, <1>3 DEF PlayEnd, FreezeInv, FreezeHasGrab, InputInv
  <2> QED
    BY <2>1, InvPartsNext
<1> QED
  BY <1>2, <1>3

-----------------------------------------------------------------------------
(* Between two handlers, a grab that is activated or ends keeps the        *)
(* invariant.                                                              *)
LEMMA HandlerInv ==
  ASSUME Inv, Quiet, UNCHANGED Others, NEW d \in Device,
         \/ Deactivate(d, <<>>)
         \/ \E g \in Grab, sync, syncOther \in BOOLEAN : Activate(d, g, sync, syncOther, <<>>)
  PROVE  Inv'
<1>1. FreezeInv /\ InputInv /\ ~playing
  BY InvParts DEF Quiet
<1>2. <<>> \in Seq(Event)
  OBVIOUS
<1>3. FreezeInv' /\ played' \in Seq(Event)
  <2>1. CASE Deactivate(d, <<>>)
    BY <1>1, <1>2, <2>1, DeactivateInv DEF InputInv
  <2>2. ASSUME NEW g \in Grab, NEW sync \in BOOLEAN, NEW syncOther \in BOOLEAN,
               Activate(d, g, sync, syncOther, <<>>)
        PROVE  FreezeInv' /\ played' \in Seq(Event)
    BY <1>1, <1>2, <2>2, ActivateInv DEF InputInv
  <2> QED
    BY <2>1, <2>2
<1>4. InputInv'
  BY <1>1, <1>3 DEF InputInv, Others
<1> QED
  BY <1>3, <1>4, InvPartsNext

(* AllowEvents keeps the invariant: a device that stays frozen stays       *)
(* frozen by a grab that is there.                                         *)
LEMMA AllowEventsInv ==
  ASSUME Inv, NEW c \in Client, AllowEvents(c)
  PROVE  Inv'
<1>1. FreezeInv /\ InputInv
  BY InvParts
<1>2. <<>> \in Seq(Event)
  OBVIOUS
<1>3. ASSUME NEW replay \in Seq(Event), ~playing, UNCHANGED Others,
             grab' \in [Device -> Grab \cup {NoGrab}],
             state' \in [Device -> SyncStates],
             other' \in [Device -> Device \cup {NoDevice}],
             \A x \in Device : state'[x] = "NOT_GRABBED" <=> grab'[x] = NoGrab,
             \A x \in Device : state'[x] = "FROZEN_WITH_EVENT" => state[x] = "FROZEN_WITH_EVENT",
             \A x \in Device : other'[x] # NoDevice =>
                                 other'[x] = other[x] /\ grab'[Other(x)] # NoGrab,
             ComputeFreezes(<<>>, replay)
      PROVE  Inv'
  <2>1. /\ frozen' \in [Device -> BOOLEAN]
        /\ saved' \in [Device -> Seq(Event)]
        /\ playing' \in BOOLEAN
        /\ played' \in Seq(Event)
        /\ \A d \in Device : frozen'[d] <=> other'[d] # NoDevice \/ state'[d] \in FrozenStates
        /\ \A d \in Device : state'[d] = "FROZEN_WITH_EVENT" => saved'[d] # <<>>
    BY <1>1, <1>2, <1>3, ComputeFreezesInv DEF InputInv
  <2>2. FreezeInv'
    BY <1>1, <1>3, <2>1 DEF FreezeInv, FreezeHasGrab
  <2>3. InputInv'
    BY <1>1, <1>3, <2>1 DEF InputInv, Others
  <2> QED
    BY <2>2, <2>3, InvPartsNext
<1>4. \A x \in Device : Grabs(c, x) => grab[x] # NoGrab /\ state[x] # "NOT_GRABBED"
  BY <1>1, SyncGrabsAssumption DEF Grabs, NoGrab, FreezeInv, FreezeHasGrab
<1>5. ASSUME NEW d \in Device, Replay(c, d)
      PROVE  Inv'
  <2>1. saved[d] \in Seq(Event) /\ ~playing /\ UNCHANGED Others
    BY <1>1, <1>5 DEF Replay, May, Requests, Waiting, Quiet, FreezeInv
  <2>2. grab' \in [Device -> Grab \cup {NoGrab}] /\ grab'[d] = NoGrab
        /\ \A x \in Device : x # d => grab'[x] = grab[x]
    BY <1>1, <1>5 DEF Replay, FreezeInv
  <2>3. state' \in [Device -> SyncStates] /\ state'[d] = "NOT_GRABBED"
        /\ \A x \in Device : x # d => state'[x] = state[x]
    BY <1>1, <1>5 DEF Replay, FreezeInv, SyncStates
  <2>4. /\ other' \in [Device -> Device \cup {NoDevice}]
        /\ \A x \in Device : other'[x] # NoDevice => other'[x] = other[x] /\ other[x] # d
    BY <1>1, <1>5 DEF Replay, FreezeInv
  <2>5. \A x \in Device : state'[x] = "NOT_GRABBED" <=> grab'[x] = NoGrab
    BY <1>1, <2>2, <2>3 DEF FreezeInv, FreezeHasGrab
  <2>6. \A x \in Device : other'[x] # NoDevice => other'[x] = other[x] /\ grab'[Other(x)] # NoGrab
    BY <1>1, <2>2, <2>4, TwoDevices DEF FreezeInv, FreezeHasGrab
  <2>7. \A x \in Device : state'[x] = "FROZEN_WITH_EVENT" => state[x] = "FROZEN_WITH_EVENT"
    BY <2>3
  <2>8. ComputeFreezes(<<>>, saved[d])
    BY <1>5 DEF Replay
  <2> QED
    BY <1>3, <2>1, <2>2, <2>3, <2>4, <2>5, <2>6, <2>7, <2>8
<1>6. ASSUME NEW d \in Device, NEW new \in {"THAWED", "FREEZE_NEXT_EVENT"}, AllowOne(c, d, new)
      PROVE  Inv'
  <2>1. ~playing /\ UNCHANGED Others /\ grab' = grab /\ ComputeFreezes(<<>>, <<>>)
    BY <1>6 DEF AllowOne, May, Requests, Waiting, Quiet
  <2>2. state' \in [Device -> SyncStates]
        /\ \A x \in Device : state'[x] = state[x] \/ (Grabs(c, x) /\ state'[x] = new)
    BY <1>1, <1>6 DEF AllowOne, FreezeInv, SyncStates
  <2>3. other' \in [Device -> Device \cup {NoDevice}]
        /\ \A x \in Device : other'[x] # NoDevice => other'[x] = other[x]
    BY <1>1, <1>6 DEF AllowOne, FreezeInv
  <2>4. \A x \in Device : state'[x] = "NOT_GRABBED" <=> grab'[x] = NoGrab
    BY <1>1, <1>4, <2>1, <2>2 DEF FreezeInv, FreezeHasGrab
  <2>5. \A x \in Device : state'[x] = "FROZEN_WITH_EVENT" => state[x] = "FROZEN_WITH_EVENT"
    BY <2>2
  <2>6. \A x \in Device : other'[x] # NoDevice => other'[x] = other[x] /\ grab'[Other(x)] # NoGrab
    BY <1>1, <2>1, <2>3 DEF FreezeInv, FreezeHasGrab
  <2> QED
    BY <1>1, <1>2, <1>3, <2>1, <2>2, <2>3, <2>4, <2>5, <2>6 DEF FreezeInv
<1>7. ASSUME NEW new \in {"THAWED", "FREEZE_BOTH_NEXT_EVENT"}, AllowBoth(c, new)
      PROVE  Inv'
  <2>1. ~playing /\ UNCHANGED Others /\ grab' = grab /\ ComputeFreezes(<<>>, <<>>)
    BY <1>7 DEF AllowBoth, May, Requests, Waiting, Quiet
  <2>2. state' \in [Device -> SyncStates]
        /\ \A x \in Device : state'[x] = state[x] \/ (Grabs(c, x) /\ state'[x] = new)
    BY <1>1, <1>7 DEF AllowBoth, FreezeInv, SyncStates
  <2>3. other' \in [Device -> Device \cup {NoDevice}]
        /\ \A x \in Device : other'[x] # NoDevice => other'[x] = other[x]
    BY <1>1, <1>7 DEF AllowBoth, FreezeInv
  <2>4. \A x \in Device : state'[x] = "NOT_GRABBED" <=> grab'[x] = NoGrab
    BY <1>1, <1>4, <2>1, <2>2 DEF FreezeInv, FreezeHasGrab
  <2>5. \A x \in Device : state'[x] = "FROZEN_WITH_EVENT" => state[x] = "FROZEN_WITH_EVENT"
    BY <2>2
  <2>6. \A x \in Device : other'[x] # NoDevice => other'[x] = other[x] /\ grab'[Other(x)] # NoGrab
    BY <1>1, <2>1, <2>3 DEF FreezeInv, FreezeHasGrab
  <2> QED
    BY <1>1, <1>2, <1>3, <2>1, <2>2, <2>3, <2>4, <2>5, <2>6 DEF FreezeInv
<1> QED
  BY <1>5, <1>6, <1>7 DEF AllowEvents

-----------------------------------------------------------------------------
(* A step in the life of a client, or of a passive grab, keeps the         *)
(* invariant.                                                              *)
LEMMA EnterInv ==
  ASSUME Inv, NEW c, NEW from,
         NEW to \in {"gone", "running", "releasing", "freeing"}, Enter(c, from, to)
  PROVE  Inv'
<1>1. FreezeInv' /\ InputInv'
  BY InvParts, FreezesUnchanged DEF Enter, InputInv
<1> QED
  BY <1>1, InvPartsNext

(* A client that closes down keeps the invariant.                          *)
LEMMA CloseDownInv ==
  ASSUME Inv, NEW c \in Client, CloseDown(c)
  PROVE  Inv'
<1>1. CASE Released(c) \/ Freed(c)
  BY <1>1, EnterInv DEF Released, Freed
<1>2. ASSUME NEW d \in Device, ReleaseGrab(c, d) \/ FreeWindow(c, d)
      PROVE  Inv'
  BY <1>2, HandlerInv DEF ReleaseGrab, FreeWindow
<1>3. ASSUME NEW g \in Passives, FreePassive(c, g)
      PROVE  Inv'
  <2>1. FreezeInv' /\ InputInv'
    BY <1>3, InvParts, FreezesUnchanged DEF FreePassive, InputInv
  <2> QED
    BY <2>1, InvPartsNext
<1> QED
  BY <1>1, <1>2, <1>3 DEF CloseDown

(* Every step keeps the invariant.                                         *)
LEMMA NextInv == Inv /\ [Next]_vars => Inv'
<1> SUFFICES ASSUME Inv, [Next]_vars
             PROVE  Inv'
  OBVIOUS
<1>1. FreezeInv /\ InputInv
  BY InvParts
<1>2. CASE ProcessInput \/ PlayNext \/ PlayEnd
  BY <1>2, ProcessInputInv, PlayInv
<1>3. ASSUME NEW c \in Client, CloseDown(c)
      PROVE  Inv'
  BY <1>3, CloseDownInv
<1>4. ASSUME NEW d \in Device, NEW k \in Key, Input(d, k)
      PROVE  Inv'
  <2>1. PICK press \in BOOLEAN :
          /\ hardware' = [hardware EXCEPT ![d] = IF press THEN @ \cup {k} ELSE @ \ {k}]
          /\ todo' = <<[device |-> d, key |-> k, press |-> press, id |-> arrived']>>
    BY <1>4 DEF Input
  <2>2. arrived' = arrived + 1 /\ arrived' \in 0 .. MaxEvents
    BY <1>1, <1>4, SyncGrabsAssumption DEF Input, InputInv
  <2>3. todo' \in Seq(Event)
    <3>1. [device |-> d, key |-> k, press |-> press, id |-> arrived'] \in Event
      BY <2>2, SyncGrabsAssumption DEF Event
    <3> QED
      BY <2>1, <3>1
  <2>4. hardware' \in [Device -> SUBSET Key]
    BY <1>1, <2>1 DEF InputInv
  <2>5. FreezeInv'
    BY <1>1, <1>4, FreezesUnchanged DEF Input
  <2>6. InputInv'
    BY <1>1, <1>4, <2>2, <2>3, <2>4 DEF Input, InputInv
  <2> QED
    BY <2>5, <2>6, InvPartsNext
<1>5. ASSUME NEW c \in Client, NEW d \in Device, GrabDevice(c, d)
      PROVE  Inv'
  <2>1. PICK w \in Exists, sync \in BOOLEAN, syncOther \in BOOLEAN :
          Activate(d, [client |-> c, window |-> w, passive |-> FALSE], sync, syncOther, <<>>)
    BY <1>5 DEF GrabDevice
  <2>2. [client |-> c, window |-> w, passive |-> FALSE] \in Grab
    BY DEF Exists, Window, Grab
  <2>3. Quiet /\ UNCHANGED Others
    BY <1>5 DEF GrabDevice, Requests, Waiting
  <2> QED
    BY <2>1, <2>2, <2>3, HandlerInv
<1>6. ASSUME NEW c \in Client, NEW d \in Device, Ungrab(c, d)
      PROVE  Inv'
  BY <1>6, HandlerInv DEF Ungrab, Requests, Waiting
<1>7. ASSUME NEW c \in Client, AllowEvents(c)
      PROVE  Inv'
  BY <1>7, AllowEventsInv
<1>8. ASSUME NEW c \in Client, Connect(c) \/ Die(c)
      PROVE  Inv'
  BY <1>8, EnterInv DEF Connect, Die
<1>9. ASSUME NEW d \in Device, LoseWindow(d)
      PROVE  Inv'
  BY <1>9, HandlerInv DEF LoseWindow, Waiting
<1>10. ASSUME NEW g \in Passives, ChangePassive(g)
       PROVE  Inv'
  <2>1. FreezeInv' /\ InputInv'
    BY <1>1, <1>10, FreezesUnchanged DEF ChangePassive, InputInv
  <2> QED
    BY <2>1, InvPartsNext
<1>11. CASE UNCHANGED vars
  <2>1. FreezeInv' /\ InputInv'
    BY <1>1, <1>11, FreezesUnchanged DEF vars, InputInv
  <2> QED
    BY <2>1, InvPartsNext
<1> QED
  BY <1>2, <1>3, <1>4, <1>5, <1>6, <1>7, <1>8, <1>9, <1>10, <1>11 DEF Next, Server, Request

(* The server starts without grabs and without input.                      *)
LEMMA InitInv == Init => Inv
<1> SUFFICES ASSUME Init
             PROVE  Inv
  OBVIOUS
<1>1. TypeOK
  <2>1. <<>> \in Seq(Event) /\ 0 \in 0 .. MaxEvents
    BY SyncGrabsAssumption
  <2>2. client \in [Client -> {"gone", "running", "releasing", "freeing"}]
    BY DEF Init
  <2>3. grab \in [Device -> Grab \cup {NoGrab}] /\ other \in [Device -> Device \cup {NoDevice}]
    BY DEF Init
  <2>4. /\ state \in [Device -> SyncStates]
        /\ frozen \in [Device -> BOOLEAN]
        /\ saved \in [Device -> Seq(Event)]
    BY <2>1 DEF Init, SyncStates
  <2>5. down \in [Device -> SUBSET Key] /\ hardware \in [Device -> SUBSET Key]
    BY DEF Init
  <2> QED
    BY <2>1, <2>2, <2>3, <2>4, <2>5 DEF Init, TypeOK
<1>2. FreezeHasGrab
  BY DEF Init, FreezeHasGrab, FrozenStates
<1> QED
  BY <1>1, <1>2 DEF Inv

(* The types, and a grab for every device that is frozen, are invariants.  *)
THEOREM Invariance == Spec => []Inv
BY InitInv, NextInv, PTL DEF Spec

(* Every event that is handled, saved or pending is an input event of one  *)
(* of the two devices, and every grab one that a client made.              *)
THEOREM TypeCorrectness == Spec => []TypeOK
<1>1. Inv => TypeOK
  BY DEF Inv
<1> QED
  BY <1>1, Invariance, PTL

(* A device never stays frozen without the grab that can thaw it, however  *)
(* grabs end: by ungrabbing, replaying, a key released, a window destroyed *)
(* or the death of the client (DeactivatePointerGrab,                      *)
(* DeactivateKeyboardGrab, AllowSome).                                     *)
THEOREM FrozenDevicesHaveGrabs == Spec => []FreezeHasGrab
<1>1. Inv => FreezeHasGrab
  BY DEF Inv
<1> QED
  BY <1>1, Invariance, PTL

-----------------------------------------------------------------------------
(* A client that may allow the events of a device, or that ungrabs, has    *)
(* the grab that freezes it; no request of another client thaws it.        *)
LEMMA RequestThaws ==
  ASSUME Inv, NEW c \in Client, NEW x \in Client, x # c, NEW d \in Device, frozen[d],
         Freezes(x, d) \/ (Grabs(x, d) /\ state[d] \in FrozenStates),
         Request(c)
  PROVE  frozen'[d]
<1>1. FreezeInv
  BY InvParts
<1>2. Other(d) \in Device /\ Other(d) # d /\ (\A y \in Device : y = d \/ y = Other(d))
      /\ NoDevice \notin Device
  BY TwoDevices
<1>3. \/ other[d] = Other(d) /\ Grabs(x, Other(d))
      \/ Grabs(x, d) /\ state[d] \in FrozenStates
  BY <1>1, <1>2 DEF Freezes, FreezeInv, FreezeHasGrab
<1>4. \A y \in Device : Grabs(x, y) => ~Grabs(c, y) /\ grab[y] # NoGrab
  BY <1>1, SyncGrabsAssumption DEF Grabs, NoGrab
<1>5. ASSUME \E event, replay : ComputeFreezes(event, replay),
             (other'[d] = Other(d)) \/ state'[d] \in FrozenStates
      PROVE  frozen'[d]
  BY <1>2, <1>5 DEF ComputeFreezes
<1>6. ASSUME NEW y \in Device, GrabDevice(c, y)
      PROVE  frozen'[d]
  <2>1. grab[y] = NoGrab \/ Grabs(c, y)
    BY <1>6 DEF GrabDevice
  <2>2. PICK w \in Exists, sync \in BOOLEAN, syncOther \in BOOLEAN :
          Activate(y, [client |-> c, window |-> w, passive |-> FALSE], sync, syncOther, <<>>)
    BY <1>6 DEF GrabDevice
  <2>3. \E event, replay : ComputeFreezes(event, replay)
    BY <2>2 DEF Activate
  <2>4. CASE other[d] = Other(d) /\ Grabs(x, Other(d))
    <3>1. y = d
      BY <1>2, <1>4, <2>1, <2>4
    <3>2. ~Freezes(c, d)
      BY <1>2, <1>4, <2>4 DEF Freezes
    <3> QED
      BY <1>2, <1>6, <2>4, <3>1, <3>2 DEF GrabDevice
  <2>5. CASE Grabs(x, d) /\ state[d] \in FrozenStates
    <3>1. y # d
      BY <1>4, <2>1, <2>5
    <3>2. state'[d] = state[d]
      BY <1>1, <2>2, <3>1 DEF Activate, FreezeInv
    <3> QED
      BY <1>5, <2>3, <2>5, <3>2
  <2> QED
    BY <1>3, <2>4, <2>5
<1>7. ASSUME NEW y \in Device, Ungrab(c, y) \/ Replay(c, y)
      PROVE  frozen'[d]
  <2>1. Grabs(c, y) /\ ~Grabs(x, y)
    BY <1>4, <1>7 DEF Ungrab, Replay
  <2>2. /\ state' = [state EXCEPT ![y] = "NOT_GRABBED"]
        /\ \A z \in Device : other'[z] = other[z] \/ other[z] = y \/ (z = y /\ SyncedBy(c, y))
        /\ \E event, replay : ComputeFreezes(event, replay)
    BY <1>7 DEF Ungrab, Deactivate, Replay
  <2>3. CASE other[d] = Other(d) /\ Grabs(x, Other(d))
    <3>1. y = d /\ ~SyncedBy(c, d)
      BY <1>2, <1>4, <2>1, <2>3 DEF SyncedBy
    <3>2. other'[d] = Other(d)
      BY <1>2, <2>2, <2>3, <3>1
    <3> QED
      BY <1>5, <2>2, <3>2
  <2>4. CASE Grabs(x, d) /\ state[d] \in FrozenStates
    <3>1. state'[d] = state[d]
      BY <1>1, <2>1, <2>2, <2>4 DEF FreezeInv
    <3> QED
      BY <1>5, <2>2, <2>4, <3>1
  <2> QED
    BY <1>3, <2>3, <2>4
<1>8. ASSUME NEW y \in Device, NEW new, AllowOne(c, y, new)
      PROVE  frozen'[d]
  <2>1. /\ state' = IF Grabs(c, y) THEN [state EXCEPT ![y] = new] ELSE state
        /\ other' = IF SyncedBy(c, y) THEN [other EXCEPT ![y] = NoDevice] ELSE other
        /\ \E event, replay : ComputeFreezes(event, replay)
    BY <1>8 DEF AllowOne
  <2>2. CASE other[d] = Other(d) /\ Grabs(x, Other(d))
    <3>1. ~SyncedBy(c, d)
      BY <1>2, <1>4, <2>2 DEF SyncedBy
    <3>2. other'[d] = other[d]
      BY <1>1, <2>1, <3>1 DEF FreezeInv
    <3> QED
      BY <1>5, <2>1, <2>2, <3>2
  <2>3. CASE Grabs(x, d) /\ state[d] \in FrozenStates
    <3>1. state'[d] = state[d]
      BY <1>1, <1>4, <2>1, <2>3 DEF FreezeInv
    <3> QED
      BY <1>5, <2>1, <2>3, <3>1
  <2> QED
    BY <1>3, <2>2, <2>3
<1>9. ASSUME NEW new, AllowBoth(c, new)
      PROVE  frozen'[d]
  <2>1. /\ state' = [y \in Device |-> IF Grabs(c, y) THEN new ELSE state[y]]
        /\ other' = [y \in Device |-> IF Freezes(c, y) THEN NoDevice ELSE other[y]]
        /\ \E event, replay : ComputeFreezes(event, replay)
    BY <1>9 DEF AllowBoth
  <2>2. CASE other[d] = Other(d) /\ Grabs(x, Other(d))
    <3>1. ~Freezes(c, d)
      BY <1>2, <1>4, <2>2 DEF Freezes
    <3> QED
      BY <1>5, <2>1, <2>2, <3>1
  <2>3. CASE Grabs(x, d) /\ state[d] \in FrozenStates
    BY <1>4, <1>5, <2>1, <2>3
  <2> QED
    BY <1>3, <2>2, <2>3
<1> QED
  BY <1>6, <1>7, <1>8, <1>9 DEF Request, AllowEvents

(* A request of one client thaws no device that another client froze       *)
(* (AllowSome, ProcGrabPointer, GrabDevice and the Ungrab requests).       *)
THEOREM FreezersThaw == Spec => OnlyTheFreezerThaws
<1>1. Inv /\ [Next]_vars =>
        [\A d \in Device, x \in Client :
           frozen[d] /\ ~frozen'[d] /\ (Freezes(x, d) \/ (Grabs(x, d) /\ state[d] \in FrozenStates))
           => \A c \in Client \ {x} : ~Request(c)]_vars
  BY RequestThaws
<1> QED
  BY <1>1, Invariance, PTL DEF Spec, OnlyTheFreezerThaws

-----------------------------------------------------------------------------
(* After ComputeFreezes the events of every device that is not frozen are  *)
(* being played.                                                           *)
LEMMA FreezesComputed ==
  ASSUME NEW event, NEW replay, ComputeFreezes(event, replay), pending' = pending
  PROVE  NothingStuck'
BY DEF ComputeFreezes, Thaws, NothingStuck

(* A step that thaws nothing leaves nothing stuck.                         *)
LEMMA NothingThawed ==
  ASSUME NothingStuck, pending' = pending, playing' = playing,
         \A i \in DOMAIN pending : frozen[pending[i].device] => frozen'[pending[i].device]
  PROVE  NothingStuck'
BY DEF NothingStuck

(* One call of processInputProc leaves nothing stuck.                      *)
LEMMA ProcessInputStuck == Inv /\ NothingStuck /\ ProcessInput => NothingStuck'
<1> SUFFICES ASSUME Inv, NothingStuck, ProcessInput
             PROVE  NothingStuck'
  OBVIOUS
<1> DEFINE e == Head(Calls)
<1>1. FreezeInv /\ InputInv
  BY InvParts
<1>2. pending \in Seq(Event) /\ e \in Event
  BY <1>1, CallType DEF ProcessInput, InputInv
<1> HIDE DEF e
<1>3. CASE Enqueue(e)
  <2>1. frozen[e.device] /\ pending' = Append(pending, e) /\ frozen' = frozen /\ playing' = playing
    BY <1>3 DEF Enqueue, freezes
  <2>2. Len(pending') = Len(pending) + 1 /\ DOMAIN pending' = 1 .. Len(pending')
        /\ DOMAIN pending = 1 .. Len(pending)
        /\ \A i \in DOMAIN pending' : pending'[i] = e \/ (i \in DOMAIN pending /\ pending'[i] = pending[i])
    BY <1>2, <2>1
  <2> QED
    BY <2>1, <2>2 DEF NothingStuck
<1>4. CASE /\ UNCHANGED <<pending, frozen, playing>>
  BY <1>4, NothingThawed
<1>5. CASE FreezeNext(e) /\ pending' = pending
  <2>1. playing' = playing
    BY <1>5 DEF FreezeNext
  <2>2. \A i \in DOMAIN pending : pending[i].device \in Device
    <3>1. \A i \in DOMAIN pending : pending[i] \in Event
      BY <1>2
    <3>2. \A x \in Event : x.device \in Device
      BY DEF Event
    <3> QED
      BY <3>1, <3>2
  <2>3. \A x \in Device : frozen[x] => frozen'[x]
    BY <1>5 DEF FreezeNext
  <2> QED
    BY <1>5, <2>1, <2>2, <2>3, NothingThawed
<1>6. CASE (\E event, replay : ComputeFreezes(event, replay)) /\ pending' = pending
  BY <1>6, FreezesComputed
<1>7. CASE Repeat(e) \/ Ignore(e)
  BY <1>4, <1>7 DEF Repeat, Ignore, freezes
<1>8. CASE Press(e) \/ Release(e) \/ Again(e)
  <2>1. pending' = pending
    BY <1>8 DEF Press, Release, Again
  <2>2. \/ \E pressed, windows : PassiveGrab(e, pressed, windows)
        \/ AutomaticGrab(e) \/ Deactivate(e.device, <<>>) \/ FreezeNext(e) \/ NoEffect
    BY <1>8 DEF Press, Release, Again
  <2>3. \/ \E event, replay : ComputeFreezes(event, replay)
        \/ FreezeNext(e) \/ UNCHANGED freezes
    BY <2>2 DEF PassiveGrab, AutomaticGrab, Activate, Deactivate, NoEffect
  <2> QED
    BY <1>4, <1>5, <1>6, <2>1, <2>3 DEF freezes
<1> QED
  BY <1>3, <1>7, <1>8 DEF ProcessInput, e

(* When the server waits, the events that are pending are those of frozen  *)
(* devices: PlayReleasedEvents overlooks none, whatever is frozen, thawed  *)
(* and enqueued while it plays.                                            *)
THEOREM NothingIsStuck == Spec => []NothingStuck
<1>1. Init => NothingStuck
  BY DEF Init, NothingStuck
<1>2. Inv /\ NothingStuck /\ [Next]_vars => NothingStuck'
  <2> SUFFICES ASSUME Inv, NothingStuck, [Next]_vars
               PROVE  NothingStuck'
    OBVIOUS
  <2>1. CASE ProcessInput
    BY <2>1, ProcessInputStuck
  <2>2. CASE PlayNext
    BY <2>2 DEF PlayNext, freezes, NothingStuck
  <2>3. CASE PlayEnd
    BY <2>3 DEF PlayEnd, Thawed, NothingStuck
  <2>4. CASE UNCHANGED <<pending, frozen, playing>>
    BY <2>4, NothingThawed
  <2>5. CASE (\E event, replay : ComputeFreezes(event, replay)) /\ UNCHANGED Others
    BY <2>5, FreezesComputed DEF Others
  <2>6. ASSUME NEW c \in Client, CloseDown(c)
        PROVE  NothingStuck'
    BY <2>4, <2>5, <2>6
       DEF CloseDown, Released, Freed, Enter, ReleaseGrab, FreeWindow, FreePassive, Deactivate, freezes
  <2>7. ASSUME NEW d \in Device, NEW k \in Key, Input(d, k)
        PROVE  NothingStuck'
    BY <2>4, <2>7 DEF Input, freezes
  <2>8. ASSUME NEW c \in Client, Request(c)
        PROVE  NothingStuck'
    BY <2>5, <2>8
       DEF Request, GrabDevice, Activate, Ungrab, Deactivate, AllowEvents, Replay, AllowOne, AllowBoth
  <2>9. ASSUME NEW c \in Client, Connect(c) \/ Die(c)
        PROVE  NothingStuck'
    BY <2>4, <2>9 DEF Connect, Die, Enter, freezes
  <2>10. ASSUME NEW d \in Device, LoseWindow(d)
         PROVE  NothingStuck'
    BY <2>5, <2>10 DEF LoseWindow, Deactivate
  <2>11. ASSUME NEW g \in Passives, ChangePassive(g)
         PROVE  NothingStuck'
    BY <2>4, <2>11 DEF ChangePassive, freezes
  <2>12. CASE UNCHANGED vars
    BY <2>4, <2>12 DEF vars, freezes
  <2> QED
    BY <2>1, <2>2, <2>3, <2>6, <2>7, <2>8, <2>9, <2>10, <2>11, <2>12 DEF Next, Server
<1> QED
  BY <1>1, <1>2, Invariance, PTL DEF Spec

-----------------------------------------------------------------------------
(* The pending list implements a queue for each device.  What counts are   *)
(* the events that are Whole: not the saved ones, nor the second halves of *)
(* those that were split.  Ids are the numbers of those of one device.     *)
Whole(e) == e.id > 0
Ids(s, d) == {s[i].id : i \in {j \in DOMAIN s : s[j].device = d /\ Whole(s[j])}}
NoneWhole(s) == \A i \in DOMAIN s : ~Whole(s[i])

\* PlayReleasedEvents plays what is in order (PendingInv): only the call that comes
\* first is of a whole event (CallsInv), one that was played waited before all that
\* wait (PlayedInv), and one from the hardware came after them (TodoInv).
PendingInv ==
  \A i, j \in DOMAIN pending :
    i < j /\ Whole(pending[i]) /\ Whole(pending[j]) /\ pending[i].device = pending[j].device
    => pending[i].id < pending[j].id

CallsInv ==
  /\ \A i \in DOMAIN todo : Whole(todo[i]) => i = 1
  /\ \A i \in DOMAIN played : Whole(played[i]) => i = 1
  /\ ~playing => played = <<>>

TodoInv ==
  \A i \in DOMAIN todo : Whole(todo[i]) =>
    ~playing /\ \A j \in DOMAIN pending : Whole(pending[j]) => pending[j].id < todo[i].id

PlayedInv ==
  \A i \in DOMAIN played : Whole(played[i]) =>
    /\ ~frozen[played[i].device]
    /\ \A j \in DOMAIN pending :
         Whole(pending[j]) /\ pending[j].device = played[i].device => played[i].id < pending[j].id

SavedInv == \A d \in Device : NoneWhole(saved[d])

ArrivedInv ==
  /\ \A i \in DOMAIN pending : pending[i].id <= arrived
  /\ \A i \in DOMAIN todo : todo[i].id <= arrived
  /\ \A i \in DOMAIN played : played[i].id <= arrived

OrderInv == PendingInv /\ CallsInv /\ TodoInv /\ PlayedInv /\ SavedInv /\ ArrivedInv

QueueInv == Inv /\ NothingStuck /\ OrderInv

(* The events that have not been handled are in the three lists.           *)
LEMMA QueueParts ==
  ASSUME NEW p, NEW q, NEW t, NEW d
  PROVE  {e.id : e \in {x \in ToSet(p) \cup ToSet(q) \cup ToSet(t) : x.device = d /\ x.id > 0}}
           = Ids(p, d) \cup Ids(q, d) \cup Ids(t, d)
BY DEF ToSet, Ids, Whole

(* No whole event, no number.                                              *)
LEMMA NoneWholeNoIds ==
  ASSUME NEW s, NoneWhole(s), NEW d
  PROVE  Ids(s, d) = {}
BY DEF NoneWhole, Ids

(* One event more, at the end.                                             *)
LEMMA IdsAppend ==
  ASSUME NEW s \in Seq(Event), NEW e \in Event, NEW d
  PROVE  Ids(Append(s, e), d)
           = Ids(s, d) \cup (IF e.device = d /\ Whole(e) THEN {e.id} ELSE {})
<1>1. /\ DOMAIN Append(s, e) = DOMAIN s \cup {Len(s) + 1}
      /\ Append(s, e)[Len(s) + 1] = e
      /\ \A i \in DOMAIN s : Append(s, e)[i] = s[i] /\ i # Len(s) + 1
  OBVIOUS
<1> QED  BY <1>1 DEF Ids

(* What is left of a list, and where it was.                               *)
LEMMA RemoveAtIs ==
  ASSUME NEW s \in Seq(Event), NEW i \in DOMAIN s
  PROVE  /\ RemoveAt(s, i) \in Seq(Event) /\ Len(RemoveAt(s, i)) = Len(s) - 1
         /\ DOMAIN RemoveAt(s, i) = 1 .. Len(s) - 1
         /\ \A j \in 1 .. Len(s) - 1 : RemoveAt(s, i)[j] = s[IF j < i THEN j ELSE j + 1]
<1> DEFINE r      == RemoveAt(s, i)
           before == SubSeq(s, 1, i - 1)
           after  == SubSeq(s, i + 1, Len(s))
<1>1. /\ before \in Seq(Event) /\ Len(before) = i - 1
      /\ \A j \in 1 .. i - 1 : before[j] = s[j]
  OBVIOUS
<1>2. /\ after \in Seq(Event) /\ Len(after) = Len(s) - i
      /\ \A j \in 1 .. Len(s) - i : after[j] = s[i + j]
  OBVIOUS
<1>3. r = before \o after
  BY DEF RemoveAt
<1> HIDE DEF before, after, r
<1>4. r \in Seq(Event) /\ Len(r) = Len(s) - 1
  BY <1>1, <1>2, <1>3
<1>5. \A j \in 1 .. Len(s) - 1 : r[j] = s[IF j < i THEN j ELSE j + 1]
  BY <1>1, <1>2, <1>3
<1>6. DOMAIN r = 1 .. Len(s) - 1
  BY <1>4
<1> QED  BY <1>4, <1>5, <1>6 DEF r

(* One event less, from anywhere.                                          *)
LEMMA IdsRemoveAt ==
  ASSUME NEW s \in Seq(Event), NEW i \in DOMAIN s, NEW d
  PROVE  Ids(s, d) = Ids(RemoveAt(s, i), d)
                       \cup (IF s[i].device = d /\ Whole(s[i]) THEN {s[i].id} ELSE {})
<1> DEFINE r == RemoveAt(s, i)
<1>1. /\ r \in Seq(Event) /\ Len(r) = Len(s) - 1
      /\ \A j \in 1 .. Len(s) - 1 : r[j] = IF j < i THEN s[j] ELSE s[j + 1]
  BY RemoveAtIs
<1> HIDE DEF r
<1>2. ASSUME NEW j \in DOMAIN s, j # i  PROVE \E k \in DOMAIN r : r[k] = s[j]
  <2>1. CASE j < i  BY <1>1, <2>1
  <2>2. CASE j > i
    <3>1. j - 1 \in DOMAIN r /\ r[j - 1] = s[j]  BY <1>1, <2>2
    <3> QED  BY <3>1
  <2> QED  BY <1>2, <2>1, <2>2
<1>3. ASSUME NEW k \in DOMAIN r  PROVE \E j \in DOMAIN s : s[j] = r[k]
  <2>1. CASE k < i  BY <1>1, <2>1
  <2>2. CASE k >= i
    <3>1. k + 1 \in DOMAIN s /\ r[k] = s[k + 1]  BY <1>1, <2>2
    <3> QED  BY <3>1
  <2> QED  BY <1>1, <2>1, <2>2
<1>4. \A n : n \in Ids(s, d) <=> \E j \in DOMAIN s : s[j].device = d /\ Whole(s[j]) /\ n = s[j].id
  BY DEF Ids
<1>5. \A n : n \in Ids(r, d) <=> \E j \in DOMAIN r : r[j].device = d /\ Whole(r[j]) /\ n = r[j].id
  BY DEF Ids
<1> QED  BY <1>2, <1>3, <1>4, <1>5 DEF r

(* What is called first, and is the only one that may be whole.            *)
LEMMA IdsFirst ==
  ASSUME NEW s \in Seq(Event), s # <<>>, \A i \in DOMAIN s : Whole(s[i]) => i = 1, NEW d
  PROVE  /\ Ids(s, d) = IF Head(s).device = d /\ Whole(Head(s)) THEN {Head(s).id} ELSE {}
         /\ NoneWhole(Tail(s)) /\ Tail(s) \in Seq(Event)
<1>1. Head(s) = s[1] /\ 1 \in DOMAIN s
  OBVIOUS
<1>2. Ids(s, d) = IF Head(s).device = d /\ Whole(Head(s)) THEN {Head(s).id} ELSE {}
  BY <1>1 DEF Ids
<1>3. \A i \in DOMAIN Tail(s) : i + 1 \in DOMAIN s /\ Tail(s)[i] = s[i + 1] /\ i + 1 # 1
  OBVIOUS
<1>4. NoneWhole(Tail(s)) /\ Tail(s) \in Seq(Event)
  BY <1>3 DEF NoneWhole
<1> QED  BY <1>2, <1>4

(* What the queues are, now and after a step.                              *)
LEMMA QueueIs ==
  /\ Queue = [d \in Device |-> Ids(played, d) \cup Ids(pending, d) \cup Ids(todo, d)]
  /\ Queue' = [d \in Device |-> Ids(played', d) \cup Ids(pending', d) \cup Ids(todo', d)]
BY QueueParts DEF Queue, Events

-----------------------------------------------------------------------------
(* A call has handled its event: the first of those to be made is gone.    *)
CallDone ==
  /\ pending' = pending /\ arrived' = arrived
  /\ IF playing THEN played' = Tail(played) /\ todo' = todo /\ playing'
                ELSE todo' = Tail(todo) /\ played' = <<>>

(* The lists of whole events stay in order.                                *)
LEMMA CallDoneOrder ==
  ASSUME QueueInv, Calls # <<>>, CallDone, SavedInv'
  PROVE  NoneWhole(todo') /\ NoneWhole(played') /\ OrderInv'
<1>1. /\ todo \in Seq(Event) /\ played \in Seq(Event) /\ pending \in Seq(Event)
      /\ playing \in BOOLEAN
  BY DEF QueueInv, Inv, TypeOK
<1>2. /\ \A i \in DOMAIN todo : Whole(todo[i]) => i = 1
      /\ \A i \in DOMAIN played : Whole(played[i]) => i = 1
      /\ ~playing => played = <<>>
      /\ playing => NoneWhole(todo)
  BY DEF QueueInv, OrderInv, CallsInv, TodoInv, NoneWhole
<1>3. NoneWhole(todo') /\ NoneWhole(played') /\ (~playing' => played' = <<>>)
  <2>1. CASE playing
    <3>1. played # <<>> /\ played' = Tail(played) /\ todo' = todo /\ playing'
      BY <2>1 DEF Calls, CallDone
    <3> QED  BY <1>1, <1>2, <2>1, <3>1, IdsFirst
  <2>2. CASE ~playing
    <3>1. todo # <<>> /\ todo' = Tail(todo) /\ played' = <<>>
      BY <2>2 DEF Calls, CallDone
    <3>2. NoneWhole(<<>>)  BY DEF NoneWhole
    <3> QED  BY <1>1, <1>2, <2>2, <3>1, <3>2, IdsFirst
  <2> QED  BY <2>1, <2>2
<1>4. PendingInv'
  BY DEF QueueInv, OrderInv, PendingInv, CallDone
<1>5. CallsInv' /\ TodoInv' /\ PlayedInv'
  BY <1>3 DEF CallsInv, TodoInv, PlayedInv, NoneWhole
<1>6. ArrivedInv'
  <2>1. /\ \A i \in DOMAIN pending : pending[i].id <= arrived
        /\ \A i \in DOMAIN todo : todo[i].id <= arrived
        /\ \A i \in DOMAIN played : played[i].id <= arrived
    BY DEF QueueInv, OrderInv, ArrivedInv
  <2>2. \A s \in {todo, played} : s # <<>> =>
          \A i \in DOMAIN Tail(s) : i + 1 \in DOMAIN s /\ Tail(s)[i] = s[i + 1]
    BY <1>1
  <2>3. CASE playing
    BY <2>1, <2>2, <2>3 DEF CallDone, Calls, ArrivedInv
  <2>4. CASE ~playing
    BY <2>1, <2>2, <2>4 DEF CallDone, Calls, ArrivedInv
  <2> QED  BY <2>3, <2>4
<1> QED  BY <1>3, <1>4, <1>5, <1>6 DEF OrderInv

(* The event was the oldest of its device, if it was whole, and no other   *)
(* number is gone.                                                         *)
LEMMA CallDoneQueue ==
  ASSUME QueueInv, Calls # <<>>, CallDone, SavedInv', NEW e, e = Head(Calls),
         Whole(e) => ~frozen[e.device]
  PROVE  [Devices!Next]_Devices!vars
<1>1. /\ todo \in Seq(Event) /\ played \in Seq(Event) /\ pending \in Seq(Event)
      /\ playing \in BOOLEAN
  BY DEF QueueInv, Inv, TypeOK
<1>2. /\ \A i \in DOMAIN todo : Whole(todo[i]) => i = 1
      /\ \A i \in DOMAIN played : Whole(played[i]) => i = 1
      /\ ~playing => played = <<>>
      /\ playing => NoneWhole(todo)
  BY DEF QueueInv, OrderInv, CallsInv, TodoInv, NoneWhole
<1>3. \A d \in Device : Ids(played, d) \cup Ids(todo, d)
                          = IF e.device = d /\ Whole(e) THEN {e.id} ELSE {}
  <2>1. CASE playing
    BY <1>1, <1>2, <2>1, IdsFirst, NoneWholeNoIds DEF Calls
  <2>2. CASE ~playing
    <3>1. NoneWhole(played)  BY <1>2, <2>2 DEF NoneWhole
    <3> QED  BY <1>1, <1>2, <2>2, <3>1, IdsFirst, NoneWholeNoIds DEF Calls
  <2> QED  BY <2>1, <2>2
<1>4. \A d \in Device : Ids(played', d) = {} /\ Ids(todo', d) = {}
  BY CallDoneOrder, NoneWholeNoIds
<1>5. pending' = pending /\ arrived' = arrived
  BY DEF CallDone
<1>6. Queue' = [d \in Device |-> Ids(pending, d)]
  BY <1>4, <1>5, QueueIs
<1>7. Queue = [d \in Device |-> Ids(pending, d) \cup
                                  (IF e.device = d /\ Whole(e) THEN {e.id} ELSE {})]
  BY <1>3, QueueIs
<1>8. Blocked' \in SUBSET Device
  BY DEF Blocked
<1>9. CASE ~Whole(e)
  <2>1. Queue' = Queue  BY <1>6, <1>7, <1>9
  <2> QED  BY <1>5, <1>8, <2>1 DEF Devices!Next, Devices!Change
<1>10. CASE Whole(e)
  <2>1. e \in Event /\ e.device \in Device /\ e.id \in Int
    <3>1. e \in Event  BY <1>1 DEF Calls
    <3> QED  BY <3>1, SyncGrabsAssumption DEF Event
  <2>2. \A j \in DOMAIN pending :
          Whole(pending[j]) /\ pending[j].device = e.device => e.id < pending[j].id
    <3>1. CASE playing
      <4>1. e = played[1] /\ 1 \in DOMAIN played  BY <1>1, <3>1 DEF Calls
      <4> QED  BY <1>10, <4>1 DEF QueueInv, OrderInv, PlayedInv
    \* What waits then is of frozen devices.
    <3>2. CASE ~playing
      BY <1>10, <3>2 DEF QueueInv, NothingStuck
    <3> QED  BY <3>1, <3>2
  <2>3. \A n \in Ids(pending, e.device) : n \in Int /\ e.id < n
    <3>1. \A j \in DOMAIN pending : pending[j].id \in Int
      <4>1. \A j \in DOMAIN pending : pending[j] \in Event  BY <1>1
      <4> QED  BY <4>1, SyncGrabsAssumption DEF Event
    <3> QED  BY <2>2, <3>1 DEF Ids
  <2>4. Queue[e.device] = Ids(pending, e.device) \cup {e.id}
    BY <1>7, <1>10, <2>1
  <2>5. Queue' = [Queue EXCEPT ![e.device] = @ \ {e.id}]
    <3>1. e.id \notin Ids(pending, e.device)  BY <2>1, <2>3
    <3>2. Ids(pending, e.device) = Queue[e.device] \ {e.id}  BY <2>4, <3>1
    <3> QED  BY <1>6, <1>7, <2>1, <3>2
  <2>6. \A f \in Queue[e.device] : e.id <= f
    BY <2>1, <2>3, <2>4
  <2>7. e.device \notin Blocked  BY <1>10 DEF Blocked
  <2>8. Devices!Handle(e.device)
    <3>1. e.id \in Queue[e.device]  BY <2>4
    <3> QED  BY <1>5, <1>8, <2>5, <2>6, <2>7, <3>1 DEF Devices!Handle
  <2> QED  BY <2>1, <2>8 DEF Devices!Next
<1> QED  BY <1>9, <1>10

(* An event joins those that wait: it was the last to arrive, or is not    *)
(* whole.                                                                  *)
LEMMA EnqueueQueue ==
  ASSUME QueueInv, Calls # <<>>, NEW e \in Event, e = Head(Calls), frozen[e.device],
         pending' = Append(pending, e), Return(Tail(Calls)),
         UNCHANGED <<arrived, playing, saved, frozen>>
  PROVE  OrderInv' /\ [Devices!Next]_Devices!vars
<1>1. /\ todo \in Seq(Event) /\ played \in Seq(Event) /\ pending \in Seq(Event)
      /\ playing \in BOOLEAN /\ e.id \in Int
  BY SyncGrabsAssumption DEF QueueInv, Inv, TypeOK, Event
<1>2. /\ \A i \in DOMAIN todo : Whole(todo[i]) => i = 1
      /\ \A i \in DOMAIN played : Whole(played[i]) => i = 1
      /\ ~playing => played = <<>>
      /\ playing => NoneWhole(todo)
  BY DEF QueueInv, OrderInv, CallsInv, TodoInv, NoneWhole
<1>3. /\ DOMAIN pending' = DOMAIN pending \cup {Len(pending) + 1}
      /\ pending'[Len(pending) + 1] = e
      /\ \A i \in DOMAIN pending : pending'[i] = pending[i] /\ i \in 1 .. Len(pending)
  BY <1>1
<1>4. CASE playing
  <2>1. /\ played # <<>> /\ e = Head(played) /\ e = played[1] /\ 1 \in DOMAIN played
        /\ played' = Tail(played) /\ todo' = todo
    BY <1>1, <1>4 DEF Calls, Return
  <2>2. ~Whole(e)
    BY <2>1 DEF QueueInv, OrderInv, PlayedInv
  <2>3. NoneWhole(played') /\ NoneWhole(todo')
    BY <1>1, <1>2, <1>4, <2>1, IdsFirst
  <2>4. \A d \in Device : Ids(played, d) = {} /\ Ids(played', d) = {}
    BY <1>1, <1>2, <2>1, <2>2, <2>3, IdsFirst, NoneWholeNoIds
  <2>5. \A d \in Device : Ids(pending', d) = Ids(pending, d)
    <3>1. \A d \in Device : Ids(pending', d) = Ids(pending, d)
                              \cup (IF e.device = d /\ Whole(e) THEN {e.id} ELSE {})
      BY <1>1, IdsAppend
    <3> QED  BY <2>2, <3>1
  <2>6. Queue' = Queue
    BY <2>1, <2>4, <2>5, QueueIs
  <2>7. PendingInv'
    BY <1>3, <2>2 DEF QueueInv, OrderInv, PendingInv
  <2>8. ArrivedInv'
    <3>1. \A i \in DOMAIN Tail(played) : i + 1 \in DOMAIN played /\ Tail(played)[i] = played[i + 1]
      BY <1>1, <2>1
    <3> QED  BY <1>3, <2>1, <3>1 DEF QueueInv, OrderInv, ArrivedInv
  <2>9. CallsInv' /\ TodoInv' /\ PlayedInv'
    BY <1>4, <2>3 DEF CallsInv, TodoInv, PlayedInv, NoneWhole
  <2>10. SavedInv' /\ Blocked' \in SUBSET Device
    BY DEF QueueInv, OrderInv, SavedInv, Blocked
  <2> QED  BY <2>6, <2>7, <2>8, <2>9, <2>10 DEF OrderInv, Devices!Next, Devices!Change
<1>5. CASE ~playing
  <2>1. /\ todo # <<>> /\ e = Head(todo) /\ e = todo[1] /\ 1 \in DOMAIN todo
        /\ todo' = Tail(todo) /\ played' = played /\ played = <<>>
    BY <1>1, <1>2, <1>5 DEF Calls, Return
  <2>2. Whole(e) => \A j \in DOMAIN pending : Whole(pending[j]) => pending[j].id < e.id
    BY <2>1 DEF QueueInv, OrderInv, TodoInv
  <2>3. NoneWhole(played') /\ NoneWhole(todo')
    <3>1. NoneWhole(<<>>)  BY DEF NoneWhole
    <3> QED  BY <1>1, <1>2, <2>1, <3>1, IdsFirst
  <2>4. \A d \in Device : Ids(todo, d) = (IF e.device = d /\ Whole(e) THEN {e.id} ELSE {})
                          /\ Ids(todo', d) = {}
    BY <1>1, <1>2, <2>1, <2>3, IdsFirst, NoneWholeNoIds
  <2>5. \A d \in Device : Ids(pending', d) = Ids(pending, d)
                            \cup (IF e.device = d /\ Whole(e) THEN {e.id} ELSE {})
    BY <1>1, IdsAppend
  <2>6. Queue' = Queue
    BY <2>1, <2>4, <2>5, QueueIs
  <2>7. PendingInv'
    BY <1>1, <1>3, <2>2 DEF QueueInv, OrderInv, PendingInv
  <2>8. ArrivedInv'
    <3>1. \A i \in DOMAIN Tail(todo) : i + 1 \in DOMAIN todo /\ Tail(todo)[i] = todo[i + 1]
      BY <1>1, <2>1
    <3> QED  BY <1>3, <2>1, <3>1 DEF QueueInv, OrderInv, ArrivedInv
  <2>9. CallsInv' /\ TodoInv' /\ PlayedInv'
    BY <2>1, <2>3 DEF CallsInv, TodoInv, PlayedInv, NoneWhole
  <2>10. SavedInv' /\ Blocked' \in SUBSET Device
    BY DEF QueueInv, OrderInv, SavedInv, Blocked
  <2> QED  BY <2>6, <2>7, <2>8, <2>9, <2>10 DEF OrderInv, Devices!Next, Devices!Change
<1> QED  BY <1>1, <1>4, <1>5

(* Two events in front of others.                                          *)
StartsWith(t, a, h, b) ==
  /\ t \in Seq(Event) /\ 1 \in DOMAIN t /\ t[1] = a
  /\ \A i \in DOMAIN t : i = 1 \/ t[i] = h \/ \E j \in DOMAIN b : t[i] = b[j]

LEMMA TwoInFront ==
  ASSUME NEW a \in Event, NEW h \in Event, NEW b \in Seq(Event)
  PROVE  StartsWith(<<a, h>> \o b, a, h, b)
<1> DEFINE two == <<a, h>>
           all == two \o b
<1>1. two \in Seq(Event) /\ Len(two) = 2 /\ two[1] = a /\ two[2] = h
  OBVIOUS
<1> HIDE DEF two
<1>2. /\ all \in Seq(Event) /\ Len(all) = 2 + Len(b)
      /\ \A i \in 1 .. Len(all) : all[i] = IF i <= 2 THEN two[i] ELSE b[i - 2]
  <2>1. /\ all \in Seq(Event) /\ Len(all) = Len(two) + Len(b)
        /\ \A i \in 1 .. Len(two) + Len(b) :
             all[i] = IF i <= Len(two) THEN two[i] ELSE b[i - Len(two)]
    BY <1>1, ConcatProperties
  <2> HIDE DEF all
  <2> QED  BY <1>1, <2>1
<1> HIDE DEF all
<1>3. ASSUME NEW i \in DOMAIN all, i # 1, i # 2  PROVE \E j \in DOMAIN b : all[i] = b[j]
  <2>1. i - 2 \in DOMAIN b /\ all[i] = b[i - 2]  BY <1>2, <1>3
  <2> QED  BY <2>1
<1>4. /\ all \in Seq(Event) /\ 1 \in DOMAIN all /\ all[1] = a
      /\ \A i \in DOMAIN all : i = 1 \/ all[i] = h \/ \E j \in DOMAIN b : all[i] = b[j]
  BY <1>1, <1>2, <1>3
<1> QED  BY <1>4 DEF StartsWith, all, two

(* An event in front of the calls to come is split in two.                 *)
Split(e, s) == <<[e EXCEPT !.press = FALSE], Half(e)>> \o Tail(s)

StandsFor(t, s, m) ==
  /\ t \in Seq(Event)
  /\ \A i \in DOMAIN t : Whole(t[i]) => i = 1
  /\ \A i \in DOMAIN t : t[i].id <= m
  /\ 1 \in DOMAIN t /\ t[1].id = s[1].id /\ t[1].device = s[1].device
  /\ \A d \in Device : Ids(t, d) = Ids(s, d)

LEMMA SplitCalls ==
  ASSUME NEW s \in Seq(Event), s # <<>>, \A i \in DOMAIN s : Whole(s[i]) => i = 1,
         NEW m \in Nat, \A i \in DOMAIN s : s[i].id <= m
  PROVE  StandsFor(Split(Head(s), s), s, m)
<1> DEFINE e == Head(s)
           t == Split(e, s)
           r == [e EXCEPT !.press = FALSE]
           h == Half(e)
<1>1. s[1] = e /\ 1 \in DOMAIN s /\ e \in Event
  OBVIOUS
<1> HIDE DEF e
<1>2. r \in Event /\ r.id = e.id /\ r.device = e.device
  BY <1>1 DEF Event
<1>3. h \in Event /\ ~Whole(h) /\ h.id <= e.id
  <2>1. h \in Event /\ h.id <= 0 /\ h.id = (IF e.id > 0 THEN -e.id ELSE e.id)
    BY <1>1, HalfIsEvent DEF Half, Event
  <2>2. e.id \in Int /\ h.id \in Int
    BY <1>1, <2>1, SyncGrabsAssumption DEF Event
  <2> HIDE DEF h
  <2> QED  BY <2>1, <2>2 DEF Whole
<1> HIDE DEF r, h
<1>4. /\ Tail(s) \in Seq(Event)
      /\ \A i \in DOMAIN Tail(s) : i + 1 \in DOMAIN s /\ Tail(s)[i] = s[i + 1] /\ i + 1 # 1
  OBVIOUS
<1>5. t = <<r, h>> \o Tail(s)
  BY DEF Split, r, h
<1>6. /\ t \in Seq(Event) /\ 1 \in DOMAIN t /\ t[1] = r
      /\ \A i \in DOMAIN t : i = 1 \/ t[i] = h \/ \E j \in DOMAIN Tail(s) : t[i] = Tail(s)[j]
  <2>1. StartsWith(<<r, h>> \o Tail(s), r, h, Tail(s))
    BY <1>2, <1>3, <1>4, TwoInFront
  <2>2. StartsWith(t, r, h, Tail(s))
    BY <1>5, <2>1
  <2> HIDE DEF t
  <2> QED  BY <2>2 DEF StartsWith
<1> HIDE DEF t
<1>7. t # <<>> /\ Head(t) = r
  BY <1>6
<1>8. \A i \in DOMAIN t : Whole(t[i]) => i = 1
  BY <1>3, <1>4, <1>6
<1>9. \A i \in DOMAIN t : t[i].id <= m
  <2>1. h.id <= m
    <3>1. e.id <= m /\ e.id \in Int /\ h.id \in Int  BY <1>1, <1>3, SyncGrabsAssumption DEF Event
    <3> QED  BY <1>3, <3>1
  <2> QED  BY <1>1, <1>2, <1>4, <1>6, <2>1
<1>10. \A d \in Device : Ids(t, d) = Ids(s, d)
  <2>1. Head(s) = e  BY DEF e
  <2>2. Whole(r) <=> Whole(e)  BY <1>2 DEF Whole
  <2>3. \A d \in Device : Ids(t, d) = IF r.device = d /\ Whole(r) THEN {r.id} ELSE {}
    BY <1>6, <1>7, <1>8, IdsFirst
  <2>4. \A d \in Device : Ids(s, d) = IF e.device = d /\ Whole(e) THEN {e.id} ELSE {}
    BY <2>1, IdsFirst
  <2> QED  BY <1>2, <2>2, <2>3, <2>4
<1>11. StandsFor(t, s, m)
  BY <1>1, <1>2, <1>6, <1>8, <1>9, <1>10 DEF StandsFor
<1> QED  BY <1>11 DEF t, e

(* It does not change its place in its queue.                              *)
LEMMA RepeatQueue ==
  ASSUME QueueInv, Calls # <<>>, NEW e \in Event, e = Head(Calls), ~frozen[e.device],
         Return(Split(e, Calls)),
         UNCHANGED <<arrived, playing, saved, frozen, pending>>
  PROVE  OrderInv' /\ [Devices!Next]_Devices!vars
<1> DEFINE t == Split(e, Calls)
<1>1. /\ todo \in Seq(Event) /\ played \in Seq(Event) /\ pending \in Seq(Event)
      /\ playing \in BOOLEAN
  BY DEF QueueInv, Inv, TypeOK
<1>2. PendingInv /\ CallsInv /\ TodoInv /\ PlayedInv /\ SavedInv /\ ArrivedInv
  BY DEF QueueInv, OrderInv
<1>3. /\ t \in Seq(Event)
      /\ \A i \in DOMAIN t : Whole(t[i]) => i = 1
      /\ \A i \in DOMAIN t : t[i].id <= arrived
      /\ 1 \in DOMAIN t /\ t[1].id = Calls[1].id /\ t[1].device = Calls[1].device
      /\ \A d \in Device : Ids(t, d) = Ids(Calls, d)
  <2>1. arrived \in Nat  BY SyncGrabsAssumption DEF QueueInv, Inv, TypeOK
  <2>2. /\ Calls \in Seq(Event) /\ Calls # <<>>
        /\ \A i \in DOMAIN Calls : Whole(Calls[i]) => i = 1
        /\ \A i \in DOMAIN Calls : Calls[i].id <= arrived
    BY <1>1, <1>2 DEF Calls, CallsInv, ArrivedInv
  <2>3. StandsFor(t, Calls, arrived)
    BY <2>1, <2>2, SplitCalls
  <2> HIDE DEF t
  <2> QED  BY <2>3 DEF StandsFor
<1>4. Return(t)
  OBVIOUS
<1> HIDE DEF t
<1>5. PendingInv' /\ SavedInv' /\ Blocked' \in SUBSET Device
  BY <1>2 DEF PendingInv, SavedInv, Blocked
<1>6. CASE playing
  <2>1. Calls = played /\ played' = t /\ todo' = todo /\ 1 \in DOMAIN played
    BY <1>1, <1>4, <1>6 DEF Calls, Return
  <2>2. CallsInv' /\ TodoInv' /\ ArrivedInv'
    BY <1>2, <1>3, <1>6, <2>1 DEF CallsInv, TodoInv, ArrivedInv
  <2>3. PlayedInv'
    <3>1. Whole(t[1]) => Whole(played[1])  BY <1>3, <2>1 DEF Whole
    <3>2. \A i \in DOMAIN t : Whole(t[i]) => i = 1  BY <1>3
    <3>3. t[1].id = played[1].id /\ t[1].device = played[1].device  BY <1>3, <2>1
    <3> QED  BY <1>2, <2>1, <3>1, <3>2, <3>3 DEF PlayedInv
  <2>4. Queue' = Queue
    BY <1>3, <2>1, QueueIs
  <2> QED  BY <1>5, <2>2, <2>3, <2>4 DEF OrderInv, Devices!Next, Devices!Change
<1>7. CASE ~playing
  <2>1. Calls = todo /\ todo' = t /\ played' = played /\ 1 \in DOMAIN todo
    BY <1>1, <1>4, <1>7 DEF Calls, Return
  <2>2. CallsInv' /\ PlayedInv' /\ ArrivedInv'
    BY <1>2, <1>3, <1>7, <2>1 DEF CallsInv, PlayedInv, ArrivedInv
  <2>3. TodoInv'
    <3>1. Whole(t[1]) => Whole(todo[1])  BY <1>3, <2>1 DEF Whole
    <3>2. \A i \in DOMAIN t : Whole(t[i]) => i = 1  BY <1>3
    <3>3. t[1].id = todo[1].id  BY <1>3, <2>1
    <3> QED  BY <1>2, <1>7, <2>1, <3>1, <3>2, <3>3 DEF TodoInv
  <2>4. Queue' = Queue
    BY <1>3, <2>1, QueueIs
  <2> QED  BY <1>5, <2>2, <2>3, <2>4 DEF OrderInv, Devices!Next, Devices!Change
<1> QED  BY <1>1, <1>6, <1>7

-----------------------------------------------------------------------------
(* The calls of processInputProc, one after the other.                     *)
LEMMA ProcessInputQueue ==
  ASSUME QueueInv, ProcessInput
  PROVE  OrderInv' /\ [Devices!Next]_Devices!vars
<1> DEFINE e == Head(Calls)
<1>1. /\ todo \in Seq(Event) /\ played \in Seq(Event) /\ pending \in Seq(Event)
      /\ playing \in BOOLEAN /\ saved \in [Device -> Seq(Event)]
  BY DEF QueueInv, Inv, TypeOK
<1>2. Calls # <<>> /\ e \in Event /\ e.device \in Device /\ e.id \in Int
  <2>1. Calls # <<>>  BY DEF ProcessInput
  <2>2. e \in Event  BY <1>1, <2>1 DEF Calls
  <2> QED  BY <2>1, <2>2, SyncGrabsAssumption DEF Event
<1>3. ~playing => played = <<>>
  BY DEF QueueInv, OrderInv, CallsInv
<1>4. SavedInv /\ NoneWhole(<<>>) /\ NoneWhole(<<Saved(e)>>)
  <2>1. Saved(e).id = 0  BY <1>2 DEF Saved, Event
  <2> HIDE DEF e
  <2> QED  BY <2>1 DEF QueueInv, OrderInv, NoneWhole, Whole
<1> HIDE DEF e
\* A call that is over.
<1>5. ASSUME UNCHANGED <<pending, arrived>>,
             \/ Return(Tail(Calls)) /\ UNCHANGED <<playing, saved>>
             \/ FreezeNext(e)
             \/ Pop /\ \E event \in {<<>>, <<Saved(e)>>} : ComputeFreezes(event, <<>>),
             Whole(e) => ~frozen[e.device]
      PROVE  OrderInv' /\ [Devices!Next]_Devices!vars
  <2>1. CallDone
    BY <1>1, <1>3, <1>5 DEF CallDone, Return, Pop, FreezeNext, ComputeFreezes, Calls
  <2>2. SavedInv'
    <3>1. CASE UNCHANGED saved  BY <1>4, <3>1 DEF SavedInv
    <3>2. CASE FreezeNext(e)
      BY <1>1, <1>2, <1>4, <3>2 DEF FreezeNext, SavedInv
    <3>3. ASSUME NEW event \in {<<>>, <<Saved(e)>>}, ComputeFreezes(event, <<>>)
          PROVE  SavedInv'
      BY <1>4, <3>3 DEF ComputeFreezes, SavedInv
    <3> QED  BY <1>5, <3>1, <3>2, <3>3
  <2> QED  BY <1>2, <1>5, <2>1, <2>2, CallDoneOrder, CallDoneQueue DEF e
<1>6. CASE Enqueue(e)
  <2>1. /\ frozen[e.device] /\ pending' = Append(pending, e) /\ Return(Tail(Calls))
        /\ UNCHANGED <<arrived, playing, saved, frozen>>
    BY <1>6 DEF Enqueue, freezes
  <2> QED  BY <1>2, <2>1, EnqueueQueue DEF e
<1>7. CASE Repeat(e)
  <2>1. /\ Return(Split(e, Calls)) /\ ~frozen[e.device]
        /\ UNCHANGED <<arrived, playing, saved, frozen, pending>>
    BY <1>7 DEF Repeat, Split, Processed, freezes
  <2> QED  BY <1>2, <2>1, RepeatQueue DEF e
<1>8. CASE Ignore(e)
  BY <1>5, <1>8 DEF Ignore, Processed, freezes
<1>9. CASE Press(e)
  BY <1>5, <1>9 DEF Press, Processed, PassiveGrab, AutomaticGrab, Activate, NoEffect, freezes
<1>10. CASE Release(e)
  BY <1>5, <1>10 DEF Release, Processed, Deactivate, NoEffect, freezes
<1>11. CASE Again(e)
  <2>1. ~Whole(e) /\ UNCHANGED <<pending, arrived>>
    BY <1>11 DEF Again, Whole
  <2>2. \/ Return(Tail(Calls)) /\ UNCHANGED <<playing, saved>>
        \/ Pop /\ \E event \in {<<>>, <<Saved(e)>>} : ComputeFreezes(event, <<>>)
    BY <1>11 DEF Again, PassiveGrab, AutomaticGrab, Activate, NoEffect, freezes
  <2> QED  BY <1>5, <2>1, <2>2
<1> QED
  BY <1>6, <1>7, <1>8, <1>9, <1>10, <1>11 DEF ProcessInput, e

(* PlayReleasedEvents takes the oldest event of its device.                *)
LEMMA PlayNextQueue ==
  ASSUME QueueInv, PlayNext
  PROVE  OrderInv' /\ [Devices!Next]_Devices!vars
<1>1. /\ todo \in Seq(Event) /\ played \in Seq(Event) /\ pending \in Seq(Event)
      /\ \A i \in DOMAIN pending : pending[i] \in Event
  BY DEF QueueInv, Inv, TypeOK
<1>2. PendingInv /\ CallsInv /\ TodoInv /\ PlayedInv /\ SavedInv /\ ArrivedInv
  BY DEF QueueInv, OrderInv
<1>3. PICK i \in DOMAIN pending :
        /\ Thawed(i) /\ \A j \in 1 .. i - 1 : ~Thawed(j)
        /\ played' = <<pending[i]>>
        /\ pending' = RemoveAt(pending, i)
  BY DEF PlayNext
<1>4. playing /\ played = <<>> /\ UNCHANGED <<todo, arrived, frozen, saved, playing>>
  BY DEF PlayNext, freezes
<1>5. /\ Len(pending') = Len(pending) - 1 /\ DOMAIN pending' = 1 .. Len(pending) - 1
      /\ \A j \in DOMAIN pending' : pending'[j] = pending[IF j < i THEN j ELSE j + 1]
  BY <1>1, <1>3, RemoveAtIs
<1>6. Queue' = Queue
  <2>1. \A d \in Device :
          Ids(played', d) = IF pending[i].device = d /\ Whole(pending[i]) THEN {pending[i].id} ELSE {}
    BY <1>3 DEF Ids
  <2>2. \A d \in Device : Ids(played, d) = {}
    <3>1. NoneWhole(<<>>)  BY DEF NoneWhole
    <3> QED  BY <1>4, <3>1, NoneWholeNoIds
  <2>3. \A d \in Device :
          Ids(pending, d) = Ids(pending', d)
             \cup (IF pending[i].device = d /\ Whole(pending[i]) THEN {pending[i].id} ELSE {})
    BY <1>1, <1>3, IdsRemoveAt
  <2> QED  BY <1>4, <2>1, <2>2, <2>3, QueueIs
<1>7. PendingInv'
  <2> SUFFICES ASSUME NEW j \in DOMAIN pending', NEW k \in DOMAIN pending', j < k,
                      Whole(pending'[j]), Whole(pending'[k]), pending'[j].device = pending'[k].device
               PROVE  pending'[j].id < pending'[k].id
    BY DEF PendingInv
  <2> DEFINE Was(n) == IF n < i THEN n ELSE n + 1
  <2>1. Was(j) \in DOMAIN pending /\ Was(k) \in DOMAIN pending /\ Was(j) < Was(k)
    BY <1>1, <1>3, <1>5
  <2>2. pending'[j] = pending[Was(j)] /\ pending'[k] = pending[Was(k)]
    BY <1>5
  <2> HIDE DEF Was
  <2> QED  BY <1>2, <2>1, <2>2 DEF PendingInv
<1>8. PlayedInv'
  <2> SUFFICES ASSUME Whole(pending[i])
               PROVE  /\ ~frozen[pending[i].device]
                      /\ \A j \in DOMAIN pending' :
                           Whole(pending'[j]) /\ pending'[j].device = pending[i].device
                           => pending[i].id < pending'[j].id
    BY <1>3, <1>4 DEF PlayedInv
  <2>1. ~frozen[pending[i].device]  BY <1>3 DEF Thawed
  <2> SUFFICES ASSUME NEW j \in DOMAIN pending',
                      Whole(pending'[j]), pending'[j].device = pending[i].device
               PROVE  pending[i].id < pending'[j].id
    BY <2>1
  <2>2. CASE j < i
    <3>1. j \in 1 .. i - 1 /\ pending'[j] = pending[j]  BY <1>1, <1>3, <1>5, <2>2
    <3> QED  BY <1>3, <2>1, <3>1 DEF Thawed
  <2>3. CASE j >= i
    <3>1. j + 1 \in DOMAIN pending /\ i < j + 1 /\ pending'[j] = pending[j + 1]
      BY <1>1, <1>3, <1>5, <2>3
    <3> QED  BY <1>2, <3>1 DEF PendingInv
  <2> QED  BY <1>1, <1>3, <1>5, <2>2, <2>3
<1>9. CallsInv' /\ SavedInv'
  BY <1>2, <1>3, <1>4 DEF CallsInv, SavedInv
<1>10. TodoInv'
  BY <1>2, <1>4 DEF TodoInv
<1>11. ArrivedInv'
  <2>1. \A j \in DOMAIN pending' : (IF j < i THEN j ELSE j + 1) \in DOMAIN pending
    BY <1>1, <1>3, <1>5
  <2>2. \A j \in DOMAIN pending' : pending'[j].id <= arrived
    BY <1>2, <1>5, <2>1 DEF ArrivedInv
  <2> QED  BY <1>2, <1>3, <1>4, <2>2 DEF ArrivedInv
<1>12. Blocked' \in SUBSET Device  BY DEF Blocked
<1> QED
  BY <1>4, <1>6, <1>7, <1>8, <1>9, <1>10, <1>11, <1>12 DEF OrderInv, Devices!Next, Devices!Change

(* An event from the hardware is the last of all.                          *)
LEMMA InputQueue ==
  ASSUME QueueInv, NEW d \in Device, NEW k \in Key, Input(d, k)
  PROVE  OrderInv' /\ [Devices!Next]_Devices!vars
<1>1. PendingInv /\ CallsInv /\ TodoInv /\ PlayedInv /\ SavedInv /\ ArrivedInv
  BY DEF QueueInv, OrderInv
<1>2. PICK press \in BOOLEAN :
        todo' = <<[device |-> d, key |-> k, press |-> press, id |-> arrived']>>
  BY DEF Input
<1>3. /\ todo = <<>> /\ ~playing /\ played = <<>> /\ arrived \in Nat /\ arrived' = arrived + 1
      /\ UNCHANGED <<pending, played, playing, frozen, saved>>
  BY <1>1, SyncGrabsAssumption
     DEF Input, Waiting, Quiet, freezes, CallsInv, QueueInv, Inv, TypeOK
<1>4. /\ DOMAIN todo' = {1} /\ todo'[1].id = arrived' /\ todo'[1].device = d
      /\ Whole(todo'[1])
  BY <1>2, <1>3 DEF Whole
<1>5. \A i \in DOMAIN pending : pending[i].id \in Int
  <2>1. \A i \in DOMAIN pending : pending[i] \in Event  BY DEF QueueInv, Inv, TypeOK
  <2> QED  BY <2>1, SyncGrabsAssumption DEF Event
<1>6. Queue' = [Queue EXCEPT ![d] = @ \cup {arrived'}]
  <2>1. \A x \in Device : Ids(todo', x) = IF x = d THEN {arrived'} ELSE {}
    BY <1>4 DEF Ids
  <2>2. \A x \in Device : Ids(todo, x) = {}
    <3>1. NoneWhole(todo)  BY <1>3 DEF NoneWhole
    <3> QED  BY <3>1, NoneWholeNoIds
  <2> QED  BY <1>3, <2>1, <2>2, QueueIs
<1>7. PendingInv' /\ CallsInv' /\ PlayedInv' /\ SavedInv'
  BY <1>1, <1>3, <1>4 DEF PendingInv, CallsInv, PlayedInv, SavedInv
<1>8. TodoInv' /\ ArrivedInv'
  <2>1. \A i \in DOMAIN pending : pending[i].id < arrived'
    BY <1>1, <1>3, <1>5 DEF ArrivedInv
  <2>2. TodoInv'
    BY <1>3, <1>4, <2>1 DEF TodoInv
  <2>3. ArrivedInv'
    BY <1>3, <1>4, <1>5, <2>1 DEF ArrivedInv
  <2> QED  BY <2>2, <2>3
<1>9. Devices!Arrive(d)
  BY <1>3, <1>6 DEF Devices!Arrive, Blocked
<1> QED  BY <1>7, <1>8, <1>9 DEF OrderInv, Devices!Next

(* Between two handlers a change of the grabs may start to play events.    *)
LEMMA FreezesQueue ==
  ASSUME QueueInv, Quiet, UNCHANGED Others, NEW replay, NoneWhole(replay),
         ComputeFreezes(<<>>, replay), \A i \in DOMAIN replay : replay[i].id <= arrived
  PROVE  OrderInv' /\ [Devices!Next]_Devices!vars
<1>1. PendingInv /\ CallsInv /\ TodoInv /\ PlayedInv /\ SavedInv /\ ArrivedInv
  BY DEF QueueInv, OrderInv
<1>2. /\ todo = <<>> /\ ~playing /\ played = <<>> /\ played' = replay
      /\ playing' = (replay # <<>> \/ Thaws(pending))
      /\ UNCHANGED <<pending, todo, arrived>>
  BY <1>1 DEF Quiet, CallsInv, Others, ComputeFreezes
<1>3. Queue' = Queue
  <2>1. NoneWhole(<<>>)  BY DEF NoneWhole
  <2>2. \A d \in Device : Ids(played, d) = {} /\ Ids(played', d) = {}
    BY <1>2, <2>1, NoneWholeNoIds
  <2> QED  BY <1>2, <2>2, QueueIs
<1>4. PendingInv' /\ TodoInv' /\ PlayedInv' /\ CallsInv'
  <2>1. PendingInv' /\ TodoInv'
    BY <1>1, <1>2 DEF PendingInv, TodoInv
  <2>2. \A i \in DOMAIN played' : ~Whole(played'[i])
    BY <1>2 DEF NoneWhole
  <2>3. PlayedInv'
    BY <2>2 DEF PlayedInv
  <2>4. CallsInv'
    <3>1. ~playing' => played' = <<>>  BY <1>2
    <3>2. \A i \in DOMAIN todo' : Whole(todo'[i]) => i = 1  BY <1>2
    <3> QED  BY <2>2, <3>1, <3>2 DEF CallsInv
  <2> QED  BY <2>1, <2>3, <2>4
<1>5. SavedInv'
  <2>1. NoneWhole(<<>>)  BY DEF NoneWhole
  <2> QED  BY <1>1, <2>1 DEF SavedInv, ComputeFreezes
<1>6. ArrivedInv'
  BY <1>1, <1>2 DEF ArrivedInv
<1>7. Blocked' \in SUBSET Device  BY DEF Blocked
<1> QED
  BY <1>2, <1>3, <1>4, <1>5, <1>6, <1>7 DEF OrderInv, Devices!Next, Devices!Change

(* Nothing happens to the events.                                          *)
LEMMA QuietQueue ==
  ASSUME QueueInv, UNCHANGED <<pending, todo, played, arrived, frozen, saved>>,
         playing' = playing \/ (playing /\ played = <<>> /\ ~playing')
  PROVE  OrderInv' /\ [Devices!Next]_Devices!vars
<1>1. PendingInv /\ CallsInv /\ TodoInv /\ PlayedInv /\ SavedInv /\ ArrivedInv
  BY DEF QueueInv, OrderInv
<1>2. Queue' = Queue  BY QueueIs
<1>3. PendingInv' /\ TodoInv' /\ PlayedInv' /\ CallsInv' /\ SavedInv' /\ ArrivedInv'
  BY <1>1 DEF PendingInv, TodoInv, PlayedInv, CallsInv, SavedInv, ArrivedInv
<1>4. Blocked' \in SUBSET Device  BY DEF Blocked
<1> QED  BY <1>2, <1>3, <1>4 DEF OrderInv, Devices!Next, Devices!Change

(* Every step is one of the five kinds.                                    *)
LEMMA NextQueue ==
  ASSUME QueueInv, [Next]_vars
  PROVE  OrderInv' /\ [Devices!Next]_Devices!vars
<1>1. CASE ProcessInput
  BY <1>1, ProcessInputQueue
<1>2. CASE PlayNext
  BY <1>2, PlayNextQueue
<1>3. CASE PlayEnd
  BY <1>3, QuietQueue DEF PlayEnd
<1>4. ASSUME NEW d \in Device, NEW k \in Key, Input(d, k)
      PROVE  OrderInv' /\ [Devices!Next]_Devices!vars
  BY <1>4, InputQueue
<1>5. ASSUME Quiet, UNCHANGED Others, ComputeFreezes(<<>>, <<>>)
      PROVE  OrderInv' /\ [Devices!Next]_Devices!vars
  <2>1. NoneWhole(<<>>)  BY DEF NoneWhole
  <2> QED  BY <1>5, <2>1, FreezesQueue
<1>6. ASSUME UNCHANGED <<pending, todo, played, arrived, freezes>>
      PROVE  OrderInv' /\ [Devices!Next]_Devices!vars
  BY <1>6, QuietQueue DEF freezes
<1>7. ASSUME NEW c \in Client, CloseDown(c)
      PROVE  OrderInv' /\ [Devices!Next]_Devices!vars
  BY <1>5, <1>6, <1>7
     DEF CloseDown, Released, Freed, Enter, ReleaseGrab, FreeWindow, FreePassive, Deactivate
<1>8. ASSUME NEW c \in Client, NEW d \in Device, Replay(c, d)
      PROVE  OrderInv' /\ [Devices!Next]_Devices!vars
  <2>1. Quiet /\ UNCHANGED Others /\ ComputeFreezes(<<>>, saved[d])
    BY <1>8 DEF Replay, May, Requests, Waiting
  <2>2. NoneWhole(saved[d]) /\ saved[d] \in Seq(Event) /\ arrived \in Nat
    BY SyncGrabsAssumption DEF QueueInv, OrderInv, SavedInv, Inv, TypeOK
  <2>3. \A i \in DOMAIN saved[d] : saved[d][i].id <= arrived
    <3>1. \A i \in DOMAIN saved[d] : saved[d][i] \in Event  BY <2>2
    <3>2. \A i \in DOMAIN saved[d] : saved[d][i].id \in Int
      BY <3>1, SyncGrabsAssumption DEF Event
    <3> QED  BY <2>2, <3>2 DEF NoneWhole, Whole
  <2> QED  BY <2>1, <2>2, <2>3, FreezesQueue
<1>9. ASSUME NEW c \in Client, Request(c)
      PROVE  OrderInv' /\ [Devices!Next]_Devices!vars
  <2>1. CASE AllowEvents(c)
    BY <1>5, <1>8, <2>1 DEF AllowEvents, AllowOne, AllowBoth, May, Requests, Waiting
  <2>2. CASE \E d \in Device : GrabDevice(c, d) \/ Ungrab(c, d)
    BY <1>5, <2>2 DEF GrabDevice, Activate, Ungrab, Deactivate, Requests, Waiting
  <2> QED  BY <1>9, <2>1, <2>2 DEF Request
<1>10. ASSUME NEW c \in Client, Connect(c) \/ Die(c)
       PROVE  OrderInv' /\ [Devices!Next]_Devices!vars
  BY <1>6, <1>10 DEF Connect, Die, Enter
<1>11. ASSUME NEW d \in Device, LoseWindow(d)
       PROVE  OrderInv' /\ [Devices!Next]_Devices!vars
  BY <1>5, <1>11 DEF LoseWindow, Deactivate, Waiting
<1>12. ASSUME NEW g \in Passives, ChangePassive(g)
       PROVE  OrderInv' /\ [Devices!Next]_Devices!vars
  BY <1>6, <1>12 DEF ChangePassive
<1>13. CASE UNCHANGED vars
  BY <1>6, <1>13 DEF vars
<1> QED
  BY <1>1, <1>2, <1>3, <1>4, <1>7, <1>9, <1>10, <1>11, <1>12, <1>13 DEF Next, Server

(* The safety part of ImplementsFrozenDevices: EnqueueEvent and            *)
(* PlayReleasedEvents keep a queue for each device in one list.  Whatever  *)
(* freezes, thaws, is replayed or dies in the middle, the events of a      *)
(* device are handled in the order they arrived, each once, and never      *)
(* while the device is frozen.                                             *)
THEOREM FrozenDevicesSafety == Spec => Devices!Init /\ [][Devices!Next]_Devices!vars
<1>1. Init => OrderInv /\ Devices!Init /\ NothingStuck
  <2> SUFFICES ASSUME Init  PROVE OrderInv /\ Devices!Init /\ NothingStuck
    OBVIOUS
  <2>1. /\ pending = <<>> /\ todo = <<>> /\ played = <<>> /\ ~playing /\ arrived = 0
        /\ saved = [d \in Device |-> <<>>] /\ \A d \in Device : ~frozen[d]
    BY DEF Init
  <2>2. OrderInv
    BY <2>1 DEF OrderInv, PendingInv, CallsInv, TodoInv, PlayedInv, SavedInv, ArrivedInv, NoneWhole
  <2>3. Queue = [d \in Device |-> {}]
    <3>1. NoneWhole(<<>>)  BY DEF NoneWhole
    <3>2. \A d \in Device : Ids(<<>>, d) = {}  BY <3>1, NoneWholeNoIds
    <3> QED  BY <2>1, <3>2, QueueIs
  <2>4. Blocked = {}  BY <2>1 DEF Blocked
  <2>5. NothingStuck  BY <2>1 DEF NothingStuck
  <2> QED  BY <2>1, <2>2, <2>3, <2>4, <2>5 DEF Devices!Init
<1>2. Inv /\ NothingStuck /\ OrderInv /\ [Next]_vars
        => OrderInv' /\ [Devices!Next]_Devices!vars
  BY NextQueue DEF QueueInv
<1> QED
  BY <1>1, <1>2, Invariance, NothingIsStuck, PTL DEF Spec
=============================================================================
