----------------------------- MODULE InputQueue -----------------------------
(***************************************************************************)
(* The hardware event queue of the XFree86 server (xf86Xinput.c, adapted   *)
(* from mi/mieq.c) and the pointer state of mi/mipointer.c behind it.      *)
(*                                                                         *)
(* The SIGIO handler reads the devices, moves the pointer and appends      *)
(* events while the dispatch loop, interrupted at any point, takes events  *)
(* out; nothing but the order of their assignments protects the queue.     *)
(* The handler itself is not interrupted, and the regular code that moves  *)
(* the pointer (xf86WarpCursor) blocks SIGIO: each is one step.  The code  *)
(* that takes events out runs one access of the shared queue at a time.    *)
(***************************************************************************)
EXTENDS Integers

CONSTANTS
  Screen, FirstScreen,  \* screenInfo.screens, and screens[0]
  QueueSize,            \* QUEUE_SIZE
  Time,                 \* what GetTimeInMillis may return
  StartTime,            \* what it returned to xf86eqInit
  TimeSlop,             \* 10000: a greater step back in time is believed
  MaxPosted             \* bound on the events posted and the pointer warps

ASSUME QueueAssumption ==
  /\ FirstScreen \in Screen
  /\ QueueSize \in Nat \ {0, 1}
  /\ Time \subseteq Nat /\ StartTime \in Time
  /\ TimeSlop \in Nat /\ MaxPosted \in Nat

VARIABLES
  head, tail,     \* xf86EventQueue.head, .tail
  events,         \* xf86EventQueue.events
  lastMotion,     \* xf86EventQueue.lastMotion
  enqueueScreen,  \* xf86EventQueue.pEnqueueScreen
  dequeueScreen,  \* xf86EventQueue.pDequeueScreen
  pointer,        \* miPointer.x, .y and .pScreen
  sprite,         \* sprite.hotPhys, the position DIX knows
  pc,             \* where ProcessInputEvents is; "dispatch": not in it
  xe,             \* its copy of an event, or the position it read from one
  posted          \* how many events were posted: names positions and events

vars == <<head, tail, events, lastMotion, enqueueScreen, dequeueScreen,
          pointer, sprite, pc, xe, posted>>
queue == <<head, tail, events, lastMotion>>

(***************************************************************************)
(* An event is a MotionNotify or a discrete one: a key or button event, of *)
(* the core or of an extension device.  id tells events and positions      *)
(* apart: the position of a motion event is its id.  A discrete event has  *)
(* no position ("DIX sets these fields"): its rootX and rootY are what was *)
(* on the stack, written 0 here.                                           *)
(***************************************************************************)
Id    == 0 .. MaxPosted
Event == [motion : BOOLEAN, id : Id, pos : Id, screen : Screen, time : Time]
Slot  == 0 .. QueueSize - 1
Place == [pos : Id, screen : Screen]

Succ(i) == IF i = QueueSize - 1 THEN 0 ELSE i + 1
Prev(i) == IF i = 0 THEN QueueSize - 1 ELSE i - 1

Blank == [motion |-> FALSE, id |-> 0, pos |-> 0, screen |-> FirstScreen, time |-> StartTime]

Init ==
  /\ head = 0 /\ tail = 0
  /\ events = [i \in Slot |-> Blank]
  /\ lastMotion = FALSE
  /\ enqueueScreen = FirstScreen /\ dequeueScreen = FirstScreen
  /\ pointer = [pos |-> 0, screen |-> FirstScreen]
  /\ sprite = pointer
  /\ pc = "dispatch"
  /\ xe = Blank
  /\ posted = 0

-----------------------------------------------------------------------------
(* xf86eqEnqueue *)

\* lastEventTime is what xf86eqInit stored: nothing else assigns it.
NotBefore(t) == IF t < StartTime /\ StartTime - t < TimeSlop THEN StartTime ELSE t

\* Mutant: whatever the last event was, motion goes over it.
MutCompresses(motion) == motion /\ tail # head

Compresses(motion) == motion /\ lastMotion /\ tail # head

\* Mutant: no event is tossed.
MutEnqueue(motion, id, pos, screen) ==
  \E t \in Time :
    LET e    == [motion |-> motion, id |-> id, pos |-> pos,
                 screen |-> screen, time |-> NotBefore(t)]
        slot == IF Compresses(motion) THEN Prev(tail) ELSE tail
    IN /\ events' = [events EXCEPT ![slot] = e]
       /\ tail' = IF Compresses(motion) THEN tail ELSE Succ(tail)
       /\ lastMotion' = motion
       /\ head' = head

(* The event goes over the last one (both motion), into the slot at tail,  *)
(* or nowhere when the queue is full.                                      *)
Enqueue(motion, id, pos, screen) ==
  \E t \in Time :
    LET e    == [motion |-> motion, id |-> id, pos |-> pos,
                 screen |-> screen, time |-> NotBefore(t)]
        slot == IF Compresses(motion) THEN Prev(tail) ELSE tail
    IN IF ~Compresses(motion) /\ Succ(tail) = head
         THEN UNCHANGED queue
         ELSE /\ events' = [events EXCEPT ![slot] = e]
              /\ tail' = IF Compresses(motion) THEN tail ELSE Succ(tail)
              /\ lastMotion' = motion
              /\ head' = head

-----------------------------------------------------------------------------
(* The SIGIO handler, and the handlers of xf86Wakeup with SIGIO blocked.   *)

\* xf86PostMotionEvent, miPointerAbsoluteCursor: perhaps onto another screen.
PostMotion ==
  /\ posted < MaxPosted
  /\ posted' = posted + 1
  /\ \E s \in Screen :
       /\ pointer' = [pos |-> posted', screen |-> s]
       /\ enqueueScreen' = IF s # pointer.screen THEN s ELSE enqueueScreen
       /\ Enqueue(TRUE, posted', posted', enqueueScreen')
  /\ UNCHANGED <<dequeueScreen, sprite, pc, xe>>

\* xf86PostButtonEvent, xf86PostKbdEvent
PostDiscrete ==
  /\ posted < MaxPosted
  /\ posted' = posted + 1
  /\ Enqueue(FALSE, posted', 0, enqueueScreen)
  /\ UNCHANGED <<enqueueScreen, dequeueScreen, pointer, sprite, pc, xe>>

-----------------------------------------------------------------------------
(* DIX moves the pointer. *)

\* SetCursorPosition(.., TRUE): xf86WarpCursor, miPointerWarpCursor, miPointerMove.
WarpCursor(place, id) ==
  LET moves == pointer.screen # place.screen IN
  /\ enqueueScreen' = IF moves THEN place.screen ELSE enqueueScreen
  /\ dequeueScreen' = IF moves THEN place.screen ELSE dequeueScreen
  /\ pointer' = place
  /\ Enqueue(TRUE, id, place.pos, enqueueScreen')

\* The new position is DIX's own; on a new screen the cursor is confined to
\* its root window, which moves the pointer there.
NewCurrentScreen(place, id) ==
  /\ sprite' = place
  /\ IF place.screen # sprite.screen
       THEN WarpCursor(place, id)
       ELSE UNCHANGED <<queue, enqueueScreen, dequeueScreen, pointer>>

\* ChangeToCursor, miPointerDisplayCursor: the pointer is on the sprite's screen.
DisplayCursor == pointer' = [pointer EXCEPT !.screen = sprite.screen]

\* A client's request, when the dispatch loop runs it.
ProcWarpPointer(s) ==
  /\ pc = "dispatch"
  /\ posted < MaxPosted
  /\ posted' = posted + 1
  /\ LET place == [pos |-> posted', screen |-> s] IN
       IF s = sprite.screen
         THEN WarpCursor(place, posted') /\ sprite' = sprite
         ELSE NewCurrentScreen(place, posted')
  /\ UNCHANGED <<pc, xe>>

-----------------------------------------------------------------------------
(* ProcessInputEvents: xf86eqProcessInputEvents, then miPointerUpdate.     *)

At(label)   == pc = label
Goto(label) == pc' = label
Unshared    == UNCHANGED <<queue, enqueueScreen, dequeueScreen, pointer, sprite, posted>>

\* Mutant: the indices are compared as if they did not wrap around.
MutEnter ==
  /\ At("dispatch") /\ head < tail
  /\ Goto("loop") /\ xe' = xe /\ Unshared

\* Dispatch found head and tail different.
Enter ==
  /\ At("dispatch") /\ head # tail
  /\ Goto("loop") /\ xe' = xe /\ Unshared

Loop ==
  /\ At("loop")
  /\ Goto(IF head # tail THEN "compare" ELSE "dispatch")
  /\ xe' = xe /\ Unshared

Compare ==
  /\ At("compare")
  /\ Goto(IF events[head].screen # dequeueScreen THEN "switch" ELSE "copy")
  /\ xe' = xe /\ Unshared

\* The screen is read a second time, and the position after it.
Switch ==
  /\ At("switch") /\ Goto("point")
  /\ dequeueScreen' = events[head].screen
  /\ UNCHANGED <<queue, enqueueScreen, pointer, sprite, xe, posted>>

Point ==
  /\ At("point") /\ Goto("skip")
  /\ xe' = events[head]
  /\ Unshared

Advance(from, to) ==
  /\ At(from) /\ Goto(to)
  /\ head' = Succ(head)
  /\ UNCHANGED <<tail, events, lastMotion, enqueueScreen, dequeueScreen,
                 pointer, sprite, xe, posted>>

Skip == Advance("skip", "enter")

EnterScreen ==
  /\ At("enter") /\ Goto("loop")
  /\ NewCurrentScreen([pos |-> xe.pos, screen |-> dequeueScreen], xe.id)
  /\ UNCHANGED <<xe, posted>>

Copy ==
  /\ At("copy") /\ Goto("advance")
  /\ xe' = events[head]
  /\ Unshared

Take == Advance("advance", "deliver")

\* processInputProc.  A motion event moves the sprite (CheckMotion); a new
\* window below it, or a grab, may show another cursor, with SIGIO let in.
Deliver ==
  /\ At("deliver") /\ Goto("loop")
  /\ sprite' = IF xe.motion THEN [sprite EXCEPT !.pos = xe.pos] ELSE sprite
  /\ pointer' = pointer \/ DisplayCursor
  /\ UNCHANGED <<queue, enqueueScreen, dequeueScreen, xe, posted>>

ProcessInputEvents ==
  \/ Enter \/ Loop \/ Compare \/ Switch \/ Point \/ Skip \/ EnterScreen
  \/ Copy \/ Take \/ Deliver

Next ==
  \/ PostMotion \/ PostDiscrete
  \/ \E s \in Screen : ProcWarpPointer(s)
  \/ ProcessInputEvents

Spec == Init /\ [][Next]_vars

(* Dispatch looks at head and tail before every request, and nothing in    *)
(* ProcessInputEvents waits.                                               *)
FairSpec == Spec /\ WF_vars(ProcessInputEvents)
-----------------------------------------------------------------------------
(* Properties.                                                             *)

TypeOK ==
  /\ head \in Slot /\ tail \in Slot
  /\ events \in [Slot -> Event]
  /\ lastMotion \in BOOLEAN
  /\ enqueueScreen \in Screen /\ dequeueScreen \in Screen
  /\ pointer \in Place /\ sprite \in Place
  /\ pc \in {"dispatch", "loop", "compare", "switch", "point", "skip", "enter",
             "copy", "advance", "deliver"}
  /\ xe \in Event
  /\ posted \in Id

\* The slots between head and tail, the one being taken included.
Waiting(i) == IF head <= tail THEN head <= i /\ i < tail ELSE head <= i \/ i < tail

\* A key or button event between head and tail.
WaitsDiscrete(i) == Waiting(i) /\ ~events[i].motion

(* A key or button event that waits in the queue is never overwritten,     *)
(* neither by a compressed motion event nor by a full queue wrapping over  *)
(* its head, while head and tail move under the two sides' hands.          *)
NeverOverwritten ==
  [][\A i \in Slot : WaitsDiscrete(i) => events'[i] = events[i]]_vars

Pending == {events[i].id : i \in {j \in Slot : WaitsDiscrete(j)}}

Handled == IF pc = "deliver" /\ ~xe.motion THEN xe.id ELSE 0

Stream == INSTANCE InputStream WITH arrived <- posted, pending <- Pending, handled <- Handled

(* The ring implements a stream of key and button events that are taken in *)
(* the order they were accepted, each once, whatever motion and wrap-around *)
(* happen between them.                                                    *)
ImplementsStream == Stream!Spec

(* Whatever is in the queue is taken out; input does not hang until the    *)
(* next device event.                                                      *)
Drains == head # tail ~> head = tail
=============================================================================
