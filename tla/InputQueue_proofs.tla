-------------------------- MODULE InputQueue_proofs --------------------------
(***************************************************************************)
(* Proofs about InputQueue, for any ring of at least two slots and any     *)
(* number of screens and events: the indices stay in the ring, a key or    *)
(* button event that waits is never overwritten, and the ring implements   *)
(* InputStream: key and button events are taken once, oldest first.        *)
(*                                                                         *)
(* A compressed motion event goes over the event before tail.  That this   *)
(* one is a motion event rests on lastMotion, which describes the last     *)
(* event accepted and not the last one posted (TailInv), and on head and   *)
(* tail being different while an event is taken out (TakeInv).             *)
(***************************************************************************)
EXTENDS InputQueue, TLAPS

\* lastMotion is about the event before tail, if that one still waits.
TailInv == lastMotion /\ head # tail => events[Prev(tail)].motion

\* While ProcessInputEvents looks at the event at head, there is one.
TakeInv ==
  pc \in {"compare", "switch", "point", "skip", "copy", "advance"} => head # tail

QueueInv == TypeOK /\ TailInv /\ TakeInv

-----------------------------------------------------------------------------
(* Moving around the ring: the two neighbours undo each other.             *)
LEMMA RingSteps ==
  \A i \in Slot : /\ Succ(i) \in Slot /\ Prev(i) \in Slot
                  /\ Succ(i) # i
                  /\ Prev(Succ(i)) = i /\ Succ(Prev(i)) = i
BY QueueAssumption DEF Slot, Succ, Prev

(* In a ring that is not empty the slot before tail waits, and the slot at *)
(* tail does not.                                                          *)
LEMMA WaitingEnds ==
  ASSUME head \in Slot, tail \in Slot
  PROVE  ~Waiting(tail) /\ (head # tail => Waiting(Prev(tail)))
BY QueueAssumption DEF Slot, Prev, Waiting

(* xf86eqEnqueue keeps the ring well formed and leaves events alone that   *)
(* wait, but for a motion event that another one replaces.                 *)
LEMMA EnqueueInv ==
  ASSUME TypeOK, TailInv,
         NEW motion \in BOOLEAN, NEW id \in Id, NEW pos \in Id, NEW screen \in Screen,
         Enqueue(motion, id, pos, screen)
  PROVE  /\ head' = head /\ tail' \in Slot /\ lastMotion' \in BOOLEAN
         /\ events' \in [Slot -> Event]
         /\ head # tail => head' # tail'
         /\ TailInv'
         /\ \A i \in Slot : WaitsDiscrete(i) => events'[i] = events[i]
<1>1. PICK t \in Time :
        LET e    == [motion |-> motion, id |-> id, pos |-> pos,
                     screen |-> screen, time |-> NotBefore(t)]
            slot == IF Compresses(motion) THEN Prev(tail) ELSE tail
        IN IF ~Compresses(motion) /\ Succ(tail) = head
             THEN UNCHANGED queue
             ELSE /\ events' = [events EXCEPT ![slot] = e]
                  /\ tail' = IF Compresses(motion) THEN tail ELSE Succ(tail)
                  /\ lastMotion' = motion
                  /\ head' = head
  BY DEF Enqueue
<1> DEFINE e == [motion |-> motion, id |-> id, pos |-> pos,
                 screen |-> screen, time |-> NotBefore(t)]
<1>2. NotBefore(t) \in Time
  BY QueueAssumption DEF NotBefore
<1>3. e \in Event /\ e.motion = motion
  BY <1>2 DEF Event
<1>4. head \in Slot /\ tail \in Slot /\ events \in [Slot -> Event] /\ lastMotion \in BOOLEAN
  BY DEF TypeOK
<1> HIDE DEF e
\* The queue is full: the event is tossed.
<1>5. CASE ~Compresses(motion) /\ Succ(tail) = head
  <2>1. UNCHANGED queue
    BY <1>1, <1>5
  <2> QED  BY <1>4, <2>1 DEF queue, TailInv, Prev
\* The event goes over the motion event before tail.
<1>6. CASE Compresses(motion)
  <2>1. events' = [events EXCEPT ![Prev(tail)] = e] /\ UNCHANGED <<head, tail>>
    BY <1>1, <1>6 DEF e
  <2>2. lastMotion' = TRUE /\ motion = TRUE /\ lastMotion /\ tail # head
    BY <1>1, <1>6, Zenon DEF Compresses
  <2>3. events[Prev(tail)].motion /\ Prev(tail) \in Slot
    BY <1>4, <2>2, RingSteps DEF TailInv
  <2>4. TailInv'
    BY <1>3, <1>4, <2>1, <2>2, <2>3 DEF TailInv, Prev
  <2> QED  BY <1>3, <1>4, <2>1, <2>2, <2>3, <2>4 DEF WaitsDiscrete
\* The event goes into the slot at tail.
<1>7. CASE ~Compresses(motion) /\ Succ(tail) # head
  <2>1. /\ events' = [events EXCEPT ![tail] = e] /\ tail' = Succ(tail)
        /\ lastMotion' = motion /\ head' = head
    BY <1>1, <1>7 DEF e
  <2>2. Succ(tail) \in Slot /\ Prev(Succ(tail)) = tail
    BY <1>4, RingSteps
  <2>3. TailInv'
    BY <1>3, <1>4, <2>1, <2>2 DEF TailInv, Prev
  <2>4. \A i \in Slot : Waiting(i) => events'[i] = events[i]
    BY <1>4, <2>1, WaitingEnds
  <2> QED  BY <1>3, <1>4, <1>7, <2>1, <2>2, <2>3, <2>4 DEF WaitsDiscrete
<1> QED
  BY <1>5, <1>6, <1>7

(* What the pointer code does with the queue: at most one enqueue.         *)
LEMMA WarpCursorEnqueues ==
  ASSUME TypeOK, NEW place \in Place, NEW id \in Id, WarpCursor(place, id)
  PROVE  /\ enqueueScreen' \in Screen /\ dequeueScreen' \in Screen /\ pointer' \in Place
         /\ Enqueue(TRUE, id, place.pos, enqueueScreen')
BY DEF TypeOK, Place, WarpCursor

(* The same for a pointer that DIX puts on another screen, or leaves.      *)
LEMMA NewCurrentScreenEnqueues ==
  ASSUME TypeOK, NEW place \in Place, NEW id \in Id, NewCurrentScreen(place, id)
  PROVE  /\ enqueueScreen' \in Screen /\ dequeueScreen' \in Screen
         /\ pointer' \in Place /\ sprite' \in Place
         /\ UNCHANGED queue \/ Enqueue(TRUE, id, place.pos, enqueueScreen')
BY WarpCursorEnqueues DEF TypeOK, NewCurrentScreen

-----------------------------------------------------------------------------
(* What one step may do to the ring: every action either leaves it alone,  *)
(* enqueues one event, or moves head past the event that was taken.        *)
Moves == pc \in {"skip", "advance"} /\ head' = Succ(head) /\ UNCHANGED <<tail, events, lastMotion>>
         /\ pc' \notin {"compare", "switch", "point", "skip", "copy", "advance"}

Enqueues ==
  /\ \E motion \in BOOLEAN, id \in Id, pos \in Id, screen \in Screen :
       Enqueue(motion, id, pos, screen)
  /\ pc' = pc \/ pc' \notin {"compare", "switch", "point", "skip", "copy", "advance"}

Leaves == UNCHANGED queue /\ (TakeInv => TakeInv')

(* Every step is one of the three.                                         *)
LEMMA StepRing ==
  ASSUME TypeOK, [Next]_vars
  PROVE  Moves \/ Enqueues \/ Leaves
<1> USE DEF TypeOK
<1>1. CASE PostMotion
  <2>1. PICK s \in Screen : /\ pointer' = [pos |-> posted', screen |-> s]
                            /\ enqueueScreen' = IF s # pointer.screen THEN s ELSE enqueueScreen
                            /\ Enqueue(TRUE, posted', posted', enqueueScreen')
    BY <1>1 DEF PostMotion
  <2>2. posted' \in Id /\ enqueueScreen' \in Screen /\ pc' = pc
    BY <1>1, <2>1, QueueAssumption DEF PostMotion, Id
  <2> QED  BY <2>1, <2>2 DEF Enqueues
<1>2. CASE PostDiscrete
  <2>1. posted' \in Id /\ 0 \in Id /\ pc' = pc
    BY <1>2, QueueAssumption DEF PostDiscrete, Id
  <2> QED  BY <1>2, <2>1 DEF PostDiscrete, Enqueues
<1>3. ASSUME NEW s \in Screen, ProcWarpPointer(s)  PROVE Moves \/ Enqueues \/ Leaves
  <2> DEFINE place == [pos |-> posted', screen |-> s]
  <2>1. posted' \in Id /\ place \in Place /\ place.pos \in Id /\ pc' = pc
    BY <1>3, QueueAssumption DEF ProcWarpPointer, Id, Place
  <2>2. CASE WarpCursor(place, posted')
    BY <2>1, <2>2, WarpCursorEnqueues DEF Enqueues
  <2>3. CASE NewCurrentScreen(place, posted')
    BY <2>1, <2>3, NewCurrentScreenEnqueues DEF Enqueues, Leaves, TakeInv, queue
  <2> QED  BY <1>3, <2>2, <2>3 DEF ProcWarpPointer
<1>4. CASE EnterScreen
  <2> DEFINE place == [pos |-> xe.pos, screen |-> dequeueScreen]
  <2>1. place \in Place /\ place.pos \in Id /\ xe.id \in Id
    BY DEF Place, Event
  <2>2. NewCurrentScreen(place, xe.id) /\ pc' = "loop"
    BY <1>4 DEF EnterScreen, Goto
  <2>3. CASE UNCHANGED queue
    BY <2>2, <2>3 DEF Leaves, TakeInv
  <2>4. CASE Enqueue(TRUE, xe.id, place.pos, enqueueScreen')
    BY <2>1, <2>2, <2>4, NewCurrentScreenEnqueues DEF Enqueues
  <2> QED  BY <2>1, <2>2, <2>3, <2>4, NewCurrentScreenEnqueues
<1>5. CASE Skip \/ Take
  BY <1>5 DEF Skip, Take, Advance, At, Goto, Moves
<1>6. CASE Enter \/ Loop \/ Compare \/ Switch \/ Point \/ Copy \/ Deliver
  BY <1>6 DEF Enter, Loop, Compare, Switch, Point, Copy, Deliver, At, Goto, Unshared,
              Leaves, TakeInv, queue
<1>7. CASE UNCHANGED vars
  BY <1>7 DEF vars, queue, Leaves, TakeInv
<1> QED
  BY <1>1, <1>2, <1>3, <1>4, <1>5, <1>6, <1>7 DEF Next, ProcessInputEvents

-----------------------------------------------------------------------------
(* xf86eqInit: the ring is empty.                                          *)
LEMMA InitQueueInv == Init => QueueInv
<1> SUFFICES ASSUME Init  PROVE QueueInv
  OBVIOUS
<1> USE QueueAssumption DEF Init
<1>1. 0 \in Id /\ 0 \in Slot  BY DEF Id, Slot
<1>2. Blank \in Event  BY <1>1 DEF Blank, Event
<1>3. pointer \in Place /\ sprite \in Place  BY <1>1 DEF Place
<1>4. TypeOK  BY <1>1, <1>2, <1>3 DEF TypeOK
<1> QED  BY <1>4 DEF QueueInv, TailInv, TakeInv

(* Indices, slots, screens and positions stay in range.                    *)
LEMMA StepType ==
  ASSUME QueueInv, [Next]_vars
  PROVE  TypeOK'
<1> USE DEF QueueInv
<1>1. /\ head' \in Slot /\ tail' \in Slot /\ events' \in [Slot -> Event]
      /\ lastMotion' \in BOOLEAN
  <2>1. CASE Moves     BY <2>1, RingSteps DEF Moves, TypeOK
  <2>2. CASE Enqueues  BY <2>2, EnqueueInv DEF Enqueues, TypeOK
  <2>3. CASE Leaves    BY <2>3 DEF Leaves, queue, TypeOK
  <2> QED  BY <2>1, <2>2, <2>3, StepRing
<1>2. posted' \in Id
  <2>1. posted \in Id  BY DEF TypeOK
  <2>2. CASE PostMotion \/ PostDiscrete \/ \E s \in Screen : ProcWarpPointer(s)
    <3>1. posted < MaxPosted /\ posted' = posted + 1
      BY <2>2, Zenon DEF PostMotion, PostDiscrete, ProcWarpPointer
    <3> QED  BY <2>1, <3>1, QueueAssumption DEF Id
  <2>3. CASE ProcessInputEvents \/ UNCHANGED vars
    <3>1. posted' = posted
      BY <2>3 DEF vars, ProcessInputEvents, Enter, Loop, Compare, Switch, Point, Skip,
                  EnterScreen, Copy, Take, Deliver, Advance, Unshared
    <3> QED  BY <2>1, <3>1
  <2> QED  BY <2>2, <2>3 DEF Next
<1>3. /\ pc' \in {"dispatch", "loop", "compare", "switch", "point", "skip", "enter",
                  "copy", "advance", "deliver"}
      /\ xe' \in Event
  BY DEF TypeOK, Next, vars, PostMotion, PostDiscrete, ProcWarpPointer,
         ProcessInputEvents, Enter, Loop, Compare, Switch, Point, Skip, EnterScreen,
         Copy, Take, Deliver, Advance, At, Goto
<1>4. /\ enqueueScreen' \in Screen /\ dequeueScreen' \in Screen
      /\ pointer' \in Place /\ sprite' \in Place
  <2>1. CASE PostMotion
    BY <1>2, <2>1 DEF TypeOK, Place, PostMotion
  <2>2. CASE PostDiscrete
    BY <2>2 DEF TypeOK, PostDiscrete
  <2>3. ASSUME NEW s \in Screen, ProcWarpPointer(s)
        PROVE  /\ enqueueScreen' \in Screen /\ dequeueScreen' \in Screen
               /\ pointer' \in Place /\ sprite' \in Place
    <3> DEFINE place == [pos |-> posted', screen |-> s]
    <3>1. place \in Place
      BY <1>2 DEF Place
    <3>2. CASE WarpCursor(place, posted') /\ sprite' = sprite
      BY <1>2, <3>1, <3>2, WarpCursorEnqueues DEF TypeOK
    <3>3. CASE NewCurrentScreen(place, posted')
      BY <1>2, <3>1, <3>3, NewCurrentScreenEnqueues
    <3> QED  BY <2>3, <3>2, <3>3 DEF ProcWarpPointer
  <2>4. CASE EnterScreen
    <3> DEFINE place == [pos |-> xe.pos, screen |-> dequeueScreen]
    <3>1. place \in Place /\ xe.id \in Id
      BY DEF TypeOK, Place, Event
    <3> QED  BY <2>4, <3>1, NewCurrentScreenEnqueues DEF EnterScreen
  <2>5. CASE Skip \/ Take \/ Enter \/ Loop \/ Compare \/ Point \/ Copy
    BY <2>5 DEF TypeOK, Skip, Take, Advance, Enter, Loop, Compare, Point, Copy, Unshared
  <2>6. CASE Switch
    BY <2>6 DEF TypeOK, Event, Switch
  <2>7. CASE Deliver
    BY <2>7 DEF TypeOK, Event, Place, Deliver, DisplayCursor
  <2>8. CASE UNCHANGED vars
    BY <2>8 DEF TypeOK, vars
  <2> QED
    BY <2>1, <2>2, <2>3, <2>4, <2>5, <2>6, <2>7, <2>8 DEF Next, ProcessInputEvents
<1> QED  BY <1>1, <1>2, <1>3, <1>4 DEF TypeOK

(* QueueInv is inductive.                                                  *)
LEMMA StepQueueInv ==
  ASSUME QueueInv, [Next]_vars
  PROVE  QueueInv'
<1> USE DEF QueueInv
<1>1. CASE Moves
  <2>1. TailInv'  BY <1>1 DEF Moves, TailInv, TakeInv, Prev
  <2>2. TakeInv'  BY <1>1 DEF Moves, TakeInv
  <2> QED  BY <2>1, <2>2, StepType
<1>2. CASE Enqueues
  <2>1. TailInv' /\ (head # tail => head' # tail')
    BY <1>2, EnqueueInv DEF Enqueues
  <2>2. TakeInv'  BY <1>2, <2>1 DEF Enqueues, TakeInv
  <2> QED  BY <2>1, <2>2, StepType
<1>3. CASE Leaves
  <2>1. TailInv'  BY <1>3 DEF Leaves, queue, TailInv, Prev
  <2> QED  BY <1>3, <2>1, StepType DEF Leaves
<1> QED  BY <1>1, <1>2, <1>3, StepRing

(* It holds in every reachable state.                                      *)
LEMMA QueueInvariance == Spec => []QueueInv
<1>1. QueueInv /\ [Next]_vars => QueueInv'  BY StepQueueInv
<1> QED  BY <1>1, InitQueueInv, PTL DEF Spec

(* head and tail of xf86EventQueue never leave the ring and its slots hold *)
(* events, whatever the SIGIO handler interrupts.                          *)
THEOREM TypeCorrect == Spec => []TypeOK
<1>1. QueueInv => TypeOK  BY DEF QueueInv
<1> QED  BY <1>1, QueueInvariance, PTL

(* A key or button event that xf86eqEnqueue accepted is in its slot, as it *)
(* was, until xf86eqProcessInputEvents has moved head past it.             *)
THEOREM NeverOverwrittenHolds == Spec => NeverOverwritten
<1> DEFINE Keeps ==
      \A i \in Slot : WaitsDiscrete(i) => events'[i] = events[i]
<1>1. QueueInv /\ [Next]_vars => [Keeps]_vars
  <2> SUFFICES ASSUME QueueInv, [Next]_vars  PROVE Keeps
    OBVIOUS
  <2>1. CASE Moves     BY <2>1 DEF Moves
  <2>2. CASE Enqueues  BY <2>2, EnqueueInv DEF Enqueues, QueueInv
  <2>3. CASE Leaves    BY <2>3 DEF Leaves, queue
  <2> QED  BY <2>1, <2>2, <2>3, StepRing DEF QueueInv
<1> QED
  BY <1>1, QueueInvariance, PTL DEF Spec, NeverOverwritten

-----------------------------------------------------------------------------
(* The stream of key and button events.  Slots are compared by how far     *)
(* they are from head: the ring keeps the order in which events arrived    *)
(* (OrderInv).  The event ProcessInputEvents has copied is the one at      *)
(* head, and of it only the position of a motion event may be out of date  *)
(* (CopyInv); the one it handles has a number (HandledInv).                *)
Far(i) == IF head <= i THEN i - head ELSE i + QueueSize - head

OrderInv ==
  /\ \A i \in Slot : WaitsDiscrete(i) => events[i].id \in 1 .. posted
  /\ \A i, j \in Slot :
       WaitsDiscrete(i) /\ WaitsDiscrete(j) /\ Far(i) < Far(j) => events[i].id < events[j].id

CopyInv ==
  pc = "advance" => /\ xe.motion = events[head].motion
                    /\ ~xe.motion => xe = events[head]

HandledInv == pc = "deliver" /\ ~xe.motion => xe.id \in 1 .. posted

StreamInv == QueueInv /\ OrderInv /\ CopyInv /\ HandledInv

(* What xf86eqEnqueue does to the slots that wait: nothing, a motion event *)
(* over the last one, or one more event behind the others.                 *)
Replaces(e) ==
  /\ e.motion /\ head # tail /\ events[Prev(tail)].motion
  /\ events' = [events EXCEPT ![Prev(tail)] = e]
  /\ UNCHANGED <<head, tail>>

Appends(e) ==
  /\ Succ(tail) # head
  /\ events' = [events EXCEPT ![tail] = e]
  /\ tail' = Succ(tail) /\ head' = head

LEMMA EnqueueCases ==
  ASSUME TypeOK, TailInv,
         NEW motion \in BOOLEAN, NEW id \in Id, NEW pos \in Id, NEW screen \in Screen,
         Enqueue(motion, id, pos, screen)
  PROVE  \/ UNCHANGED queue
         \/ \E e \in Event : e.motion = motion /\ e.id = id /\ (Replaces(e) \/ Appends(e))
<1>1. PICK t \in Time :
        LET e    == [motion |-> motion, id |-> id, pos |-> pos,
                     screen |-> screen, time |-> NotBefore(t)]
            slot == IF Compresses(motion) THEN Prev(tail) ELSE tail
        IN IF ~Compresses(motion) /\ Succ(tail) = head
             THEN UNCHANGED queue
             ELSE /\ events' = [events EXCEPT ![slot] = e]
                  /\ tail' = IF Compresses(motion) THEN tail ELSE Succ(tail)
                  /\ lastMotion' = motion
                  /\ head' = head
  BY DEF Enqueue
<1> DEFINE e == [motion |-> motion, id |-> id, pos |-> pos,
                 screen |-> screen, time |-> NotBefore(t)]
<1>2. NotBefore(t) \in Time
  BY QueueAssumption DEF NotBefore
<1>3. e \in Event /\ e.motion = motion /\ e.id = id
  BY <1>2 DEF Event
<1>4. CASE ~Compresses(motion) /\ Succ(tail) = head
  BY <1>1, <1>4
<1>5. CASE Compresses(motion)
  <2>1. /\ events' = [events EXCEPT ![Prev(tail)] = e]
        /\ UNCHANGED <<head, tail>>
    BY <1>1, <1>5 DEF e
  <2> HIDE DEF e
  <2>2. motion /\ lastMotion /\ tail # head
    BY <1>5 DEF Compresses
  <2>3. e.motion /\ events[Prev(tail)].motion
    BY <1>3, <2>2 DEF TailInv
  <2>4. Replaces(e)
    BY <2>1, <2>2, <2>3 DEF Replaces
  <2> QED  BY <1>3, <2>4
<1>6. CASE ~Compresses(motion) /\ Succ(tail) # head
  <2>1. /\ events' = [events EXCEPT ![tail] = e]
        /\ tail' = Succ(tail) /\ head' = head
    BY <1>1, <1>6 DEF e
  <2> HIDE DEF e
  <2>2. Appends(e)
    BY <1>6, <2>1 DEF Appends
  <2> QED  BY <1>3, <2>2
<1> QED  BY <1>4, <1>5, <1>6

(* Distances from head tell the slots apart, the one at head is nearest,   *)
(* and the one at tail is behind all that wait.                            *)
LEMMA Distances ==
  ASSUME head \in Slot, tail \in Slot
  PROVE  /\ \A i \in Slot : Far(i) \in 0 .. QueueSize - 1
         /\ \A i, j \in Slot : Far(i) = Far(j) => i = j
         /\ Far(head) = 0
         /\ head # tail => Waiting(head)
         /\ \A i \in Slot : Waiting(i) => Far(i) < Far(tail)
<1> USE QueueAssumption DEF Slot, Far, Waiting
<1>1. \A i \in Slot : Far(i) \in 0 .. QueueSize - 1  OBVIOUS
<1>2. \A i, j \in Slot : Far(i) = Far(j) => i = j  OBVIOUS
<1>3. Far(head) = 0 /\ (head # tail => Waiting(head))  OBVIOUS
<1>4. \A i \in Slot : Waiting(i) => Far(i) < Far(tail)  OBVIOUS
<1> QED  BY <1>1, <1>2, <1>3, <1>4

(* One more event: its slot waits as well, the last.                       *)
LEMMA AppendWaiting ==
  ASSUME head \in Slot, tail \in Slot, Succ(tail) # head, tail' = Succ(tail), head' = head
  PROVE  /\ \A i \in Slot : Waiting(i)' <=> Waiting(i) \/ i = tail
         /\ \A i \in Slot : Far(i)' = Far(i)
BY QueueAssumption DEF Slot, Succ, Waiting, Far

(* head moves past its event: the others wait on, in the same order.       *)
LEMMA MoveWaiting ==
  ASSUME head \in Slot, tail \in Slot, head # tail, head' = Succ(head), tail' = tail
  PROVE  /\ \A i \in Slot : Waiting(i)' <=> Waiting(i) /\ i # head
         /\ \A i \in Slot : i # head => Far(i)' = Far(i) - 1
BY QueueAssumption DEF Slot, Succ, Waiting, Far

(* A motion event, or one that is tossed, leaves the stream alone.         *)
LEMMA MotionPasses ==
  ASSUME TypeOK, OrderInv, NEW e \in Event, Replaces(e) \/ (Appends(e) /\ e.motion),
         posted' \in Nat, posted <= posted'
  PROVE  Pending' = Pending /\ OrderInv'
<1>1. head \in Slot /\ tail \in Slot /\ events \in [Slot -> Event]
  BY DEF TypeOK
<1>2. \A i \in Slot : WaitsDiscrete(i)' <=> WaitsDiscrete(i)
  <2>1. CASE Replaces(e)
    <3>1. Prev(tail) \in Slot  BY <1>1, RingSteps
    <3>2. \A i \in Slot : Waiting(i)' <=> Waiting(i)
      BY <2>1 DEF Replaces, Waiting
    <3>3. \A i \in Slot : events'[i].motion <=> events[i].motion
      BY <1>1, <2>1, <3>1 DEF Replaces
    <3> QED  BY <3>2, <3>3 DEF WaitsDiscrete
  <2>2. CASE Appends(e) /\ e.motion
    <3>1. \A i \in Slot : Waiting(i)' <=> Waiting(i) \/ i = tail
      BY <1>1, <2>2, AppendWaiting DEF Appends
    <3>2. ~Waiting(tail)  BY <1>1, WaitingEnds
    <3>3. events'[tail].motion /\ \A i \in Slot : i # tail => events'[i] = events[i]
      BY <1>1, <2>2 DEF Appends
    <3> QED  BY <3>1, <3>2, <3>3 DEF WaitsDiscrete
  <2> QED  BY <2>1, <2>2
<1>3. \A i \in Slot : WaitsDiscrete(i) => events'[i] = events[i]
  <2>1. CASE Replaces(e)
    BY <1>1, <2>1, RingSteps DEF Replaces, WaitsDiscrete
  <2>2. CASE Appends(e)
    BY <1>1, <2>2, WaitingEnds DEF Appends, WaitsDiscrete
  <2> QED  BY <2>1, <2>2
<1>4. \A i \in Slot : Far(i)' = Far(i)
  BY DEF Replaces, Appends, Far
<1>5. Pending' = Pending
  BY <1>2, <1>3 DEF Pending
<1>6. OrderInv'
  <2>1. \A i \in Slot : WaitsDiscrete(i)' => events'[i].id \in 1 .. posted'
    <3>1. posted \in Nat  BY QueueAssumption DEF TypeOK, Id
    <3> QED  BY <1>2, <1>3, <3>1 DEF OrderInv
  <2>2. \A i, j \in Slot : WaitsDiscrete(i)' /\ WaitsDiscrete(j)' /\ Far(i)' < Far(j)'
                             => events'[i].id < events'[j].id
    BY <1>2, <1>3, <1>4 DEF OrderInv
  <2> QED  BY <2>1, <2>2 DEF OrderInv
<1> QED  BY <1>5, <1>6

(* A key or button event with the next number joins the stream.            *)
LEMMA DiscreteJoins ==
  ASSUME TypeOK, OrderInv, NEW e \in Event, Appends(e), ~e.motion,
         posted' = posted + 1, e.id = posted'
  PROVE  Pending' = Pending \cup {posted'} /\ OrderInv'
<1>1. /\ head \in Slot /\ tail \in Slot /\ events \in [Slot -> Event] /\ posted \in Nat
      /\ posted' \in Nat
  BY QueueAssumption DEF TypeOK, Id
<1>2. /\ \A i \in Slot : Waiting(i)' <=> Waiting(i) \/ i = tail
      /\ \A i \in Slot : Far(i)' = Far(i)
  BY <1>1, AppendWaiting DEF Appends
<1>3. /\ events'[tail] = e
      /\ \A i \in Slot : i # tail => events'[i] = events[i]
  BY <1>1 DEF Appends
<1>4. ~Waiting(tail)  BY <1>1, WaitingEnds
<1>5. \A i \in Slot : WaitsDiscrete(i)' <=> WaitsDiscrete(i) \/ i = tail
  BY <1>2, <1>3, <1>4 DEF WaitsDiscrete
<1>6. \A i \in Slot : WaitsDiscrete(i) => i # tail /\ events'[i] = events[i]
  BY <1>3, <1>4 DEF WaitsDiscrete
<1>7. Pending' = Pending \cup {posted'}
  <2>1. Pending' = {events'[i].id : i \in {j \in Slot : WaitsDiscrete(j)'}}
    BY DEF Pending
  <2>2. {j \in Slot : WaitsDiscrete(j)'} = {j \in Slot : WaitsDiscrete(j)} \cup {tail}
    BY <1>1, <1>5
  <2>3. events'[tail].id = posted'
    BY <1>3
  <2> QED  BY <1>6, <2>1, <2>2, <2>3 DEF Pending
<1>8. \A i \in Slot : WaitsDiscrete(i)' => events'[i].id \in 1 .. posted'
  BY <1>1, <1>3, <1>5, <1>6 DEF OrderInv
<1>9. ASSUME NEW i \in Slot, NEW j \in Slot,
             WaitsDiscrete(i)', WaitsDiscrete(j)', Far(i)' < Far(j)'
      PROVE  events'[i].id < events'[j].id
  <2>1. Far(i) < Far(j)  BY <1>2, <1>9
  <2>2. CASE i = tail
    <3>1. j # tail  BY <1>1, <2>1, <2>2, Distances
    <3>2. Far(j) < Far(i)
      BY <1>1, <1>5, <1>9, <2>2, <3>1, Distances DEF WaitsDiscrete
    <3>3. Far(i) \in Int /\ Far(j) \in Int  BY <1>1, Distances
    <3> QED  BY <2>1, <3>2, <3>3
  <2>3. CASE i # tail /\ j = tail
    <3>1. events'[i].id \in 1 .. posted  BY <1>5, <1>6, <1>9, <2>3 DEF OrderInv
    <3>2. events'[j].id = posted + 1  BY <1>3, <2>3
    <3> QED  BY <1>1, <3>1, <3>2
  <2>4. CASE i # tail /\ j # tail
    BY <1>5, <1>6, <1>9, <2>1, <2>4 DEF OrderInv
  <2> QED  BY <2>2, <2>3, <2>4
<1> QED
  BY <1>7, <1>8, <1>9 DEF OrderInv

(* The event at head goes: it was the oldest of the stream, or no part of  *)
(* it.                                                                     *)
LEMMA HeadGoes ==
  ASSUME TypeOK, OrderInv, head # tail, Moves, posted' = posted
  PROVE  /\ OrderInv'
         /\ events[head].motion => Pending' = Pending
         /\ ~events[head].motion => /\ Stream!Oldest(events[head].id)
                                    /\ Pending' = Pending \ {events[head].id}
<1>1. /\ head \in Slot /\ tail \in Slot /\ events \in [Slot -> Event]
      /\ \A i \in Slot : Far(i) \in Int
  BY Distances DEF TypeOK
<1>2. head' = Succ(head) /\ UNCHANGED <<tail, events>>
  BY DEF Moves
<1>3. /\ \A i \in Slot : Waiting(i)' <=> Waiting(i) /\ i # head
      /\ \A i \in Slot : i # head => Far(i)' = Far(i) - 1
  BY <1>1, <1>2, MoveWaiting
<1>4. \A i \in Slot : WaitsDiscrete(i)' <=> WaitsDiscrete(i) /\ i # head
  BY <1>2, <1>3 DEF WaitsDiscrete
<1>5. Pending' = {events[i].id : i \in {j \in Slot : WaitsDiscrete(j) /\ j # head}}
  BY <1>2, <1>4 DEF Pending
<1>6. OrderInv'
  <2>1. \A i \in Slot : WaitsDiscrete(i)' => events'[i].id \in 1 .. posted'
    BY <1>2, <1>4 DEF OrderInv
  <2>2. \A i, j \in Slot : WaitsDiscrete(i)' /\ WaitsDiscrete(j)' /\ Far(i)' < Far(j)'
                             => events'[i].id < events'[j].id
    BY <1>1, <1>2, <1>3, <1>4 DEF OrderInv
  <2> QED  BY <2>1, <2>2 DEF OrderInv
<1>7. ASSUME events[head].motion  PROVE Pending' = Pending
  BY <1>5, <1>7 DEF Pending, WaitsDiscrete
<1>8. ASSUME ~events[head].motion
      PROVE  /\ Stream!Oldest(events[head].id)
             /\ Pending' = Pending \ {events[head].id}
  <2>1. WaitsDiscrete(head)
    BY <1>1, <1>8, Distances DEF WaitsDiscrete
  <2>2. \A i \in Slot : WaitsDiscrete(i) /\ i # head => events[head].id < events[i].id
    <3> SUFFICES ASSUME NEW i \in Slot, WaitsDiscrete(i), i # head
                 PROVE  events[head].id < events[i].id
      OBVIOUS
    <3>1. Far(head) < Far(i)
      <4>1. Far(head) = 0 /\ Far(i) # Far(head) /\ Far(i) \in 0 .. QueueSize - 1
        BY <1>1, Distances
      <4> QED  BY <4>1, QueueAssumption
    <3> QED  BY <1>1, <2>1, <3>1 DEF OrderInv
  <2>3. \A i \in Slot : WaitsDiscrete(i) => events[i].id \in Nat
    BY <1>1, QueueAssumption DEF Event, Id
  <2>4. Stream!Oldest(events[head].id)
    <3>1. events[head].id \in Pending
      BY <1>1, <2>1 DEF Pending
    <3>2. \A f \in Pending : events[head].id <= f
      BY <1>1, <2>1, <2>2, <2>3 DEF Pending
    <3> QED  BY <3>1, <3>2 DEF Stream!Oldest
  <2>5. \A i \in Slot : WaitsDiscrete(i) /\ i # head => events[i].id # events[head].id
    BY <1>1, <2>1, <2>2, <2>3
  <2>6. Pending' = Pending \ {events[head].id}
    BY <1>1, <1>5, <2>5 DEF Pending
  <2> QED  BY <2>4, <2>6
<1> QED  BY <1>6, <1>7, <1>8

(* A motion event is posted or put in for a pointer that moved.            *)
LEMMA MotionKeeps ==
  ASSUME TypeOK, TailInv, OrderInv, posted' \in Nat, posted <= posted',
         NEW id \in Id, NEW pos \in Id, NEW screen \in Screen,
         UNCHANGED queue \/ Enqueue(TRUE, id, pos, screen)
  PROVE  Pending' = Pending /\ OrderInv'
<1>1. CASE UNCHANGED queue
  <2>1. UNCHANGED <<head, tail, events>>  BY <1>1 DEF queue
  <2>2. /\ \A i \in Slot : WaitsDiscrete(i)' <=> WaitsDiscrete(i)
        /\ \A i \in Slot : Far(i)' = Far(i)
    BY <2>1 DEF WaitsDiscrete, Waiting, Far
  <2>3. Pending' = Pending  BY <2>1, <2>2 DEF Pending
  <2>4. posted \in Nat  BY QueueAssumption DEF TypeOK, Id
  <2>5. \A i \in Slot : WaitsDiscrete(i)' => events'[i].id \in 1 .. posted'
    BY <2>1, <2>2, <2>4 DEF OrderInv
  <2>6. \A i, j \in Slot : WaitsDiscrete(i)' /\ WaitsDiscrete(j)' /\ Far(i)' < Far(j)'
                             => events'[i].id < events'[j].id
    BY <2>1, <2>2 DEF OrderInv
  <2> QED  BY <2>3, <2>5, <2>6 DEF OrderInv
<1>2. ASSUME NEW e \in Event, e.motion, Replaces(e) \/ Appends(e)
      PROVE  Pending' = Pending /\ OrderInv'
  BY <1>2, MotionPasses
<1> QED  BY <1>1, <1>2, EnqueueCases

(* No event that comes in makes the copy of the one at head wrong.         *)
LEMMA CopyKept ==
  ASSUME TypeOK, TakeInv, CopyInv, UNCHANGED <<pc, xe>>,
         UNCHANGED queue \/ \E e \in Event : Replaces(e) \/ Appends(e)
  PROVE  CopyInv'
<1> SUFFICES ASSUME pc = "advance"
             PROVE  xe'.motion = events'[head'].motion /\ (~xe'.motion => xe' = events'[head'])
  BY DEF CopyInv
<1>1. /\ head \in Slot /\ tail \in Slot /\ events \in [Slot -> Event] /\ head # tail
      /\ xe.motion = events[head].motion /\ (~xe.motion => xe = events[head])
  BY DEF TypeOK, TakeInv, CopyInv
<1>2. CASE UNCHANGED queue
  BY <1>1, <1>2 DEF queue
<1>3. ASSUME NEW e \in Event, Appends(e)
      PROVE  xe'.motion = events'[head'].motion /\ (~xe'.motion => xe' = events'[head'])
  <2>1. events'[head'] = events[head]  BY <1>1, <1>3 DEF Appends
  <2> QED  BY <1>1, <2>1
<1>4. ASSUME NEW e \in Event, Replaces(e)
      PROVE  xe'.motion = events'[head'].motion /\ (~xe'.motion => xe' = events'[head'])
  <2>1. CASE head = Prev(tail)
    <3>1. events'[head'] = e /\ e.motion /\ events[head].motion
      BY <1>1, <1>4, <2>1 DEF Replaces
    <3>2. e.motion \in BOOLEAN /\ xe.motion \in BOOLEAN
      BY DEF TypeOK, Event
    <3> QED  BY <1>1, <3>1, <3>2
  <2>2. CASE head # Prev(tail)
    <3>1. events'[head'] = events[head]
      BY <1>1, <1>4, <2>2 DEF Replaces
    <3> QED  BY <1>1, <3>1
  <2> QED  BY <2>1, <2>2
<1> QED  BY <1>2, <1>3, <1>4

(* xf86eqInit: nothing has arrived.                                        *)
LEMMA InitStream == Init => StreamInv /\ Stream!Init
<1> SUFFICES ASSUME Init  PROVE StreamInv /\ Stream!Init
  OBVIOUS
<1>1. \A i \in Slot : ~WaitsDiscrete(i)
  BY QueueAssumption DEF Init, WaitsDiscrete, Waiting, Slot
<1>2. OrderInv  BY <1>1 DEF OrderInv
<1>3. CopyInv /\ HandledInv  BY DEF Init, CopyInv, HandledInv
<1>4. Stream!Init  BY <1>1 DEF Init, Stream!Init, Pending, Handled
<1> QED  BY <1>2, <1>3, <1>4, InitQueueInv DEF StreamInv

(* What a step makes of the stream of key and button events.               *)
StreamStep == OrderInv' /\ CopyInv' /\ HandledInv' /\ [Stream!Next]_Stream!vars

LEMMA PostMotionStream ==
  ASSUME StreamInv, PostMotion  PROVE StreamStep
<1> USE DEF StreamInv, QueueInv
<1>1. PICK s \in Screen : /\ pointer' = [pos |-> posted', screen |-> s]
                          /\ enqueueScreen' = IF s # pointer.screen THEN s ELSE enqueueScreen
                          /\ Enqueue(TRUE, posted', posted', enqueueScreen')
  BY DEF PostMotion
<1>2. /\ posted \in Nat /\ posted' = posted + 1 /\ posted' \in Id /\ posted' \in Nat
      /\ posted <= posted' /\ enqueueScreen' \in Screen /\ UNCHANGED <<pc, xe>>
  BY <1>1, QueueAssumption DEF PostMotion, TypeOK, Id
<1>3. Pending' = Pending /\ OrderInv'
  BY <1>1, <1>2, MotionKeeps
<1>4. UNCHANGED queue \/ \E e \in Event : Replaces(e) \/ Appends(e)
  BY <1>1, <1>2, EnqueueCases
<1>5. CopyInv'  BY <1>2, <1>4, CopyKept
<1>6. HandledInv'  BY <1>2 DEF HandledInv
<1>7. Stream!Pass  BY <1>2, <1>3 DEF Stream!Pass, Handled
<1> QED  BY <1>3, <1>5, <1>6, <1>7 DEF StreamStep, Stream!Next

LEMMA PostDiscreteStream ==
  ASSUME StreamInv, PostDiscrete  PROVE StreamStep
<1> USE DEF StreamInv, QueueInv
<1>1. /\ posted \in Nat /\ posted' = posted + 1 /\ posted' \in Id /\ posted' \in Nat
      /\ posted <= posted' /\ 0 \in Id /\ enqueueScreen \in Screen /\ UNCHANGED <<pc, xe>>
  BY QueueAssumption DEF PostDiscrete, TypeOK, Id
<1>2. \/ UNCHANGED queue
      \/ \E e \in Event : e.motion = FALSE /\ e.id = posted' /\ (Replaces(e) \/ Appends(e))
  <2>1. Enqueue(FALSE, posted', 0, enqueueScreen)  BY DEF PostDiscrete
  <2> QED  BY <1>1, <2>1, EnqueueCases
<1>3. CopyInv'  BY <1>1, <1>2, CopyKept
<1>4. HandledInv' /\ Handled' = Handled  BY <1>1 DEF HandledInv, Handled
\* The queue is full.
<1>5. CASE UNCHANGED queue
  <2>1. Pending' = Pending /\ OrderInv'
    BY <1>1, <1>5, MotionKeeps
  <2>2. Stream!Pass  BY <1>1, <1>4, <2>1 DEF Stream!Pass
  <2> QED  BY <1>3, <1>4, <2>1, <2>2 DEF StreamStep, Stream!Next
<1>6. ASSUME NEW e \in Event, e.motion = FALSE, e.id = posted', Replaces(e) \/ Appends(e)
      PROVE  StreamStep
  <2>1. Appends(e)  BY <1>6 DEF Replaces
  <2>2. Pending' = Pending \cup {posted'} /\ OrderInv'
    BY <1>1, <1>6, <2>1, DiscreteJoins
  <2>3. Stream!Accept  BY <1>1, <1>4, <2>2 DEF Stream!Accept
  <2> QED  BY <1>3, <1>4, <2>2, <2>3 DEF StreamStep, Stream!Next
<1> QED  BY <1>2, <1>5, <1>6

LEMMA WarpStream ==
  ASSUME StreamInv, NEW s \in Screen, ProcWarpPointer(s)  PROVE StreamStep
<1> USE DEF StreamInv, QueueInv
<1> DEFINE place == [pos |-> posted', screen |-> s]
<1>1. /\ posted \in Nat /\ posted' = posted + 1 /\ posted' \in Id /\ posted' \in Nat
      /\ posted <= posted' /\ UNCHANGED <<pc, xe>> /\ pc = "dispatch"
  BY QueueAssumption DEF ProcWarpPointer, TypeOK, Id
<1>2. place \in Place /\ place.pos \in Id
  BY <1>1 DEF Place
<1>3. \E screen \in Screen : UNCHANGED queue \/ Enqueue(TRUE, posted', place.pos, screen)
  <2>1. CASE WarpCursor(place, posted')
    BY <1>1, <1>2, <2>1, WarpCursorEnqueues
  <2>2. CASE NewCurrentScreen(place, posted')
    BY <1>1, <1>2, <2>2, NewCurrentScreenEnqueues
  <2> QED  BY <2>1, <2>2 DEF ProcWarpPointer
<1>4. Pending' = Pending /\ OrderInv'
  <2> HIDE DEF place
  <2> QED  BY <1>1, <1>2, <1>3, MotionKeeps
<1>5. CopyInv' /\ HandledInv' /\ Handled' = Handled
  BY <1>1 DEF CopyInv, HandledInv, Handled
<1>6. Stream!Pass  BY <1>1, <1>4, <1>5 DEF Stream!Pass
<1> QED  BY <1>4, <1>5, <1>6 DEF StreamStep, Stream!Next

LEMMA EnterScreenStream ==
  ASSUME StreamInv, EnterScreen  PROVE StreamStep
<1> USE DEF StreamInv, QueueInv
<1> DEFINE place == [pos |-> xe.pos, screen |-> dequeueScreen]
<1>1. /\ posted \in Nat /\ posted' = posted /\ posted' \in Nat /\ posted <= posted'
      /\ pc = "enter" /\ pc' = "loop" /\ xe.id \in Id
  BY QueueAssumption DEF EnterScreen, TypeOK, Id, Event, At, Goto
<1>2. place \in Place /\ place.pos \in Id
  BY DEF Place, TypeOK, Event
<1>3. \E screen \in Screen : UNCHANGED queue \/ Enqueue(TRUE, xe.id, place.pos, screen)
  <2>1. NewCurrentScreen(place, xe.id)  BY DEF EnterScreen
  <2> QED  BY <1>1, <1>2, <2>1, NewCurrentScreenEnqueues
<1>4. Pending' = Pending /\ OrderInv'
  <2> HIDE DEF place
  <2> QED  BY <1>1, <1>2, <1>3, MotionKeeps
<1>5. CopyInv' /\ HandledInv' /\ Handled' = Handled
  BY <1>1 DEF CopyInv, HandledInv, Handled
<1> QED  BY <1>1, <1>4, <1>5 DEF StreamStep, Stream!vars

(* xf86eqProcessInputEvents throws the event away that took it to another  *)
(* screen.                                                                 *)
LEMMA SkipStream ==
  ASSUME StreamInv, Skip  PROVE StreamStep
<1> USE DEF StreamInv, QueueInv
<1>1. pc = "skip" /\ pc' = "enter" /\ posted' = posted /\ head # tail /\ Moves
  BY DEF Skip, Advance, At, Goto, Moves, TakeInv
<1>2. /\ OrderInv'
      /\ events[head].motion => Pending' = Pending
      /\ ~events[head].motion => /\ Stream!Oldest(events[head].id)
                                 /\ Pending' = Pending \ {events[head].id}
  BY <1>1, HeadGoes
<1>3. CopyInv' /\ HandledInv' /\ Handled' = 0 /\ Handled = 0
  BY <1>1 DEF CopyInv, HandledInv, Handled
<1>4. CASE events[head].motion
  BY <1>1, <1>2, <1>3, <1>4 DEF StreamStep, Stream!vars
<1>5. CASE ~events[head].motion
  <2>1. events[head].id \in Pending  BY <1>2, <1>5 DEF Stream!Oldest
  <2>2. Stream!Discard  BY <1>1, <1>2, <1>3, <1>5, <2>1 DEF Stream!Discard
  <2> QED  BY <1>2, <1>3, <2>2 DEF StreamStep, Stream!Next
<1> QED  BY <1>4, <1>5

LEMMA TakeStream ==
  ASSUME StreamInv, Take  PROVE StreamStep
<1> USE DEF StreamInv, QueueInv
<1>1. /\ pc = "advance" /\ pc' = "deliver" /\ UNCHANGED <<xe, posted>>
      /\ head # tail /\ Moves
  BY DEF Take, Advance, At, Goto, Moves, TakeInv
<1>2. /\ OrderInv'
      /\ events[head].motion => Pending' = Pending
      /\ ~events[head].motion => /\ Stream!Oldest(events[head].id)
                                 /\ Pending' = Pending \ {events[head].id}
  BY <1>1, HeadGoes
<1>3. xe.motion = events[head].motion /\ (~xe.motion => xe = events[head])
  BY <1>1 DEF CopyInv
<1>4. CopyInv' /\ Handled = 0
  BY <1>1 DEF CopyInv, Handled
<1>5. CASE xe.motion
  <2>1. HandledInv' /\ Handled' = 0  BY <1>1, <1>5 DEF HandledInv, Handled
  <2> QED  BY <1>1, <1>2, <1>3, <1>4, <1>5, <2>1 DEF StreamStep, Stream!vars
<1>6. CASE ~xe.motion
  <2>1. Handled' = events[head].id  BY <1>1, <1>3, <1>6 DEF Handled
  <2>2. /\ Stream!Oldest(events[head].id) /\ events[head].id \in Pending
        /\ Pending' = Pending \ {events[head].id}
    BY <1>2, <1>3, <1>6 DEF Stream!Oldest
  <2>3. Stream!Take  BY <1>1, <1>4, <2>1, <2>2 DEF Stream!Take
  <2>4. WaitsDiscrete(head) /\ head \in Slot
    BY <1>1, <1>3, <1>6, Distances DEF TypeOK, WaitsDiscrete
  <2>5. xe.id \in 1 .. posted  BY <1>3, <1>6, <2>4 DEF OrderInv
  <2>6. HandledInv'  BY <1>1, <2>5 DEF HandledInv
  <2> QED  BY <1>2, <1>4, <2>3, <2>6 DEF StreamStep, Stream!Next
<1> QED  BY <1>5, <1>6

(* The other steps of xf86eqProcessInputEvents leave the queue alone.      *)
LEMMA QuietStream ==
  ASSUME StreamInv, UNCHANGED <<queue, posted>>  PROVE Pending' = Pending /\ OrderInv'
<1>1. UNCHANGED <<head, tail, events, posted>>  BY DEF queue
<1>2. /\ \A i \in Slot : WaitsDiscrete(i)' <=> WaitsDiscrete(i)
      /\ \A i \in Slot : Far(i)' = Far(i)
  BY <1>1 DEF WaitsDiscrete, Waiting, Far
<1>3. Pending' = Pending  BY <1>1, <1>2 DEF Pending
<1>4. OrderInv'  BY <1>1, <1>2 DEF StreamInv, OrderInv
<1> QED  BY <1>3, <1>4

LEMMA OtherStream ==
  ASSUME StreamInv,
         Enter \/ Loop \/ Compare \/ Switch \/ Point \/ Copy \/ Deliver \/ UNCHANGED vars
  PROVE  StreamStep
<1> USE DEF StreamInv, QueueInv
<1>1. Pending' = Pending /\ OrderInv' /\ posted' = posted
  <2>1. UNCHANGED <<queue, posted>>
    BY DEF Enter, Loop, Compare, Switch, Point, Copy, Deliver, Unshared, vars, queue
  <2> QED  BY <2>1, QuietStream
<1>2. CASE Enter \/ Loop \/ Compare \/ Switch \/ Point
  <2>1. CopyInv' /\ HandledInv' /\ Handled' = 0 /\ Handled = 0
    BY <1>2 DEF Enter, Loop, Compare, Switch, Point, At, Goto, CopyInv, HandledInv, Handled
  <2> QED  BY <1>1, <2>1 DEF StreamStep, Stream!vars
<1>3. CASE Copy
  <2>1. CopyInv' /\ HandledInv' /\ Handled' = 0 /\ Handled = 0
    BY <1>3 DEF Copy, Unshared, queue, At, Goto, CopyInv, HandledInv, Handled
  <2> QED  BY <1>1, <2>1 DEF StreamStep, Stream!vars
<1>4. CASE Deliver
  <2>1. CopyInv' /\ HandledInv' /\ Handled' = 0 /\ pc = "deliver"
    BY <1>4 DEF Deliver, At, Goto, CopyInv, HandledInv, Handled
  <2>2. CASE xe.motion
    BY <1>1, <2>1, <2>2 DEF Handled, StreamStep, Stream!vars
  <2>3. CASE ~xe.motion
    <3>1. Handled # 0  BY <2>1, <2>3 DEF HandledInv, Handled
    <3>2. Stream!Finish  BY <1>1, <2>1, <3>1 DEF Stream!Finish
    <3> QED  BY <1>1, <2>1, <3>2 DEF StreamStep, Stream!Next
  <2> QED  BY <2>2, <2>3
<1>5. CASE UNCHANGED vars
  <2>1. CopyInv' /\ HandledInv' /\ Handled' = Handled
    BY <1>5 DEF vars, CopyInv, HandledInv, Handled
  <2> QED  BY <1>1, <2>1 DEF StreamStep, Stream!vars
<1> QED  BY <1>2, <1>3, <1>4, <1>5

(* The ring of xf86eqEnqueue and xf86eqProcessInputEvents, of any size and *)
(* interrupted anywhere, implements the stream: no key or button event     *)
(* that was accepted is lost, taken twice, or taken before an older one.   *)
THEOREM QueueIsStream == Spec => ImplementsStream
<1>1. StreamInv /\ [Next]_vars => StreamInv' /\ [Stream!Next]_Stream!vars
  <2> SUFFICES ASSUME StreamInv, [Next]_vars
               PROVE  StreamInv' /\ [Stream!Next]_Stream!vars
    OBVIOUS
  <2>1. StreamStep
    BY PostMotionStream, PostDiscreteStream, WarpStream, EnterScreenStream, SkipStream,
       TakeStream, OtherStream DEF Next, ProcessInputEvents
  <2>2. QueueInv'  BY StepQueueInv DEF StreamInv
  <2> QED  BY <2>1, <2>2 DEF StreamInv, StreamStep
<1> QED
  BY <1>1, InitStream, PTL DEF Spec, ImplementsStream, Stream!Spec
=============================================================================
