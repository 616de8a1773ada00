---------------------------- MODULE DRIDrawables ----------------------------
(***************************************************************************)
(* Direct rendering to windows: the table of drawables that the X server   *)
(* shares with its clients (GL/dri/dri.c), the stamps by which a client    *)
(* learns that a window has changed (lib/GL/mesa), and the drawable lock,  *)
(* a spin lock (xf86drm.h).  The hardware lock is used as RobustLock       *)
(* promises it.                                                            *)
(***************************************************************************)
EXTENDS Integers, FiniteSets

CONSTANTS
  Server,    \* the X server
  Clients,   \* direct rendering clients
  Windows,
  None,
  Setups,    \* of which a behaviour has one
  Modulus,   \* number of values of a stamp
  Start,     \* the first stamp of a behaviour
  MaxStamps  \* bound: after so many stamps no window changes

\* What may go wrong: clients that die, clients that are stopped for longer
\* than the server's patience, windows that are destroyed.
Fault == {"death", "stall", "destroy"}

\* maxDrawableTableEntry, what goes wrong, and the window of each client.
Setup == [size : Nat \ {0}, faults : SUBSET Fault, target : [Clients -> Windows]]

ASSUME DRIAssumption ==
  /\ Server \notin Clients /\ None \notin Clients \cup Windows \cup {Server}
  /\ IsFiniteSet(Clients) /\ IsFiniteSet(Windows)
  /\ Setups \subseteq Setup
  /\ Modulus \in Nat \ {0} /\ Start \in 0 .. Modulus - 1 /\ MaxStamps \in Nat
  /\ \A s \in Setups : MaxStamps + (s.size + 1) * (Cardinality(Windows) + 1) < Modulus

Proc == Clients \cup {Server}
Stamps == 0 .. Modulus - 1

VARIABLES
  setup,  \* the setup of this behaviour
  owner, inside, alive, \* the hardware lock
  spin,   \* the word of the drawable lock
  phase,  \* where the server is
  change, \* the windows whose clip lists the server is changing
  doomed, \* the window that is being destroyed, or None
  win,    \* the windows
  table,  \* DRIDrawables
  stamp,  \* the stamps of the shared table
  next,   \* DRIDrawableValidationStamp
  pc,     \* where each client is
  info    \* what each client knows of its window

lock == <<owner, inside, alive>>
dri == <<win, table, stamp, next>>
state == <<lock, spin, phase, change, doomed, dri, pc, info>>
vars == <<setup, state>>

Lock == INSTANCE RobustLock WITH NoProc <- None

TableSize == setup.size
Target(c) == setup.target[c]
Fails(fault) == fault \in setup.faults
Entries == 0 .. TableSize - 1

Phases == {"asleep", "awake", "spinning", "locking", "changing", "unlocking"}
Places == {"out", "idle", "lock", "check", "render", "spin", "held", "freeing",
           "ask", "spinAgain", "heldAgain", "freeingAgain", "dead"}

\* A window has a DRI private if refs is not zero.
Window == [there : BOOLEAN, refs : Nat, index : Entries \cup {-1}]

\* entry is the one that pStamp points to; rects tells whether the clip list
\* is the window's, and single whether it was taken to be the only window.
Info == [index : Entries, stamp : Stamps, entry : Entries \cup {-1},
         rects : {"old", "current"}, single : BOOLEAN]

TypeOK ==
  /\ setup \in Setups
  /\ Lock!TypeOK
  /\ spin \in {0, 1} /\ phase \in Phases
  /\ change \subseteq Windows /\ doomed \in Windows \cup {None}
  /\ win \in [Windows -> Window]
  /\ table \in [Entries -> Windows \cup {None}]
  /\ stamp \in [Entries -> Stamps] /\ next \in Stamps
  /\ pc \in [Clients -> Places] /\ info \in [Clients -> Info]

Init ==
  /\ setup \in Setups
  /\ owner = None /\ inside = {} /\ alive = Proc
  /\ spin = 0 /\ phase = "asleep" /\ change = {} /\ doomed = None
  /\ win = [w \in Windows |-> [there |-> TRUE, refs |-> 0, index |-> -1]]
  /\ table = [i \in Entries |-> None]
  /\ stamp = [i \in Entries |-> 0] /\ next = Start
  /\ pc = [c \in Clients |-> "out"]
  /\ info = [c \in Clients |-> [index |-> 0, stamp |-> 0, entry |-> -1,
                                rects |-> "old", single |-> FALSE]]

Plus(s, n) == (s + n) % Modulus

\* Clients and windows come, go and change until MaxStamps stamps are used;
\* the loading of entries has a reserve, that is enough if no window takes
\* the entry of another.
Used == (next - Start) % Modulus
MayChange == Used < MaxStamps
Reserve == MaxStamps + (TableSize + 1) * Cardinality(Windows)

nrWindows == Cardinality({w \in Windows : win[w].refs > 0})

Goes(c, place) == pc' = [pc EXCEPT ![c] = place]

-----------------------------------------------------------------------------
(* The table of drawables.                                                 *)

\* DRIClipNotifyAllDrawables.
ClipNotifyAllDrawables(s, n) == [i \in DOMAIN s |-> Plus(n, i)]

\* DRICreateDrawable; the second window has the first take a new look.
CreateDrawable(c) ==
  LET w == Target(c)
  IN  /\ phase = "awake" /\ pc[c] = "out" /\ c \in alive /\ win[w].there
      /\ MayChange
      /\ win' = [win EXCEPT ![w].refs = @ + 1,
                            ![w].index = IF win[w].refs = 0 THEN -1 ELSE @]
      /\ IF win[w].refs = 0 /\ nrWindows = 1
           THEN /\ stamp' = ClipNotifyAllDrawables(stamp, next)
                /\ next' = Plus(next, TableSize)
           ELSE UNCHANGED <<stamp, next>>
      /\ Goes(c, "spin")
      /\ UNCHANGED <<lock, spin, phase, change, doomed, table, info>>

\* Mutant: the entry is not released.
MutPrivDelete(w) ==
  /\ win' = [win EXCEPT ![w].refs = 0, ![w].index = -1]
  /\ UNCHANGED <<table, stamp, next>>

\* DRIDrawablePrivDelete: the entry is released, its stamp remains.
PrivDelete(w) ==
  /\ win' = [win EXCEPT ![w].refs = 0, ![w].index = -1]
  /\ table' = [i \in Entries |-> IF i = win[w].index THEN None ELSE table[i]]
  /\ IF nrWindows = 2
       THEN /\ stamp' = ClipNotifyAllDrawables(stamp, next)
            /\ next' = Plus(next, TableSize)
       ELSE UNCHANGED <<stamp, next>>

\* DRIDestroyDrawable, for a client that stops rendering.
DestroyDrawable(c) ==
  LET w == Target(c)
  IN  /\ phase = "awake" /\ pc[c] = "idle"
      /\ MayChange
      /\ IF win[w].refs = 1 THEN PrivDelete(w)
         ELSE /\ win' = [win EXCEPT ![w].refs = IF win[w].there THEN @ - 1 ELSE @]
              /\ UNCHANGED <<table, stamp, next>>
      /\ Goes(c, "out")
      /\ info' = [info EXCEPT ![c].entry = -1]
      /\ UNCHANGED <<lock, spin, phase, change, doomed>>

\* The entry that a window gets: an empty one, or that of the oldest stamp.
EntryFor ==
  IF \E i \in Entries : table[i] = None
    THEN CHOOSE i \in Entries : table[i] = None /\ \A j \in 0 .. i - 1 : table[j] # None
    ELSE CHOOSE i \in Entries : \A j \in Entries : stamp[i] <= stamp[j]

\* Mutant: the entry that is taken from a window keeps its stamp.
MutLoad(w) ==
  LET i == EntryFor
  IN  /\ win' = [v \in Windows |-> IF v = w THEN [win[v] EXCEPT !.index = i]
                                   ELSE IF v = table[i] THEN [win[v] EXCEPT !.index = -1]
                                   ELSE win[v]]
      /\ table' = [table EXCEPT ![i] = w]
      /\ UNCHANGED <<stamp, next>>

\* The loading of the shared table in DRIGetDrawableInfo.
Load(w) ==
  LET i       == EntryFor
      wrapped == table[i] # None /\ stamp[i] > Plus(next, 1)
  IN  /\ win' = [v \in Windows |-> IF v = w THEN [win[v] EXCEPT !.index = i]
                                   ELSE IF v = table[i] THEN [win[v] EXCEPT !.index = -1]
                                   ELSE win[v]]
      /\ table' = [table EXCEPT ![i] = w]
      /\ stamp' = IF wrapped THEN ClipNotifyAllDrawables(stamp, Plus(next, 1))
                             ELSE [stamp EXCEPT ![i] = next]
      /\ next' = Plus(next, IF wrapped THEN 1 + TableSize ELSE 1)

\* DRIGetDrawableInfo, and the reply to it.
GetDrawableInfo(c) ==
  LET w == Target(c)
  IN  /\ phase = "awake" /\ pc[c] = "ask" /\ win[w].refs > 0
      /\ IF win[w].index = -1 THEN Used <= Reserve /\ Load(w) ELSE UNCHANGED dri
      /\ info' = [info EXCEPT ![c].index = win'[w].index, ![c].stamp = stamp'[win'[w].index],
                              ![c].rects = "current", ![c].single = (nrWindows = 1)]
      /\ Goes(c, "spinAgain")
      /\ UNCHANGED <<lock, spin, phase, change, doomed>>

-----------------------------------------------------------------------------
(* The drawable lock.  The two sides have the same value for it.           *)

\* Mutant: the word is set whatever it was.
MutSpinLock(c) ==
  /\ pc[c] \in {"spin", "spinAgain"}
  /\ spin' = 1
  /\ Goes(c, IF pc[c] = "spin" THEN "held" ELSE "heldAgain")
  /\ UNCHANGED <<lock, phase, change, doomed, dri, info>>

\* DRM_SPINLOCK.
SpinLock(c) ==
  /\ pc[c] \in {"spin", "spinAgain"} /\ spin = 0
  /\ spin' = 1
  /\ Goes(c, IF pc[c] = "spin" THEN "held" ELSE "heldAgain")
  /\ UNCHANGED <<lock, phase, change, doomed, dri, info>>

After(place) == IF place \in {"held", "freeing"} THEN "ask" ELSE "lock"

\* DRM_SPINUNLOCK: the comparison ("else server stole lock"), after pStamp
\* was set if the client has its answer.
SpinUnlockTest(c) ==
  /\ pc[c] \in {"held", "heldAgain"}
  /\ info' = IF pc[c] = "held" THEN info ELSE [info EXCEPT ![c].entry = info[c].index]
  /\ IF spin = 1 THEN Goes(c, IF pc[c] = "held" THEN "freeing" ELSE "freeingAgain")
     ELSE Goes(c, After(pc[c]))
  /\ UNCHANGED <<lock, spin, phase, change, doomed, dri>>

\* ... and the swap, that is repeated until it succeeds.
SpinUnlockSwap(c) ==
  /\ pc[c] \in {"freeing", "freeingAgain"} /\ spin = 1
  /\ spin' = 0
  /\ Goes(c, After(pc[c]))
  /\ UNCHANGED <<lock, phase, change, doomed, dri, info>>

Holding == {"held", "freeing", "heldAgain", "freeingAgain"}

-----------------------------------------------------------------------------
(* The clients.                                                            *)

\* LOCK_HARDWARE.
LockHardware(c) ==
  /\ pc[c] \in {"idle", "lock"} /\ Lock!Acquire(c)
  /\ Goes(c, "check")
  /\ UNCHANGED <<spin, phase, change, doomed, dri, info>>

\* XMESA_VALIDATE_DRAWABLE_INFO.
Valid(c) ==
  /\ pc[c] = "check" /\ stamp[info[c].entry] = info[c].stamp
  /\ Goes(c, "render")
  /\ UNCHANGED <<lock, spin, phase, change, doomed, dri, info>>

Invalid(c) ==
  /\ pc[c] = "check" /\ stamp[info[c].entry] # info[c].stamp
  /\ Lock!Release(c)
  /\ Goes(c, "spin")
  /\ UNCHANGED <<spin, phase, change, doomed, dri, info>>

UnlockHardware(c) ==
  /\ pc[c] = "render" /\ Lock!Release(c)
  /\ Goes(c, "idle")
  /\ UNCHANGED <<spin, phase, change, doomed, dri, info>>

\* The window has no private any more: an error, and Xlib exits.
Refused(c) ==
  /\ phase = "awake" /\ pc[c] = "ask" /\ win[Target(c)].refs = 0
  /\ Lock!Die(c) /\ Goes(c, "dead")
  /\ UNCHANGED <<spin, phase, change, doomed, dri, info>>

Dies(c) ==
  /\ Fails("death") /\ pc[c] # "dead"
  /\ Lock!Die(c) /\ Goes(c, "dead")
  /\ UNCHANGED <<spin, phase, change, doomed, dri, info>>

\* The hardware lock of a dead client is freed.
Reclaim ==
  /\ \E c \in Clients : Lock!Reclaim(c)
  /\ UNCHANGED <<spin, phase, change, doomed, dri, pc, info>>

-----------------------------------------------------------------------------
(* The server.                                                             *)

WakeupHandler ==
  /\ phase = "asleep" /\ Lock!Acquire(Server)
  /\ phase' = "awake"
  /\ UNCHANGED <<spin, change, doomed, dri, pc, info>>

BlockHandler ==
  /\ phase = "awake" /\ Lock!Release(Server)
  /\ phase' = "asleep"
  /\ UNCHANGED <<spin, change, doomed, dri, pc, info>>

\* DRIValidateTree, for clip lists that will change: the hardware lock is
\* given up to wait for the drawable lock.
ValidateTree(ws) ==
  /\ phase = "awake" /\ Lock!Release(Server)
  /\ phase' = "spinning" /\ change' = ws

Restructure ==
  /\ \E ws \in SUBSET {w \in Windows : win[w].there} : ws # {} /\ MayChange /\ ValidateTree(ws)
  /\ UNCHANGED <<spin, doomed, dri, pc, info>>

\* The resources of a window's XID are freed in the opposite order they were
\* added, so that the private goes before the window is unmapped.
DestroyWindow(w) ==
  /\ Fails("destroy") /\ win[w].there /\ MayChange
  /\ \E ws \in SUBSET {v \in Windows : win[v].there} : w \in ws /\ ValidateTree(ws)
  /\ doomed' = w
  /\ IF win[w].refs > 0 THEN PrivDelete(w) ELSE UNCHANGED dri
  /\ UNCHANGED <<spin, pc, info>>

\* DRISpinLockTimeout.
SpinLockServer ==
  /\ phase = "spinning" /\ spin = 0
  /\ spin' = 1 /\ phase' = "locking"
  /\ UNCHANGED <<lock, change, doomed, dri, pc, info>>

\* Mutant: the server waits for ever.
MutTimeout == FALSE

\* "Didn't get lock, so take it."
Timeout ==
  /\ phase = "spinning" /\ spin = 1
  /\ Fails("stall") \/ \A c \in Clients : pc[c] \notin Holding
  /\ phase' = "locking"
  /\ UNCHANGED <<lock, spin, change, doomed, dri, pc, info>>

Relock ==
  /\ phase = "locking" /\ Lock!Acquire(Server)
  /\ phase' = "changing"
  /\ UNCHANGED <<spin, change, doomed, dri, pc, info>>

\* A clip list changes, and DRIClipNotify.
ClipNotify(w) ==
  /\ phase = "changing" /\ w \in change
  /\ change' = change \ {w}
  /\ info' = [c \in Clients |-> IF Target(c) = w THEN [info[c] EXCEPT !.rects = "old"] ELSE info[c]]
  /\ IF win[w].refs > 0
       THEN /\ stamp' = [i \in Entries |-> IF i = win[w].index THEN next ELSE stamp[i]]
            /\ next' = Plus(next, 1)
       ELSE UNCHANGED <<stamp, next>>
  /\ UNCHANGED <<lock, spin, phase, doomed, win, table, pc>>

\* DRIPostValidateTree; a doomed window goes.
PostValidateTree ==
  /\ phase = "changing" /\ change = {}
  /\ win' = [w \in Windows |-> IF w = doomed THEN [win[w] EXCEPT !.there = FALSE] ELSE win[w]]
  /\ doomed' = None
  /\ phase' = IF spin = 1 THEN "unlocking" ELSE "awake"
  /\ UNCHANGED <<lock, spin, change, table, stamp, next, pc, info>>

\* Mutant: the server leaves the lock to itself.
MutSpinUnlockServer ==
  /\ phase = "unlocking"
  /\ phase' = "awake"
  /\ UNCHANGED <<lock, spin, change, doomed, dri, pc, info>>

SpinUnlockServer ==
  /\ phase = "unlocking" /\ spin = 1
  /\ spin' = 0 /\ phase' = "awake"
  /\ UNCHANGED <<lock, change, doomed, dri, pc, info>>

-----------------------------------------------------------------------------

\* What a client is in the middle of, and what follows on a window's change.
Moves(c) ==
  \/ SpinLock(c) \/ SpinUnlockTest(c) \/ SpinUnlockSwap(c)
  \/ pc[c] = "lock" /\ LockHardware(c)
  \/ Valid(c) \/ Invalid(c) \/ UnlockHardware(c)
  \/ GetDrawableInfo(c) \/ Refused(c)

ServerMoves ==
  \/ WakeupHandler \/ BlockHandler
  \/ SpinLockServer \/ Timeout \/ Relock
  \/ \E w \in Windows : ClipNotify(w)
  \/ PostValidateTree \/ SpinUnlockServer

Next ==
  /\ \/ \E c \in Clients : Moves(c) \/ LockHardware(c) \/ CreateDrawable(c) \/ DestroyDrawable(c) \/ Dies(c)
     \/ Reclaim \/ ServerMoves \/ Restructure
     \/ \E w \in Windows : DestroyWindow(w)
  /\ UNCHANGED setup

Spec == Init /\ [][Next]_vars

\* Processes run; whoever wants a lock that is free again and again gets it
\* some time, and so does who waits for an answer.
FairSpec ==
  /\ Spec
  /\ WF_state(Reclaim) /\ SF_state(ServerMoves)
  /\ \A c \in Clients : SF_state(Moves(c))

-----------------------------------------------------------------------------
(* Properties.                                                             *)

(* A client that renders has the clip rectangles that its window has, and  *)
(* a private back buffer only as the only window: the server cannot change *)
(* either without a new stamp in the entry that the client looks at, also  *)
(* if entries are lost to other windows, clients come and go, or stamps    *)
(* wrap around.  Not so once the window has ceased to be a drawable: its   *)
(* entry keeps its stamp, and the client goes on where the window was.     *)
RenderCurrent ==
  \A c \in Clients : pc[c] = "render" /\ win[Target(c)].refs > 0 =>
    info[c].rects = "current" /\ (info[c].single => nrWindows = 1)

(* An entry of the table and the index of its window refer to each other:  *)
(* the window whose entry is taken is there to be told.                    *)
TableConsistent ==
  /\ \A i \in Entries : table[i] # None => win[table[i]].refs > 0 /\ win[table[i]].index = i
  /\ \A w \in Windows : win[w].index # -1 => table[win[w].index] = w

(* The drawable lock excludes: clients that use it, and the server while   *)
(* it changes windows.  Not so if a client is stopped while it holds the   *)
(* lock, for longer than the server waits.                                 *)
DrawableLockExcludes ==
  LET holders == {c \in Clients : pc[c] \in Holding}
                   \cup (IF phase \in {"locking", "changing", "unlocking"} THEN {Server} ELSE {})
  IN  ~Fails("stall") => Cardinality(holders) <= 1

(* A client that dies with the drawable lock does not lock the server.     *)
ServerReturns == ~Fails("stall") /\ phase = "spinning" ~> phase = "awake"

(* A client that looks for the state of its window gets to render, if the  *)
(* table has room for every window.  Not so if another client has died     *)
(* with the drawable lock, that only the server takes by force, or if a    *)
(* client frees it in the server's name.                                   *)
ClientRenders ==
  \A c \in Clients :
    setup.faults = {} /\ TableSize >= Cardinality(Windows) /\ pc[c] = "lock" ~> pc[c] = "render"
=============================================================================
