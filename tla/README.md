# A TLA+ model of XFree86 4.0.2

This directory holds TLA+ specifications of the parts of XFree86 4.0.2 in which
several processes, a signal handler and the server's own state meet: model
checked with TLC on small instances, and proved with TLAPS where a proof says
more than an instance can.

Source paths are relative to `src/xc/programs/Xserver/` unless they start with
`lib/` or `xdm/`, which are `src/xc/lib/` and `src/xc/programs/xdm/`.

## 1. The system

XFree86 is one server process, its clients, the kernel's direct rendering module
and a set of helper programs. The server is single threaded: `Dispatch`
(`dix/dispatch.c`) waits in `WaitForSomething`, drains the input queue, and runs
client requests one at a time. Concurrency comes from five sides:

* the SIGIO handler, which reads input devices in the middle of anything;
* the SIGALRM of the smart scheduler and the SIGUSR1 of the VT switch, whose
  handlers only set flags;
* the clients, each a byte stream in both directions with limited buffers, which
  may vanish at any point;
* direct rendering clients, which share memory (the SAREA) and a lock with the
  server and the kernel;
* requests that are suspended and continued later: `ClientSleep` (fonts,
  XSYNC, SECURITY), frozen input devices, timers.

| Component | State it keeps | Operations | Meets | Correct when |
|---|---|---|---|---|
| DRM hardware lock (`os-support/xf86drm.h`, `os-support/linux/drm/kernel/lock.c`, `fops.c`, `tdfx_drv.c`) | lock word, `lock.pid`, `lock_queue`, `sigdata`, `ctx_bitmap` | light lock and unlock, lock and unlock ioctls, release of the device, notifier of stop signals | server, clients, kernel | one holder; no sleeper forgotten; the lock of a dead holder is freed once |
| hardware event queue (`hw/xfree86/common/xf86Xinput.c`, `mi/mieq.c`, `mi/mipointer.c`) | ring, `lastMotion`, enqueue and dequeue screens, pointer | enqueue in the handler, dequeue in the loop, screen switch, warp | SIGIO handler, dispatch loop, DIX sprite | no key or button event lost once accepted, order kept, the queue drains |
| input devices and grabs (`dix/events.c`) | grab and freeze state of each device, `syncEvents` | grab, ungrab, `AllowEvents`, replay, passive grabs | queue, clients, windows | a frozen device's events are kept in order and are delivered once when it thaws |
| dispatch loop and client life cycle (`dix/dispatch.c`, `os/connection.c`, `os/WaitFor.c`, `os/io.c`) | client table, fd sets, scheduler priorities, retained clients, request and output buffers | accept, prepare, run, sleep, ignore, kill, retain, reset | everything | no client starves; a closed client leaves nothing behind |
| resources (`dix/resource.c`) | hash tables of ids, per client | add, find, free, free all of a client | every extension | freed exactly once, also when a delete function frees others |
| selections, properties (`dix/dispatch.c`, `dix/property.c`) | owner, last time | set, convert, delete | clients | the owner is alive, the time is that of the last change |
| fonts (`dix/dixfonts.c`, `lib/font/fc`) | closures of suspended requests, font server connections | open, list, draw text across sleeps | clients, font servers | a suspended request is continued or abandoned exactly once |
| XSYNC (`Xext/sync.c`) | counters, triggers, alarms, awaits | change counter, await, alarms | clients, timers | a client waits exactly while its condition is false |
| DRI (`GL/dri/dri.c`) | drawable table, stamps, drawable spin lock, context list | create, destroy, clip notify, swap contexts | hardware lock, windows, clients | a client with a valid stamp draws inside its clip list |
| DRM DMA (`kernel/dma.c`, `bufs.c`, `lists.c`, `gamma_dma.c`) | buffer lists, queues, interrupt flags | enqueue, dispatch, free, flush | clients, interrupts | a buffer is on one list; nobody waits for a finished buffer |
| VT switch (`hw/xfree86/common/xf86Events.c`) | `vtSema`, access state of drivers | leave, enter | signals, screens, input | hardware is touched only while the VT is ours |
| XDMCP (`os/xdmcp.c`; `xdm/xdmcp.c`, `protodpy.c`, `dm.c`) | protocol state, timeouts, offers, sessions and their processes | query, request, manage, keepalive, reset | display and manager over UDP | the two come to agree on the session, under loss, duplication and restarts |
| XKB AccessX (`xkb/xkbAccessX.c`) | key timers, latches, locks | filter, repeat, slow and bounce keys | input, timers | a key that was accepted is released |
| Xlib (`lib/X11`) | output buffer, async handlers, sequence numbers | request, reply, error, event | server, threads | a reply goes to the request that asked for it |
| toolkit (`lib/Xt`) | selection transfers, timers, work procs | own, convert, incremental transfer | clients | a transfer ends, with the data or with a failure |
| ICE and session management (`lib/ICE`, `lib/SM`) | connections, protocol states | connect, save yourself, interact, shutdown | session manager | two peers agree on the state of the protocol |
| LBX (`programs/lbxproxy`, `lbx/`) | tag cache, motion throttle, delta cache | tag, invalidate, compress | proxy, server | both caches agree |

Drivers, frame buffer code (cfb, mfb, afb, fb, mi drawing), Mesa, font
rasterisers, PEX, XIE, Xprint, the toolkits' widgets, the applications and the
build system are pure computation over pixels, registers, bytes or files, or
third party code; they are listed in `PROJECT.json` as not modelled.

## 2. The plan

The order follows the damage an error does and the difficulty of testing for
it. Every module keeps its parameters as CONSTANTS with a named assumption, has
one action per operation and no RECURSIVE operator, so that it can be proved
about.

| | Modules | Abstract specification | State |
|---|---|---|---|
| 1 | `HwLock` | `RobustLock`: a lock that survives its holder | checked, proved |
| 2 | `InputQueue` | `InputStream`: key and button events taken in order, each once | checked; safety of the ring and the refinement proved |
| 3 | `SyncGrabs` | `FrozenDevices`: one queue per device that moves while the device is not frozen | checked; invariants and safety of the refinement proved |
| 4 | `ServerGrab` (fd sets, `IgnoreClient`, `GrabServer`, `ClientSleep`, close) and `SmartSched` | none: the properties are relations between sets, and bounds | checked; descriptor sets, grab, that nobody is forgotten, the waiter's turn, the round robin and the share of a busy client proved |
| 5 | `DRIDrawables`: stamps, eviction, the drawable lock and its theft | on top of `RobustLock`, the promise of module 1 | checked; table, lock and rendering proved |
| 6 | `Resources`: hash tables, XIDs, delete functions that free, close-down | none | checked; all five invariants of the run proved |
| 7 | `SyncValue`, `SyncCounters`, `ServerTime` (XSYNC) | integers, for the 64-bit values | checked; the addition, the lists and walks and SERVERTIME proved |
| 8 | `XdmcpWire`, `XdmcpDisplay`, `XdmcpManager`, composed by `Xdmcp` | `XdmcpSessions`: sessions that two sides come to agree on | checked; invariants and safety of the refinement proved |
| 9 | `DmaQueues`: buffer lists, queues, interrupts, `drm_alloc_queue` | a buffer is in one place | not begun |
| 10 | `VTSwitch`, `AccessX`, `Selections`, `FontSleep` | hardware touched only on our VT; pressed keys are released | not begun |
| 11 | `SessionManager`, `LbxTags`, `XlibReplies` | the peers of each protocol agree | not begun |

Every safety property that the passing runs check is proved; liveness, three of the
refinements among it, is left to TLC (section 13). Not begun are modules 9 to 11.

## 3. The hardware lock: `HwLock`, `RobustLock`

**What it models.** A direct rendering process takes the lock with a
compare-and-swap on the word in shared memory (`LightLock`: `DRM_LIGHT_LOCK`);
when that fails it calls `drmGetLock`, that is `tdfx_lock`: `GetLock`,
`LockIoctl`, then `LockTaken` or `LockContended` (`drm_lock_take`), sleep in
`lock_queue`, `Resume` or `Interrupt`, and `LockSetPid`, `LockSetSig` for the
assignments after the loop. Unlocking is the mirror image: `LightUnlock`, or
`HeavyUnlock`, `UnlockIoctl` and the parts of `tdfx_unlock` (`Transfer`,
`Free`, `Wake`, `Unblock`). `Die` closes the device file, and `Release`,
`ReleaseFree`, `ReleaseWake`, `Unlink` are `drm_release`. `StopDelivered`,
`StopNotified`, `NotifierContend` and `Continue` are a stop signal meeting
`drm_notifier`, which runs concurrently with everything.
`CreateContext`/`DestroyContext` are the server handing out contexts.

| State | Code |
|---|---|
| `word` | `hw_lock->lock`: context, `_DRM_LOCK_HELD`, `_DRM_LOCK_CONT` |
| `lockPid`, `sigCtx` | `dev->lock.pid`, `dev->sigdata.context` |
| `ctxOwner` | `dev->ctx_bitmap` and the process each context was given to |
| `bkl` | the big kernel lock: `lock_kernel` in `tdfx_release`, and the system call layer's around each ioctl, which `schedule()` drops |
| `pc`, `cur` | program point and context of each process |
| `notified`, `sig` | `block_all_signals` in force; fate of a stop signal |

**Assumptions about the kernel.** `bkl` and the delivery of signals stand for
code outside this repository. The mutant of `MutualExclusion` removes the big
kernel lock from `Release` and TLC then finds two holders, which shows how much
of the design hangs on it.

**Runs.**

* `hwlock`: the server and two clients, three contexts: `MutualExclusion`,
  `NoLostWakeup`, `StoppedNeverHolds`. Three processes are what it takes for one
  to sleep, one to hold and one to die or to be stopped; a third context lets a
  client reopen the device and get another context than before. Clients and the
  contexts of clients are interchangeable (symmetry; the run has no liveness
  property).
* `hwlock_fair`: the server and one client, no symmetry: `ImplementsRobustLock`
  (`owner` is the process that owns the context in a held word, `inside` those
  between taking and giving back, `alive` those with the file open) and
  `SleeperWoken`. That includes the liveness of `Reclaim`: the lock of a dead
  holder is freed. With three processes `SleeperWoken` fails under the fairness
  below, by stop signals that arrive each time a process is about to get the big
  kernel lock: an artefact of how little is assumed of signals, so the run keeps
  to two.

Deadlock is not checked in any run of the project: an idle system may stop.

**Fairness.** Weak fairness for kernel code that has the big kernel lock, and
for the notifier: the processor runs them on. Strong fairness where the code
waits for the big kernel lock, a spin lock that every holder gives back
(`Resume`, `Release`), and for the holder's own unlock, which its critical
section reaches: a signal may delay a process any number of times, but a
holder is not stopped for ever. That last one is what `block_all_signals` is
for, and `StoppedNeverHolds` shows it. Nothing is assumed of a process that
wants the lock, nor of clients that are idle.

**Proved** (`HwLock_proofs`), for any number of processes and contexts, from
`HwLockAssumption`: type correctness, the three invariants of the run and two more
(`HolderRecorded`: `dev->lock.pid` names the holder; `FreeNamesHolder`:
`drm_lock_free` never skips the wakeup), and that
every step of `HwLock` is a step or a stutter of `RobustLock`. None of the
invariants is inductive. `IInv` adds to `TypeOK`:

* `BklInv`: exactly the process in kernel code holds the big kernel lock;
* `CurInv`: a process locks with a context it owns;
* `SectionInv`: a process in its section has its context in a held word;
* `HeldInv`: a held word belongs to a process in its section or to one that
  died there, or to the kernel in the middle of an unlock;
* `WordInv`: a context in the word, held or not, is allocated, and `lockPid`
  names its owner except in the step that is about to write it. This is why the
  light lock may bypass the kernel at all: it succeeds only on the context that
  the *same* process left in the word, and that process was recorded when it
  last locked through the kernel;
* `SigInv`: the same for `sigCtx` and the notifier, with the exception of
  processes that are past caring about signals;
* `KernelInv`: what the word is between two steps of an unlock;
* `StopInv`: where a stopped process, or one in the notifier, can be;
* `NoLostWakeup`, which is inductive together with these.

Mutual exclusion follows from `SectionInv` (one word, one context) and
`ctxOwner` (one owner per context).

**Left out.** The DMA flags of the lock call, which `tdfx_lock` ignores; two
processes sharing one device file; a context destroyed under a client that is
in its critical section (`DestroyContext` requires the client idle or gone).

## 4. The event queue: `InputQueue`, `InputStream`

**What it models.** `PostMotion` and `PostDiscrete` are the SIGIO handler down
to `xf86eqEnqueue` (`Enqueue`, with compression, wrap-around, the full queue and
the correction of the time). `ProcessInputEvents` is cut at each access to
shared state: `Enter` (the test in `Dispatch`), `Loop`, `Compare`, then
`Switch`, `Point`, `Skip`, `EnterScreen` for an event of another screen or
`Copy`, `Take`, `Deliver`. The handler can run between any two. `ProcWarpPointer`
is a client's request, with SIGIO blocked, and `NewCurrentScreen`, `WarpCursor`
and `DisplayCursor` are the paths through `dix/events.c`, `xf86Cursor.c` and
`mi/mipointer.c` that move the pointer and change `pEnqueueScreen` and
`pDequeueScreen`.

| State | Code |
|---|---|
| `head`, `tail`, `events`, `lastMotion`, `enqueueScreen`, `dequeueScreen` | `xf86EventQueue` |
| `pointer`, `sprite` | `miPointer`, `sprite.hotPhys` |
| `pc`, `xe` | `xf86eqProcessInputEvents` and its local copy |
| `posted` | numbers the events (bounded by `MaxPosted`) |

`InputStream` is a set of numbers: events are numbered as they arrive, the least
that waits is taken, to be handled or (when it only enters another screen) thrown
away. `InputQueue` implements it with `arrived` for `posted`, `pending` for the numbers in the
slots that wait and hold a key or button event, and `handled` for the number of the
event that `Deliver` is about to pass on.

**Runs.**

* `inputqueue` (two screens, three slots of which two can be used, five posts
  or warps): `NeverOverwritten`, `ImplementsStream`, `Drains`. Two usable slots
  are the least that has an event waiting behind the one being taken; five
  events fill the ring, wrap it and overflow it.

Three claims in the comments of this code do not hold of the model: see section 11.

**Fairness.** `WF(ProcessInputEvents)` only: `Dispatch` looks at the queue before
each request and nothing in the loop waits. The handler owes nothing.

**Proved** (`InputQueue_proofs`), for every queue size, set of screens and
bound: `TypeOK`, `NeverOverwritten` and `ImplementsStream`. Every step is one of
three (`StepRing`): it moves `head` past the event that was taken, enqueues, or leaves the
ring alone. The invariant `StreamInv` is

* `TailInv`: while the last event accepted was a motion event and the ring is not
  empty, the slot before `tail` holds one, so compression goes over a motion event;
* `TakeInv`: from `compare` to `advance` the ring is not empty, so the handler, which
  fills any slot but the last, can neither empty it nor meet `head`;
* `OrderInv`: of two key or button events that wait, the one nearer to `head`, going
  round the ring, has the smaller number. Without it the event at `head` need not be the
  oldest;
* `CopyInv`: the copy in `xe` is of the event at `head`. A motion event may have been
  written over after it was copied (section 11), a key or button event cannot;
* `HandledInv`: the event being delivered has a number.

**Only model-checked.** `Drains`, which is liveness.

## 5. Frozen devices: `SyncGrabs`, `FrozenDevices`

**What it models.** Active and passive grabs of the core keyboard and pointer,
how they freeze and thaw the two devices, and the list of events that wait.
Requests: `GrabDevice`, `Ungrab`, `AllowEvents` (`AllowOne`, `AllowBoth`,
`Replay`: the eight modes), `ChangePassive`, `LoseWindow`. Events: `Input`,
`ProcessInput` (`Enqueue`, `Repeat`, `Ignore`, `Press`, `Release`, `Again` for a
replayed one) and `PlayNext`, `PlayEnd` of `PlayReleasedEvents`. Clients:
`Connect`, `Die`, and the parts of `CloseDownClient` in their order.
`Activate`, `Deactivate`, `CheckGrabForSyncs` and `ComputeFreezes` are the
functions of these names; `ComputeFreezes` ends every action that calls it in the
code. Handlers nest in the code; here the calls still to be made are in `todo`
and `played`, and a new request or event waits until there are none.

| State | Code |
|---|---|
| `grab`, `state`, `other`, `frozen`, `saved` | `dev->grab`, `fromPassiveGrab`, `dev->sync` |
| `passive` | `wPassiveGrabs` of the windows |
| `pending`, `playing` | `syncEvents` |
| `activating`, `down` | `keybd->activatingKey`, the key and button state |
| `hardware` | the physical state; the environment |
| `client` | where a client is between connecting and being freed |

**Runs.**

* `syncgrabs`: two clients, of which one can die with its window and two passive
  grabs, one key that may repeat, one button, two events: `FreezeHasGrab`,
  `NothingStuck`, `OnlyTheFreezerThaws`, `ImplementsFrozenDevices` with the liveness
  of each queue. Two events suffice to have one freeze the device and one wait, and
  the theorems lift the bound for all of it but that liveness.
* `syncgrabs_replay`: a promise of a manual page that the code does not keep
  (section 11).

A keyboard that repeats (`AutoRepeat`) sends the press of a key that is down.
`processInputProc` splits it into a release and a press, handled one after the
other; if the release freezes the keyboard, the press joins the pending events behind
events that arrived after it. So `FrozenDevices` speaks of the first half only:
`Half` marks the second by the negative of the number. Two events are what
it takes to have a repeated press; the disorder needs a third, and is covered by the
theorem, which is for any number of events.

**Fairness.** `WF(Server)`: the server is one thread that finishes a handler it
began. Clients and the hardware owe nothing: a client may keep a device frozen
for ever. A device that is blocked again and again makes no progress in
`FrozenDevices` either: its fairness is weak.

**Proved** (`SyncGrabs_proofs`), for any clients, keys, passive grabs and number
of events, from `SyncGrabsAssumption`: `TypeOK`, `FreezeHasGrab`,
`OnlyTheFreezerThaws`, `NothingStuck`. The inductive invariant is
`TypeOK /\ FreezeHasGrab`: `FreezeHasGrab` relates the five fields of the two
devices, and needs all of its conjuncts at once, since `Deactivate` keeps the
second only where `other` names a device that is grabbed, and `Replay` takes an
event out of `saved`. The proof splits the invariant into `FreezeInv` (the fields
that only the freezing functions change, one lemma for each of these functions)
and `InputInv` (the queues). `NothingStuck` is then inductive relative to it:
whatever thaws a device with pending events starts playing.

`FrozenDevicesSafety` is the refinement without its liveness: `ImplementsFrozenDevices`
with `Devices!Init /\ [][Devices!Next]` in place of `Devices!Spec`. It rests on
`OrderInv`, about the events that are whole (not a saved one that is replayed, nor a
second half): those pending for one device are in the order of their numbers
(`PendingInv`); only the first of the calls still to be made is of a whole event
(`CallsInv`); one that comes from the hardware is newer than all that wait
(`TodoInv`), one that is played is older than all that wait for its device, which is not
frozen (`PlayedInv`). An event from the hardware that meets a device that is not
frozen may overtake pending ones only of the other device, by `NothingStuck`; an event
that is played is the first of a device that is not frozen, so by `PendingInv` its oldest.
What removing an element from anywhere in a sequence does to the events of
each device is in four lemmas (`RemoveAtIs`, `IdsRemoveAt` and their neighbours).

**Left out.** Motion events, which neither freeze nor thaw; extension devices;
which key and modifiers a passive grab asks for (any press may set it off or not);
failing allocations. `saved` is forgotten once its state is left, since nothing
reads it then.

**Only model-checked.** The liveness in `ImplementsFrozenDevices`.

## 6. The dispatch loop: `ServerGrab`, `SmartSched`

**What `ServerGrab` models.** One round of `Dispatch` after the other: `Serve` is
the server's one thread, cut where a request begins and ends
(`WaitForSomething`, `Pick`, `ReadRequestFromClient`, the handlers, `Break` and
`Yield`), and between the cuts clients `Send` and `Exit` and what sleepers wait
for happens (`Wakeup`). A request has no content until it is executed; it is then
plain, `GrabServer`, `UngrabServer`, one that sleeps, one that wakes a sleeper,
`KillClient`, or `XTestGrabControl` (`Impervious`, `Pervious`).

| State | Code |
|---|---|
| `fds` | `AllClients`, `ClientsWithInput`, `SavedAllClients`, `SavedClientsWithInput`, `IgnoredClientsWithInput`, `GrabImperviousClients`, `GrabInProgress` |
| `grab` | `grabState`, `grabClient`, `grabWaiters` |
| `sock`, `buf`, `redo` | complete requests in the socket and in the input buffer; `ResetCurrentRequest` has put a `GrabServer` back |
| `ready`, `current`, `taken` | `clientReady`, `requestingClient`, whether it has a request |
| `asleep` | clients that `ClientSleep` put to sleep |

The point of the module is that the same fact (this client has input, this client
is to be ignored) is kept in different sets depending on a server grab that may
begin or end in between.

**Run.** `servergrab`, with two scenarios. `Compete`: three clients that compete
for the server, two of them even while another has it (impervious), one that sleeps
and one that wakes it. Their numbers, 1, 2 and 33, are in two words of the mask of
waiters, of which the last is searched first and from its lowest bit (`First`).
`Kill`: two that kill each other, one of which comes back, under the smart
scheduler, whose rounds serve one client. Two requests of a client
are what it takes to have one executed and one left in the buffer.
`InputRemembered` and `Heard` (no complete request and no connection is forgotten
between the sets), `NoStaleDescriptor`, `WaiterHasTurn` (an `UngrabServer` wakes
one waiter, which is not lost), `GrabExcludes` (also for clients that were ready
before the grab), `GoneIsClosed`. Three of them name an exception (section 11): a client
that `Lapses` may become pervious and was asleep when a grab saved the sets;
`WaiterHasTurn` is of scenarios that are `Orderly`, in which nobody is killed and at most
two clients can ask for the server while another has it (`Rivals`); and `GoneIsClosed`
is not of clients that are impervious and sleep.

**Fairness.** `WF(Serve)`: the server runs. `WF(Exit)`, `SF(Wakeup)`: for
`GoneIsClosed` clients end some time, and what one sleeps for happens; a grab holder
that never ends shuts everyone out for ever, which is what a grab is.

**Proved** (`Dispatch_proofs`), for any clients and scenarios: type correctness,
`GrabsAgree`, `NoStaleDescriptor`, `GrabExcludes`, `InputRemembered`, `Heard`,
`WaiterHasTurn`. Three invariants build on each other.

* `IInv` ties the two records of the grab together (`GrabsAgree`), keeps every
  set within the open connections, and has `CurrentAllowed`: whoever is being served
  while there is a grab is its client or impervious.
* `PInv` says where a connection and its input are kept (`Place`). During a grab the sets
  that were saved stand for the live ones, so each conjunct has two forms: a client that
  is served is listened to (`ICurrent`), a client with input or ready is listened to now
  or when the grab ends (`IInput`, `ISaved`, `IReady`), and one that may become
  pervious must be in what was saved (`IKept`), since `MakeClientGrabPervious` takes it
  out of the live sets without adding it there. `IHeard` and `IRemembered` are the two
  properties; neither is inductive, as `ListenToAllClients` drops whatever is in neither
  form.
* `KInv` is about turns. A request that was put back will be read again (`Redone`). The
  rival that `First` finds waits only while another has the server, and then with its
  request put back (`Turn`): so when the grab ends it is woken and asks again, and
  the other, if it still waits while nobody has the server, waits for this one.

`GoneIsClosed` is liveness and only checked.

**What `SmartSched` models.** `SmartScheduleClient` with the priorities, the last
index of each priority and the slices, the timer (`Elapse`), the end of a turn (by
a yield, a wait, or the end of the slice), and events that raise a priority.
`RoundRobin`: a client is not passed over more often than there are others of its
priority. `BusyShare`: once all clients are busy for good, whatever the priorities
were by then, all the others together have at most as many turns before a client has
its own as if each had one for each priority, and two more.

**Run.** `smartsched`: three clients with indices 1, 2 and 5 modulo 8, so that
differences wrap; the range of priorities and slices is the code's in miniature.

**Proved** (`Dispatch_proofs`, the second part): type correctness (the array of last indices is
never indexed out of range) and `RoundRobin`, for any number of clients. The
measure is `TurnsLeft`, the number of clients between the last one served and the
one that waits: each turn of another moves the last one closer. And `BusyShare`, with
the measure `Owed`: how many turns another client can still have before the one that
waits, from the difference of their priorities and from whether it comes first in the
round robin of the priority of the one that waits. A turn takes one away from the
client that has it, praise never adds one (all are idle for equally long, so it
raises all that are below 0), and a change of the last index gives none to a third
client. `SharesLeft` counts the turns that cannot come any more as a set of pairs,
of a client and a number, which is never larger than the bound.

The bound was found by the proof. "One more" in place of "two more" holds for the
instance of the run; with five clients and the priorities -2 to 0 (TLC) it fails: a
client that was level with the waiting one at the lowest priority, where a turn
lowers nobody, and was praised with it to the next, may have a turn there, and one
more at 0, where praise ends and it catches up again.

**Left out.** Output buffers and blocked writes, the timers of screen saver and
DPMS, LBX clients, the priorities that XSYNC sets.

## 7. Direct rendering: `DRIDrawables`

**What it models.** Clients that render to a window under the hardware lock, for
which `RobustLock`, proved of the lock above, is instantiated: lock, compare the
stamp (`Valid`, `Invalid`), and if it is old take the drawable lock, ask the
server for the clip rectangles (`GetDrawableInfo`), give it back, lock again. The
server creates and destroys drawables (`CreateDrawable` with the eviction from
`DRIDrawables`, `DestroyDrawable`, `DestroyWindow`), and takes both locks to change
windows (`Restructure`, `SpinLockServer`, `Timeout` that takes the drawable lock by
force, `ClipNotify`, `PostValidateTree`, `SpinUnlockServer`).

| State | Code |
|---|---|
| `owner`, `inside`, `alive` | the hardware lock, as `RobustLock` |
| `spin` | `drawable_lock` of the SAREA |
| `win`, `table`, `stamp`, `next` | the DRI privates, `DRIDrawables`, the stamps in the SAREA, `DRIDrawableValidationStamp` |
| `phase`, `change`, `doomed` | where the server is; the windows that change; the one that is destroyed |
| `pc`, `info` | where each client is; its copy of index, stamp and rectangles |

**Run.** `dri`: two clients with windows of their own or one window, a table with
room for all or too small, and in some setups clients that die with locks, are
stopped for longer than the server waits, or windows destroyed under a client.
Stamps are modulo 16 and begin at 14, so that they wrap; `MaxStamps` bounds how
often windows change, and an assumption keeps a full cycle of stamps, 2^32 in the
code, out of a behaviour. `RenderCurrent`, `TableConsistent`,
`DrawableLockExcludes`, `ServerReturns`, `ClientRenders`, each with the exceptions its
comment names: a destroyed window keeps its stamp; a drawable lock stolen from a
stopped client has two holders; with too small a table clients evict each other for
ever; a client that dies with the drawable lock blocks other clients until the
server next wants it.

Here a client compares its stamp every time it has the hardware lock. `LOCK_HARDWARE`
(`r128_lock.h:87-96`) does so only if the light compare-and-swap fails. The
outcomes are the same: the server holds the hardware lock whenever it changes a stamp,
and the word of the lock remembers who held it last (`HwLock`), so that after a change
the swap of every client fails.

**Fairness.** Strong for the server and for each client in the middle of its
protocol: both locks are free again and again, and a process that wants one gets it
some time. Weak for the kernel's `Reclaim`.

**Proved** (`DRIDrawables_proofs`), for any windows, clients and table: types,
`TableConsistent`, `DrawableLockExcludes`, `RenderCurrent`. `RefsInv` and `TableInv` say
which windows have privates and entries; `SpinInv` says that the word of the drawable
lock has exactly one reason to be set. `RenderCurrent` needs more (`RInv`):

* `HardwareInv`: a client that renders, and the server while it changes windows,
  has the hardware lock; so while a client renders no clip list changes;
* `EntryInv`: the stamp a client compares is that of the entry it was told;
* `IssuedInv`: every stamp that a client knows, or that is in the table, was issued, in
  the sense that its age (the distance from the first) is less than that of the next one;
* `ChangeInv`: there are stamps left for the windows that are still to change;
* `StampInv`: if the stamp a client knows is still in its entry, the index, the rectangles
  and the number of windows it was told are still right; and it is there while it renders.

A stamp that is issued is newer than every one that is known (`Renewal`), so one that is
found where it was means that nothing has changed. The counter may wrap
around: ages, not stamps, are compared. What may not happen is that all of the stamps
are used while a client sleeps, which `DRIAssumption` keeps out
(`MaxStamps` and a few for every entry and window are less than `Modulus`).
`ServerReturns` and `ClientRenders` are liveness and only checked.

**Left out.** Contexts and their swap, the back clip rectangles, several screens.
`GetDrawableInfo` for an index of -1 writes into padding of the lock and is harmless.

## 8. Resources: `Resources`

**What it models.** `clientTable` with its buckets, growth (`RebuildTable`) and the
walks of `FreeResource` and `FreeClientResources`, which go on from a saved link
while the delete functions of what they free free other resources: windows with
their children, the entries of their event lists (`OtherClients`) and their DRI
privates, which share the window's XID. Around it: XIDs chosen by clients
(`LegalNewID`, `expectID`) and by the server (`FakeClientID`, `GetXIDRange`), the
window tree, save sets, the owner of a selection, the drawable that a client
used last, and `CloseDownClient` with retained resources.

The calls in progress are a `stack`; a step is one call or one turn of a loop. An
XID is a client, a range (its own, the server's, or `over`, beyond both) and a
number; `Hash` takes low bits as the code does, of a table of one bucket that grows
to two.

**Run.** `resources`: six setups, each with the requests that can meet: event
lists until a range of XIDs is used up, privates, save sets, selections, retained
clients. Two XIDs in a range and two records in a bucket are the least at which
ranges run out, a bucket has a walk with a saved link, and a table grows.
`WalksGoOn`, `NothingDangles`, `TablesAgree`, `IdsFresh`, `SavedSurvive`, with `safe`
recording the windows a save set ought to keep.

**Proved** (`Resources_proofs`), for any clients, scenarios, ranges of XIDs, windows
and sizes of tables: all five.

`IdsFresh` from the invariant `IInv`, which says it of every state in which the client
runs, not only between requests, with the types of the tables and that windows have
XIDs of their creators' own. Each step either thins the tables out (`Thinner`:
whatever a walk or a delete function unlinks), or adds a record with an XID of the
client's own and raises `expectID` past it (`AddsOwn`), or adds an entry of an event
list and leaves the rest of the range (`Selects`). The search of `GetXIDRange` keeps
that the part it goes on with has a free number unless none is left (`Search`,
`NarrowIs`). When all are in use a client goes on with a range that is not free, but
as an exception: it asks for nothing more. What `Those`, `FlattenSeq` and the search
compute is a function defined step by step; `StepByStep` shows that there is one, and
a least counterexample (`LeastOf`) takes the place of an induction.

The other four from one invariant, `JInv`. It has to hold in the middle of things:
calls interrupt each other, and free records of all tables, under walks that go on
afterwards. Its parts, each over the components of the state that it is about:

* `TablesOK`: each record is in the bucket that `Hash` has for it, once, and the
  private of a window is in front of the window's record (`InOrder`). `AddResource`
  keeps this because the window is added first and a new record goes to the front;
  `RebuildTable` because it keeps the order (`RebuildKeeps`).
* `RecordsOK`: each record is of a window that is there, and privates and entries have
  theirs. A window may be without its record only if it is about to go, and then it is
  not what a client used last.
* `WindowsOK`: the windows are a tree. It is said without recursion: for each window
  there is a set that has its parent, and with a window the parent of that, but not
  the window. `Above` is the least such set; counting it orders the windows
  (`AboveFewer`), and that gives the leaves of `CrushTree` and the target of
  `HandleSaveSet`.
* `ReferencesOK`: the drawables used last, save sets, the selection.
* `StackOK`: which calls are in which (`Fits`: close-down and `DestroySubwindows`
  outermost, at most one `CrushTree`, and what it frees calls nothing further but for
  entries), and what each has seen to or is waiting for (`FrameOK`): before the save
  sets let go of a window its record is gone and it has no children, before the window
  is freed nothing names it, and a walk that finds the count of its table as it left
  it has its saved link in the bucket, with no record of its XID up to there
  (`Place`). A count that is as it was means a table that is as it was: every walk
  that counts lowers it, and `FreeClientResources`, which does not count, is never
  called by another.
* `SafeOK`: the windows to be kept and all above them belong to others and do not go.

`Later` is what all waiting calls need of a step: XIDs lose records but get none, a
table is as it was or has a lower count, children go but do not come, save sets
and the selection let go. `FrameKeeps` uses it once for all of them; each action is
one lemma (`FreeNextKeeps` to `SelectEventsKeeps`). TLC checked `JInv` on all states of
the run before it was proved.

`TypeOK` says two things more, that are only model-checked (section 13): that no count
is below zero, and that tables have at most `MaxBuckets` buckets, which holds only
where doubling `InitBuckets` leads to `MaxBuckets`, as 64 does to 2048.

**Left out.** Resource types other than windows, `OtherClients` and privates;
passive grabs; the reset after the last client; failed allocations; properties; the
order of siblings; of `LegalNewID` the branch for PANORAMIX, which allows every XID of
the server's range, used or not, if that extension runs. `elements` counts as the code counts it:
`FreeResourceByType` does not decrement it, so `mbuf.c:1507` and `glxutil.c:370` let a
table grow early; nothing depends on it.

## 9. XSYNC: `SyncValue`, `SyncCounters`, `ServerTime`

**What they model.** `SyncValue` is the arithmetic of `sync.h` on two words.
`SyncCounters` has counters, awaits of several conditions, alarms, the list of
triggers of each counter, and `walk`: the loop of `SyncChangeCounter` and
`FreeCounter` that fires triggers whose functions delete, re-initialize and move
triggers in the list it is in. An alarm that fires adds its delta until it is false or
overflows: `Ends` has the numbers of additions after which that may be, and with none
(`Loops`) the server is `Stopped` in the loop. `ServerTime` is the system counter with its
list, the bracket, the block and the wakeup handler and the alarms they wait for.

**Two errors of the code that the models have.**

`SyncDeleteTriggerFromCounter` never assigns `pPrev` (`sync.c:353`), so a trigger that is
not the first leaves its list with all that are in front of it: those are newer, as
triggers are added at the front. `Behind` is what stays on the list, and `lost` has the
triggers that went along: a history variable, which no action reads. In four
steps: a client creates a counter and an alarm on it, another awaits the counter, the
alarm is destroyed, and the list is empty. The other client sleeps through every change of
the counter. If the counter is destroyed it is not told, and keeps a
pointer to freed memory (`Dangling`: its counter is `Freed`), which a later request about
the alarm, or the end of the client, uses. What the server does then is not known,
and the model has no such step: `Usable` and `Intact` keep it out.

`SyncComputeBracketValues` lets a transition that is ahead of the counter, but not before
`bracket_greater`, become `bracket_less` (`sync.c:1220`), though SERVERTIME never
decreases. If nothing in the same pass is before the bracket, `ServertimeBracketValues` is
given no `bracket_greater` and removes the block and the wakeup handler (`:2536`). One
repeating transition alarm is enough: set at 1 with a delta of 2 it fires at 1 and
becomes 3; the bracket, not started over (`:876`), is still 1, so 3 becomes
`bracket_less`, and nobody wakes the server at 3, nor for any other alarm, until
an alarm is set or freed. `Removed` says that this is so.

| State | Code |
|---|---|
| `counter`, `list` | `SyncCounter`, its `pTriglist` |
| `await` | the conditions after a `SyncAwaitHeader`; empty when the client does not wait |
| `alarm` | `SyncAlarm`; `test` is `trigger.test_type`, `check` the function in `trigger.CheckTrigger` |
| `lost`, `timeLost` | history: triggers that left their list with one behind them, and were not put on one again |
| `walk` | `ptl->pTrigger` and `oldval` of `SyncChangeCounter`; the counter that `FreeCounter` frees |
| `open`, `dying` | connected clients; the client in `FreeClientResources` |
| `bracket`, `less`, `armed` | `bracket_greater` and `bracket_less` of SERVERTIME; `pnext_time`, set exactly while the handlers are registered |
| `timeList`, `timeAlarm` | the `pTriglist` of SERVERTIME and its alarms |

**Runs.** `synccounters` has seven scenarios, small sets of habits of the clients.
A property that a habit breaks names it: awaiting one counter in two ways (`same`)
leaves a freed trigger in the list; awaiting one's own counter while dying (`own`)
unblocks a closed client; an alarm that overflows keeps its place or loses it;
an alarm changed by a refused request keeps the change, and in its loop the server may
then stay for ever (`mismatch`). In every
other scenario the lists are exact, the walk sound, nothing due sleeps and no
transition is missed, but for the triggers in `lost`, in all of the scenarios. Without that
exception each of the four properties fails within six steps. Words have two values, so
that values run from -2 to 1 and overflow is one step away. `servertime` has two alarms, comparisons or transitions, with
deltas of 0 and 2 and times up to three: enough for a repeating alarm to be
ahead again before the end. It has two habits of its own (`query`, `past`) as exceptions, and
`timeLost` and `Removed`: without the first, `NoOversleep` fails for an alarm in front of
one that is destroyed; without the second, in five states as told above, and `GoesOff`
for a comparison at 2 beside the repeating transition.

**Fairness** (`ServerTime`): the loop goes round and time passes.

**Proved** (`Sync_proofs`), for every even size of the word:

* the addition with carry is the mathematical one exactly unless it reports overflow
  (`AddExact`), and what the macros make of two words is always a value;
* for any clients, counters, alarms, deltas and habits, `TypeOK`, `ListsExact`, `WalkSound`,
  `NothingDue` and `TransitionsSeen` of `SyncCounters`;
* for any alarms, deltas and bound on the time, `NoOversleep` (the server wakes up at the
  first alarm that is ahead) and `AllChecked` (the counter shows no time at which a
  comparison was to fire and has not) of `ServerTime`;

all with the exceptions told above.

The lists are sequences, which are cut behind a trigger that leaves, and get new ones at
the front. `BehindIs`, `DeleteIs`, `AddIs`, `ListedIs` and `TailIs` say what that does to
a sequence in which nothing occurs twice: to what it holds, and to which of two triggers
comes first; `LostIs` says that what an await's end takes from a list is then lost or
freed. The invariant `IInv` of `SyncCounters` is

* `ListsInv`: nothing is twice on a list; what is on it is alive, of that counter and not
  lost, except while a counter ends for which a client waited in two ways; what is alive
  is on the list of its counter, except an alarm whose move overflowed, or lost (`Refers`); and
  what is lost is alive;
* `WalkInv`: one counter is being destroyed at a time, and by the client that dies if one
  does; the trigger the walk comes to next is on the list, unless a client waits in two ways;
* `ClientsInv`: who waits is connected or dying, and the habits are kept: nobody waits for
  an own counter, or for one counter twice;
* `MatchInv`: a test type has its check function. This is why the loop ends: a comparison
  with a delta leaves the range of values after as many additions as there are values
  (`LeavesRange`), and a transition is false when nothing has changed (`LoopEnds`);
* `DueInv`: a comparison that is true and not lost (`IsDue`) is ahead of the walk (`Ahead`:
  the walk is at it, or at a trigger before it on the list), unless the walk is at a trigger
  that was freed;
* `SeenInv`: and so is a condition for a transition that the change has made.

`NothingDue` and `TransitionsSeen` are what the last two say when there is no walk, or it
is at its end. The step they hang on is the firing of an await (`WakeIInv`): it takes from
the list the trigger the walk is at and all in front of it, which the walk has passed, and
those of the client's other conditions; as these are on other lists the next trigger is still
the first of those ahead (`StillAhead`).
An alarm that fires stays where it is, behind the walk, and is not true any more.

The invariant of `ServerTime` (`TimeIInv`) adds to its two properties that the counter is not
ahead of the time and `TimeListInv`: every alarm is on the list, once, or lost. The two
properties depend on each other: a bracket that is too late makes the wakeup handler skip an
alarm, and an alarm that was skipped is no longer ahead when the bracket is computed.
`BracketFound` says what one pass over the list leaves: the bracket is at or before every
alarm ahead and the handlers are there, or they were removed and `less` is the value of a
transition ahead; `FiredTimeAlarm` that a comparison that has fired is ahead again or inactive.

**Only model-checked.** `GoesOff`, which is liveness.

**Left out.** The contents of events, `SyncSetPriority`, awaits for SERVERTIME, and on it
alarms of the negative types, which a time that only grows does not make true later.

## 10. XDMCP: `XdmcpWire`, `XdmcpDisplay`, `XdmcpManager`, `Xdmcp`, `XdmcpSessions`

**What they model.** `XdmcpDisplay` is the state machine of `os/xdmcp.c`: one
operator for each datagram it acts on, the timeout with its retransmissions, the
keepalive of a dormant session, connections that begin and end the session, and
the server's reset, which is part of the step that causes it. `XdmcpManager` is
xdm: the offer (`protoDisplay`), the session (`display`) and the child process,
which tries to open the display with the authorization data of the offer, runs,
and exits; `WaitForChild` sees the exit some time later. `XdmcpWire` is what is
between them. A datagram that is lost is one that never arrives; arrivals have
no order; one datagram is duplicated in a behaviour that has the fault `copy`.

| State | Code |
|---|---|
| `state`, `timeOutRtx`, `sessionId`, `sessionSocket` | the variables of `os/xdmcp.c`; `EXITED` when `FatalError` was called |
| `cookies` | the authorization data added by `XdmcpAddAuthorization`, until a reset |
| `proto`, `session` | the entry of `protoDisplays`, of `displays`, for this display |
| `child` | the process of each session, and its key |
| `lastId`, `lastKey` | `globalSessionID`; authorization data made so far |
| `faults` | what may still go wrong |

**Run.** `xdmcp`: two sessions, three keys (so that a REQUEST can be answered
twice), two datagrams under way, limits of two timeouts instead of 7 and 4, and
five scenarios: a duplicated datagram, a display turned away at times, a
process that hangs or is not forked, a restart of xdm, a power cut of the display.
Bounded are ids, keys and datagrams: with the ids used up the display gives up
as it does when nobody answers.

* `ImplementsSessions`: `XdmcpSessions` with `stage` of each id (new, running,
  over) and `taken`, the session the display takes to run. No session is begun
  twice, whatever MANAGE arrives again, and one runs at a time. The display may
  take a session to run that does not, since the first connection it sees may be
  of another session's process and a MANAGE may be under way; but it finds out.
* `KeyPassed`: the process holds a key that the display was given. The exception,
  a REQUEST answered twice, is the divergence below.
* `SessionHasSocket`: while the display is in a session, also while it waits
  for an ALIVE, the connection whose end ends the session is open.

**Fairness.** `WF` of the display's timer only: nothing is assumed of the network or
of xdm. In the code the timer starts again whenever the server wakes up during a
session, so it is of a session in which no client is active that the property speaks.

**Proved** (`Xdmcp_proofs`), for any number of sessions, keys and datagrams under way, and
any faults: types, `KeyPassed`, `SessionHasSocket`, and that every step is one of
`XdmcpSessions` or a stutter: no session is begun twice and one runs at a time. The
invariant is `Offers` (the offer and the session before it are two, and both ids were
handed out), `KeysMatch` (if no REQUEST was answered twice, authorization data was made once
for each session and in the same order, so that wherever a session is named, in a
datagram, an offer or a process, its key is the one with its number), `KnowsSession` (a
display that asks for a session or has one knows its id) and `SessionHasSocket`. That a
MANAGE that arrives again begins nothing rests on `Offers` alone: an id that
became a session is no longer offered, and offers have new ids.

**Only model-checked.** The fairness of `XdmcpSessions`, by which the display finds out.

**Left out.** Several managers, broadcast and indirect queries, the chooser,
`-once`; XDM-AUTHENTICATION, and so DECLINE, which xdm sends for no other reason
(`Accept` of `xdm/policy.c` accepts everyone); other clients, of which one could
connect first; failed allocations; datagrams that no display or xdm sent.

## 11. Disagreements found

One is a run:

| Run | What is said | What the code does |
|---|---|---|
| `syncgrabs_replay` | `XGrKey.man:224`: the grab ends with the key | a replayed press sets off a grab without recording the key |

Others are the exceptions that the passing properties state. Each was a
counterexample before it became one:

| Property | Where | What the code does |
|---|---|---|
| `ListsExact`, `WalkSound`, `NothingDue`, `TransitionsSeen`, `NoOversleep`, `AllChecked`, `GoesOff` | `Xext/sync.c:353` | a trigger that is deleted from the middle of a list takes all in front of it along: they never fire, and keep a pointer to the counter when it is freed, though `:342` says that the function is there "to delete and add triggers on this list" and `:852` that "any triggers depending on the counter will be checked" (section 9) |
| `NoOversleep`, `GoesOff` | `Xext/sync.c:1220` | a transition that is ahead, but not before the bracket, ends in the removal of the handlers that would wake the server for it and for other alarms (section 9) |
| `ListsExact`, `WalkSound` | `Xext/sync.c:869` | a client that awaits one counter in two ways frees the trigger the walk comes to next |
| `WalkSound` | `Xext/sync.c:846` | a client that dies awaiting its own counter is attended to after it was closed |
| `ListsExact`, `NothingDue` | `Xext/sync.c:493` | an alarm whose new value overflows is inactive but still tested, or out of the list |
| `WalkSound` | `Xext/sync.c:1000` | a change of an alarm that is refused is kept: a test type stored before the request fails for a counter that does not exist (line 485) is not the one of the alarm's check function, and if the delta is 0 the loop of line 718 never ends |
| `AllChecked`, `GoesOff` | `Xext/sync.c:1823` | whoever asks for SERVERTIME makes the handler see no change since |
| `NoOversleep`, `GoesOff` | `Xext/sync.c:1917` | a repeating alarm set for the past leaves no bracket |
| `RenderCurrent` | `GL/dri/dri.c:875` | the stamp of a destroyed window stays, and a client renders on |
| `DrawableLockExcludes` | `GL/dri/dri.c:1536` | a lock taken by force is later freed by who had it, whoever has it then |
| `InputRemembered`, `Heard` | `os/connection.c:1327` | a client that is impervious, was asleep when the grab began and becomes pervious during it is taken out of the live sets and is not in the saved ones |
| `WaiterHasTurn` | `dix/dispatch.c:1200` | the one waiter that an `UngrabServer` wakes is killed, or finds the server taken by a third whose next request is already there: the next waits for that grab to end, though `XGrServer.man:164` says that requests of other connections go on |
| `GoneIsClosed` | `os/connection.c:1203` | a client that is impervious and sleeps or waits when the grab begins may be in no set when it ends, and its end is not noticed |
| `ImplementsFrozenDevices` | `dix/events.c:2733` | a repeated press is split in two; if the first half freezes the keyboard, the second waits behind events that came later, such as the release: `XGrKeybrd.man:228` says that changes are queued |
| `SavedSurvive` | `dix/window.c:3231` | a saved window inside a window of another client inside one of the closing client is destroyed with it |
| `KeyPassed` | `xdm/xdmcp.c:865` | xdm makes new authorization data for a REQUEST that comes again; the display keeps the first ACCEPT's, the process uses the last's, cannot open the display, and FAILED ends the server; `xdm.man:787` says that the data is passed in the ACCEPT |

And these were met in earlier instances that no run keeps:

* `xf86Xinput.c:791` ("only motion events switch screens"): a warp to another
  screen while a button event waits makes the button the switch, and it is
  thrown away; `:749` ("event times do not go backwards"): `lastEventTime` is set
  once; `:676` ("reentrant"): motion compressed into a slot just copied
  vanishes; `mi/mipointer.c:174`: `miPointerDisplayCursor` sets the screen with
  SIGIO let in.
* `dix/events.c:1505`: a dying client's passive grab is set off while its resources
  are freed, and freezes the keyboard after it.
* `include/extensions/sync.h:278`: `_XSyncValueSubtract` borrows from the wrong word
  in a corner; nothing modelled uses it.
* `GL/dri/dri.c:636`: `KillClient` frees the hardware context of a process that may
  still hold the lock with it.
* `os/xdmcp.c:645`: `timeOutRtx` is not reset when the session begins, so after
  retransmitted MANAGEs one lost KEEPALIVE can end it; an ALIVE that answers a
  KEEPALIVE of an earlier session ends the present one; UNWILLING ends the server
  in any state; a process that connects while the display waits for a key press
  is dropped by that key press. A fork that fails leaves the `display` of xdm
  behind (`xdm/dm.c:663`), so that MANAGE is ignored until the display gives up.

## 12. Not modelled

DRM's DMA queues, the VT switch, XKB AccessX, selections and fonts, ICE and session
management, LBX and the asynchronous replies of Xlib are protocols of the kind
above and are in the plan. Drivers, frame buffer code, rasterisers, widgets and
applications are computation over pixels, registers, bytes or files, with no
state that several actors share; a model would copy the code. `PROJECT.json` gives the
reason for each.

## 13. Reading and running

Each component is a module with its properties at the end; `MC*` modules hold the
definitions of instances, one `.cfg` is one run, `*_proofs` hold the theorems.
Operators marked "Mutant" are wrong versions of the definition they precede, one
for each property (`PROJECT.json`, `mutants`): with the mutant in its place the
property must fail, so that no property holds by the shape of the model. Type
invariants are proved but for `TypeOK` of `Resources` (section 8), that can be added
to the `.cfg`, and then holds.

    tlc -config MCHwLock.cfg MCHwLock
    tlapm HwLock_proofs.tla

Every theorem is for all values of the constants that the named assumptions allow, and
none assumes fairness. Out of the prover's reach, and left to TLC: liveness (`SleeperWoken`,
`Drains`, `GoneIsClosed`, `ServerReturns`, `ClientRenders`, `GoesOff`) and the fairness in
`ImplementsRobustLock`, `ImplementsFrozenDevices` and `ImplementsSessions`. The library's
induction theorems are not used: where a lemma is about sequences of any length
(`Resources_proofs`), a least counterexample takes their place. No module declares a
RECURSIVE operator.
