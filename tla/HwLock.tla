------------------------------- MODULE HwLock -------------------------------
(***************************************************************************)
(* The DRM hardware lock: the word in the SAREA that the X server and the  *)
(* direct rendering clients change with compare-and-swap from user mode    *)
(* (DRM_LIGHT_LOCK, DRM_UNLOCK in xf86drm.h), and the lock and unlock      *)
(* ioctls, the release of the device file and the stop-signal notifier of  *)
(* the kernel module (tdfx_drv.c, lock.c, fops.c) that change the same     *)
(* word from kernel mode.                                                  *)
(*                                                                         *)
(* A compare-and-swap loop of the kernel (read the word, compute, cmpxchg, *)
(* retry) is one step: the cmpxchg that succeeds saw the word it read.     *)
(* Kernel code runs under the big kernel lock, which tdfx_release takes    *)
(* itself and which sys_ioctl holds around every ioctl; schedule() drops   *)
(* it.  User mode, and the notifier, run without it on other processors.   *)
(***************************************************************************)
EXTENDS Integers, FiniteSets

CONSTANTS
  Proc,       \* processes that may open the device
  Server,     \* the X server, one of them
  Ctx,        \* hardware contexts other than the kernel's
  ServerCtx,  \* the context DRIFinishScreenInit creates for the server
  Kernel,     \* DRM_KERNEL_CONTEXT, 0: also the context part of a zero word
  NoProc      \* dev->lock.pid = 0, and the owner of an unallocated context

ASSUME HwLockAssumption ==
  /\ Server \in Proc
  /\ ServerCtx \in Ctx
  /\ Kernel \notin Ctx
  /\ NoProc \notin Proc

VARIABLES
  word,      \* hw_lock->lock: context, _DRM_LOCK_HELD, _DRM_LOCK_CONT
  lockPid,   \* dev->lock.pid
  sigCtx,    \* dev->sigdata.context, one per device
  ctxOwner,  \* ctx_bitmap, and the process each allocated context was given to
  bkl,       \* holder of the big kernel lock
  pc,        \* where each process is
  cur,       \* the context each process is locking or has locked with
  notified,  \* block_all_signals(drm_notifier, ...) is in force
  sig        \* stop signal: none, in the notifier, kept blocked, delivered

vars == <<word, lockPid, sigCtx, ctxOwner, bkl, pc, cur, notified, sig>>

(***************************************************************************)
(* Program points.  User mode: idle, want (the light lock failed, or flags *)
(* were given: about to call drmGetLock), crit, wantUnlock (the unlocking  *)
(* compare-and-swap failed: about to call drmUnlock), exiting.             *)
(***************************************************************************)
UserPoints   == {"idle", "want", "crit", "wantUnlock"}
LockPoints   == {"take", "setPid", "setSig"}
UnlockPoints == {"transfer", "free", "wake", "unblock"}
ExitPoints   == {"relFree", "relWake", "unlink"}
KernelPoints == LockPoints \cup UnlockPoints \cup ExitPoints
Points       == UserPoints \cup KernelPoints
                  \cup {"gone", "exiting", "asleep", "woken"}

Word    == [ctx : Ctx \cup {Kernel}, held : BOOLEAN, cont : BOOLEAN]
Held(c) == [ctx |-> c, held |-> TRUE,  cont |-> FALSE]  \* DRM_LOCK_HELD|c
Left(c) == [ctx |-> c, held |-> FALSE, cont |-> FALSE]  \* c, as a light unlock leaves it

Runs(p, point) == pc[p] = point /\ sig[p] \in {"none", "deferred"}
Goto(p, point) == pc' = [pc EXCEPT ![p] = point]
EnterKernel(p) == bkl = NoProc /\ bkl' = p
LeaveKernel    == bkl' = NoProc

Init ==
  /\ word     = Left(Kernel)
  /\ lockPid  = NoProc
  /\ sigCtx   = Kernel
  /\ ctxOwner = [c \in Ctx |-> IF c = ServerCtx THEN Server ELSE NoProc]
  /\ bkl      = NoProc
  /\ pc       = [p \in Proc |-> IF p = Server THEN "idle" ELSE "gone"]
  /\ cur      = [p \in Proc |-> Kernel]
  /\ notified = [p \in Proc |-> FALSE]
  /\ sig      = [p \in Proc |-> "none"]

-----------------------------------------------------------------------------
(* Locking: DRM_LIGHT_LOCK, then drmGetLock and tdfx_lock.                 *)

LightLock(p, c) ==
  /\ Runs(p, "idle") /\ ctxOwner[c] = p
  /\ word = Left(c)
  /\ word' = Held(c)
  /\ cur'  = [cur EXCEPT ![p] = c]
  /\ Goto(p, "crit")
  /\ UNCHANGED <<lockPid, sigCtx, ctxOwner, bkl, notified, sig>>

\* DRM_LOCK with flags goes to drmGetLock at once; without, when the CAS fails.
GetLock(p, c) ==
  /\ Runs(p, "idle") /\ ctxOwner[c] = p
  /\ cur' = [cur EXCEPT ![p] = c]
  /\ Goto(p, "want")
  /\ UNCHANGED <<word, lockPid, sigCtx, ctxOwner, bkl, notified, sig>>

LockIoctl(p) ==
  /\ Runs(p, "want")
  /\ EnterKernel(p) /\ Goto(p, "take")
  /\ UNCHANGED <<word, lockPid, sigCtx, ctxOwner, cur, notified, sig>>

\* drm_lock_take succeeds on a word that is not held, whatever its context is.
LockTaken(p) ==
  /\ pc[p] = "take" /\ ~word.held
  /\ word' = Held(cur[p])
  /\ Goto(p, "setPid")
  /\ UNCHANGED <<lockPid, sigCtx, ctxOwner, bkl, cur, notified, sig>>

\* Mutant: the contended bit is forgotten.
MutContended(p) ==
  /\ pc[p] = "take" /\ word.held
  /\ LeaveKernel /\ Goto(p, "asleep")
  /\ UNCHANGED <<word, lockPid, sigCtx, ctxOwner, cur, notified, sig>>

\* Otherwise it marks the word contended, and tdfx_lock sleeps in lock_queue.
LockContended(p) ==
  /\ pc[p] = "take" /\ word.held
  /\ word' = [word EXCEPT !.cont = TRUE]
  /\ LeaveKernel /\ Goto(p, "asleep")
  /\ UNCHANGED <<lockPid, sigCtx, ctxOwner, cur, notified, sig>>

LockSetPid(p) ==
  /\ pc[p] = "setPid"
  /\ lockPid' = p
  /\ Goto(p, "setSig")
  /\ UNCHANGED <<word, sigCtx, ctxOwner, bkl, cur, notified, sig>>

\* Mutant: the notifier's data is filled in by the first lock only.
MutSetSig(p) ==
  /\ pc[p] = "setSig"
  /\ sigCtx'   = IF sigCtx = Kernel THEN cur[p] ELSE sigCtx
  /\ notified' = [notified EXCEPT ![p] = TRUE]
  /\ LeaveKernel /\ Goto(p, "crit")
  /\ UNCHANGED <<word, lockPid, ctxOwner, cur, sig>>

LockSetSig(p) ==
  /\ pc[p] = "setSig"
  /\ sigCtx'   = cur[p]
  /\ notified' = [notified EXCEPT ![p] = TRUE]
  /\ LeaveKernel /\ Goto(p, "crit")
  /\ UNCHANGED <<word, lockPid, ctxOwner, cur, sig>>

\* schedule() returns after a wake_up: the loop of tdfx_lock tries again.
Resume(p) ==
  /\ pc[p] = "woken"
  /\ EnterKernel(p) /\ Goto(p, "take")
  /\ UNCHANGED <<word, lockPid, sigCtx, ctxOwner, cur, notified, sig>>

\* schedule() returns for a signal: -ERESTARTSYS, and drmGetLock calls again.
Interrupt(p) ==
  /\ pc[p] \in {"asleep", "woken"}
  /\ Goto(p, "want")
  /\ UNCHANGED <<word, lockPid, sigCtx, ctxOwner, bkl, cur, notified, sig>>

-----------------------------------------------------------------------------
(* Unlocking: DRM_UNLOCK, then drmUnlock and tdfx_unlock.                  *)

LightUnlock(p) ==
  /\ Runs(p, "crit")
  /\ word = Held(cur[p])
  /\ word' = Left(cur[p])
  /\ Goto(p, "idle")
  /\ UNCHANGED <<lockPid, sigCtx, ctxOwner, bkl, cur, notified, sig>>

HeavyUnlock(p) ==
  /\ Runs(p, "crit")
  /\ word # Held(cur[p])
  /\ Goto(p, "wantUnlock")
  /\ UNCHANGED <<word, lockPid, sigCtx, ctxOwner, bkl, cur, notified, sig>>

UnlockIoctl(p) ==
  /\ Runs(p, "wantUnlock")
  /\ EnterKernel(p) /\ Goto(p, "transfer")
  /\ UNCHANGED <<word, lockPid, sigCtx, ctxOwner, cur, notified, sig>>

\* drm_lock_transfer hands the lock to the kernel, whoever held it.
Transfer(p) ==
  /\ pc[p] = "transfer"
  /\ lockPid' = NoProc
  /\ word'    = Held(Kernel)
  /\ Goto(p, "free")
  /\ UNCHANGED <<sigCtx, ctxOwner, bkl, cur, notified, sig>>

\* Mutant: the test for the early return is the wrong way round.
MutFreeSkips(p, c, woken, skipped) ==
  /\ lockPid' = NoProc
  /\ word'    = Left(Kernel)
  /\ Goto(p, IF word.held /\ word.ctx = c THEN skipped ELSE woken)
  /\ UNCHANGED <<sigCtx, ctxOwner, bkl, cur, notified, sig>>

\* drm_lock_free zeroes the word; it skips the wake_up when another context held it.
FreeWord(p, c, woken, skipped) ==
  /\ lockPid' = NoProc
  /\ word'    = Left(Kernel)
  /\ Goto(p, IF word.held /\ word.ctx # c THEN skipped ELSE woken)
  /\ UNCHANGED <<sigCtx, ctxOwner, bkl, cur, notified, sig>>

Free(p) == pc[p] = "free" /\ FreeWord(p, Kernel, "wake", "unblock")

\* wake_up_interruptible(&dev->lock.lock_queue)
WakeQueue(p, next) ==
  /\ pc' = [q \in Proc |-> IF q = p THEN next
                           ELSE IF pc[q] = "asleep" THEN "woken" ELSE pc[q]]
  /\ UNCHANGED <<word, lockPid, sigCtx, ctxOwner, bkl, cur, notified, sig>>

Wake(p) == pc[p] = "wake" /\ WakeQueue(p, "unblock")

\* unblock_all_signals: a stop signal kept blocked is delivered on the way out.
Unblock(p) ==
  /\ pc[p] = "unblock"
  /\ notified' = [notified EXCEPT ![p] = FALSE]
  /\ sig' = [sig EXCEPT ![p] = IF @ = "deferred" THEN "stopped" ELSE @]
  /\ LeaveKernel /\ Goto(p, "idle")
  /\ UNCHANGED <<word, lockPid, sigCtx, ctxOwner, cur>>

-----------------------------------------------------------------------------
(* A process dies, or closes the device: drm_release under tdfx_release.   *)

Die(p) ==
  /\ pc[p] \in UserPoints /\ sig[p] # "notifier"
  /\ Goto(p, "exiting")
  /\ sig'      = [sig EXCEPT ![p] = "none"]
  /\ notified' = [notified EXCEPT ![p] = FALSE]
  /\ UNCHANGED <<word, lockPid, sigCtx, ctxOwner, bkl, cur>>

\* Mutant: tdfx_release without lock_kernel.
MutReleaseUnlocked(p) ==
  /\ pc[p] = "exiting"
  /\ bkl' = p
  /\ IF word.held /\ lockPid = p
       THEN Goto(p, "relFree") /\ cur' = [cur EXCEPT ![p] = word.ctx]
       ELSE Goto(p, "unlink")  /\ cur' = cur
  /\ UNCHANGED <<word, lockPid, sigCtx, ctxOwner, notified, sig>>

\* Mutant: a held lock is freed whoever holds it.
MutReleaseAny(p) ==
  /\ pc[p] = "exiting"
  /\ EnterKernel(p)
  /\ IF word.held
       THEN Goto(p, "relFree") /\ cur' = [cur EXCEPT ![p] = word.ctx]
       ELSE Goto(p, "unlink")  /\ cur' = cur
  /\ UNCHANGED <<word, lockPid, sigCtx, ctxOwner, notified, sig>>

\* The context given to drm_lock_free is the one read from the word here.
Release(p) ==
  /\ pc[p] = "exiting"
  /\ EnterKernel(p)
  /\ IF word.held /\ lockPid = p
       THEN Goto(p, "relFree") /\ cur' = [cur EXCEPT ![p] = word.ctx]
       ELSE Goto(p, "unlink")  /\ cur' = cur
  /\ UNCHANGED <<word, lockPid, sigCtx, ctxOwner, notified, sig>>

ReleaseFree(p) == pc[p] = "relFree" /\ FreeWord(p, cur[p], "relWake", "unlink")

ReleaseWake(p) == pc[p] = "relWake" /\ WakeQueue(p, "unlink")

\* The rest of drm_release: the file is taken off the device's list.
Unlink(p) ==
  /\ pc[p] = "unlink"
  /\ LeaveKernel /\ Goto(p, "gone")
  /\ UNCHANGED <<word, lockPid, sigCtx, ctxOwner, cur, notified, sig>>

\* A new client process opens the device; it owns no context yet.
Open(p) ==
  /\ pc[p] = "gone" /\ p # Server
  /\ \A c \in Ctx : ctxOwner[c] # p
  /\ Goto(p, "idle")
  /\ UNCHANGED <<word, lockPid, sigCtx, ctxOwner, bkl, cur, notified, sig>>

-----------------------------------------------------------------------------
(* The server allocates and frees contexts for its clients while it runs   *)
(* requests, and it runs requests between DRIDoWakeupHandler's DRILock and *)
(* DRIDoBlockHandler's DRIUnlock.                                          *)

CreateContext(p, c) ==
  /\ Runs(Server, "crit")
  /\ p # Server /\ pc[p] = "idle"
  /\ ctxOwner[c] = NoProc
  /\ ctxOwner' = [ctxOwner EXCEPT ![c] = p]
  /\ UNCHANGED <<word, lockPid, sigCtx, bkl, pc, cur, notified, sig>>

\* On the client's request, or as a resource of a connection that is gone.
DestroyContext(p, c) ==
  /\ Runs(Server, "crit")
  /\ p # Server /\ pc[p] \in {"idle", "exiting", "gone"}
  /\ ctxOwner[c] = p
  /\ ctxOwner' = [ctxOwner EXCEPT ![c] = NoProc]
  /\ UNCHANGED <<word, lockPid, sigCtx, bkl, pc, cur, notified, sig>>

-----------------------------------------------------------------------------
(* SIGSTOP, SIGTSTP, SIGTTIN or SIGTTOU for a process in user mode.        *)

LockIsHeldBySigCtx == word.held /\ word.ctx = sigCtx

\* No notifier is in force, or drm_notifier returns 1.
StopDelivered(p) ==
  /\ pc[p] \in UserPoints /\ sig[p] \in {"none", "deferred"}
  /\ notified[p] => ~LockIsHeldBySigCtx
  /\ sig' = [sig EXCEPT ![p] = "stopped"]
  /\ UNCHANGED <<word, lockPid, sigCtx, ctxOwner, bkl, pc, cur, notified>>

\* drm_notifier found the lock held; it has yet to set the contended bit.
StopNotified(p) ==
  /\ pc[p] \in UserPoints /\ sig[p] \in {"none", "deferred"}
  /\ notified[p] /\ LockIsHeldBySigCtx
  /\ sig' = [sig EXCEPT ![p] = "notifier"]
  /\ UNCHANGED <<word, lockPid, sigCtx, ctxOwner, bkl, pc, cur, notified>>

\* The bit is set on whatever the word holds by now.
NotifierContend(p) ==
  /\ sig[p] = "notifier"
  /\ word' = [word EXCEPT !.cont = TRUE]
  /\ sig'  = [sig EXCEPT ![p] = "deferred"]
  /\ UNCHANGED <<lockPid, sigCtx, ctxOwner, bkl, pc, cur, notified>>

\* SIGCONT
Continue(p) ==
  /\ sig[p] \in {"deferred", "stopped"}
  /\ sig' = [sig EXCEPT ![p] = "none"]
  /\ UNCHANGED <<word, lockPid, sigCtx, ctxOwner, bkl, pc, cur, notified>>

-----------------------------------------------------------------------------
Lock(p) ==
  \/ \E c \in Ctx : LightLock(p, c) \/ GetLock(p, c)
  \/ LockIoctl(p) \/ LockTaken(p) \/ LockContended(p)
  \/ LockSetPid(p) \/ LockSetSig(p) \/ Resume(p) \/ Interrupt(p)

Unlock(p) ==
  \/ LightUnlock(p) \/ HeavyUnlock(p) \/ UnlockIoctl(p)
  \/ Transfer(p) \/ Free(p) \/ Wake(p) \/ Unblock(p)

Exit(p) ==
  \/ Die(p) \/ Release(p) \/ ReleaseFree(p) \/ ReleaseWake(p)
  \/ Unlink(p) \/ Open(p)

Contexts(p) == \E c \in Ctx : CreateContext(p, c) \/ DestroyContext(p, c)

Signal(p) ==
  \/ StopDelivered(p) \/ StopNotified(p) \/ NotifierContend(p) \/ Continue(p)

Next == \E p \in Proc : Lock(p) \/ Unlock(p) \/ Exit(p) \/ Contexts(p) \/ Signal(p)

Spec == Init /\ [][Next]_vars

(***************************************************************************)
(* Fairness: kernel code and a woken process run on; the spinning wait for *)
(* the big kernel lock ends; a client or the server that holds the lock    *)
(* reaches its DRM_UNLOCK however often it is signalled.                   *)
(***************************************************************************)
Fairness ==
  \A p \in Proc :
    /\ WF_vars(LockTaken(p) \/ LockContended(p) \/ LockSetPid(p) \/ LockSetSig(p))
    /\ WF_vars(Transfer(p) \/ Free(p) \/ Wake(p) \/ Unblock(p))
    /\ WF_vars(ReleaseFree(p) \/ ReleaseWake(p) \/ Unlink(p))
    /\ WF_vars(NotifierContend(p))
    /\ SF_vars(Resume(p))
    /\ SF_vars(LightUnlock(p) \/ HeavyUnlock(p) \/ UnlockIoctl(p))
    /\ SF_vars(Release(p))

FairSpec == Spec /\ Fairness
-----------------------------------------------------------------------------
(* Properties.                                                             *)

TypeOK ==
  /\ word \in Word
  /\ lockPid \in Proc \cup {NoProc}
  /\ sigCtx \in Ctx \cup {Kernel}
  /\ ctxOwner \in [Ctx -> Proc \cup {NoProc}]
  /\ bkl \in Proc \cup {NoProc}
  /\ pc \in [Proc -> Points]
  /\ cur \in [Proc -> Ctx \cup {Kernel}]
  /\ notified \in [Proc -> BOOLEAN]
  /\ sig \in [Proc -> {"none", "notifier", "deferred", "stopped"}]

\* From the successful compare-and-swap to the one that gives the lock back.
Section == {"setPid", "setSig", "crit", "wantUnlock", "transfer"}

(* Two processes are never between taking and giving back the hardware     *)
(* lock, however user-mode compare-and-swaps, ioctls and the release of a  *)
(* dead process's file interleave (tdfx_lock, tdfx_unlock, drm_release).   *)
MutualExclusion ==
  \A p, q \in Proc : pc[p] \in Section /\ pc[q] \in Section => p = q

(* Light locks bypass the kernel, yet dev->lock.pid names the holder when  *)
(* it runs in user mode or has died: drm_release will free its lock.       *)
HolderRecorded ==
  \A p \in Proc :
    \/ pc[p] \in {"crit", "wantUnlock"}
    \/ pc[p] \in {"exiting", "relFree"} /\ word.held
         /\ word.ctx \in {c \in Ctx : ctxOwner[c] = p}
    => lockPid = p

(* A process asleep in lock_queue will be woken: either the word is held   *)
(* and contended, so that the holder's DRM_UNLOCK must call the kernel, or *)
(* a process that freed the word is on its way to wake_up_interruptible.   *)
NoLostWakeup ==
  (\E p \in Proc : pc[p] = "asleep") =>
    \/ word.held /\ word.cont /\ word.ctx \in Ctx
    \/ \E q \in Proc : pc[q] \in {"free", "wake", "relWake"}

(* A process is never stopped while it holds the hardware lock: although   *)
(* the data of drm_notifier is one record per device, it describes the     *)
(* holder whenever the holder can be signalled.                            *)
StoppedNeverHolds ==
  \A p \in Proc : sig[p] = "stopped" => pc[p] \notin Section

(* The early return of drm_lock_free, which skips the wake_up, is never    *)
(* taken: the kernel frees the lock only for the context that holds it.    *)
FreeNamesHolder ==
  \A p \in Proc :
    /\ pc[p] = "free" => word.held /\ word.ctx = Kernel
    /\ pc[p] = "relFree" => word.held /\ word.ctx = cur[p]

Owner == IF word.held /\ word.ctx \in Ctx THEN ctxOwner[word.ctx] ELSE NoProc
Alive == {p \in Proc : pc[p] \notin {"gone", "exiting"} \cup ExitPoints}

Inside == {p \in Proc : pc[p] \in Section}

Abstract == INSTANCE RobustLock WITH owner <- Owner, inside <- Inside, alive <- Alive

(* The lock word, with the context table, implements a lock that survives  *)
(* the death of its holder; a dead holder's lock is eventually freed.      *)
ImplementsRobustLock == Abstract!Spec

(* A process that went to sleep for the lock does not sleep for ever.      *)
SleeperWoken == \A p \in Proc : pc[p] = "asleep" ~> pc[p] # "asleep"
=============================================================================
