---------------------------- MODULE HwLock_proofs ----------------------------
(***************************************************************************)
(* Proofs about HwLock, for any sets of processes and contexts.            *)
(*                                                                         *)
(* None of the safety properties is inductive.  The argument rests on what *)
(* the lock word says about the process that owns its context, stated by   *)
(* the conjuncts of IInv below.                                            *)
(***************************************************************************)
EXTENDS HwLock, TLAPS

\* The big kernel lock is held by whoever runs kernel code.
BklInv == \A p \in Proc : pc[p] \in KernelPoints <=> bkl = p

\* A process locks with a context of its own.
CurInv ==
  \A p \in Proc :
    pc[p] \in {"want", "take", "asleep", "woken"} \cup Section
      => cur[p] \in Ctx /\ ctxOwner[cur[p]] = p

\* Inside the section the word names the process's context.
SectionInv == \A p \in Proc : pc[p] \in Section => word.held /\ word.ctx = cur[p]

\* A context in the word is allocated, and the kernel knows its owner.
WordInv ==
  word.ctx \in Ctx =>
    /\ ctxOwner[word.ctx] \in Proc
    /\ lockPid = ctxOwner[word.ctx] \/ pc[ctxOwner[word.ctx]] = "setPid"

\* A held word is accounted for: its owner is in the section, or dead and
\* not yet released; the kernel holds it only in the middle of an unlock.
HeldInv ==
  word.held =>
    IF word.ctx \in Ctx
      THEN pc[ctxOwner[word.ctx]] \in Section \cup {"exiting", "relFree"}
      ELSE \E p \in Proc : pc[p] = "free"

\* Where the kernel stands in an unlock or a release.
KernelInv ==
  \A p \in Proc :
    /\ pc[p] = "free" => word.held /\ word.ctx = Kernel
    /\ pc[p] \in {"wake", "unblock", "relWake"} => ~word.held /\ word.ctx = Kernel
    /\ pc[p] = "relFree" =>
         word.held /\ word.ctx = cur[p] /\ cur[p] \in Ctx /\ ctxOwner[cur[p]] = p

\* The owner of the context in the word is the process drm_notifier is about.
SigInv ==
  word.ctx \in Ctx =>
    \/ pc[ctxOwner[word.ctx]] \in {"setPid", "setSig", "exiting", "gone"} \cup ExitPoints
    \/ sigCtx = word.ctx /\ notified[ctxOwner[word.ctx]]

\* A stopped process is outside the section, in user mode; the notifier runs there too.
StopInv ==
  \A p \in Proc :
    /\ sig[p] = "stopped" => pc[p] \in {"idle", "want"}
    /\ sig[p] = "notifier" => pc[p] \in UserPoints

IInv ==
  /\ TypeOK /\ BklInv /\ CurInv /\ SectionInv /\ WordInv
  /\ HeldInv /\ KernelInv /\ SigInv /\ StopInv /\ NoLostWakeup
-----------------------------------------------------------------------------
(* The type invariant: the lock word, the kernel's record of its holder     *)
(* and every process stay in range under each user-mode and kernel step.   *)
LEMMA StepType == TypeOK /\ [Next]_vars => TypeOK'
<1> SUFFICES ASSUME TypeOK, [Next]_vars  PROVE TypeOK'
  OBVIOUS
<1> USE HwLockAssumption
    DEF TypeOK, UserPoints, LockPoints, UnlockPoints, ExitPoints, KernelPoints,
        Points, Word, Held, Left, Runs, Goto, EnterKernel, LeaveKernel,
        FreeWord, WakeQueue
\* Locking.
<1>1. ASSUME NEW p \in Proc, NEW c \in Ctx, LightLock(p, c)  PROVE  TypeOK'
  BY <1>1 DEF LightLock
<1>2. ASSUME NEW p \in Proc, NEW c \in Ctx, GetLock(p, c)  PROVE  TypeOK'
  BY <1>2 DEF GetLock
<1>3. ASSUME NEW p \in Proc, LockIoctl(p)  PROVE  TypeOK'
  BY <1>3 DEF LockIoctl
<1>4. ASSUME NEW p \in Proc, LockTaken(p)  PROVE  TypeOK'
  BY <1>4 DEF LockTaken
<1>5. ASSUME NEW p \in Proc, LockContended(p)  PROVE  TypeOK'
  BY <1>5 DEF LockContended
<1>6. ASSUME NEW p \in Proc, LockSetPid(p)  PROVE  TypeOK'
  BY <1>6 DEF LockSetPid
<1>7. ASSUME NEW p \in Proc, LockSetSig(p)  PROVE  TypeOK'
  BY <1>7 DEF LockSetSig
<1>8. ASSUME NEW p \in Proc, Resume(p)  PROVE  TypeOK'
  BY <1>8 DEF Resume
<1>9. ASSUME NEW p \in Proc, Interrupt(p)  PROVE  TypeOK'
  BY <1>9 DEF Interrupt
\* Unlocking.
<1>10. ASSUME NEW p \in Proc, LightUnlock(p)  PROVE  TypeOK'
  BY <1>10 DEF LightUnlock
<1>11. ASSUME NEW p \in Proc, HeavyUnlock(p)  PROVE  TypeOK'
  BY <1>11 DEF HeavyUnlock
<1>12. ASSUME NEW p \in Proc, UnlockIoctl(p)  PROVE  TypeOK'
  BY <1>12 DEF UnlockIoctl
<1>13. ASSUME NEW p \in Proc, Transfer(p)  PROVE  TypeOK'
  BY <1>13 DEF Transfer
<1>14. ASSUME NEW p \in Proc, Free(p)  PROVE  TypeOK'
  BY <1>14 DEF Free
<1>15. ASSUME NEW p \in Proc, Wake(p)  PROVE  TypeOK'
  BY <1>15 DEF Wake
<1>16. ASSUME NEW p \in Proc, Unblock(p)  PROVE  TypeOK'
  BY <1>16 DEF Unblock
\* Death and release.
<1>17. ASSUME NEW p \in Proc, Die(p)  PROVE  TypeOK'
  BY <1>17 DEF Die
<1>18. ASSUME NEW p \in Proc, Release(p)  PROVE  TypeOK'
  BY <1>18 DEF Release
<1>19. ASSUME NEW p \in Proc, ReleaseFree(p)  PROVE  TypeOK'
  BY <1>19 DEF ReleaseFree
<1>20. ASSUME NEW p \in Proc, ReleaseWake(p)  PROVE  TypeOK'
  BY <1>20 DEF ReleaseWake
<1>21. ASSUME NEW p \in Proc, Unlink(p)  PROVE  TypeOK'
  BY <1>21 DEF Unlink
<1>22. ASSUME NEW p \in Proc, Open(p)  PROVE  TypeOK'
  BY <1>22 DEF Open
\* Contexts and stop signals.
<1>23. ASSUME NEW p \in Proc, NEW c \in Ctx, CreateContext(p, c)  PROVE  TypeOK'
  BY <1>23 DEF CreateContext
<1>24. ASSUME NEW p \in Proc, NEW c \in Ctx, DestroyContext(p, c)  PROVE  TypeOK'
  BY <1>24 DEF DestroyContext
<1>25. ASSUME NEW p \in Proc, StopDelivered(p)  PROVE  TypeOK'
  BY <1>25 DEF StopDelivered
<1>26. ASSUME NEW p \in Proc, StopNotified(p)  PROVE  TypeOK'
  BY <1>26 DEF StopNotified
<1>27. ASSUME NEW p \in Proc, NotifierContend(p)  PROVE  TypeOK'
  BY <1>27 DEF NotifierContend
<1>28. ASSUME NEW p \in Proc, Continue(p)  PROVE  TypeOK'
  BY <1>28 DEF Continue
<1>29. CASE UNCHANGED vars
  BY <1>29 DEF vars
<1> QED
  BY <1>1, <1>2, <1>3, <1>4, <1>5, <1>6, <1>7, <1>8, <1>9, <1>10, <1>11,
     <1>12, <1>13, <1>14, <1>15, <1>16, <1>17, <1>18, <1>19, <1>20, <1>21,
     <1>22, <1>23, <1>24, <1>25, <1>26, <1>27, <1>28, <1>29
     DEF Next, Lock, Unlock, Exit, Contexts, Signal

(* Init of the device: nobody holds the lock and only the server is there. *)
LEMMA InitIInv == Init => IInv
<1> SUFFICES ASSUME Init  PROVE IInv
  OBVIOUS
<1> USE HwLockAssumption
    DEF Init, Left, UserPoints, LockPoints, UnlockPoints, ExitPoints,
        KernelPoints, Points, Section
<1>1. TypeOK                             BY DEF TypeOK, Word
<1>2. BklInv /\ CurInv /\ SectionInv     BY DEF BklInv, CurInv, SectionInv
<1>3. WordInv /\ HeldInv /\ KernelInv    BY DEF WordInv, HeldInv, KernelInv
<1>4. SigInv /\ StopInv /\ NoLostWakeup  BY DEF SigInv, StopInv, NoLostWakeup
<1> QED
  BY <1>1, <1>2, <1>3, <1>4 DEF IInv

(* Every step of tdfx_lock, tdfx_unlock, drm_release, the notifier and the *)
(* user-mode compare-and-swaps preserves the inductive invariant.          *)
LEMMA StepIInv == IInv /\ [Next]_vars => IInv'
<1> SUFFICES ASSUME IInv, [Next]_vars  PROVE IInv'
  OBVIOUS
<1>0. TypeOK'
  BY StepType DEF IInv
<1> USE <1>0, HwLockAssumption
    DEF IInv, TypeOK, BklInv, CurInv, SectionInv, WordInv, HeldInv, KernelInv,
        SigInv, StopInv, NoLostWakeup,
        UserPoints, LockPoints, UnlockPoints, ExitPoints, KernelPoints, Points,
        Section, Word, Held, Left, Runs, Goto, EnterKernel, LeaveKernel,
        FreeWord, WakeQueue, LockIsHeldBySigCtx
\* Locking.
<1>1. ASSUME NEW p \in Proc, NEW c \in Ctx, LightLock(p, c)  PROVE  IInv'
  BY <1>1, SMTT(20) DEF LightLock
<1>2. ASSUME NEW p \in Proc, NEW c \in Ctx, GetLock(p, c)  PROVE  IInv'
  BY <1>2, SMTT(20) DEF GetLock
<1>3. ASSUME NEW p \in Proc, LockIoctl(p)  PROVE  IInv'
  BY <1>3, SMTT(20) DEF LockIoctl
<1>4. ASSUME NEW p \in Proc, LockTaken(p)  PROVE  IInv'
  BY <1>4, SMTT(20) DEF LockTaken
<1>5. ASSUME NEW p \in Proc, LockContended(p)  PROVE  IInv'
  BY <1>5, SMTT(20) DEF LockContended
<1>6. ASSUME NEW p \in Proc, LockSetPid(p)  PROVE  IInv'
  BY <1>6, SMTT(20) DEF LockSetPid
<1>7. ASSUME NEW p \in Proc, LockSetSig(p)  PROVE  IInv'
  BY <1>7, SMTT(20) DEF LockSetSig
<1>8. ASSUME NEW p \in Proc, Resume(p)  PROVE  IInv'
  BY <1>8, SMTT(20) DEF Resume
<1>9. ASSUME NEW p \in Proc, Interrupt(p)  PROVE  IInv'
  BY <1>9, SMTT(20) DEF Interrupt
\* Unlocking.
<1>10. ASSUME NEW p \in Proc, LightUnlock(p)  PROVE  IInv'
  BY <1>10, SMTT(20) DEF LightUnlock
<1>11. ASSUME NEW p \in Proc, HeavyUnlock(p)  PROVE  IInv'
  BY <1>11, SMTT(20) DEF HeavyUnlock
<1>12. ASSUME NEW p \in Proc, UnlockIoctl(p)  PROVE  IInv'
  BY <1>12, SMTT(20) DEF UnlockIoctl
<1>13. ASSUME NEW p \in Proc, Transfer(p)  PROVE  IInv'
  BY <1>13, SMTT(20) DEF Transfer
<1>14. ASSUME NEW p \in Proc, Free(p)  PROVE  IInv'
  BY <1>14, SMTT(20) DEF Free
<1>15. ASSUME NEW p \in Proc, Wake(p)  PROVE  IInv'
  BY <1>15, SMTT(20) DEF Wake
<1>16. ASSUME NEW p \in Proc, Unblock(p)  PROVE  IInv'
  BY <1>16, SMTT(20) DEF Unblock
\* Death and release.
<1>17. ASSUME NEW p \in Proc, Die(p)  PROVE  IInv'
  BY <1>17, SMTT(20) DEF Die
<1>18. ASSUME NEW p \in Proc, Release(p)  PROVE  IInv'
  BY <1>18, SMTT(20) DEF Release
<1>19. ASSUME NEW p \in Proc, ReleaseFree(p)  PROVE  IInv'
  BY <1>19, SMTT(20) DEF ReleaseFree
<1>20. ASSUME NEW p \in Proc, ReleaseWake(p)  PROVE  IInv'
  BY <1>20, SMTT(20) DEF ReleaseWake
<1>21. ASSUME NEW p \in Proc, Unlink(p)  PROVE  IInv'
  BY <1>21, SMTT(20) DEF Unlink
<1>22. ASSUME NEW p \in Proc, Open(p)  PROVE  IInv'
  BY <1>22, SMTT(20) DEF Open
\* Contexts and stop signals.
<1>23. ASSUME NEW p \in Proc, NEW c \in Ctx, CreateContext(p, c)  PROVE  IInv'
  BY <1>23, SMTT(20) DEF CreateContext
<1>24. ASSUME NEW p \in Proc, NEW c \in Ctx, DestroyContext(p, c)  PROVE  IInv'
  BY <1>24, SMTT(20) DEF DestroyContext
<1>25. ASSUME NEW p \in Proc, StopDelivered(p)  PROVE  IInv'
  BY <1>25, SMTT(20) DEF StopDelivered
<1>26. ASSUME NEW p \in Proc, StopNotified(p)  PROVE  IInv'
  BY <1>26, SMTT(20) DEF StopNotified
<1>27. ASSUME NEW p \in Proc, NotifierContend(p)  PROVE  IInv'
  BY <1>27, SMTT(20) DEF NotifierContend
<1>28. ASSUME NEW p \in Proc, Continue(p)  PROVE  IInv'
  BY <1>28, SMTT(20) DEF Continue
<1>29. CASE UNCHANGED vars
  BY <1>29 DEF vars
<1> QED
  BY <1>1, <1>2, <1>3, <1>4, <1>5, <1>6, <1>7, <1>8, <1>9, <1>10, <1>11,
     <1>12, <1>13, <1>14, <1>15, <1>16, <1>17, <1>18, <1>19, <1>20, <1>21,
     <1>22, <1>23, <1>24, <1>25, <1>26, <1>27, <1>28, <1>29
     DEF Next, Lock, Unlock, Exit, Contexts, Signal

(* The inductive invariant holds in every reachable state.                 *)
LEMMA Invariance == Spec => []IInv
<1>1. Init => IInv  BY InitIInv
<1>2. IInv /\ [Next]_vars => IInv'  BY StepIInv
<1> QED  BY <1>1, <1>2, PTL DEF Spec
-----------------------------------------------------------------------------
(* Types hold for every number of processes and contexts, whatever the     *)
(* order of ioctls, compare-and-swaps, deaths and signals.                 *)
THEOREM TypeCorrect == Spec => []TypeOK
<1>1. IInv => TypeOK  BY DEF IInv
<1> QED  BY <1>1, Invariance, PTL

(* The section between a successful DRM_LOCK and its DRM_UNLOCK is never   *)
(* shared: the word names one context, and a context has one owner.        *)
THEOREM MutualExclusionHolds == Spec => []MutualExclusion
<1>1. IInv => MutualExclusion  BY DEF IInv, MutualExclusion, TypeOK, SectionInv, CurInv, Section
<1> QED  BY <1>1, Invariance, PTL

(* dev->lock.pid names the holder even after light locks that the kernel   *)
(* never saw, so that drm_release frees a dead holder's lock.              *)
THEOREM HolderRecordedHolds == Spec => []HolderRecorded
<1>1. IInv => HolderRecorded  BY DEF IInv, HolderRecorded, TypeOK, CurInv, SectionInv, WordInv, Section, ExitPoints
<1> QED  BY <1>1, Invariance, PTL

(* No sleeper of lock_queue is forgotten by the unlock paths.              *)
THEOREM NoLostWakeupHolds == Spec => []NoLostWakeup
<1>1. IInv => NoLostWakeup  BY DEF IInv
<1> QED  BY <1>1, Invariance, PTL

(* block_all_signals keeps the holder of the lock running.                 *)
THEOREM StoppedNeverHoldsHolds == Spec => []StoppedNeverHolds
<1>1. IInv => StoppedNeverHolds  BY DEF IInv, StoppedNeverHolds, StopInv, Section
<1> QED  BY <1>1, Invariance, PTL

(* drm_lock_free always frees for the context in the word, so that its     *)
(* early return never skips the wake_up.                                   *)
THEOREM FreeNamesHolderHolds == Spec => []FreeNamesHolder
<1>1. IInv => FreeNamesHolder  BY DEF IInv, FreeNamesHolder, KernelInv
<1> QED  BY <1>1, Invariance, PTL

-----------------------------------------------------------------------------
(* Refinement: a successful compare-and-swap acquires, a light unlock or   *)
(* drm_lock_transfer releases, drm_release reclaims; the rest stutters.    *)
LEMMA StepImplements == IInv /\ [Next]_vars => [Abstract!Next]_(Abstract!vars)
<1> SUFFICES ASSUME IInv, [Next]_vars
             PROVE  [Abstract!Next]_(Abstract!vars)
  OBVIOUS
<1> USE HwLockAssumption
    DEF IInv, TypeOK, CurInv, SectionInv, WordInv, HeldInv, KernelInv,
        UserPoints, LockPoints, UnlockPoints, ExitPoints, KernelPoints, Points,
        Section, Word, Held, Left, Runs, Goto, EnterKernel, LeaveKernel,
        FreeWord, WakeQueue, Owner, Inside, Alive, Abstract!vars, Abstract!Next
\* Locking.
<1>1. ASSUME NEW p \in Proc, NEW c \in Ctx, LightLock(p, c)  PROVE  [Abstract!Next]_(Abstract!vars)
  BY <1>1, SMTT(20) DEF LightLock, Abstract!Acquire
<1>2. ASSUME NEW p \in Proc, NEW c \in Ctx, GetLock(p, c)  PROVE  [Abstract!Next]_(Abstract!vars)
  BY <1>2, SMTT(20) DEF GetLock
<1>3. ASSUME NEW p \in Proc, LockIoctl(p)  PROVE  [Abstract!Next]_(Abstract!vars)
  BY <1>3, SMTT(20) DEF LockIoctl
<1>4. ASSUME NEW p \in Proc, LockTaken(p)  PROVE  [Abstract!Next]_(Abstract!vars)
  BY <1>4, SMTT(20) DEF LockTaken, Abstract!Acquire
<1>5. ASSUME NEW p \in Proc, LockContended(p)  PROVE  [Abstract!Next]_(Abstract!vars)
  BY <1>5, SMTT(20) DEF LockContended
<1>6. ASSUME NEW p \in Proc, LockSetPid(p)  PROVE  [Abstract!Next]_(Abstract!vars)
  BY <1>6, SMTT(20) DEF LockSetPid
<1>7. ASSUME NEW p \in Proc, LockSetSig(p)  PROVE  [Abstract!Next]_(Abstract!vars)
  BY <1>7, SMTT(20) DEF LockSetSig
<1>8. ASSUME NEW p \in Proc, Resume(p)  PROVE  [Abstract!Next]_(Abstract!vars)
  BY <1>8, SMTT(20) DEF Resume
<1>9. ASSUME NEW p \in Proc, Interrupt(p)  PROVE  [Abstract!Next]_(Abstract!vars)
  BY <1>9, SMTT(20) DEF Interrupt
\* Unlocking.
<1>10. ASSUME NEW p \in Proc, LightUnlock(p)  PROVE  [Abstract!Next]_(Abstract!vars)
  BY <1>10, SMTT(20) DEF LightUnlock, Abstract!Release
<1>11. ASSUME NEW p \in Proc, HeavyUnlock(p)  PROVE  [Abstract!Next]_(Abstract!vars)
  BY <1>11, SMTT(20) DEF HeavyUnlock
<1>12. ASSUME NEW p \in Proc, UnlockIoctl(p)  PROVE  [Abstract!Next]_(Abstract!vars)
  BY <1>12, SMTT(20) DEF UnlockIoctl
<1>13. ASSUME NEW p \in Proc, Transfer(p)  PROVE  [Abstract!Next]_(Abstract!vars)
  BY <1>13, SMTT(20) DEF Transfer, Abstract!Release
<1>14. ASSUME NEW p \in Proc, Free(p)  PROVE  [Abstract!Next]_(Abstract!vars)
  BY <1>14, SMTT(20) DEF Free
<1>15. ASSUME NEW p \in Proc, Wake(p)  PROVE  [Abstract!Next]_(Abstract!vars)
  BY <1>15, SMTT(20) DEF Wake
<1>16. ASSUME NEW p \in Proc, Unblock(p)  PROVE  [Abstract!Next]_(Abstract!vars)
  BY <1>16, SMTT(20) DEF Unblock
\* Death and release.
<1>17. ASSUME NEW p \in Proc, Die(p)  PROVE  [Abstract!Next]_(Abstract!vars)
  BY <1>17, SMTT(20) DEF Die, Abstract!Die
<1>18. ASSUME NEW p \in Proc, Release(p)  PROVE  [Abstract!Next]_(Abstract!vars)
  BY <1>18, SMTT(20) DEF Release
<1>19. ASSUME NEW p \in Proc, ReleaseFree(p)  PROVE  [Abstract!Next]_(Abstract!vars)
  BY <1>19, SMTT(20) DEF ReleaseFree, Abstract!Reclaim
<1>20. ASSUME NEW p \in Proc, ReleaseWake(p)  PROVE  [Abstract!Next]_(Abstract!vars)
  BY <1>20, SMTT(20) DEF ReleaseWake
<1>21. ASSUME NEW p \in Proc, Unlink(p)  PROVE  [Abstract!Next]_(Abstract!vars)
  BY <1>21, SMTT(20) DEF Unlink
<1>22. ASSUME NEW p \in Proc, Open(p)  PROVE  [Abstract!Next]_(Abstract!vars)
  BY <1>22, SMTT(20) DEF Open, Abstract!Join
\* Contexts and stop signals.
<1>23. ASSUME NEW p \in Proc, NEW c \in Ctx, CreateContext(p, c)  PROVE  [Abstract!Next]_(Abstract!vars)
  BY <1>23, SMTT(20) DEF CreateContext
<1>24. ASSUME NEW p \in Proc, NEW c \in Ctx, DestroyContext(p, c)  PROVE  [Abstract!Next]_(Abstract!vars)
  BY <1>24, SMTT(20) DEF DestroyContext
<1>25. ASSUME NEW p \in Proc, StopDelivered(p)  PROVE  [Abstract!Next]_(Abstract!vars)
  BY <1>25, SMTT(20) DEF StopDelivered
<1>26. ASSUME NEW p \in Proc, StopNotified(p)  PROVE  [Abstract!Next]_(Abstract!vars)
  BY <1>26, SMTT(20) DEF StopNotified
<1>27. ASSUME NEW p \in Proc, NotifierContend(p)  PROVE  [Abstract!Next]_(Abstract!vars)
  BY <1>27, SMTT(20) DEF NotifierContend
<1>28. ASSUME NEW p \in Proc, Continue(p)  PROVE  [Abstract!Next]_(Abstract!vars)
  BY <1>28, SMTT(20) DEF Continue
<1>29. CASE UNCHANGED vars
  BY <1>29 DEF vars
<1> QED
  BY <1>1, <1>2, <1>3, <1>4, <1>5, <1>6, <1>7, <1>8, <1>9, <1>10, <1>11,
     <1>12, <1>13, <1>14, <1>15, <1>16, <1>17, <1>18, <1>19, <1>20, <1>21,
     <1>22, <1>23, <1>24, <1>25, <1>26, <1>27, <1>28, <1>29
     DEF Next, Lock, Unlock, Exit, Contexts, Signal

(* The lock word with the context table behaves, step for step, as a lock  *)
(* that survives the death of its holder.                                  *)
THEOREM ImplementsRobustLockSafety ==
  Spec => Abstract!Init /\ [][Abstract!Next]_(Abstract!vars)
<1>1. Init => Abstract!Init
  BY HwLockAssumption DEF Init, Left, Section, Owner, Inside, Alive, Abstract!Init
<1> QED
  BY <1>1, StepImplements, Invariance, PTL DEF Spec
=============================================================================
