--------------------- MODULE ConnectionLifecycleProofs ---------------------
(***************************************************************************)
(* Proofs about ConnectionLifecycle, for any set of calls, any kinds and   *)
(* any number of cancellations.                                            *)
(***************************************************************************)
EXTENDS ConnectionLifecycle, FiniteSetTheorems, WellFoundedInduction, TLAPS

USE KindsAssumption, NoCallAssumption, MaxCancelsAssumption

(* What the helpers of the model return                                    *)

LEMMA EmptyType == ASSUME NEW S PROVE <<>> \in Seq(S)
OBVIOUS

LEMMA TailType ==
    ASSUME NEW S, NEW q \in Seq(S), q # <<>>
    PROVE  Tail(q) \in Seq(S)
OBVIOUS

LEMMA GotoType ==
    ASSUME pc \in [Calls -> PCs], NEW c, NEW p \in PCs, Goto(c, p)
    PROVE  pc' \in [Calls -> PCs]
BY DEF Goto

LEMMA StartType ==
    ASSUME rec \in [Calls -> [Layers -> Steps]], NEW c \in Calls, NEW l \in Layers,
           StartRecovery(c, l) \/ EndRecovery(c, l)
    PROVE  rec' \in [Calls -> [Layers -> Steps]]
BY DEF StartRecovery, EndRecovery, Steps

LEMMA AdvanceType ==
    ASSUME rec \in [Calls -> [Layers -> Steps]], NEW c \in Calls, NEW l \in Layers,
           NEW s \in Steps
    PROVE  [rec EXCEPT ![c][l] = s] \in [Calls -> [Layers -> Steps]]
OBVIOUS

LEMMA RestartType ==
    ASSUME rec \in [Calls -> [Layers -> Steps]], NEW c \in Calls
    PROVE  [rec EXCEPT ![c]["inner"] = "none", ![c]["outer"] = "first"]
             \in [Calls -> [Layers -> Steps]]
BY DEF Layers, Steps

LEMMA InterruptedType ==
    ASSUME pane \in Seq(Calls), NEW p \in Interrupted(pane)
    PROVE  p \in Seq(Calls)
<1>1. p = pane \/ p = <<>> \/ (pane # <<>> /\ p = Tail(pane))
  BY DEF Interrupted
<1>. QED
  BY <1>1, EmptyType, TailType

LEMMA KillType ==
    ASSUME TypeOK, MaybeKill
    PROVE  pane' \in Seq(Calls) /\ window' \in {"open", "killed", "lost"}
<1>1. pane \in Seq(Calls) /\ window \in {"open", "killed", "lost"}
  BY DEF TypeOK
<1>. QED
  BY <1>1, EmptyType DEF MaybeKill, Kill

LEMMA Members ==
    /\ {"idle", "waiting", "done", "begin", "body", "probing"} \subseteq PCs
    /\ {"recover", "shield", "settle", "unwind", "killing", "killing2"} \subseteq PCs
    /\ "outer" \in Layers /\ "inner" \in Layers
BY DEF PCs, Using, Recovering, InnerRecovering, Closing, Layers

(* Type correctness                                                        *)

LEMMA TypeInit == Init => TypeOK
BY DEF Init, TypeOK, PCs, Using, Recovering, InnerRecovering, Closing, Layers,
       Steps, AllKinds

LEMMA TypeArrive ==
    ASSUME TypeOK, NEW c \in Calls, Arrive(c)
    PROVE  TypeOK'
<1>1. PICK k \in Kinds : Refuse(c, k) \/ Enter(c, k) \/ Queue(c, k)
  BY DEF Arrive
<1>. k \in AllKinds
  OBVIOUS
<1>2. CASE Refuse(c, k)
  BY <1>2, GotoType, Members DEF TypeOK, Refuse
<1>3. CASE Enter(c, k)
  BY <1>3, GotoType, Members DEF TypeOK, Enter, Admit
<1>4. CASE Queue(c, k)
  BY <1>4, GotoType, Members DEF TypeOK, Queue, Waiting
<1>. QED
  BY <1>1, <1>2, <1>3, <1>4

LEMMA TypeRecover ==
    ASSUME TypeOK, NEW c \in Calls, Recover(c)
    PROVE  TypeOK'
<1>0. /\ pc \in [Calls -> PCs]
      /\ pane \in Seq(Calls)
      /\ rec \in [Calls -> [Layers -> Steps]]
  BY DEF TypeOK
<1>1. ASSUME NEW l \in Layers, Interrupt(c, l)
      PROVE  TypeOK'
  <2>1. pane' \in Seq(Calls)
    BY <1>0, <1>1, InterruptedType DEF Interrupt
  <2>2. NextStep(rec[c][l]) \in Steps
    BY DEF NextStep, Steps
  <2>3. rec' \in [Calls -> [Layers -> Steps]]
    BY <1>0, <1>1, <2>2, AdvanceType DEF Interrupt
  <2>. QED
    BY <1>1, <2>1, <2>3 DEF Interrupt, TypeOK
<1>2. ASSUME NEW l \in Layers, OrphanDone(c, l)
      PROVE  TypeOK'
  BY <1>0, <1>2, StartType DEF OrphanDone, TypeOK
<1>3. ASSUME NEW ok \in BOOLEAN, RecoverDone(c, ok) \/ SettleDone(c, ok)
      PROVE  TypeOK'
  <2>1. rec' \in [Calls -> [Layers -> Steps]]
    BY <1>0, <1>3, StartType, Members DEF RecoverDone, SettleDone
  <2>. QED
    BY <1>3, <2>1, GotoType, Members DEF RecoverDone, SettleDone, Release, TypeOK
<1>4. CASE StartProbe(c)
  <2>1. rec' \in [Calls -> [Layers -> Steps]]
    BY <1>0, <1>4, StartType, Members DEF StartProbe
  <2>. QED
    BY <1>4, <2>1, GotoType, Members DEF StartProbe, TypeOK
<1>5. CASE ProbeDone(c)
  BY <1>5, GotoType, Members DEF ProbeDone, Release, TypeOK
<1>6. CASE UnwindDone(c)
  <2>1. rec' \in [Calls -> [Layers -> Steps]]
    BY <1>0, <1>6, RestartType DEF UnwindDone
  <2>. QED
    BY <1>6, <2>1, GotoType, Members DEF UnwindDone, TypeOK
<1>. QED
  BY <1>1, <1>2, <1>3, <1>4, <1>5, <1>6 DEF Recover

LEMMA TypeProgress ==
    ASSUME TypeOK, NEW c \in Calls, Progress(c)
    PROVE  TypeOK'
<1>1. CASE Acquire(c)
  BY <1>1, GotoType, Members DEF TypeOK, Acquire, Admit, Leave
<1>2. CASE AcquireRefused(c)
  BY <1>2, GotoType, Members DEF TypeOK, AcquireRefused, Unlock, Leave
<1>3. CASE Submit(c)
  BY <1>3, GotoType, Members DEF TypeOK, Submit
<1>4. CASE Succeed(c)
  BY <1>4, GotoType, Members DEF TypeOK, Succeed, Release
<1>5. CASE Fail(c) \/ FailWrite(c)
  <2>1. rec' \in [Calls -> [Layers -> Steps]]
    BY <1>5, StartType, Members DEF Fail, FailWrite, TypeOK
  <2>. QED
    BY <1>5, <2>1, GotoType, Members DEF Fail, FailWrite, TypeOK
<1>6. CASE Recover(c)
  BY <1>6, TypeRecover
<1>7. CASE KillDone(c)
  BY <1>7, KillType, GotoType, Members DEF TypeOK, KillDone, MaybeKill
<1>8. CASE KillFail(c)
  BY <1>8, KillType, GotoType, Members DEF TypeOK, KillFail, KeepOnFailure
<1>. QED
  BY <1>1, <1>2, <1>3, <1>4, <1>5, <1>6, <1>7, <1>8 DEF Progress

LEMMA TypeCancel ==
    ASSUME TypeOK, NEW c \in Calls, Cancel(c)
    PROVE  TypeOK'
<1>0. ASSUME Cancelled(c)
      PROVE  cancels' \in [Calls -> 0..MaxCancels]
  BY <1>0 DEF Cancelled, TypeOK
<1>1. CASE CancelWaiting(c)
  BY <1>0, <1>1, GotoType, Members DEF TypeOK, CancelWaiting, Leave
<1>2. CASE CancelBody(c) \/ CancelWrite(c) \/ CancelUnwind(c)
  <2>1. rec' \in [Calls -> [Layers -> Steps]]
    BY <1>2, StartType, Members
       DEF CancelBody, CancelWrite, CancelUnwind, RecoverShielded, TypeOK
  <2>. QED
    BY <1>0, <1>2, <2>1, GotoType, Members
       DEF CancelBody, CancelWrite, CancelUnwind, RecoverShielded, TypeOK
<1>3. CASE CancelRepair(c)
  <2>1. rec' \in [Calls -> [Layers -> Steps]]
    BY <1>3, RestartType DEF CancelRepair, TypeOK
  <2>. QED
    BY <1>0, <1>3, <2>1, GotoType, Members DEF CancelRepair, TypeOK
<1>4. CASE CancelRecover(c) \/ CancelShield(c)
  <2>1. rec' \in [Calls -> [Layers -> Steps]]
    BY <1>4, StartType, Members DEF CancelRecover, CancelShield, TypeOK
  <2>. QED
    BY <1>0, <1>4, <2>1, GotoType, Members
       DEF CancelRecover, CancelShield, Release, TypeOK
<1>5. CASE CancelKill(c)
  BY <1>0, <1>5, GotoType, Members DEF CancelKill, TypeOK
<1>6. CASE CancelKillAgain(c)
  BY <1>0, <1>6, KillType, GotoType, Members DEF CancelKillAgain, TypeOK
<1>. QED
  BY <1>1, <1>2, <1>3, <1>4, <1>5, <1>6 DEF Cancel

LEMMA TypeStep ==
    ASSUME TypeOK, [Next]_vars
    PROVE  TypeOK'
<1>1. CASE CommandEnds
  BY <1>1, TailType DEF TypeOK, CommandEnds
<1>2. CASE WindowLost
  BY <1>2, EmptyType DEF TypeOK, WindowLost
<1>3. CASE UNCHANGED vars
  BY <1>3 DEF TypeOK, vars
<1>. QED
  BY <1>1, <1>2, <1>3, TypeArrive, TypeProgress, TypeCancel DEF Next

\* Every variable keeps to its declared values: in particular the published
\* state is always one of the four that ConnectionState declares.
THEOREM TypeCorrect == Spec => []TypeOK
<1>1. Init => TypeOK
  BY TypeInit
<1>2. TypeOK /\ [Next]_vars => TypeOK'
  BY TypeStep
<1>. QED
  BY <1>1, <1>2, PTL DEF Spec

(* The lock and the published state                                        *)

LockInv ==
    /\ StatusMatchesLock
    /\ \A c \in Calls : pc[c] \in Closing => state = "closing"

\* Where a call is, in terms of the sets LockInv speaks of.
LEMMA Places ==
    /\ \A p \in {"idle", "waiting", "done"} : p \notin Using /\ p \notin Closing
    /\ \A p \in {"begin", "body", "probing", "recover", "shield", "settle", "unwind"} :
          p \in Using /\ p \notin Closing
    /\ \A p \in {"killing", "killing2"} : p \in Closing /\ p \notin Using
BY DEF Using, Recovering, InnerRecovering, Closing

LEMMA LockInit == Init => LockInv
BY DEF Init, LockInv, StatusMatchesLock, Using, Recovering, InnerRecovering, Closing

\* A call that is outside of the critical sections stays outside.
LEMMA LockOutside ==
    ASSUME TypeOK, LockInv, NEW c \in Calls, NEW p \in {"waiting", "done"},
           pc[c] \in {"idle", "waiting"}, Goto(c, p), UNCHANGED <<state, holder>>
    PROVE  LockInv'
BY Places DEF TypeOK, LockInv, StatusMatchesLock, Goto

LEMMA LockAdmit ==
    ASSUME TypeOK, LockInv, NEW c \in Calls, NEW k, holder = NoCall, Admit(c, k)
    PROVE  LockInv'
<1>1. \A d \in Calls : pc[d] \notin Using /\ pc[d] \notin Closing
  BY DEF LockInv, StatusMatchesLock
<1>2. CASE k = "disconnect"
  BY <1>1, <1>2, Places DEF TypeOK, LockInv, StatusMatchesLock, Admit, Goto
<1>3. CASE k # "disconnect"
  BY <1>1, <1>3, Places DEF TypeOK, LockInv, StatusMatchesLock, Admit, Goto
<1>. QED
  BY <1>2, <1>3

LEMMA LockRelease ==
    ASSUME TypeOK, LockInv, NEW c \in Calls, NEW ok \in BOOLEAN,
           pc[c] \in Using, Release(c, ok)
    PROVE  LockInv'
<1>1. \A d \in Calls \ {c} : pc[d] \notin Using /\ pc[d] \notin Closing
  BY DEF LockInv, StatusMatchesLock
<1>. QED
  BY <1>1, Places DEF TypeOK, LockInv, StatusMatchesLock, Release, Goto

\* A call moves on inside its critical section.
LEMMA LockInside ==
    ASSUME TypeOK, LockInv, NEW c \in Calls, NEW p,
           \/ pc[c] \in Using /\ p \in Using
           \/ pc[c] \in Closing /\ p \in Closing,
           Goto(c, p), UNCHANGED <<state, holder>>
    PROVE  LockInv'
<1>1. Using \cap Closing = {}
  BY DEF Using, Recovering, InnerRecovering, Closing
<1>. QED
  BY <1>1 DEF TypeOK, LockInv, StatusMatchesLock, Goto

\* A disconnect leaves its critical section.
LEMMA LockClosed ==
    ASSUME TypeOK, LockInv, NEW c \in Calls, pc[c] \in Closing,
           Goto(c, "done"), holder' = NoCall, state' \in {state, "unresponsive"}
    PROVE  LockInv'
<1>1. \A d \in Calls \ {c} : pc[d] \notin Using /\ pc[d] \notin Closing
  BY DEF LockInv, StatusMatchesLock
<1>2. state = "closing"
  BY DEF LockInv
<1>. QED
  BY <1>1, <1>2, Places DEF TypeOK, LockInv, StatusMatchesLock, Goto

LEMMA LockStep ==
    ASSUME TypeOK, LockInv, [Next]_vars
    PROVE  LockInv'
<1>1. ASSUME NEW c \in Calls, Arrive(c)
      PROVE  LockInv'
  <2>1. PICK k \in Kinds : Refuse(c, k) \/ Enter(c, k) \/ Queue(c, k)
    BY <1>1 DEF Arrive
  <2>. QED
    BY <2>1, LockOutside, LockAdmit DEF Refuse, Enter, Queue
<1>2. ASSUME NEW c \in Calls, Recover(c)
      PROVE  LockInv'
  <2>1. ASSUME NEW l \in Layers, Interrupt(c, l) \/ OrphanDone(c, l)
        PROVE  LockInv'
    BY <2>1 DEF Interrupt, OrphanDone, LockInv, StatusMatchesLock
  <2>2. ASSUME NEW ok \in BOOLEAN, RecoverDone(c, ok) \/ SettleDone(c, ok)
        PROVE  LockInv'
    BY <2>2, LockRelease, Places DEF RecoverDone, SettleDone, Recovering
  <2>3. CASE StartProbe(c)
    BY <2>3, LockInside, Places DEF StartProbe
  <2>4. CASE ProbeDone(c)
    BY <2>4, LockRelease, Places DEF ProbeDone
  <2>5. CASE UnwindDone(c)
    BY <2>5, LockInside, Places DEF UnwindDone
  <2>. QED
    BY <1>2, <2>1, <2>2, <2>3, <2>4, <2>5 DEF Recover
<1>3. ASSUME NEW c \in Calls, Progress(c)
      PROVE  LockInv'
  <2>1. CASE Acquire(c)
    BY <2>1, LockAdmit DEF Acquire, Granted
  <2>2. CASE AcquireRefused(c)
    BY <2>2, LockOutside DEF AcquireRefused, Granted, Unlock
  <2>3. CASE Submit(c)
    BY <2>3, LockInside, Places DEF Submit
  <2>4. CASE Succeed(c)
    BY <2>4, LockRelease, Places DEF Succeed
  <2>5. CASE Fail(c) \/ FailWrite(c)
    BY <2>5, LockInside, Places DEF Fail, FailWrite
  <2>6. CASE KillDone(c)
    BY <2>6, LockClosed DEF KillDone
  <2>7. CASE KillFail(c)
    BY <2>7, LockClosed DEF KillFail
  <2>. QED
    BY <1>2, <1>3, <2>1, <2>2, <2>3, <2>4, <2>5, <2>6, <2>7 DEF Progress
<1>4. ASSUME NEW c \in Calls, Cancel(c)
      PROVE  LockInv'
  <2>1. CASE CancelWaiting(c)
    BY <2>1, LockOutside DEF CancelWaiting
  <2>2. CASE CancelBody(c) \/ CancelWrite(c)
    BY <2>2, LockInside, Places DEF CancelBody, CancelWrite, RecoverShielded
  <2>3. CASE CancelRepair(c) \/ CancelUnwind(c)
    BY <2>3, LockInside, Places DEF CancelRepair, CancelUnwind
  <2>4. CASE CancelRecover(c) \/ CancelShield(c)
    BY <2>4, LockRelease, Places DEF CancelRecover, CancelShield
  <2>5. CASE CancelKill(c)
    BY <2>5, LockInside, Places DEF CancelKill
  <2>6. CASE CancelKillAgain(c)
    BY <2>6, LockClosed, Places DEF CancelKillAgain
  <2>. QED
    BY <1>4, <2>1, <2>2, <2>3, <2>4, <2>5, <2>6 DEF Cancel
<1>5. CASE CommandEnds \/ WindowLost \/ UNCHANGED vars
  BY <1>5 DEF CommandEnds, WindowLost, vars, LockInv, StatusMatchesLock
<1>. QED
  BY <1>1, <1>3, <1>4, <1>5 DEF Next

\* remote_status publishes "busy" exactly while a call uses the pane, and no
\* two calls are ever in the critical section of the connection's lock.
THEOREM StatusIsTrue == Spec => []StatusMatchesLock
<1>1. Init => LockInv
  BY LockInit
<1>2. TypeOK /\ LockInv /\ [Next]_vars => LockInv'
  BY LockStep
<1>3. LockInv => StatusMatchesLock
  BY DEF LockInv
<1>. QED
  BY <1>1, <1>2, <1>3, TypeCorrect, PTL DEF Spec

(* Who owns a recovery                                                     *)

\* A recovery is awaited by its call, or its call was cancelled twice; and a
\* call that awaits one through asyncio.shield was cancelled once already.
OwnerOf(c) ==
    /\ rec[c]["outer"] # "none" => pc[c] \in Recovering \/ cancels[c] >= 2
    /\ rec[c]["inner"] # "none" => pc[c] \in InnerRecovering \/ cancels[c] >= 2
    /\ pc[c] \in {"shield", "unwind"} => cancels[c] >= 1
    /\ pc[c] \in {"settle", "unwind", "probing"} => kind[c] = "write"

OwnerInv == \A c \in Calls : OwnerOf(c)

LEMMA OwnerInit == Init => OwnerInv
BY DEF Init, OwnerInv, OwnerOf, Layers, Recovering, InnerRecovering

\* One call's own variables change, and the invariant holds of it again.
LEMMA OwnerFrame ==
    ASSUME OwnerInv, NEW c \in Calls, OwnerOf(c)',
           \A d \in Calls \ {c} : /\ pc'[d] = pc[d] /\ kind'[d] = kind[d]
                                  /\ rec'[d] = rec[d] /\ cancels'[d] = cancels[d]
    PROVE  OwnerInv'
BY DEF OwnerInv, OwnerOf

LEMMA OwnerArrive ==
    ASSUME TypeOK, OwnerInv, NEW c \in Calls, Arrive(c)
    PROVE  OwnerInv'
<1>1. PICK k \in Kinds : Refuse(c, k) \/ Enter(c, k) \/ Queue(c, k)
  BY DEF Arrive
<1>2. PICK p \in {"waiting", "done", "begin", "killing"} : Goto(c, p)
  BY <1>1 DEF Refuse, Enter, Queue, Admit
<1>3. /\ pc[c] = "idle" /\ UNCHANGED <<rec, cancels>>
      /\ kind' = [kind EXCEPT ![c] = k]
  BY <1>1 DEF Refuse, Enter, Queue
<1>4. OwnerOf(c)'
  BY <1>2, <1>3 DEF TypeOK, OwnerInv, OwnerOf, Goto, Recovering, InnerRecovering
<1>. QED
  BY <1>2, <1>3, <1>4, OwnerFrame DEF TypeOK, Goto

LEMMA OwnerRecover ==
    ASSUME TypeOK, OwnerInv, NEW c \in Calls, Recover(c)
    PROVE  OwnerInv'
<1>. USE DEF TypeOK, OwnerInv, OwnerOf, Recovering, InnerRecovering, Goto, Layers
<1>1. ASSUME NEW l \in Layers, Interrupt(c, l) \/ OrphanDone(c, l)
      PROVE  OwnerInv'
  <2>1. OwnerOf(c)'
    BY <1>1 DEF Interrupt, OrphanDone, Orphan, EndRecovery, NextStep
  <2>. QED
    BY <1>1, <2>1, OwnerFrame DEF Interrupt, OrphanDone, EndRecovery
<1>2. ASSUME NEW ok \in BOOLEAN, RecoverDone(c, ok) \/ SettleDone(c, ok)
      PROVE  OwnerInv'
  <2>1. OwnerOf(c)'
    BY <1>2 DEF RecoverDone, SettleDone, EndRecovery, Release
  <2>. QED
    BY <1>2, <2>1, OwnerFrame DEF RecoverDone, SettleDone, EndRecovery, Release
<1>3. CASE StartProbe(c)
  <2>1. OwnerOf(c)'
    BY <1>3 DEF StartProbe, EndRecovery
  <2>. QED
    BY <1>3, <2>1, OwnerFrame DEF StartProbe, EndRecovery
<1>4. CASE ProbeDone(c)
  <2>1. OwnerOf(c)'
    BY <1>4 DEF ProbeDone, Release
  <2>. QED
    BY <1>4, <2>1, OwnerFrame DEF ProbeDone, Release
<1>5. CASE UnwindDone(c)
  <2>1. rec'[c]["inner"] = "none" /\ pc'[c] = "shield"
    BY <1>5 DEF UnwindDone
  <2>2. OwnerOf(c)'
    BY <1>5, <2>1 DEF UnwindDone
  <2>. QED
    BY <1>5, <2>2, OwnerFrame DEF UnwindDone
<1>. QED
  BY <1>1, <1>2, <1>3, <1>4, <1>5 DEF Recover

LEMMA OwnerProgress ==
    ASSUME TypeOK, OwnerInv, NEW c \in Calls, Progress(c)
    PROVE  OwnerInv'
<1>. USE DEF TypeOK, OwnerInv, OwnerOf, Recovering, InnerRecovering, Goto, Layers
<1>1. CASE Acquire(c) \/ AcquireRefused(c)
  <2>1. OwnerOf(c)'
    BY <1>1 DEF Acquire, AcquireRefused, Granted, Admit
  <2>. QED
    BY <1>1, <2>1, OwnerFrame DEF Acquire, AcquireRefused, Admit
<1>2. CASE Submit(c) \/ Succeed(c)
  <2>1. OwnerOf(c)'
    BY <1>2 DEF Submit, Succeed, Release
  <2>. QED
    BY <1>2, <2>1, OwnerFrame DEF Submit, Succeed, Release
<1>3. CASE Fail(c) \/ FailWrite(c)
  <2>1. OwnerOf(c)'
    <3>1. CASE Fail(c)
      BY <3>1 DEF Fail, StartRecovery
    <3>2. CASE FailWrite(c)
      BY <3>2 DEF FailWrite, StartRecovery
    <3>. QED
      BY <1>3, <3>1, <3>2
  <2>. QED
    BY <1>3, <2>1, OwnerFrame DEF Fail, FailWrite, StartRecovery
<1>4. CASE Recover(c)
  BY <1>4, OwnerRecover
<1>5. CASE KillDone(c) \/ KillFail(c)
  <2>1. OwnerOf(c)'
    BY <1>5 DEF KillDone, KillFail, Closing
  <2>. QED
    BY <1>5, <2>1, OwnerFrame DEF KillDone, KillFail
<1>. QED
  BY <1>1, <1>2, <1>3, <1>4, <1>5 DEF Progress

LEMMA OwnerCancel ==
    ASSUME TypeOK, OwnerInv, NEW c \in Calls, Cancel(c)
    PROVE  OwnerInv'
<1>. USE DEF OwnerOf, Goto
<1>0. /\ pc \in [Calls -> PCs]
      /\ rec \in [Calls -> [Layers -> Steps]]
      /\ kind \in [Calls -> AllKinds]
      /\ cancels[c] \in Nat
      /\ OwnerOf(c)
  BY DEF TypeOK, OwnerInv
<1>1. /\ cancels'[c] = cancels[c] + 1
      /\ \A d \in Calls \ {c} : cancels'[d] = cancels[d]
  BY DEF TypeOK, Cancel, Cancelled, CancelWaiting, CancelBody, CancelWrite,
         CancelRepair, CancelUnwind, CancelRecover, CancelShield, CancelKill,
         CancelKillAgain
<1>2. CASE CancelWaiting(c) \/ CancelKill(c) \/ CancelKillAgain(c)
  <2>1. /\ pc'[c] \in {"done", "killing2"}
        /\ pc[c] \in {"waiting", "killing", "killing2"}
        /\ UNCHANGED <<rec, kind>>
        /\ \A d \in Calls \ {c} : pc'[d] = pc[d]
    BY <1>0, <1>2 DEF CancelWaiting, CancelKill, CancelKillAgain
  <2>2. OwnerOf(c)'
    BY <1>0, <1>1, <2>1 DEF Recovering, InnerRecovering
  <2>. QED
    BY <1>1, <2>1, <2>2, OwnerFrame
<1>3. CASE CancelBody(c)
  <2>1. /\ pc'[c] = "shield" /\ pc[c] \in {"begin", "body"}
        /\ rec'[c]["inner"] = rec[c]["inner"] /\ UNCHANGED kind
        /\ \A d \in Calls \ {c} : pc'[d] = pc[d] /\ rec'[d] = rec[d]
    BY <1>0, <1>3 DEF CancelBody, RecoverShielded, StartRecovery, Layers
  <2>2. OwnerOf(c)'
    BY <1>0, <1>1, <2>1 DEF Recovering, InnerRecovering
  <2>. QED
    BY <1>1, <2>1, <2>2, OwnerFrame
<1>4. CASE CancelWrite(c)
  <2>1. /\ pc'[c] = "unwind" /\ pc[c] \in {"begin", "body", "settle"}
        /\ kind[c] = "write" /\ UNCHANGED kind
        /\ rec'[c]["outer"] = rec[c]["outer"]
        /\ \A d \in Calls \ {c} : pc'[d] = pc[d] /\ rec'[d] = rec[d]
    BY <1>0, <1>4 DEF CancelWrite, StartRecovery, Layers
  <2>2. OwnerOf(c)'
    BY <1>0, <1>1, <2>1 DEF Recovering, InnerRecovering
  <2>. QED
    BY <1>1, <2>1, <2>2, OwnerFrame
<1>5. CASE CancelRepair(c)
  <2>1. /\ pc'[c] = "shield" /\ rec'[c]["inner"] = "none" /\ UNCHANGED kind
        /\ \A d \in Calls \ {c} : pc'[d] = pc[d] /\ rec'[d] = rec[d]
    BY <1>0, <1>5 DEF CancelRepair, Layers
  <2>2. OwnerOf(c)'
    BY <1>0, <1>1, <2>1 DEF Recovering, InnerRecovering
  <2>. QED
    BY <1>1, <2>1, <2>2, OwnerFrame
<1>6. CASE CancelUnwind(c)
  <2>1. /\ pc[c] = "unwind" /\ pc'[c] = "shield" /\ UNCHANGED kind
        /\ \A d \in Calls \ {c} : pc'[d] = pc[d] /\ rec'[d] = rec[d]
    BY <1>0, <1>6 DEF CancelUnwind, StartRecovery, Layers
  <2>2. OwnerOf(c)'
    BY <1>0, <1>1, <2>1 DEF Recovering, InnerRecovering
  <2>. QED
    BY <1>1, <2>1, <2>2, OwnerFrame
<1>7. CASE CancelRecover(c)
  <2>1. /\ pc[c] = "recover" /\ pc'[c] = "done" /\ UNCHANGED kind
        /\ rec'[c]["outer"] = "none" /\ rec'[c]["inner"] = rec[c]["inner"]
        /\ \A d \in Calls \ {c} : pc'[d] = pc[d] /\ rec'[d] = rec[d]
    BY <1>0, <1>7 DEF CancelRecover, EndRecovery, Release, Layers
  <2>2. OwnerOf(c)'
    BY <1>0, <1>1, <2>1 DEF Recovering, InnerRecovering
  <2>. QED
    BY <1>1, <2>1, <2>2, OwnerFrame
<1>8. CASE CancelShield(c)
  <2>1. /\ pc[c] = "shield" /\ pc'[c] = "done" /\ UNCHANGED <<kind, rec>>
        /\ \A d \in Calls \ {c} : pc'[d] = pc[d]
    BY <1>0, <1>8 DEF CancelShield, Release
  <2>2. OwnerOf(c)'
    BY <1>0, <1>1, <2>1 DEF Recovering, InnerRecovering
  <2>. QED
    BY <1>1, <2>1, <2>2, OwnerFrame
<1>. QED
  BY <1>2, <1>3, <1>4, <1>5, <1>6, <1>7, <1>8 DEF Cancel

LEMMA OwnerStep ==
    ASSUME TypeOK, OwnerInv, [Next]_vars
    PROVE  OwnerInv'
<1>1. CASE CommandEnds \/ WindowLost \/ UNCHANGED vars
  BY <1>1 DEF CommandEnds, WindowLost, vars, OwnerInv, OwnerOf
<1>. QED
  BY <1>1, OwnerArrive, OwnerProgress, OwnerCancel DEF Next

LEMMA OwnerHoldsLock ==
    ASSUME TypeOK, LockInv, OwnerInv
    PROVE  RecoveryHoldsLock
<1>. SUFFICES ASSUME NEW c \in Calls, NEW l \in Layers,
                     rec[c][l] # "none", cancels[c] <= 1
              PROVE  holder = c
  BY DEF RecoveryHoldsLock
<1>1. cancels[c] \in Nat
  BY DEF TypeOK
<1>2. pc[c] \in Recovering \cup InnerRecovering
  BY <1>1 DEF OwnerInv, OwnerOf, Layers
<1>. QED
  BY <1>2 DEF LockInv, StatusMatchesLock, Using

\* A pane recovery never outlives the critical section of its call, whatever
\* fails, unless that call was cancelled twice.
THEOREM RecoveryIsExclusive == Spec => []RecoveryHoldsLock
<1>1. Init => LockInv /\ OwnerInv
  BY LockInit, OwnerInit
<1>2. TypeOK /\ LockInv /\ OwnerInv /\ [Next]_vars => LockInv' /\ OwnerInv'
  BY LockStep, OwnerStep
<1>3. TypeOK /\ LockInv /\ OwnerInv => RecoveryHoldsLock
  BY OwnerHoldsLock
<1>. QED
  BY <1>1, <1>2, <1>3, TypeCorrect, PTL DEF Spec

(* Closing                                                                 *)

\* Once the window is killed or the connection forgotten, the state says so
\* to every call that still waits for the lock.
CloseInv ==
    /\ window = "killed" \/ ~registered => ~Usable
    /\ ~registered => window # "open"

LEMMA CloseInit == Init => CloseInv
BY DEF Init, CloseInv, Usable

\* A call that uses the pane does so in state "busy".
LEMMA BusyIsUsable ==
    ASSUME LockInv, NEW c \in Calls, pc[c] \in Using
    PROVE  Usable
BY DEF LockInv, StatusMatchesLock, Usable

LEMMA CloseRelease ==
    ASSUME LockInv, CloseInv, NEW c \in Calls, NEW ok, pc[c] \in Using,
           Release(c, ok), UNCHANGED <<window, registered>>
    PROVE  CloseInv'
BY BusyIsUsable DEF CloseInv, Release, Usable

LEMMA CloseAdmit ==
    ASSUME CloseInv, NEW c, NEW k, k = "disconnect" \/ Usable, Admit(c, k),
           UNCHANGED <<window, registered>>
    PROVE  CloseInv'
BY DEF CloseInv, Admit, Usable

LEMMA CloseKill ==
    ASSUME LockInv, CloseInv, NEW c \in Calls, pc[c] \in Closing, MaybeKill,
           state' \in {state, "unresponsive"},
           registered' = registered \/ (registered' = FALSE /\ Kill)
    PROVE  CloseInv'
<1>1. state = "closing"
  BY DEF LockInv
<1>. QED
  BY <1>1 DEF CloseInv, Usable, MaybeKill, Kill

LEMMA CloseStep ==
    ASSUME TypeOK, LockInv, CloseInv, [Next]_vars
    PROVE  CloseInv'
<1>1. ASSUME NEW c \in Calls, Arrive(c)
      PROVE  CloseInv'
  <2>1. PICK k \in Kinds : Refuse(c, k) \/ Enter(c, k) \/ Queue(c, k)
    BY <1>1 DEF Arrive
  <2>. QED
    BY <2>1, CloseAdmit DEF Refuse, Enter, Queue, Found, CloseInv, Usable
<1>2. ASSUME NEW c \in Calls, Recover(c)
      PROVE  CloseInv'
  <2>1. ASSUME NEW ok \in BOOLEAN, RecoverDone(c, ok) \/ SettleDone(c, ok)
        PROVE  CloseInv'
    BY <2>1, CloseRelease, Places DEF RecoverDone, SettleDone, Recovering
  <2>2. CASE ProbeDone(c)
    BY <2>2, CloseRelease, Places DEF ProbeDone
  <2>3. CASE \/ \E l \in Layers : Interrupt(c, l) \/ OrphanDone(c, l)
             \/ StartProbe(c) \/ UnwindDone(c)
    BY <2>3 DEF Interrupt, OrphanDone, StartProbe, UnwindDone, CloseInv, Usable
  <2>. QED
    BY <1>2, <2>1, <2>2, <2>3 DEF Recover
<1>3. ASSUME NEW c \in Calls, Progress(c)
      PROVE  CloseInv'
  <2>1. CASE Acquire(c)
    BY <2>1, CloseAdmit DEF Acquire, StillUsable
  <2>2. CASE Succeed(c)
    BY <2>2, CloseRelease, Places DEF Succeed
  <2>3. CASE KillDone(c)
    BY <2>3, CloseKill DEF KillDone, MaybeKill
  <2>4. CASE KillFail(c)
    BY <2>4, CloseKill DEF KillFail, KeepOnFailure
  <2>5. CASE AcquireRefused(c) \/ Submit(c) \/ Fail(c) \/ FailWrite(c)
    BY <2>5 DEF AcquireRefused, Submit, Fail, FailWrite, CloseInv, Usable
  <2>. QED
    BY <1>2, <1>3, <2>1, <2>2, <2>3, <2>4, <2>5 DEF Progress
<1>4. ASSUME NEW c \in Calls, Cancel(c)
      PROVE  CloseInv'
  <2>1. CASE CancelRecover(c) \/ CancelShield(c)
    BY <2>1, CloseRelease, Places DEF CancelRecover, CancelShield
  <2>2. CASE CancelKillAgain(c)
    BY <2>2, CloseKill, Places DEF CancelKillAgain
  <2>3. CASE \/ CancelWaiting(c) \/ CancelBody(c) \/ CancelWrite(c)
             \/ CancelRepair(c) \/ CancelUnwind(c) \/ CancelKill(c)
    BY <2>3 DEF CancelWaiting, CancelBody, RecoverShielded, CancelWrite,
                CancelRepair, CancelUnwind, CancelKill, CloseInv, Usable
  <2>. QED
    BY <1>4, <2>1, <2>2, <2>3 DEF Cancel
<1>5. CASE CommandEnds \/ WindowLost \/ UNCHANGED vars
  BY <1>5 DEF CommandEnds, WindowLost, vars, CloseInv, Usable
<1>. QED
  BY <1>1, <1>3, <1>4, <1>5 DEF Next

LEMMA CloseImplies ==
    ASSUME LockInv, CloseInv
    PROVE  NoUseAfterClose /\ ClosedMeansKilled
BY BusyIsUsable DEF CloseInv, NoUseAfterClose, ClosedMeansKilled

\* What the two theorems below have in common.
LEMMA CloseInvariance == Spec => [](NoUseAfterClose /\ ClosedMeansKilled)
<1>1. Init => LockInv /\ CloseInv
  BY LockInit, CloseInit
<1>2. TypeOK /\ LockInv /\ CloseInv /\ [Next]_vars => LockInv' /\ CloseInv'
  BY LockStep, CloseStep
<1>3. LockInv /\ CloseInv => NoUseAfterClose /\ ClosedMeansKilled
  BY CloseImplies
<1>. QED
  BY <1>1, <1>2, <1>3, TypeCorrect, PTL DEF Spec

\* A call that waited behind a disconnect never types into the window that
\* the disconnect killed.
THEOREM ClosingIsSafe == Spec => []NoUseAfterClose
BY CloseInvariance, PTL

\* No connection is forgotten with its window still open: a disconnect whose
\* kill-window failed or was cancelled keeps it.
THEOREM NoWindowLeftOpen == Spec => []ClosedMeansKilled
BY CloseInvariance, PTL

\* ~Usable is stable: only a call that holds the lock in state "busy" sets
\* the state back to "ready".
LEMMA UsableRelease ==
    ASSUME LockInv, NEW c \in Calls, pc[c] \in Using
    PROVE  ~Usable => ~Usable'
BY BusyIsUsable

LEMMA UsableStep ==
    ASSUME TypeOK, LockInv, [Next]_vars
    PROVE  ~Usable => ~Usable'
<1>1. ASSUME NEW c \in Calls, Arrive(c)
      PROVE  ~Usable => ~Usable'
  BY <1>1 DEF Arrive, Refuse, Enter, Queue, Found, Admit, Usable
<1>2. ASSUME NEW c \in Calls, Recover(c)
      PROVE  ~Usable => ~Usable'
  <2>1. CASE pc[c] \in Using
    BY <2>1, UsableRelease
  <2>2. CASE pc[c] \notin Using
    <3>1. \E l \in Layers : Interrupt(c, l) \/ OrphanDone(c, l)
      BY <1>2, <2>2, Places
         DEF Recover, RecoverDone, SettleDone, StartProbe, ProbeDone, UnwindDone,
             Recovering
    <3>. QED
      BY <3>1 DEF Interrupt, OrphanDone, Usable
  <2>. QED
    BY <2>1, <2>2
<1>3. ASSUME NEW c \in Calls, Progress(c)
      PROVE  ~Usable => ~Usable'
  <2>1. CASE Acquire(c) \/ AcquireRefused(c)
    BY <2>1 DEF Acquire, AcquireRefused, StillUsable, Admit, Usable
  <2>2. CASE Submit(c) \/ Succeed(c) \/ Fail(c) \/ FailWrite(c)
    BY <2>2, UsableRelease, Places DEF Submit, Succeed, Fail, FailWrite
  <2>3. CASE KillDone(c) \/ KillFail(c)
    BY <2>3 DEF KillDone, KillFail, Usable
  <2>. QED
    BY <1>2, <1>3, <2>1, <2>2, <2>3 DEF Progress
<1>4. ASSUME NEW c \in Calls, Cancel(c)
      PROVE  ~Usable => ~Usable'
  <2>1. CASE CancelRecover(c) \/ CancelShield(c)
    BY <2>1, UsableRelease, Places DEF CancelRecover, CancelShield
  <2>2. CASE \/ CancelWaiting(c) \/ CancelBody(c) \/ CancelWrite(c)
             \/ CancelRepair(c) \/ CancelUnwind(c) \/ CancelKill(c)
             \/ CancelKillAgain(c)
    BY <2>2 DEF CancelWaiting, CancelBody, RecoverShielded, CancelWrite,
                CancelRepair, CancelUnwind, CancelKill, CancelKillAgain, Usable
  <2>. QED
    BY <1>4, <2>1, <2>2 DEF Cancel
<1>5. CASE CommandEnds \/ WindowLost \/ UNCHANGED vars
  BY <1>5 DEF CommandEnds, WindowLost, vars, Usable
<1>. QED
  BY <1>1, <1>3, <1>4, <1>5 DEF Next

\* An unresponsive or closing connection never becomes ready or busy again.
THEOREM UnusableForGood == Spec => NeverResurrected
<1>1. TypeOK /\ LockInv /\ [Next]_vars => [~Usable => ~Usable']_vars
  BY UsableStep
<1>2. Init => LockInv
  BY LockInit
<1>3. TypeOK /\ LockInv /\ [Next]_vars => LockInv'
  BY LockStep
<1>. QED
  BY <1>1, <1>2, <1>3, TypeCorrect, PTL DEF Spec, NeverResurrected

(* What the shell still runs                                               *)

Occurs(p, c) == \E i \in 1..Len(p) : p[i] = c

Once(p, c) == \A i, j \in 1..Len(p) : p[i] = c /\ p[j] = c => i = j

LEMMA OccursAppend ==
    ASSUME NEW p \in Seq(Calls), NEW c \in Calls, NEW d \in Calls
    PROVE  /\ Occurs(Append(p, c), d) => Occurs(p, d) \/ d = c
           /\ Occurs(p, d) => Occurs(Append(p, c), d)
           /\ d = c /\ ~Occurs(p, d) => Once(Append(p, c), d)
           /\ d # c /\ Once(p, d) => Once(Append(p, c), d)
<1> DEFINE q == Append(p, c)
           n == Len(p)
<1>1. /\ n \in Nat /\ Len(q) = n + 1 /\ q[n + 1] = c
      /\ \A i \in 1..n : q[i] = p[i]
  OBVIOUS
<1> HIDE DEF q, n
<1>2. \A i \in 1..Len(q) : i = n + 1 \/ i \in 1..n
  BY <1>1
<1>3. n + 1 \in 1..Len(q) /\ 1..n \subseteq 1..Len(q)
  BY <1>1
<1>4. Occurs(q, d) => Occurs(p, d) \/ d = c
  BY <1>1, <1>2 DEF Occurs, n
<1>5. Occurs(p, d) => Occurs(q, d)
  BY <1>1, <1>3 DEF Occurs, n
<1>6. d = c /\ ~Occurs(p, d) => Once(q, d)
  BY <1>1, <1>2 DEF Occurs, Once, n
<1>7. d # c /\ Once(p, d) => Once(q, d)
  BY <1>1, <1>2 DEF Once, n
<1>. QED
  BY <1>4, <1>5, <1>6, <1>7 DEF q

LEMMA OccursTail ==
    ASSUME NEW p \in Seq(Calls), p # <<>>, NEW d \in Calls
    PROVE  /\ Occurs(Tail(p), d) => Occurs(p, d)
           /\ Occurs(p, d) => Occurs(Tail(p), d) \/ d = Head(p)
           /\ Once(p, d) => Once(Tail(p), d)
           /\ d = Head(p) /\ Once(p, d) => ~Occurs(Tail(p), d)
<1> DEFINE q == Tail(p)
           n == Len(q)
<1>1. n \in Nat /\ Len(p) = n + 1 /\ Head(p) = p[1] /\ \A i \in 1..n : q[i] = p[i + 1]
  OBVIOUS
<1> HIDE DEF q, n
<1>2. \A i \in 1..Len(p) : i = 1 \/ (i - 1 \in 1..n /\ p[i] = q[i - 1])
  BY <1>1
<1>3. 1 \in 1..Len(p) /\ \A i \in 1..n : i + 1 \in 1..Len(p) /\ i + 1 # 1
  BY <1>1
<1>4. Occurs(q, d) => Occurs(p, d)
  BY <1>1, <1>3 DEF Occurs, n
<1>5. Occurs(p, d) => Occurs(q, d) \/ d = Head(p)
  BY <1>1, <1>2 DEF Occurs, n
<1>6. Once(p, d) => Once(q, d)
  <2>1. ASSUME Once(p, d), NEW i \in 1..n, NEW j \in 1..n, q[i] = d, q[j] = d
        PROVE  i = j
    <3>1. i + 1 = j + 1
      BY <1>1, <1>3, <2>1 DEF Once
    <3>. QED
      BY <3>1
  <2>. QED
    BY <2>1 DEF Once, n
<1>7. d = Head(p) /\ Once(p, d) => ~Occurs(q, d)
  BY <1>1, <1>3 DEF Occurs, Once, n
<1>. QED
  BY <1>4, <1>5, <1>6, <1>7 DEF q

LEMMA OccursEmpty ==
    ASSUME NEW d
    PROVE  ~Occurs(<<>>, d) /\ Once(<<>>, d)
BY DEF Occurs, Once

LEMMA OccursInterrupted ==
    ASSUME NEW p \in Seq(Calls), NEW q \in Interrupted(p), NEW d \in Calls
    PROVE  (Occurs(q, d) => Occurs(p, d)) /\ (Once(p, d) => Once(q, d))
<1>1. q = p \/ q = <<>> \/ (p # <<>> /\ q = Tail(p))
  BY DEF Interrupted
<1>. QED
  BY <1>1, OccursTail, OccursEmpty

Excused(c) == cancels[c] > 0 \/ kind[c] = "write"

\* A call's command is in the pane at most once while the call waits for
\* it, and never before; afterwards only with an excuse, unless the
\* connection is not offered any more.
PaneOf(c) ==
    /\ pc[c] \in {"idle", "waiting", "begin"} => ~Occurs(pane, c) /\ c \notin ended
    /\ pc[c] = "body" => Once(pane, c) /\ (c \in ended => ~Occurs(pane, c))
    /\ Occurs(pane, c) => Excused(c) \/ holder = c \/ ~Usable

PaneInv == \A c \in Calls : PaneOf(c)

LEMMA PaneInit == Init => PaneInv
<1>. SUFFICES ASSUME Init, NEW c \in Calls
              PROVE  PaneOf(c)
  BY DEF PaneInv
<1>. QED
  BY OccursEmpty DEF Init, PaneOf

\* A step of call c that adds nothing to the pane of the other calls.
LEMMA PaneFrame ==
    ASSUME PaneInv, NEW c \in Calls, PaneOf(c)', ended' = ended,
           \A d \in Calls \ {c} :
              /\ pc'[d] = pc[d] /\ kind'[d] = kind[d] /\ cancels'[d] = cancels[d]
              /\ Occurs(pane', d) => Occurs(pane, d)
              /\ Once(pane, d) => Once(pane', d)
              /\ holder = d => holder' = d,
           ~Usable => ~Usable'
    PROVE  PaneInv'
<1>. SUFFICES ASSUME NEW d \in Calls \ {c}
              PROVE  PaneOf(d)'
  BY DEF PaneInv
<1>1. PaneOf(d)
  BY DEF PaneInv
<1>. QED
  BY <1>1 DEF PaneOf, Excused

LEMMA PaneArrive ==
    ASSUME TypeOK, LockInv, PaneInv, NEW c \in Calls, Arrive(c), ~Usable => ~Usable'
    PROVE  PaneInv'
<1>1. PICK k \in Kinds : Refuse(c, k) \/ Enter(c, k) \/ Queue(c, k)
  BY DEF Arrive
<1>2. /\ pc[c] = "idle" /\ UNCHANGED <<pane, ended, cancels>>
      /\ kind' = [kind EXCEPT ![c] = k]
      /\ holder' = holder \/ holder = NoCall
      /\ \E p \in {"done", "waiting", "begin", "killing"} : Goto(c, p)
  BY <1>1 DEF Refuse, Enter, Queue, Admit
<1>3. ~Occurs(pane, c) /\ c \notin ended
  BY <1>2 DEF PaneInv, PaneOf
<1>4. PaneOf(c)'
  BY <1>2, <1>3 DEF PaneOf, Goto, TypeOK
<1>. QED
  BY <1>2, <1>4, PaneFrame DEF Goto, TypeOK

LEMMA PaneRecover ==
    ASSUME TypeOK, LockInv, OwnerInv, PaneInv, NEW c \in Calls, Recover(c),
           ~Usable => ~Usable'
    PROVE  PaneInv'
<1>0. /\ pc \in [Calls -> PCs] /\ pane \in Seq(Calls) /\ NoCall \notin Calls
      /\ PaneOf(c) /\ OwnerOf(c)
  BY DEF TypeOK, PaneInv, OwnerInv
<1>1. ASSUME NEW l \in Layers, Interrupt(c, l)
      PROVE  PaneInv'
  <2>1. /\ pane' \in Interrupted(pane)
        /\ UNCHANGED <<state, holder, pc, kind, cancels, ended>>
    BY <1>1 DEF Interrupt
  <2>2. \A d \in Calls : /\ Occurs(pane', d) => Occurs(pane, d)
                         /\ Once(pane, d) => Once(pane', d)
    BY <1>0, <2>1, OccursInterrupted
  <2>3. PaneOf(c)'
    BY <1>0, <2>1, <2>2 DEF PaneOf, Excused, Usable
  <2>. QED
    BY <2>1, <2>2, <2>3, PaneFrame
<1>2. ASSUME NEW l \in Layers, OrphanDone(c, l)
      PROVE  PaneInv'
  BY <1>2 DEF OrphanDone, PaneInv, PaneOf, Excused, Usable
<1>3. ASSUME NEW ok \in BOOLEAN, RecoverDone(c, ok) \/ SettleDone(c, ok)
      PROVE  PaneInv'
  <2>1. /\ pc[c] \in Using /\ Release(c, ok)
        /\ UNCHANGED <<pane, kind, cancels, ended>>
        /\ ok => pane = <<>>
    BY <1>3, Places DEF RecoverDone, SettleDone, Recovering, Outcome
  <2>2. holder = c
    BY <2>1 DEF LockInv, StatusMatchesLock
  <2>3. PaneOf(c)'
    BY <1>0, <2>1, OccursEmpty DEF PaneOf, Release, Goto, Usable
  <2>. QED
    BY <1>0, <2>1, <2>2, <2>3, PaneFrame DEF Release, Goto
<1>4. CASE StartProbe(c)
  <2>1. /\ pc[c] = "settle" /\ pc' = [pc EXCEPT ![c] = "probing"]
        /\ pane' = Append(pane, c)
        /\ UNCHANGED <<state, holder, kind, cancels, ended>>
    BY <1>4 DEF StartProbe, Goto
  <2>2. kind[c] = "write"
    BY <1>0, <2>1 DEF OwnerOf
  <2>3. PaneOf(c)'
    BY <1>0, <2>1, <2>2 DEF PaneOf, Excused
  <2>. QED
    BY <1>0, <2>1, <2>3, OccursAppend, PaneFrame
<1>5. CASE ProbeDone(c)
  <2>1. /\ pc[c] = "probing" /\ Release(c, TRUE)
        /\ UNCHANGED <<pane, kind, cancels, ended>>
    BY <1>5 DEF ProbeDone
  <2>2. holder = c /\ kind[c] = "write"
    BY <1>0, <2>1, Places DEF LockInv, StatusMatchesLock, OwnerOf
  <2>3. PaneOf(c)'
    BY <1>0, <2>1, <2>2 DEF PaneOf, Release, Goto, Excused
  <2>. QED
    BY <1>0, <2>1, <2>2, <2>3, PaneFrame DEF Release, Goto
<1>6. CASE UnwindDone(c)
  <2>1. /\ pc' = [pc EXCEPT ![c] = "shield"]
        /\ UNCHANGED <<state, holder, kind, cancels, pane, ended>>
    BY <1>6 DEF UnwindDone, Goto
  <2>2. PaneOf(c)'
    BY <1>0, <2>1 DEF PaneOf, Excused, Usable
  <2>. QED
    BY <1>0, <2>1, <2>2, PaneFrame
<1>. QED
  BY <1>1, <1>2, <1>3, <1>4, <1>5, <1>6 DEF Recover

LEMMA PaneProgress ==
    ASSUME TypeOK, LockInv, OwnerInv, PaneInv, NEW c \in Calls, Progress(c),
           ~Usable => ~Usable'
    PROVE  PaneInv'
<1>0. /\ pc \in [Calls -> PCs] /\ pane \in Seq(Calls) /\ NoCall \notin Calls
      /\ PaneOf(c)
  BY DEF TypeOK, PaneInv
<1>1. CASE Acquire(c) \/ AcquireRefused(c)
  <2>1. /\ pc[c] = "waiting" /\ holder = NoCall
        /\ UNCHANGED <<kind, cancels, pane, ended>>
        /\ \E p \in {"done", "begin", "killing"} : Goto(c, p)
    BY <1>1 DEF Acquire, AcquireRefused, Granted, Admit
  <2>2. PaneOf(c)'
    BY <1>0, <2>1 DEF PaneOf, Goto
  <2>. QED
    BY <1>0, <2>1, <2>2, PaneFrame DEF Goto
<1>2. CASE Submit(c)
  <2>1. /\ pc[c] = "begin" /\ pc' = [pc EXCEPT ![c] = "body"]
        /\ pane' = Append(pane, c)
        /\ UNCHANGED <<state, holder, kind, cancels, ended>>
    BY <1>2 DEF Submit, Goto
  <2>2. holder = c
    BY <2>1, Places DEF LockInv, StatusMatchesLock
  <2>3. PaneOf(c)'
    BY <1>0, <2>1, <2>2, OccursAppend DEF PaneOf
  <2>. QED
    BY <1>0, <2>1, <2>3, OccursAppend, PaneFrame
<1>3. CASE Succeed(c)
  <2>1. /\ pc[c] = "body" /\ c \in ended /\ Release(c, TRUE)
        /\ UNCHANGED <<kind, cancels, pane, ended>>
    BY <1>3 DEF Succeed
  <2>2. holder = c
    BY <2>1, Places DEF LockInv, StatusMatchesLock
  <2>3. PaneOf(c)'
    BY <1>0, <2>1 DEF PaneOf, Release, Goto
  <2>. QED
    BY <1>0, <2>1, <2>2, <2>3, PaneFrame DEF Release, Goto
<1>4. CASE Fail(c) \/ FailWrite(c)
  <2>1. /\ pc' = [pc EXCEPT ![c] = "recover"] \/ pc' = [pc EXCEPT ![c] = "settle"]
        /\ UNCHANGED <<state, holder, kind, cancels, pane, ended>>
    BY <1>4 DEF Fail, FailWrite, Goto
  <2>2. PaneOf(c)'
    BY <1>0, <2>1 DEF PaneOf, Excused, Usable
  <2>. QED
    BY <1>0, <2>1, <2>2, PaneFrame
<1>5. CASE Recover(c)
  BY <1>5, PaneRecover
<1>6. CASE KillDone(c) \/ KillFail(c)
  <2>1. /\ pc[c] \in Closing /\ pc' = [pc EXCEPT ![c] = "done"]
        /\ pane' = <<>> \/ pane' = pane
        /\ state' = state \/ state' = "unresponsive"
        /\ UNCHANGED <<kind, cancels, ended>>
    BY <1>6 DEF KillDone, KillFail, MaybeKill, Kill, Goto
  <2>2. holder = c /\ state = "closing"
    BY <2>1 DEF LockInv, StatusMatchesLock
  <2>3. PaneOf(c)'
    BY <1>0, <2>1, <2>2 DEF PaneOf, Usable
  <2>4. \A d \in Calls : /\ Occurs(pane', d) => Occurs(pane, d)
                         /\ Once(pane, d) => Once(pane', d)
    BY <2>1, OccursEmpty
  <2>. QED
    BY <1>0, <2>1, <2>2, <2>3, <2>4, PaneFrame
<1>. QED
  BY <1>1, <1>2, <1>3, <1>4, <1>5, <1>6 DEF Progress

LEMMA PaneCancel ==
    ASSUME TypeOK, LockInv, PaneInv, NEW c \in Calls, Cancel(c), ~Usable => ~Usable'
    PROVE  PaneInv'
<1>0. /\ pc \in [Calls -> PCs] /\ pane \in Seq(Calls) /\ NoCall \notin Calls
      /\ PaneOf(c)
  BY DEF TypeOK, PaneInv
<1>1. /\ cancels'[c] > 0
      /\ \A d \in Calls \ {c} : cancels'[d] = cancels[d]
  <2>1. Cancelled(c)
    BY DEF Cancel, CancelWaiting, CancelBody, CancelWrite, CancelRepair,
           CancelUnwind, CancelRecover, CancelShield, CancelKill, CancelKillAgain
  <2>2. cancels \in [Calls -> 0..MaxCancels]
    BY DEF TypeOK
  <2>. QED
    BY <2>1, <2>2 DEF Cancelled
<1>2. UNCHANGED <<kind, ended>>
  BY DEF Cancel, CancelWaiting, CancelBody, CancelWrite, CancelRepair,
         CancelUnwind, CancelRecover, CancelShield, CancelKill, CancelKillAgain
<1>3. \A d \in Calls : /\ Occurs(pane', d) => Occurs(pane, d)
                       /\ Once(pane, d) => Once(pane', d)
  BY OccursEmpty
     DEF Cancel, CancelWaiting, CancelBody, CancelWrite, CancelRepair,
         CancelUnwind, CancelRecover, CancelShield, CancelKill, CancelKillAgain,
         MaybeKill, Kill
<1>4. \A d \in Calls \ {c} : holder = d => holder' = d
  <2>1. pc[c] \in Using \cup Closing => holder = c
    BY DEF LockInv, StatusMatchesLock
  <2>. QED
    BY <2>1, Places
       DEF Cancel, CancelWaiting, CancelBody, RecoverShielded, CancelWrite,
           CancelRepair, CancelUnwind, CancelRecover, CancelShield, Release,
           CancelKill, CancelKillAgain
<1>5. \E p \in {"done", "shield", "unwind", "killing2"} : pc' = [pc EXCEPT ![c] = p]
  BY DEF Cancel, CancelWaiting, CancelBody, RecoverShielded, CancelWrite,
         CancelRepair, CancelUnwind, CancelRecover, CancelShield, Release,
         CancelKill, CancelKillAgain, Goto
<1>6. PaneOf(c)'
  BY <1>0, <1>1, <1>5 DEF PaneOf, Excused
<1>. QED
  BY <1>0, <1>1, <1>2, <1>3, <1>4, <1>5, <1>6, PaneFrame

LEMMA PaneEnvironment ==
    ASSUME TypeOK, PaneInv, CommandEnds \/ WindowLost
    PROVE  PaneInv'
<1>. SUFFICES ASSUME NEW c \in Calls
              PROVE  PaneOf(c)'
  BY DEF PaneInv
<1>0. pane \in Seq(Calls) /\ PaneOf(c)
  BY DEF TypeOK, PaneInv
<1>1. CASE CommandEnds
  <2>1. /\ pane # <<>> /\ pane' = Tail(pane) /\ ended' = ended \cup {Head(pane)}
        /\ UNCHANGED <<state, holder, pc, kind, cancels>>
    BY <1>1 DEF CommandEnds
  <2>2. Occurs(pane, Head(pane))
    BY <1>0, <2>1 DEF Occurs
  <2>3. /\ Occurs(pane', c) => Occurs(pane, c)
        /\ Once(pane, c) => Once(pane', c)
        /\ c = Head(pane) /\ Once(pane, c) => ~Occurs(pane', c)
    BY <1>0, <2>1, OccursTail
  <2>. QED
    BY <1>0, <2>1, <2>2, <2>3 DEF PaneOf, Excused, Usable
<1>2. CASE WindowLost
  BY <1>0, <1>2, OccursEmpty DEF WindowLost, PaneOf, Excused, Usable
<1>. QED
  BY <1>1, <1>2

LEMMA PaneStep ==
    ASSUME TypeOK, LockInv, OwnerInv, PaneInv, [Next]_vars
    PROVE  PaneInv'
<1>1. ~Usable => ~Usable'
  BY UsableStep
<1>2. CASE UNCHANGED vars
  BY <1>2 DEF vars, PaneInv, PaneOf, Excused, Usable
<1>. QED
  BY <1>1, <1>2, PaneArrive, PaneProgress, PaneCancel, PaneEnvironment DEF Next

LEMMA PaneImplies ==
    ASSUME TypeOK, LockInv, PaneInv
    PROVE  ReadyMeansIdleShell
<1>. SUFFICES ASSUME state = "ready", NEW i \in 1..Len(pane)
              PROVE  Excused(pane[i])
  BY DEF ReadyMeansIdleShell, Excused
<1>1. pane[i] \in Calls /\ Occurs(pane, pane[i])
  BY DEF TypeOK, Occurs
<1>2. holder # pane[i]
  BY <1>1 DEF LockInv, StatusMatchesLock
<1>. QED
  BY <1>1, <1>2 DEF PaneInv, PaneOf, Usable

\* The whole inductive invariant.
IInv == TypeOK /\ LockInv /\ OwnerInv /\ CloseInv /\ PaneInv

\* The invariant is inductive, for any calls and cancellations.
THEOREM Invariance == Spec => []IInv
<1>1. Init => IInv
  BY TypeInit, LockInit, OwnerInit, CloseInit, PaneInit DEF IInv
<1>2. IInv /\ [Next]_vars => IInv'
  BY TypeStep, LockStep, OwnerStep, CloseStep, PaneStep DEF IInv
<1>. QED
  BY <1>1, <1>2, PTL DEF Spec

\* A connection offered as "ready" has nothing running in its shell that a
\* cancelled call or the probe of a failed write did not leave there.
THEOREM ReadyIsIdle == Spec => []ReadyMeansIdleShell
<1>1. IInv => ReadyMeansIdleShell
  BY PaneImplies DEF IInv
<1>. QED
  BY <1>1, Invariance, PTL

LEMMA UndisturbedStep ==
    ASSUME IInv, [Next]_vars, NEW c \in Calls, pc[c] = "body", pc'[c] = "body",
           Occurs(pane, c), ~Occurs(pane', c)
    PROVE  c \in ended' \/ window' = "lost" \/ (\E d \in Calls : cancels[d] > 1)
<1>0. /\ pane \in Seq(Calls) /\ cancels \in [Calls -> Nat] /\ pc \in [Calls -> PCs]
      /\ holder = c
      /\ \A d \in Calls \ {c} : pc[d] \notin Using \cup Closing
  BY Places DEF IInv, TypeOK, LockInv, StatusMatchesLock
<1>1. ASSUME NEW d \in Calls, NEW l \in Layers, rec[d][l] # "none"
      PROVE  cancels[d] > 1
  <2>1. pc[d] \notin Recovering \cup InnerRecovering
    BY <1>0 DEF Using, Recovering, InnerRecovering
  <2>2. OwnerOf(d) /\ cancels[d] \in Nat /\ l \in {"outer", "inner"}
    BY <1>0 DEF IInv, OwnerInv, Layers
  <2>. QED
    BY <1>1, <2>1, <2>2 DEF OwnerOf
<1>2. ASSUME NEW d \in Calls, Arrive(d)
      PROVE  pane' = pane
  BY <1>2 DEF Arrive, Refuse, Enter, Queue
<1>3. ASSUME NEW d \in Calls, Progress(d)
      PROVE  Occurs(pane', c) \/ \E e \in Calls : cancels[e] > 1
  <2>1. ASSUME NEW l \in Layers, Interrupt(d, l)
        PROVE  cancels[d] > 1
    BY <1>1, <2>1 DEF Interrupt
  <2>2. ASSUME Submit(d) \/ StartProbe(d)
        PROVE  Occurs(pane', c)
    <3>1. pane' = Append(pane, d)
      BY <2>2 DEF Submit, StartProbe
    <3>. QED
      BY <1>0, <3>1, OccursAppend
  <2>3. ~(KillDone(d) \/ KillFail(d))
    BY <1>0, Places DEF KillDone, KillFail
  <2>. QED
    BY <1>3, <2>1, <2>2, <2>3
       DEF Progress, Acquire, AcquireRefused, Succeed, Fail, FailWrite, Recover,
           OrphanDone, RecoverDone, SettleDone, ProbeDone, UnwindDone
<1>4. ASSUME NEW d \in Calls, Cancel(d)
      PROVE  pane' = pane
  BY <1>0, <1>4, Places
     DEF Cancel, CancelWaiting, CancelBody, CancelWrite, CancelRepair,
         CancelUnwind, CancelRecover, CancelShield, CancelKill, CancelKillAgain
<1>5. CASE CommandEnds
  BY <1>0, <1>5, OccursTail DEF CommandEnds
<1>6. CASE WindowLost \/ UNCHANGED vars
  BY <1>6 DEF WindowLost, vars
<1>. QED
  BY <1>2, <1>3, <1>4, <1>5, <1>6 DEF Next

\* The command a call is waiting for is never removed unfinished by another
\* call's recovery or by a disconnect, as long as no call is cancelled twice.
THEOREM CommandsAreUndisturbed == Spec => LiveCommandUndisturbed
<1>1. IInv /\ [Next]_vars =>
        [ \A c \in Calls :
            (pc[c] = "body" /\ pc'[c] = "body"
               /\ (\E i \in 1..Len(pane) : pane[i] = c)
               /\ ~(\E i \in 1..Len(pane') : pane'[i] = c))
            => c \in ended' \/ window' = "lost" \/ (\E d \in Calls : cancels[d] > 1)
        ]_vars
  BY UndisturbedStep DEF Occurs
<1>. QED
  BY <1>1, Invariance, PTL DEF Spec, LiveCommandUndisturbed

(* The connection implements PaneLease                                     *)

\* What was left behind, and by whom: the calls are of the kinds the clients
\* make, and a close is abandoned only by a cancelled disconnect.
LeftInv ==
    /\ \A c \in Calls : pc[c] # "idle" => kind[c] \in Kinds
    /\ \A c \in Calls : pc[c] = "killing2" => MaxCancels > 0
    /\ state = "closing" /\ registered /\ holder = NoCall => MaxCancels > 0

LEMMA LeftInit == Init => LeftInv
BY DEF Init, LeftInv

\* A call moves on, neither into nor out of a close.
LEMMA LeftFrame ==
    ASSUME TypeOK, LeftInv, NEW c \in Calls,
           NEW p \in PCs \ {"killing2"}, Goto(c, p),
           kind' = kind, pc[c] # "idle",
           state' = state /\ registered' = registered /\ holder' = holder
    PROVE  LeftInv'
BY DEF TypeOK, LeftInv, Goto

\* A cancellation is possible only when the bound allows one.
LEMMA CancelledBound ==
    ASSUME TypeOK, NEW c \in Calls, Cancelled(c)
    PROVE  MaxCancels > 0
BY DEF TypeOK, Cancelled

LEMMA LeftStep ==
    ASSUME TypeOK, LockInv, CloseInv, LeftInv, [Next]_vars
    PROVE  LeftInv'
<1>. USE DEF LeftInv
<1>0. pc \in [Calls -> PCs] /\ kind \in [Calls -> AllKinds] /\ NoCall \notin Calls
  BY DEF TypeOK
<1>1. ASSUME NEW c \in Calls, Arrive(c)
      PROVE  LeftInv'
  <2>1. PICK k \in Kinds : Refuse(c, k) \/ Enter(c, k) \/ Queue(c, k)
    BY <1>1 DEF Arrive
  <2>2. /\ kind' = [kind EXCEPT ![c] = k] /\ UNCHANGED registered
        /\ \E p \in PCs \ {"killing2"} : pc' = [pc EXCEPT ![c] = p]
        /\ holder' = c \/ UNCHANGED <<state, holder>>
    BY <2>1, Members DEF Refuse, Enter, Queue, Admit, Goto
  <2>. QED
    BY <1>0, <2>2
<1>2. ASSUME NEW c \in Calls, NEW ok \in BOOLEAN, pc[c] \in Using, Release(c, ok),
             UNCHANGED <<registered, kind>>
      PROVE  LeftInv'
  BY <1>0, <1>2, Places DEF Release, Goto
<1>3. ASSUME NEW c \in Calls, Progress(c)
      PROVE  LeftInv'
  <2>1. CASE Acquire(c)
    BY <1>0, <2>1, Members DEF Acquire, Granted, Admit, Goto
  <2>2. CASE AcquireRefused(c)
    <3>1. state' = state /\ registered' = registered /\ holder' = holder
      BY <2>2 DEF AcquireRefused, Granted, Unlock
    <3>. QED
      BY <2>2, <3>1, LeftFrame, Members DEF AcquireRefused, Granted
  <2>3. CASE Submit(c) \/ Fail(c) \/ FailWrite(c) \/ StartProbe(c) \/ UnwindDone(c)
    BY <2>3, LeftFrame, Members DEF Submit, Fail, FailWrite, StartProbe, UnwindDone
  <2>4. CASE Succeed(c) \/ ProbeDone(c) \/ \E ok \in BOOLEAN : RecoverDone(c, ok) \/ SettleDone(c, ok)
    BY <1>2, <2>4, Places DEF Succeed, ProbeDone, RecoverDone, SettleDone, Recovering
  <2>5. CASE \E l \in Layers : Interrupt(c, l) \/ OrphanDone(c, l)
    BY <2>5 DEF Interrupt, OrphanDone
  <2>6. CASE KillDone(c)
    BY <1>0, <2>6 DEF KillDone, Goto, Closing
  <2>7. CASE KillFail(c)
    BY <1>0, <2>7 DEF KillFail, KeepOnFailure, Goto, Closing
  <2>. QED
    BY <1>3, <2>1, <2>2, <2>3, <2>4, <2>5, <2>6, <2>7 DEF Progress, Recover
<1>4. ASSUME NEW c \in Calls, Cancel(c)
      PROVE  LeftInv'
  <2>1. CASE CancelWaiting(c)
    BY <2>1, LeftFrame, Members DEF CancelWaiting
  <2>2. CASE CancelBody(c) \/ CancelWrite(c) \/ CancelRepair(c) \/ CancelUnwind(c)
    BY <2>2, LeftFrame, Members
       DEF CancelBody, RecoverShielded, CancelWrite, CancelRepair, CancelUnwind
  <2>3. CASE CancelRecover(c) \/ CancelShield(c)
    BY <1>2, <2>3, Places DEF CancelRecover, CancelShield
  <2>4. CASE CancelKill(c)
    BY <1>0, <2>4, CancelledBound DEF CancelKill, Goto
  <2>5. CASE CancelKillAgain(c)
    BY <1>0, <2>5, CancelledBound DEF CancelKillAgain, Goto
  <2>. QED
    BY <1>4, <2>1, <2>2, <2>3, <2>4, <2>5 DEF Cancel
<1>5. CASE CommandEnds \/ WindowLost \/ UNCHANGED vars
  BY <1>5 DEF CommandEnds, WindowLost, vars
<1>. QED
  BY <1>1, <1>3, <1>4, <1>5 DEF Next

\* The shell of a ready connection is idle in the sense of the lease.
LEMMA ReadyIdle ==
    IInv /\ LeftInv /\ registered /\ state = "ready" => ShellView \in Lease!Idle
<1>. SUFFICES ASSUME IInv, LeftInv, registered, state = "ready"
              PROVE  ShellView \in Lease!Idle
  OBVIOUS
<1>1. CASE pane = <<>>
  BY <1>1 DEF ShellView, Lease!Idle
<1>2. CASE pane # <<>>
  <2>1. ReadyMeansIdleShell
    BY PaneImplies DEF IInv
  <2>2. pane[1] \in Calls /\ 1 \in 1..Len(pane)
    BY <1>2 DEF IInv, TypeOK
  <2>3. cancels[pane[1]] > 0 \/ kind[pane[1]] = "write"
    BY <2>1, <2>2 DEF ReadyMeansIdleShell
  <2>4. pc[pane[1]] # "idle"
    BY <2>2 DEF IInv, PaneInv, PaneOf, Occurs
  <2>5. MayLeave
    BY <2>2, <2>3, <2>4 DEF MayLeave, LeftInv, IInv, TypeOK
  <2>. QED
    BY <1>2, <2>5 DEF ShellView, Lease!Idle, Lease!Possibly
<1>. QED
  BY <1>1, <1>2

\* A call gets the free lock: a lease or a close begins, or the connection
\* is forgotten already.
LEMMA LeaseGranted ==
    ASSUME IInv, LeftInv, NEW c \in Calls, NEW k, holder = NoCall, Admit(c, k),
           k = "disconnect" \/ Usable, UNCHANGED <<registered, pane>>
    PROVE  [Lease!Next]_(Lease!vars)
<1>1. state # "busy"
  BY DEF IInv, LockInv, StatusMatchesLock
<1>2. CASE ~registered
  <2>1. UNCHANGED <<LeaseHolder, ShellView>>
    BY <1>2 DEF LeaseHolder, ShellView
  <2>. QED
    BY <2>1 DEF Lease!vars
<1>3. CASE registered
  <2>1. LeaseHolder = NoCall /\ LeaseHolder' = c
    BY <1>3 DEF LeaseHolder, Admit
  <2>2. CASE k # "disconnect"
    <3>1. state = "ready"
      BY <1>1, <2>2 DEF Usable, IInv, TypeOK
    <3>2. ShellView' = "used"
      BY <1>3, <2>2 DEF ShellView, Admit
    <3>3. Lease!Grant(c)
      BY <1>3, <2>1, <3>1, <3>2, ReadyIdle DEF Lease!Grant
    <3>. QED
      BY <3>3 DEF Lease!Next
  <2>3. CASE k = "disconnect"
    <3>1. ShellView' = "closing"
      BY <1>3, <2>3 DEF ShellView, Admit
    <3>2. ShellView \in Lease!Idle \cup {"broken"} \cup Lease!Possibly("closing")
      <4>1. CASE state = "ready"
        BY <1>3, <4>1, ReadyIdle
      <4>2. CASE state = "unresponsive"
        BY <1>3, <4>2 DEF ShellView
      <4>3. CASE state = "closing"
        BY <1>3, <4>3 DEF ShellView, Lease!Possibly, LeftInv, MayLeave
      <4>. QED
        BY <1>1, <4>1, <4>2, <4>3 DEF IInv, TypeOK
    <3>3. Lease!StartClose(c)
      BY <2>1, <3>1, <3>2 DEF Lease!StartClose
    <3>. QED
      BY <3>3 DEF Lease!Next
  <2>. QED
    BY <2>2, <2>3
<1>. QED
  BY <1>2, <1>3

\* A pane operation leaves the lock: the lease ends.
LEMMA LeaseReturned ==
    ASSUME IInv, IInv', LeftInv', NEW c \in Calls, NEW ok \in BOOLEAN,
           pc[c] \in Using, Release(c, ok), UNCHANGED registered
    PROVE  [Lease!Next]_(Lease!vars)
<1>1. state = "busy" /\ holder = c /\ registered
  BY DEF IInv, LockInv, StatusMatchesLock, CloseInv, Usable
<1>2. LeaseHolder = c /\ LeaseHolder' = NoCall /\ ShellView = "used"
  BY <1>1 DEF LeaseHolder, ShellView, Release
<1>3. ShellView' \in Lease!Idle \cup {"broken"}
  <2>1. CASE ok
    <3>1. registered' /\ state' = "ready"
      BY <1>1, <2>1 DEF Release
    <3>2. (IInv /\ LeftInv /\ registered /\ state = "ready" => ShellView \in Lease!Idle)'
      BY ReadyIdle, PTL
    <3>. QED
      BY <3>1, <3>2
  <2>2. CASE ~ok
    BY <1>1, <2>2 DEF Release, ShellView
  <2>. QED
    BY <2>1, <2>2
<1>4. Lease!Return(c)
  BY <1>2, <1>3 DEF Lease!Return
<1>. QED
  BY <1>4 DEF Lease!Next

\* A disconnect leaves the lock: the close ends.
LEMMA LeaseClosed ==
    ASSUME IInv, LeftInv', NEW c \in Calls, pc[c] \in Closing, holder' = NoCall,
           \/ registered' = FALSE
           \/ registered' = registered /\ state' \in {state, "unresponsive"}
    PROVE  [Lease!Next]_(Lease!vars)
<1>1. state = "closing" /\ holder = c
  BY DEF IInv, LockInv, StatusMatchesLock
<1>2. CASE ~registered
  <2>1. UNCHANGED <<LeaseHolder, ShellView>>
    BY <1>2 DEF LeaseHolder, ShellView
  <2>. QED
    BY <2>1 DEF Lease!vars
<1>3. CASE registered
  <2>1. LeaseHolder = c /\ LeaseHolder' = NoCall /\ ShellView = "closing"
    BY <1>1, <1>3 DEF LeaseHolder, ShellView
  <2>2. ShellView' \in {"closed", "broken"} \cup Lease!Possibly("closing")
    <3>1. CASE ~registered'
      BY <3>1 DEF ShellView
    <3>2. CASE registered' /\ state' = "unresponsive"
      BY <3>2 DEF ShellView
    <3>3. CASE registered' /\ state' = "closing"
      BY <3>3 DEF ShellView, Lease!Possibly, LeftInv, MayLeave
    <3>. QED
      BY <1>1, <1>3, <3>1, <3>2, <3>3
  <2>3. Lease!EndClose(c)
    BY <2>1, <2>2 DEF Lease!EndClose
  <2>. QED
    BY <2>3 DEF Lease!Next
<1>. QED
  BY <1>2, <1>3

\* The pane changes under an unchanged lease: an idle shell gets no command.
LEMMA LeaseSettled ==
    ASSUME IInv, UNCHANGED <<state, registered, holder>>,
           state = "ready" => pane' = pane \/ pane # <<>>
    PROVE  [Lease!Next]_(Lease!vars)
<1>1. UNCHANGED LeaseHolder
  BY DEF LeaseHolder
<1>2. CASE UNCHANGED ShellView
  BY <1>1, <1>2 DEF Lease!vars
<1>3. CASE ~UNCHANGED ShellView
  <2>1. state = "ready" /\ registered /\ ShellView = "dirty" /\ ShellView' = "clean"
    BY <1>3 DEF ShellView, IInv, TypeOK
  <2>2. holder = NoCall
    BY <2>1, Places DEF IInv, TypeOK, LockInv, StatusMatchesLock
  <2>3. Lease!Settle
    BY <1>1, <2>1, <2>2 DEF Lease!Settle, LeaseHolder
  <2>. QED
    BY <2>3 DEF Lease!Next
<1>. QED
  BY <1>2, <1>3

\* Each step is a step of PaneLease or leaves its variables alone.
LEMMA LeaseStep ==
    ASSUME IInv, LeftInv, [Next]_vars, IInv', LeftInv'
    PROVE  [Lease!Next]_(Lease!vars)
<1>1. ASSUME UNCHANGED <<state, registered, holder, pane>>
      PROVE  [Lease!Next]_(Lease!vars)
  BY <1>1, LeaseSettled
<1>2. ASSUME NEW c \in Calls, pc[c] \in Using
      PROVE  state # "ready"
  BY <1>2 DEF IInv, LockInv, StatusMatchesLock
<1>3. ASSUME NEW c \in Calls, Arrive(c)
      PROVE  [Lease!Next]_(Lease!vars)
  <2>1. PICK k \in Kinds : Refuse(c, k) \/ Enter(c, k) \/ Queue(c, k)
    BY <1>3 DEF Arrive
  <2>. QED
    BY <1>1, <2>1, LeaseGranted DEF Refuse, Enter, Queue, Found
<1>4. ASSUME NEW c \in Calls, Recover(c)
      PROVE  [Lease!Next]_(Lease!vars)
  <2>1. ASSUME NEW l \in Layers, Interrupt(c, l)
        PROVE  [Lease!Next]_(Lease!vars)
    <3>1. pane' = pane \/ pane # <<>>
      BY <2>1 DEF Interrupt, Interrupted
    <3>. QED
      BY <2>1, <3>1, LeaseSettled DEF Interrupt
  <2>2. CASE UnwindDone(c) \/ \E l \in Layers : OrphanDone(c, l)
    BY <1>1, <2>2 DEF UnwindDone, OrphanDone
  <2>3. CASE ProbeDone(c) \/ \E ok \in BOOLEAN : RecoverDone(c, ok) \/ SettleDone(c, ok)
    BY <2>3, LeaseReturned, Places DEF RecoverDone, SettleDone, ProbeDone, Recovering
  <2>4. CASE StartProbe(c)
    BY <1>2, <2>4, LeaseSettled, Places DEF StartProbe
  <2>. QED
    BY <1>4, <2>1, <2>2, <2>3, <2>4 DEF Recover
<1>5. ASSUME NEW c \in Calls, Progress(c)
      PROVE  [Lease!Next]_(Lease!vars)
  <2>1. CASE Acquire(c)
    BY <2>1, LeaseGranted DEF Acquire, Granted, StillUsable
  <2>2. CASE AcquireRefused(c) \/ Fail(c) \/ FailWrite(c)
    BY <1>1, <2>2 DEF AcquireRefused, Granted, Unlock, Fail, FailWrite
  <2>3. CASE Submit(c)
    BY <1>2, <2>3, LeaseSettled, Places DEF Submit
  <2>4. CASE Succeed(c)
    BY <2>4, LeaseReturned, Places DEF Succeed
  <2>5. CASE KillDone(c) \/ KillFail(c)
    BY <2>5, LeaseClosed DEF KillDone, KillFail, KeepOnFailure
  <2>. QED
    BY <1>4, <1>5, <2>1, <2>2, <2>3, <2>4, <2>5 DEF Progress
<1>6. ASSUME NEW c \in Calls, Cancel(c)
      PROVE  [Lease!Next]_(Lease!vars)
  <2>1. CASE \/ CancelWaiting(c) \/ CancelBody(c) \/ CancelWrite(c)
             \/ CancelRepair(c) \/ CancelUnwind(c) \/ CancelKill(c)
    BY <1>1, <2>1 DEF CancelWaiting, CancelBody, RecoverShielded, CancelWrite,
                      CancelRepair, CancelUnwind, CancelKill
  <2>2. CASE CancelRecover(c) \/ CancelShield(c)
    BY <2>2, LeaseReturned, Places DEF CancelRecover, CancelShield
  <2>3. CASE CancelKillAgain(c)
    BY <2>3, LeaseClosed, Places DEF CancelKillAgain
  <2>. QED
    BY <1>6, <2>1, <2>2, <2>3 DEF Cancel
<1>7. CASE CommandEnds \/ WindowLost
  <2>1. UNCHANGED <<state, registered, holder>>
    BY <1>7 DEF CommandEnds, WindowLost
  <2>2. pane' = pane \/ pane # <<>>
    BY <1>7 DEF CommandEnds, WindowLost
  <2>. QED
    BY <2>1, <2>2, LeaseSettled
<1>. QED
  BY <1>1, <1>3, <1>5, <1>6, <1>7 DEF Next, vars

\* Whatever fails or is cancelled, the connection hands its pane out as
\* PaneLease does: to one call at a time, only idle, and never again once it
\* is broken or closed; and where nothing may be left behind, nothing is.
THEOREM ConnectionIsLease == Spec => LeaseKept
<1>1. Init => Lease!Init
  BY DEF Init, Lease!Init, LeaseHolder, ShellView
<1>2. Init => LeftInv
  BY LeftInit
<1>3. IInv /\ LeftInv /\ [Next]_vars => LeftInv'
  BY LeftStep DEF IInv
<1>4. IInv /\ LeftInv /\ [Next]_vars /\ IInv' /\ LeftInv' => [Lease!Next]_(Lease!vars)
  BY LeaseStep
<1>. QED
  BY <1>1, <1>2, <1>3, <1>4, Invariance, PTL DEF Spec, LeaseKept

(* The lock's queue                                                        *)

\* Whom each waiter waits for: waiters that came before it, those that they
\* wait for among them; of two waiters one came before the other.
QueueInv ==
    /\ IsFiniteSet(Waiting)
    /\ \A c \in Waiting :
          /\ ahead[c] \subseteq Waiting \ {c}
          /\ \A d \in ahead[c] : ahead[d] \subseteq ahead[c]
    /\ \A c, d \in Waiting : c = d \/ c \in ahead[d] \/ d \in ahead[c]

\* The lock is never free with nobody admitted: exactly one waiter's turn it is.
LockIsServed ==
    holder = NoCall /\ Waiting # {} =>
        \E c \in Calls : Granted(c) /\ \A d \in Calls : Granted(d) => d = c

LEMMA QueueInit == Init => QueueInv
<1>1. Init => Waiting = {}
  BY DEF Init, Waiting
<1>. QED
  BY <1>1, FS_EmptySet DEF QueueInv

\* A call joins the queue behind everybody in it.
LEMMA QueueJoined ==
    ASSUME TypeOK, QueueInv, NEW c \in Calls, pc[c] # "waiting",
           Goto(c, "waiting"), ahead' = [ahead EXCEPT ![c] = Waiting]
    PROVE  QueueInv'
<1>1. Waiting' = Waiting \cup {c} /\ c \notin Waiting /\ Waiting \subseteq Calls
  BY DEF TypeOK, Waiting, Goto
<1>2. ahead'[c] = Waiting /\ \A d \in Waiting : ahead'[d] = ahead[d]
  BY <1>1 DEF TypeOK
<1>3. IsFiniteSet(Waiting')
  BY <1>1, FS_AddElement DEF QueueInv
<1>4. ASSUME NEW d \in Waiting'
      PROVE  /\ ahead'[d] \subseteq Waiting' \ {d}
             /\ \A e \in ahead'[d] : ahead'[e] \subseteq ahead'[d]
  <2>1. CASE d = c
    BY <1>1, <1>2, <2>1 DEF QueueInv
  <2>2. CASE d \in Waiting
    BY <1>1, <1>2, <2>2 DEF QueueInv
  <2>. QED
    BY <1>1, <2>1, <2>2
<1>5. ASSUME NEW d \in Waiting', NEW e \in Waiting'
      PROVE  d = e \/ d \in ahead'[e] \/ e \in ahead'[d]
  BY <1>1, <1>2 DEF QueueInv
<1>. QED
  BY <1>3, <1>4, <1>5 DEF QueueInv

\* A call leaves the queue, and nobody waits for it any more.
LEMMA QueueLeft ==
    ASSUME TypeOK, QueueInv, NEW c \in Calls, Leave(c), NEW p \in PCs, p # "waiting", Goto(c, p)
    PROVE  QueueInv'
<1>1. Waiting' = Waiting \ {c} /\ Waiting \subseteq Calls
  BY DEF TypeOK, Waiting, Goto
<1>2. \A d \in Calls : ahead'[d] = ahead[d] \ {c}
  BY DEF Leave
<1>3. IsFiniteSet(Waiting')
  BY <1>1, FS_Subset DEF QueueInv
<1>4. ASSUME NEW d \in Waiting'
      PROVE  /\ ahead'[d] \subseteq Waiting' \ {d}
             /\ \A e \in ahead'[d] : ahead'[e] \subseteq ahead'[d]
  <2>1. d \in Waiting /\ d \in Calls /\ ahead[d] \subseteq Waiting \ {d}
        /\ \A e \in ahead[d] : ahead[e] \subseteq ahead[d]
    BY <1>1 DEF QueueInv
  <2>2. ahead'[d] = ahead[d] \ {c}
    BY <1>2, <2>1
  <2>3. \A e \in ahead'[d] : e \in Calls /\ e \in ahead[d]
    BY <1>1, <2>1, <2>2
  <2>. QED
    BY <1>1, <1>2, <2>1, <2>2, <2>3
<1>5. ASSUME NEW d \in Waiting', NEW e \in Waiting'
      PROVE  d = e \/ d \in ahead'[e] \/ e \in ahead'[d]
  BY <1>1, <1>2 DEF QueueInv
<1>. QED
  BY <1>3, <1>4, <1>5 DEF QueueInv

\* Everything else happens outside of the queue.
LEMMA QueueStays ==
    ASSUME TypeOK, QueueInv, ahead' = ahead,
           \/ pc' = pc
           \/ \E c \in Calls, p \in PCs : pc[c] # "waiting" /\ p # "waiting" /\ Goto(c, p)
    PROVE  QueueInv'
<1>1. Waiting' = Waiting
  BY DEF TypeOK, Waiting, Goto
<1>. QED
  BY <1>1 DEF QueueInv

LEMMA QueueStep ==
    ASSUME TypeOK, QueueInv, [Next]_vars
    PROVE  QueueInv'
<1>1. ASSUME NEW c \in Calls, Arrive(c)
      PROVE  QueueInv'
  <2>1. PICK k \in Kinds : Refuse(c, k) \/ Enter(c, k) \/ Queue(c, k)
    BY <1>1 DEF Arrive
  <2>2. CASE Queue(c, k)
    BY <2>2, QueueJoined DEF Queue
  <2>3. CASE Refuse(c, k) \/ Enter(c, k)
    BY <2>3, QueueStays, Members DEF Refuse, Enter, Admit
  <2>. QED
    BY <2>1, <2>2, <2>3
<1>2. ASSUME NEW c \in Calls, Recover(c)
      PROVE  QueueInv'
  <2>1. ahead' = ahead
    BY <1>2 DEF Recover, Interrupt, OrphanDone, RecoverDone, SettleDone, StartProbe, ProbeDone,
                UnwindDone
  <2>2. \/ pc' = pc
        \/ pc[c] # "waiting" /\ \E p \in {"done", "probing", "shield"} : Goto(c, p)
    BY <1>2 DEF Recover, Interrupt, OrphanDone, RecoverDone, SettleDone, StartProbe, ProbeDone,
                UnwindDone, Release, Recovering
  <2>. QED
    BY <2>1, <2>2, QueueStays, Members
<1>3. ASSUME NEW c \in Calls, Progress(c)
      PROVE  QueueInv'
  <2>1. CASE Acquire(c) \/ AcquireRefused(c)
    <3>1. Leave(c) /\ \E p \in {"begin", "killing", "done"} : Goto(c, p)
      BY <2>1 DEF Acquire, AcquireRefused, Admit
    <3>. QED
      BY <3>1, QueueLeft, Members
  <2>2. CASE Submit(c) \/ Succeed(c) \/ Fail(c) \/ FailWrite(c) \/ KillDone(c) \/ KillFail(c)
    <3>1. /\ ahead' = ahead /\ pc[c] # "waiting"
          /\ \E p \in {"body", "done", "recover", "settle"} : Goto(c, p)
      BY <2>2 DEF Submit, Succeed, Fail, FailWrite, KillDone, KillFail, Release, Closing
    <3>. QED
      BY <3>1, QueueStays, Members
  <2>. QED
    BY <1>2, <1>3, <2>1, <2>2 DEF Progress
<1>4. ASSUME NEW c \in Calls, Cancel(c)
      PROVE  QueueInv'
  <2>1. CASE CancelWaiting(c)
    BY <2>1, QueueLeft, Members DEF CancelWaiting
  <2>2. CASE ~CancelWaiting(c)
    <3>1. /\ ahead' = ahead /\ pc[c] # "waiting"
          /\ \E p \in {"done", "shield", "unwind", "killing2"} : Goto(c, p)
      BY <1>4, <2>2 DEF Cancel, CancelBody, RecoverShielded, CancelWrite, CancelRepair,
                        CancelUnwind, CancelRecover, CancelShield, CancelKill, CancelKillAgain,
                        Release
    <3>. QED
      BY <3>1, QueueStays, Members
  <2>. QED
    BY <2>1, <2>2
<1>5. CASE CommandEnds \/ WindowLost \/ UNCHANGED vars
  BY <1>5, QueueStays DEF CommandEnds, WindowLost, vars
<1>. QED
  BY <1>1, <1>3, <1>4, <1>5 DEF Next

\* A set of numbers that is not empty has a least one.
LEMMA LeastNumber ==
    ASSUME NEW N \in SUBSET Nat, N # {}
    PROVE  \E m \in N : \A n \in N : m <= n
<1>1. IsWellFoundedOn(OpToRel(<, Nat), Nat)
  BY NatLessThanWellFounded
<1>2. PICK m \in N : \A n \in N : ~ (<<n, m>> \in OpToRel(<, Nat))
  BY <1>1, WFMin
<1>3. ASSUME NEW n \in N
      PROVE  m <= n
  <2>1. ~ (n < m)
    BY <1>2 DEF OpToRel
  <2>. QED
    BY <2>1
<1>. QED
  BY <1>3

\* The waiter with the fewest before it has nobody before it.
LEMMA SomebodyIsFirst ==
    ASSUME QueueInv, Waiting # {}
    PROVE  \E c \in Waiting : ahead[c] = {}
<1>1. ASSUME NEW c \in Waiting
      PROVE  IsFiniteSet(ahead[c]) /\ Cardinality(ahead[c]) \in Nat
  BY FS_Subset, FS_CardinalityType DEF QueueInv
<1> DEFINE N == {Cardinality(ahead[c]) : c \in Waiting}
<1>2. N \subseteq Nat /\ N # {}
  BY <1>1
<1>3. PICK m \in N : \A n \in N : m <= n
  <2> HIDE DEF N
  <2>. QED
    BY <1>2, LeastNumber
<1>4. PICK c \in Waiting : m = Cardinality(ahead[c])
  OBVIOUS
<1>5. ASSUME NEW d \in ahead[c]
      PROVE  FALSE
  <2>1. d \in Waiting /\ ahead[d] \subseteq ahead[c] /\ d \notin ahead[d]
    BY DEF QueueInv
  <2>2. Cardinality(ahead[d]) <= Cardinality(ahead[c])
        /\ (Cardinality(ahead[c]) = Cardinality(ahead[d]) => ahead[c] = ahead[d])
    BY <1>1, <2>1, FS_Subset
  <2>3. Cardinality(ahead[c]) <= Cardinality(ahead[d])
    BY <1>3, <1>4, <2>1
  <2>4. Cardinality(ahead[c]) = Cardinality(ahead[d])
    BY <1>1, <2>1, <2>2, <2>3
  <2>. QED
    BY <2>1, <2>2, <2>4
<1>. QED
  BY <1>5

\* Whenever the lock is free and somebody waits for it, it is the turn of
\* exactly one of them: for any number of calls, however many of the waiters
\* were cancelled in between.  No waiter depends on a call that has gone.
THEOREM LockAlwaysServed == Spec => []LockIsServed
<1>1. TypeOK /\ QueueInv /\ [Next]_vars => QueueInv'
  BY QueueStep
<1>2. IInv => TypeOK
  BY DEF IInv
<1>3. QueueInv => LockIsServed
  <2> SUFFICES ASSUME QueueInv, holder = NoCall, Waiting # {}
               PROVE  \E c \in Calls : Granted(c) /\ \A d \in Calls : Granted(d) => d = c
    BY DEF LockIsServed
  <2>1. PICK c \in Waiting : ahead[c] = {}
    BY SomebodyIsFirst
  <2>2. ASSUME NEW d \in Calls, Granted(d)
        PROVE  d = c
    <3>1. d \in Waiting /\ ahead[d] = {}
      BY <2>2 DEF Granted, Waiting
    <3>. QED
      BY <2>1, <3>1 DEF QueueInv
  <2>3. c \in Calls /\ Granted(c)
    BY <2>1 DEF Granted, Waiting
  <2>. QED
    BY <2>2, <2>3
<1>. QED
  BY <1>1, <1>2, <1>3, QueueInit, Invariance, PTL DEF Spec
=============================================================================
