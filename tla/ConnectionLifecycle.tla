------------------------ MODULE ConnectionLifecycle ------------------------
(***************************************************************************)
(* One registered connection of SessionManager (session.py): the per-      *)
(* connection asyncio.Lock, the published state, the recovery protocol of  *)
(* operation() and run_command(), and disconnect().  Tool calls are        *)
(* asyncio tasks that interleave at every await and can be cancelled at    *)
(* every await.  The shell behind the tmux pane is part of the model: the  *)
(* commands it still has to execute outlive the calls that typed them.     *)
(*                                                                         *)
(* Abstractions.  What a command prints is left out (PaneRun models it);   *)
(* a multi-command body (a chunked read, an edit) is one command; last_    *)
(* error, cwd and timestamps are left out, and current_operation is a      *)
(* function of the state and of the lock's holder.                         *)
(***************************************************************************)
EXTENDS Naturals, Sequences

CONSTANTS
    Calls,       \* tool calls made during the life of the connection
    NoCall,      \* the lock is free
    Kinds,       \* the kinds of call the clients make
    MaxCancels   \* bound: how often one call's task is cancelled

\* "run" is run_command (remote_run, grep, glob); "read" and "write" run
\* under operation(recover_on_failure=True); "write" covers remote_edit.
AllKinds == {"run", "read", "write", "disconnect"}

ASSUME KindsAssumption == Kinds \subseteq AllKinds
ASSUME NoCallAssumption == NoCall \notin Calls
ASSUME MaxCancelsAssumption == MaxCancels \in Nat

VARIABLES
    state,       \* Connection.state
    registered,  \* connection_id is a key of SessionManager._connections
    window,      \* the tmux window: "open", "killed" by us, or "lost"
    holder,      \* the call inside "async with conn.lock", or NoCall
    ahead,       \* ahead[c]: waiters that queued for the lock before c
    pc,          \* where each call's task is suspended
    kind,        \* what each call was asked to do
    cancels,     \* how often task.cancel() reached each call
    rec,         \* progress of each recover_pane() coroutine
    pane,        \* commands the remote shell has not finished, oldest first
    ended        \* calls whose completion markers were printed

vars == <<state, registered, window, holder, ahead, pc, kind, cancels, rec,
          pane, ended>>

(* The lock and the status                                                 *)

\* rec[c]["outer"] is the recovery started by session.py; rec[c]["inner"]
\* the one write_remote_file runs for itself.
Layers == {"outer", "inner"}
Steps == {"none", "first", "second", "probe"}

Waiting == {c \in Calls : pc[c] = "waiting"}

\* Pane operations in the critical section, by suspension point: the command
\* is not pasted yet, or pasted; the awaits of session.py's recovery without
\* and with asyncio.shield; the awaits of write_remote_file's own recovery
\* (unshielded; shielded on cancellation) and its _probe_destination.
Recovering == {"recover", "shield"}
InnerRecovering == {"settle", "unwind"}
Using == {"begin", "body", "probing"} \cup Recovering \cup InnerRecovering
\* kill_window awaited through asyncio.shield, then awaited directly.
Closing == {"killing", "killing2"}
PCs == {"idle", "waiting", "done"} \cup Using \cup Closing

Usable == state \notin {"unresponsive", "closing"}

Init ==
    /\ state = "ready"
    /\ registered = TRUE
    /\ window = "open"
    /\ holder = NoCall
    /\ ahead = [c \in Calls |-> {}]
    /\ pc = [c \in Calls |-> "idle"]
    /\ kind = [c \in Calls |-> "run"]
    /\ cancels = [c \in Calls |-> 0]
    /\ rec = [c \in Calls |-> [l \in Layers |-> "none"]]
    /\ pane = <<>>
    /\ ended = {}

Goto(c, p) == pc' = [pc EXCEPT ![c] = p]

\* Mutant: a waiter that was cancelled or granted the lock stays queued.
StayQueued(c) == ahead' = ahead

\* c does not wait for the lock any more.
Leave(c) == ahead' = [d \in Calls |-> ahead[d] \ {c}]

\* The lock is taken: the first statements of operation() or disconnect().
Admit(c, k) ==
    /\ holder' = c
    /\ state' = IF k = "disconnect" THEN "closing" ELSE "busy"
    /\ Goto(c, IF k = "disconnect" THEN "killing" ELSE "begin")

\* Mutant: a state name that the ConnectionState literal does not have.
ReleaseMisspelt(c, recovered) ==
    /\ holder' = NoCall
    /\ state' = IF recovered THEN "ready" ELSE "failed"
    /\ Goto(c, "done")

\* A pane operation leaves the lock: the finally block of operation() turns
\* "busy" into "ready" unless _record_recovery made it "unresponsive".
Release(c, recovered) ==
    /\ holder' = NoCall
    /\ state' = IF recovered THEN "ready" ELSE "unresponsive"
    /\ Goto(c, "done")

(* Arrival                                                                 *)

\* The dictionary lookup that precedes the lock: get(), or the first lines
\* of disconnect(), which accepts a connection in any state.
Found(k) == registered /\ (k = "disconnect" \/ Usable)

Refuse(c, k) ==
    /\ pc[c] = "idle"
    /\ ~Found(k)
    /\ Goto(c, "done")
    /\ kind' = [kind EXCEPT ![c] = k]
    /\ UNCHANGED <<state, registered, window, holder, ahead, cancels, rec, pane, ended>>

\* asyncio.Lock grants at once only when it is free and nobody waits; no
\* await lies between the lookup and the grant.
Enter(c, k) ==
    /\ pc[c] = "idle"
    /\ Found(k)
    /\ holder = NoCall /\ Waiting = {}
    /\ Admit(c, k)
    /\ kind' = [kind EXCEPT ![c] = k]
    /\ UNCHANGED <<registered, window, ahead, cancels, rec, pane, ended>>

Queue(c, k) ==
    /\ pc[c] = "idle"
    /\ Found(k)
    /\ holder # NoCall \/ Waiting # {}
    /\ Goto(c, "waiting")
    /\ ahead' = [ahead EXCEPT ![c] = Waiting]
    /\ kind' = [kind EXCEPT ![c] = k]
    /\ UNCHANGED <<state, registered, window, holder, cancels, rec, pane, ended>>

\* Mutant: the oldest waiter does not wait for the lock to be released.
GrantedEarly(c) == pc[c] = "waiting" /\ ahead[c] = {}

\* The lock is free and c is its oldest waiter.
Granted(c) == pc[c] = "waiting" /\ ahead[c] = {} /\ holder = NoCall

\* Mutant: operation() trusts the check its caller made before waiting.
StaleCheck(k) == TRUE

\* _ensure_usable inside the lock; disconnect() does not ask.
StillUsable(k) == k = "disconnect" \/ Usable

Acquire(c) ==
    /\ Granted(c)
    /\ StillUsable(kind[c])
    /\ Admit(c, kind[c])
    /\ Leave(c)
    /\ UNCHANGED <<registered, window, kind, cancels, rec, pane, ended>>

\* Mutant: the refusal keeps the lock.
KeepLock(c) == holder' = c

\* "async with" releases the lock when the body raises.
Unlock(c) == holder' = NoCall

AcquireRefused(c) ==
    /\ Granted(c)
    /\ ~StillUsable(kind[c])
    /\ Unlock(c)
    /\ Goto(c, "done")
    /\ Leave(c)
    /\ UNCHANGED <<state, registered, window, kind, cancels, rec, pane, ended>>

(* The body of a pane operation                                            *)

\* paste_text: the command is queued behind whatever the shell still runs.
Submit(c) ==
    /\ pc[c] = "begin"
    /\ window = "open"
    /\ pane' = Append(pane, c)
    /\ Goto(c, "body")
    /\ UNCHANGED <<state, registered, window, holder, ahead, kind, cancels, rec, ended>>

Succeed(c) ==
    /\ pc[c] = "body"
    /\ c \in ended
    /\ Release(c, TRUE)
    /\ UNCHANGED <<registered, window, ahead, kind, cancels, rec, pane, ended>>

StartRecovery(c, l) == rec' = [rec EXCEPT ![c][l] = "first"]

\* A timeout, a tmux failure or a bad result: recover_pane without a shield
\* (run_command and operation); an edit fails so while it reads.
Fail(c) ==
    /\ pc[c] \in {"begin", "body"}
    /\ Goto(c, "recover")
    /\ StartRecovery(c, "outer")
    /\ UNCHANGED <<state, registered, window, holder, ahead, kind, cancels, pane, ended>>

\* write_remote_file settles the receiver itself and reports pane_recovered.
FailWrite(c) ==
    /\ pc[c] \in {"begin", "body"}
    /\ kind[c] = "write"
    /\ Goto(c, "settle")
    /\ StartRecovery(c, "inner")
    /\ UNCHANGED <<state, registered, window, holder, ahead, kind, cancels, pane, ended>>

(* recover_pane                                                            *)

\* What C-c does to the terminal: nothing (SIGINT ignored), the foreground
\* command dies, or the type-ahead is flushed with it.
Interrupted(p) == {p, <<>>} \cup (IF p = <<>> THEN {} ELSE {Tail(p)})

NextStep(s) == IF s = "first" THEN "second" ELSE "probe"

Interrupt(c, l) ==
    /\ rec[c][l] \in {"first", "second"}
    /\ window = "open"
    /\ pane' \in Interrupted(pane)
    /\ rec' = [rec EXCEPT ![c][l] = NextStep(rec[c][l])]
    /\ UNCHANGED <<state, registered, window, holder, ahead, pc, kind, cancels, ended>>

\* Mutant: two interrupts count as a recovery, whatever the probe finds.
AssumedRecovered(c, l, ok) == ok => rec[c][l] = "probe"

\* Mutant: recover_pane probes without a deadline, until the probe answers.
NeverGivesUp(c, l, ok) ==
    ok /\ rec[c][l] = "probe" /\ window = "open" /\ pane = <<>>

\* The value recover_pane may return: TRUE only when the probe was executed,
\* which takes a shell with nothing left to run; FALSE at any await.
Outcome(c, l, ok) ==
    ok => rec[c][l] = "probe" /\ window = "open" /\ pane = <<>>

EndRecovery(c, l) == rec' = [rec EXCEPT ![c][l] = "none"]

\* session.py's recovery returns and is recorded, then the lock is released.
RecoverDone(c, ok) ==
    /\ pc[c] \in Recovering
    /\ rec[c]["outer"] # "none"
    /\ Outcome(c, "outer", ok)
    /\ EndRecovery(c, "outer")
    /\ Release(c, ok)
    /\ UNCHANGED <<registered, window, ahead, kind, cancels, pane, ended>>

\* The write's own recovery returns and the write raises with it as
\* details["pane_recovered"]; operation() then does not recover again.
SettleDone(c, ok) ==
    /\ pc[c] = "settle"
    /\ Outcome(c, "inner", ok)
    /\ EndRecovery(c, "inner")
    /\ Release(c, ok)
    /\ UNCHANGED <<registered, window, ahead, kind, cancels, pane, ended>>

\* ... or, after a recovery that succeeded, it first hashes the destination
\* with one more command in the pane.
StartProbe(c) ==
    /\ pc[c] = "settle"
    /\ Outcome(c, "inner", TRUE)
    /\ EndRecovery(c, "inner")
    /\ pane' = Append(pane, c)
    /\ Goto(c, "probing")
    /\ UNCHANGED <<state, registered, window, holder, ahead, kind, cancels, ended>>

\* _probe_destination answers, fails or times out; none is recovered from.
ProbeDone(c) ==
    /\ pc[c] = "probing"
    /\ Release(c, TRUE)
    /\ UNCHANGED <<registered, window, ahead, kind, cancels, rec, pane, ended>>

\* The recovery of a cancelled write is over, its result ignored; the
\* CancelledError reaches operation(), which recovers again.
UnwindDone(c) ==
    /\ pc[c] = "unwind"
    /\ Goto(c, "shield")
    /\ rec' = [rec EXCEPT ![c]["inner"] = "none", ![c]["outer"] = "first"]
    /\ UNCHANGED <<state, registered, window, holder, ahead, kind, cancels, pane, ended>>

\* No task awaits this recovery any more.
Orphan(c, l) ==
    /\ rec[c][l] # "none"
    /\ pc[c] \notin (IF l = "outer" THEN Recovering ELSE InnerRecovering)

OrphanDone(c, l) ==
    /\ Orphan(c, l)
    /\ EndRecovery(c, l)
    /\ UNCHANGED <<state, registered, window, holder, ahead, pc, kind, cancels, pane, ended>>

(* Cancellation                                                            *)

Cancelled(c) ==
    /\ cancels[c] < MaxCancels
    /\ cancels' = [cancels EXCEPT ![c] = @ + 1]

CancelWaiting(c) ==
    /\ pc[c] = "waiting"
    /\ Cancelled(c)
    /\ Goto(c, "done")
    /\ Leave(c)
    /\ UNCHANGED <<state, registered, window, holder, kind, rec, pane, ended>>

\* Mutant: the lock is released before the shielded recovery has finished.
RecoverInBackground(c) ==
    /\ Release(c, TRUE)
    /\ StartRecovery(c, "outer")

\* The recovery of a cancelled command, awaited through asyncio.shield.
RecoverShielded(c) ==
    /\ Goto(c, "shield")
    /\ StartRecovery(c, "outer")
    /\ UNCHANGED <<state, holder>>

\* run, read, and the reading half of an edit.
CancelBody(c) ==
    /\ pc[c] \in {"begin", "body"}
    /\ Cancelled(c)
    /\ RecoverShielded(c)
    /\ UNCHANGED <<registered, window, ahead, kind, pane, ended>>

\* write_remote_file shields a recovery of its own before operation() does;
\* also while it waits for the receiver to exit.
CancelWrite(c) ==
    /\ pc[c] \in {"begin", "body", "settle"}
    /\ kind[c] = "write"
    /\ Cancelled(c)
    /\ Goto(c, "unwind")
    /\ StartRecovery(c, "inner")
    /\ UNCHANGED <<state, registered, window, holder, ahead, kind, pane, ended>>

\* In the handler of a failed write the CancelledError abandons the
\* unshielded recovery, or the probe, and goes straight to operation().
CancelRepair(c) ==
    /\ pc[c] \in {"settle", "probing"}
    /\ Cancelled(c)
    /\ Goto(c, "shield")
    /\ rec' = [rec EXCEPT ![c]["inner"] = "none", ![c]["outer"] = "first"]
    /\ UNCHANGED <<state, registered, window, holder, ahead, kind, pane, ended>>

\* The write's shielded recovery goes on without it.
CancelUnwind(c) ==
    /\ pc[c] = "unwind"
    /\ Cancelled(c)
    /\ Goto(c, "shield")
    /\ StartRecovery(c, "outer")
    /\ UNCHANGED <<state, registered, window, holder, ahead, kind, pane, ended>>

\* An unshielded recovery dies with its call; nothing records a failure.
CancelRecover(c) ==
    /\ pc[c] = "recover"
    /\ Cancelled(c)
    /\ EndRecovery(c, "outer")
    /\ Release(c, TRUE)
    /\ UNCHANGED <<registered, window, ahead, kind, pane, ended>>

\* A shielded recovery survives, but the call no longer waits for it.
CancelShield(c) ==
    /\ pc[c] = "shield"
    /\ Cancelled(c)
    /\ Release(c, TRUE)
    /\ UNCHANGED <<registered, window, ahead, kind, rec, pane, ended>>

\* The first cancellation of disconnect() waits for the kill task ...
CancelKill(c) ==
    /\ pc[c] = "killing"
    /\ Cancelled(c)
    /\ Goto(c, "killing2")
    /\ UNCHANGED <<state, registered, window, holder, ahead, kind, rec, pane, ended>>

(* disconnect                                                              *)

\* tmux destroys the window and the ssh client in it.
Kill ==
    /\ window' = IF window = "open" THEN "killed" ELSE window
    /\ pane' = <<>>

\* tmux did not answer in time: the kill may have happened or not.
MaybeKill == Kill \/ UNCHANGED <<window, pane>>

\* ... and the second cancels the kill task itself.
CancelKillAgain(c) ==
    /\ pc[c] = "killing2"
    /\ Cancelled(c)
    /\ MaybeKill
    /\ holder' = NoCall
    /\ Goto(c, "done")
    /\ UNCHANGED <<state, registered, ahead, kind, rec, ended>>

\* kill_window returns: killed now, or already absent.
KillDone(c) ==
    /\ pc[c] \in Closing
    /\ Kill
    /\ registered' = FALSE
    /\ holder' = NoCall
    /\ Goto(c, "done")
    /\ UNCHANGED <<state, ahead, kind, cancels, rec, ended>>

\* Mutant: a failed kill forgets the connection all the same.
ForgetOnFailure == registered' = FALSE

\* A connection whose window could not be killed stays registered.
KeepOnFailure == registered' = registered

\* kill_window raises TmuxError; after a cancellation nothing handles it.
KillFail(c) ==
    /\ pc[c] \in Closing
    /\ MaybeKill
    /\ KeepOnFailure
    /\ state' = IF pc[c] = "killing" THEN "unresponsive" ELSE state
    /\ holder' = NoCall
    /\ Goto(c, "done")
    /\ UNCHANGED <<ahead, kind, cancels, rec, ended>>

(* The environment                                                         *)

\* The oldest command completes and prints its END and CWD markers.
CommandEnds ==
    /\ pane # <<>>
    /\ ended' = ended \cup {Head(pane)}
    /\ pane' = Tail(pane)
    /\ UNCHANGED <<state, registered, window, holder, ahead, pc, kind, cancels, rec>>

\* The ssh client exits, or the user closes the window.
WindowLost ==
    /\ window = "open"
    /\ window' = "lost"
    /\ pane' = <<>>
    /\ UNCHANGED <<state, registered, holder, ahead, pc, kind, cancels, rec, ended>>

(* The specification                                                       *)

Arrive(c) == \E k \in Kinds : Refuse(c, k) \/ Enter(c, k) \/ Queue(c, k)

\* The steps of recover_pane coroutines, awaited or not.
Recover(c) ==
    \/ \E l \in Layers : Interrupt(c, l) \/ OrphanDone(c, l)
    \/ \E ok \in BOOLEAN : RecoverDone(c, ok) \/ SettleDone(c, ok)
    \/ StartProbe(c) \/ ProbeDone(c) \/ UnwindDone(c)

\* Every await of these is bounded by a timeout of runner.py, tmux.py or
\* files.py, so the steps are fair.
Progress(c) ==
    \/ Acquire(c) \/ AcquireRefused(c)
    \/ Submit(c) \/ Succeed(c) \/ Fail(c) \/ FailWrite(c)
    \/ Recover(c)
    \/ KillDone(c) \/ KillFail(c)

Cancel(c) ==
    \/ CancelWaiting(c) \/ CancelBody(c) \/ CancelWrite(c)
    \/ CancelRepair(c) \/ CancelUnwind(c)
    \/ CancelRecover(c) \/ CancelShield(c)
    \/ CancelKill(c) \/ CancelKillAgain(c)

Next ==
    \/ \E c \in Calls : Arrive(c) \/ Progress(c) \/ Cancel(c)
    \/ CommandEnds
    \/ WindowLost

Fairness == \A c \in Calls : WF_vars(Progress(c))

Spec == Init /\ [][Next]_vars
FairSpec == Spec /\ Fairness

(* Properties                                                              *)

\* The state spaces of the variables; "ready", "busy", "unresponsive" and
\* "closing" are the four values ConnectionState declares.
TypeOK ==
    /\ state \in {"ready", "busy", "unresponsive", "closing"}
    /\ registered \in BOOLEAN
    /\ window \in {"open", "killed", "lost"}
    /\ holder \in Calls \cup {NoCall}
    /\ ahead \in [Calls -> SUBSET Calls]
    /\ pc \in [Calls -> PCs]
    /\ kind \in [Calls -> AllKinds]
    /\ cancels \in [Calls -> 0..MaxCancels]
    /\ rec \in [Calls -> [Layers -> Steps]]
    /\ pane \in Seq(Calls)
    /\ ended \subseteq Calls

\* remote_status tells the truth: the connection is published as "busy"
\* exactly while a call is inside the pane's critical section, and a call
\* inside any critical section is the one that holds the lock.
StatusMatchesLock ==
    /\ state = "busy" <=> \E c \in Calls : pc[c] \in Using
    /\ \A c \in Calls : pc[c] \in Using \cup Closing <=> holder = c

\* A pane recovery runs inside the critical section of its call: only a
\* call that was cancelled twice can leave one behind that goes on typing
\* into the pane after the lock was released.
RecoveryHoldsLock ==
    \A c \in Calls, l \in Layers :
        rec[c][l] # "none" /\ cancels[c] <= 1 => holder = c

\* A connection advertised as "ready" has a shell at its prompt: whatever is
\* still running there was left by a cancelled call or by a write.  (Of a write
\* that is its destination probe: the recovery before it had to find the shell
\* idle.  The pane does not tell the commands of one call apart.)
ReadyMeansIdleShell ==
    state = "ready" =>
        \A i \in 1..Len(pane) : cancels[pane[i]] > 0 \/ kind[pane[i]] = "write"

\* No call types into, or waits for, a window that disconnect() killed or a
\* connection it unregistered, however long the call waited for the lock.
NoUseAfterClose ==
    window = "killed" \/ ~registered => \A c \in Calls : pc[c] \notin Using

\* disconnect() forgets a connection only when its window is gone, so no
\* ssh session is left running that remote_status does not list.
ClosedMeansKilled == ~registered => window # "open"

\* An unresponsive or closing connection is never offered again.
NeverResurrected == [][~Usable => ~Usable']_vars

\* The command of a call that waits for it is removed unfinished only with
\* the window, or by the stray recovery of a call that was cancelled twice:
\* never by another call's recovery, nor by a disconnect of our own.
LiveCommandUndisturbed ==
    [][ \A c \in Calls :
          (pc[c] = "body" /\ pc'[c] = "body"
             /\ (\E i \in 1..Len(pane) : pane[i] = c)
             /\ ~(\E i \in 1..Len(pane') : pane'[i] = c))
          => c \in ended' \/ window' = "lost" \/ (\E d \in Calls : cancels[d] > 1)
      ]_vars

\* Every tool call is answered: nobody waits for the lock forever, whatever
\* fails or is cancelled around it.
Answered == \A c \in Calls : pc[c] # "idle" ~> pc[c] = "done"

(* The lease                                                               *)

\* How an observer who also sees the shell reads the connection's state.
ShellView ==
    CASE ~registered -> "closed"
      [] registered /\ state = "closing" -> "closing"
      [] registered /\ state = "unresponsive" -> "broken"
      [] registered /\ state = "busy" -> "used"
      [] registered /\ state = "ready" -> IF pane = <<>> THEN "clean" ELSE "dirty"

LeaseHolder == IF registered THEN holder ELSE NoCall

\* Only a cancelled call and a failed write leave something behind.
MayLeave == MaxCancels > 0 \/ "write" \in Kinds

Lease == INSTANCE PaneLease WITH
    user <- LeaseHolder, shell <- ShellView, Leftovers <- MayLeave

\* Every step of the connection is a step of the lease: whatever fails or is
\* cancelled, the lock, the states and the recovery of session.py hand the
\* pane to one call at a time, and never again once it is broken or closed.
LeaseKept == Lease!Init /\ [][Lease!Next]_Lease!vars

\* Without cancellations and writes nothing is left behind, and every lease
\* and every close ends as well.
ImplementsLease == Lease!Spec
=============================================================================
