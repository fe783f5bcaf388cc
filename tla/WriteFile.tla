----------------------------- MODULE WriteFile -----------------------------
(***************************************************************************)
(* One call of write_remote_file (files.py) and the receiver it starts in  *)
(* the pane (_write_receiver.py): the payload is typed at the receiver,    *)
(* verified, copied into a file beside the destination and linked or       *)
(* renamed onto it, while other programs change the destination, tmux      *)
(* commands fail, bytes get lost, calls are cancelled and signals arrive.  *)
(*                                                                         *)
(* A file is what it holds; every writer's file is a new inode.  Left out: *)
(* file modes, parent directories, the two base64 layers, and the bytes    *)
(* that tell a delimiter from a payload.                                   *)
(***************************************************************************)
EXTENDS Naturals

CONSTANTS
    Chunks,      \* pieces of the encoded content; the delimiter is one more
    Targets,     \* files that the path may be a symbolic link to
    None,        \* no file, no link, no outcome
    MaxFaults,   \* bound: failed tmux or system calls, lost bytes, kills
    MaxTyped,    \* bound: C-c typed by a person attached to the session
    MaxForeign,  \* bound: changes of the destination by other programs
    MaxCancels   \* bound: cancellations of the call

ASSUME ChunksAssumption == Chunks \in Nat
ASSUME TargetsAssumption == "path" \notin Targets /\ None \notin Targets \cup {"path"}
ASSUME NoneAssumption ==
    None \notin {"old", "theirs", "ours", "garbled", "ok", "failed", "cancelled",
                 "unchanged", "unknown"}
ASSUME BoundsAssumption ==
    MaxFaults \in Nat /\ MaxTyped \in Nat /\ MaxForeign \in Nat /\ MaxCancels \in Nat

VARIABLES
    file,       \* the file at the path and at each link target, or None
    link,       \* where the path points to when it is a link, or None
    pc,         \* where write_remote_file is suspended
    stage,      \* its local variable stage
    ccs,        \* C-c typed by the current recover_pane
    outcome,    \* what the caller got: "ok", "failed", "cancelled", or None
    reported,   \* destination_state of the failure
    recovered,  \* pane_recovered of the failure
    probing,    \* the command of _probe_destination runs in the pane
    sent,       \* pieces typed at the pane
    input,      \* pieces that nobody has read yet
    intact,     \* all pieces reached the terminal as they were sent
    screen,     \* markers the pane shows
    rx,         \* where the receiver is
    got,        \* pieces it has read
    sig,        \* a SIGINT it has not noticed yet
    tty,        \* "sane", or "raw" (no echo, no line editing)
    snap,       \* its destination_snapshot
    started,    \* its replace_started
    error,      \* destination_state that its ERROR marker carries
    code,       \* its exit code
    seen,       \* the path has led to our content at some moment
    landed,     \* some name has
    faults, typed, foreign, cancels

fs == <<file, link, seen, landed>>
client == <<pc, stage, ccs, outcome, reported, recovered, probing, sent>>
terminal == <<input, intact, tty>>
receiver == <<rx, got, snap, started, error, code>>
bounds == <<faults, typed, foreign, cancels>>
vars == <<fs, client, terminal, receiver, screen, sig, bounds>>

Places == {"path"} \cup Targets
Contents == {"old", "theirs", "ours", "garbled"}
NoFile == [kind |-> "missing", is |-> None]

\* What the path leads to.
At(f, l) == IF l = None THEN f["path"] ELSE f[l]

\* The file system becomes f and l.
World(f, l) ==
    /\ file' = f /\ link' = l
    /\ seen' = (seen \/ At(f, l) = "ours")
    /\ landed' = (landed \/ \E p \in Places : f[p] = "ours")

Init ==
    /\ \/ link = None /\ file \in [Places -> {None, "old"}]
       \/ link \in Targets /\ file \in {f \in [Places -> {None, "old"}] : f["path"] = None}
    /\ seen = FALSE /\ landed = FALSE
    /\ pc = "prepare" /\ stage = "prepare" /\ ccs = 0
    /\ outcome = None /\ reported = None /\ recovered = FALSE /\ probing = FALSE
    /\ sent = 0 /\ input = 0 /\ intact = TRUE /\ tty = "sane"
    /\ screen = {}
    /\ rx = "none" /\ got = 0 /\ sig = FALSE
    /\ snap = NoFile /\ started = FALSE /\ error = None /\ code = 0
    /\ faults = 0 /\ typed = 0 /\ foreign = 0 /\ cancels = 0

Fault == faults < MaxFaults /\ faults' = faults + 1 /\ UNCHANGED <<typed, foreign, cancels>>

(* The receiver: main, run, receive_payload, verify_payload                *)

Gone == rx \in {"none", "gone"}

Step(at, next) == rx = at /\ ~sig /\ rx' = next

\* mkstemp and tcsetattr; READY.
Open ==
    /\ Step("boot", "receiving")
    /\ tty' = "raw"
    /\ screen' = screen \cup {"READY"}
    /\ UNCHANGED <<fs, client, input, intact, got, snap, started, error, code, sig, bounds>>

\* os.read returns what is there; the delimiter ends the loop.
Read ==
    /\ input > 0
    /\ Step("receiving", IF got + input > Chunks THEN "restore" ELSE "receiving")
    /\ got' = got + input
    /\ input' = 0
    /\ UNCHANGED <<fs, client, intact, tty, snap, started, error, code, screen, sig, bounds>>

\* The "finally" of receive_payload: tcflush and tcsetattr.
Restore ==
    /\ Step("restore", IF error = None THEN "verify" ELSE "failing")
    /\ tty' = "sane"
    /\ input' = 0
    /\ UNCHANGED <<fs, client, intact, got, snap, started, error, code, screen, sig, bounds>>

\* Mutant: the length is compared, the hash is not.
SameLength == TRUE

Verified == intact

Verify ==
    /\ Step("verify", IF Verified THEN "snapshot" ELSE "failing")
    /\ error' = IF Verified THEN error ELSE "unchanged"
    /\ UNCHANGED <<fs, client, terminal, got, snap, started, code, screen, sig, bounds>>

(* The receiver: commit_payload                                            *)

\* destination_snapshot: lstat and, for a link, readlink.
Entry ==
    IF link # None THEN [kind |-> "symlink", is |-> link]
    ELSE IF file["path"] = None THEN NoFile
    ELSE [kind |-> "entry", is |-> file["path"]]

Snapshot ==
    /\ Step("snapshot", "fill")
    /\ snap' = Entry
    /\ UNCHANGED <<fs, client, terminal, got, started, error, code, screen, sig, bounds>>

Destination == IF snap.kind = "symlink" THEN snap.is ELSE "path"

Payload == IF intact THEN "ours" ELSE "garbled"

\* The content is copied into a temporary file and synced.
Fill ==
    /\ Step("fill", "check")
    /\ UNCHANGED <<fs, client, terminal, got, snap, started, error, code, screen, sig, bounds>>

\* Mutant: the second destination_matches finds what the first one found.
MatchesOnce == Entry = snap \/ rx = "recheck"

\* destination_matches
Matches == Entry = snap

\* An exception in commit_payload, and the handler in run.
Abort ==
    /\ rx' = "failing"
    /\ error' = IF started THEN "unknown" ELSE "unchanged"

Check ==
    /\ rx = "check" /\ ~sig
    /\ IF Matches THEN rx' = "swap" /\ UNCHANGED error ELSE Abort
    /\ UNCHANGED <<fs, client, terminal, got, snap, started, code, screen, sig, bounds>>

\* Mutant: a file that was missing is created by os.replace.
AlwaysReplace == FALSE

MustCreate == snap.kind = "missing"

\* os.link: fails when the path exists by now.
Link ==
    /\ rx = "swap" /\ ~sig /\ MustCreate
    /\ IF Entry = NoFile
       THEN /\ World([file EXCEPT !["path"] = Payload], link)
            /\ rx' = "linked"
            /\ UNCHANGED error
       ELSE Abort /\ UNCHANGED fs
    /\ UNCHANGED <<client, terminal, got, snap, started, code, screen, sig, bounds>>

\* "self.replace_started = True", after os.link but before os.replace.
MarkStarted ==
    /\ \/ Step("linked", "unlink")
       \/ Step("swap", "rename") /\ ~MustCreate
    /\ started' = TRUE
    /\ UNCHANGED <<fs, client, terminal, got, snap, error, code, screen, sig, bounds>>

Unlink ==
    /\ Step("unlink", "recheck")
    /\ UNCHANGED <<fs, client, terminal, got, snap, started, error, code, screen, sig, bounds>>

\* os.replace: replaces a link that the path has become.
Rename ==
    /\ Step("rename", "recheck")
    /\ World([file EXCEPT ![Destination] = Payload],
             IF Destination = "path" THEN None ELSE link)
    /\ UNCHANGED <<client, terminal, got, snap, started, error, code, screen, sig, bounds>>

Recheck ==
    /\ rx = "recheck" /\ ~sig
    /\ IF snap.kind # "symlink" \/ Matches THEN rx' = "done" /\ UNCHANGED error ELSE Abort
    /\ UNCHANGED <<fs, client, terminal, got, snap, started, code, screen, sig, bounds>>

(* The receiver: results, errors, signals                                  *)

Leaves(marker, c) == rx' = "exit" /\ screen' = screen \cup marker /\ code' = c

Done ==
    /\ rx = "done" /\ ~sig
    /\ Leaves({"DONE"}, 0)
    /\ UNCHANGED <<fs, client, terminal, got, snap, started, error, sig, bounds>>

Fail ==
    /\ rx = "failing" /\ ~sig
    /\ Leaves({"ERROR"}, 1)
    /\ UNCHANGED <<fs, client, terminal, got, snap, started, error, sig, bounds>>

\* The shell prints EXIT and its prompt.
Exit ==
    /\ Step("exit", "gone")
    /\ screen' = screen \cup {"EXIT"}
    /\ UNCHANGED <<fs, client, terminal, got, snap, started, error, code, sig, bounds>>

\* receive_payload fails: the disk is full, the terminal's input ends, or
\* something follows the delimiter.  The client goes on pasting.  If close
\* fails as well (it writes what is buffered), its "finally" ends there and
\* the terminal stays raw.
ReceiveFails ==
    /\ rx = "receiving" /\ ~sig /\ Fault
    /\ rx' \in {"restore", "failing"}
    /\ error' = "unchanged"
    /\ UNCHANGED <<fs, client, terminal, got, snap, started, code, screen, sig>>

\* Another system call fails: mkstemp, close, tcsetattr, open, fsync, link,
\* rename, unlink.
OsError ==
    /\ \/ rx \in {"boot", "restore", "verify", "snapshot", "fill", "unlink", "rename"}
       \/ rx = "swap" /\ MustCreate
    /\ ~sig /\ Fault
    /\ Abort
    /\ UNCHANGED <<fs, client, terminal, got, snap, started, code, screen, sig>>

\* KeyboardInterrupt: handled like any exception; in a handler, or where
\* there is none, the receiver dies without a marker.
Interrupted ==
    /\ sig /\ sig' = FALSE
    /\ \/ /\ rx = "receiving"
          /\ rx' = "restore" /\ error' = "unchanged"
          /\ UNCHANGED code
       \/ /\ rx \in {"boot", "restore", "verify", "snapshot", "fill", "check", "swap",
                     "linked", "unlink", "rename", "recheck"}
          /\ Abort
          /\ UNCHANGED code
       \/ /\ rx \in {"boot", "failing", "done"}
          /\ rx' = "exit" /\ code' = 1
          /\ UNCHANGED error
       \/ /\ rx = "exit"
          /\ rx' = "gone"
          /\ UNCHANGED <<error, code>>
    /\ UNCHANGED <<fs, client, terminal, got, snap, started, screen, bounds>>

Killed ==
    /\ rx \notin {"none", "exit", "gone"}
    /\ Fault
    /\ rx' = "exit" /\ code' = 1
    /\ sig' = FALSE
    /\ UNCHANGED <<fs, client, terminal, got, snap, started, error, screen>>

(* write_remote_file                                                       *)

ClientUnchanged == UNCHANGED <<outcome, reported, recovered, probing>>

Goto(p) == pc' = p /\ ClientUnchanged

Answer(o, state, ok) ==
    /\ pc' = "end" /\ outcome' = o /\ reported' = state /\ recovered' = ok

End(o, state, ok) == Answer(o, state, ok) /\ UNCHANGED probing

\* "except Exception": recover the pane, then look at the destination.
Raise == Goto("repair") /\ ccs' = 0

\* The announcement and the receiver's command line.
Submit ==
    /\ pc = "prepare"
    /\ rx' = "boot"
    /\ stage' = "startup" /\ Goto("startup")
    /\ UNCHANGED <<fs, ccs, sent, terminal, got, snap, started, error, code, screen, sig,
                   bounds>>

SubmitFails ==
    /\ pc = "prepare" /\ Fault
    /\ rx' \in {"none", "boot"}
    /\ Raise
    /\ UNCHANGED <<fs, stage, sent, terminal, got, snap, started, error, code, screen, sig>>

\* _wait_for_receiver sees an ERROR marker, whatever else the pane shows.
Settle ==
    /\ pc \in {"startup", "finish"}
    /\ "ERROR" \in screen
    /\ Goto("settle") /\ ccs' = 0
    /\ UNCHANGED <<fs, stage, sent, terminal, receiver, screen, sig, bounds>>

Ready ==
    /\ pc = "startup"
    /\ "READY" \in screen /\ "ERROR" \notin screen
    /\ stage' = "transfer" /\ Goto("transfer")
    /\ UNCHANGED <<fs, ccs, sent, terminal, receiver, screen, sig, bounds>>

\* paste_bytes: the next chunk or the delimiter; bytes may get lost.
Paste ==
    /\ pc = "transfer" /\ sent <= Chunks
    /\ sent' = sent + 1
    /\ \/ input' = input + 1 /\ UNCHANGED <<intact, bounds>>
       \/ input' \in {input, input + 1} /\ intact' = FALSE /\ Fault
    /\ IF sent = Chunks THEN stage' = "finish" /\ Goto("finish")
                        ELSE UNCHANGED stage /\ Goto("transfer")
    /\ UNCHANGED <<fs, ccs, tty, receiver, screen, sig>>

PasteFails ==
    /\ pc = "transfer" /\ Fault
    /\ input' \in {input, input + 1}
    /\ Raise
    /\ UNCHANGED <<fs, stage, sent, intact, tty, receiver, screen, sig>>

\* Mutant: the answer to the caller does not wait for EXIT.
ReturnAtDone == End("ok", None, FALSE)

AwaitExit == Goto("exit")

Acknowledged ==
    /\ pc = "finish"
    /\ "DONE" \in screen /\ "ERROR" \notin screen
    /\ AwaitExit
    /\ UNCHANGED <<fs, stage, ccs, sent, terminal, receiver, screen, sig, bounds>>

Return ==
    /\ pc = "exit" /\ "EXIT" \in screen /\ code = 0
    /\ End("ok", None, FALSE)
    /\ UNCHANGED <<fs, stage, ccs, sent, terminal, receiver, screen, sig, bounds>>

\* Mutant: the markers are awaited without a deadline.
NoDeadline == pc \in {"startup", "finish", "exit"} /\ "EXIT" \in screen

Awaits == pc \in {"startup", "finish", "exit"}

\* EXIT without a result, a non-zero exit code, a timeout, or a failing
\* capture-pane.
GiveUp ==
    /\ Awaits
    /\ Raise
    /\ UNCHANGED <<fs, stage, sent, terminal, receiver, screen, sig, bounds>>

(* recover_pane and what follows it                                        *)

\* C-c drops what is typed ahead and interrupts the receiver if there is one.
ControlC == input' = 0 /\ sig' = ~Gone

TypeControlC ==
    /\ pc \in {"settle", "repair", "unwind"} /\ ccs < 2
    /\ ccs' = ccs + 1
    /\ ControlC
    /\ Goto(pc)
    /\ UNCHANGED <<fs, stage, sent, intact, tty, receiver, screen, bounds>>

\* Mutant: the failure's stage is reported as the destination's state.
StageAsState == stage

\* Mutant: stages before "finish" are taken to leave the file alone.
ByStageEarly == IF stage = "finish" THEN "unknown" ELSE "unchanged"

ByStage == IF stage \in {"prepare", "startup"} THEN "unchanged" ELSE "unknown"

\* What the caller of recover_pane does with its answer.
After(ok) ==
    CASE pc = "settle" -> End("failed", error, ok)
      [] pc = "repair" -> IF ok THEN Goto("probe") ELSE End("failed", ByStage, FALSE)
      [] pc = "unwind" -> End("cancelled", None, FALSE)

\* "stty sane" was executed.
Recover ==
    /\ pc \in {"settle", "repair", "unwind"} /\ ccs = 2
    /\ Gone
    /\ tty' = "sane"
    /\ After(TRUE)
    /\ UNCHANGED <<fs, stage, ccs, sent, input, intact, receiver, screen, sig, bounds>>

RecoveryFails ==
    /\ pc \in {"settle", "repair", "unwind"}
    /\ After(FALSE)
    /\ UNCHANGED <<fs, stage, ccs, sent, terminal, receiver, screen, sig, bounds>>

\* Mutant: a file of the right length will do.
SizeOnly == At(file, link) # None

Confirmed == At(file, link) = "ours"

\* _probe_destination hashes what the path leads to.  When it is not available
\* its command has failed, or timed out, and then nobody stops it.
Probe ==
    /\ pc = "probe"
    /\ \/ Confirmed /\ End("ok", None, TRUE)
       \/ Answer("failed", ByStage, TRUE) /\ probing' \in BOOLEAN
    /\ UNCHANGED <<fs, stage, ccs, sent, terminal, receiver, screen, sig, bounds>>

\* A probe that nobody waits for any more ends by itself.
ProbeEnds ==
    /\ probing /\ probing' = FALSE
    /\ UNCHANGED <<fs, pc, stage, ccs, outcome, reported, recovered, sent, terminal, receiver,
                   screen, sig, bounds>>

\* The paste that is under way may have reached the pane.  A cancelled
\* handler does not go on.
Cancel ==
    /\ cancels < MaxCancels /\ cancels' = cancels + 1
    /\ rx' \in {rx} \cup (IF pc = "prepare" THEN {"boot"} ELSE {})
    /\ input' \in {input} \cup (IF pc = "transfer" THEN {input + 1} ELSE {})
    /\ \/ /\ pc \in {"prepare", "startup", "transfer", "finish", "exit", "settle"}
          /\ Goto("unwind") /\ ccs' = 0
       \/ /\ pc \in {"repair", "probe", "unwind"}
          /\ Answer("cancelled", None, FALSE)
          /\ probing' \in (IF pc = "probe" THEN BOOLEAN ELSE {probing})
          /\ UNCHANGED ccs
    /\ UNCHANGED <<fs, stage, sent, intact, tty, got, snap, started, error, code, screen,
                   sig, faults, typed, foreign>>

(* Other actors                                                            *)

UserTypesControlC ==
    /\ typed < MaxTyped /\ typed' = typed + 1
    /\ ControlC
    /\ UNCHANGED <<fs, client, intact, tty, receiver, screen, faults, foreign, cancels>>

\* Another program renames a file or a link onto a name, or removes one.
ForeignChange ==
    /\ foreign < MaxForeign /\ foreign' = foreign + 1
    /\ \/ \E p \in Places, c \in {None, "theirs"} :
            World([file EXCEPT ![p] = c], IF p = "path" THEN None ELSE link)
       \/ \E t \in Targets : World([file EXCEPT !["path"] = None], t)
    /\ UNCHANGED <<client, terminal, receiver, screen, sig, faults, typed, cancels>>

(* The specification                                                       *)

ReceiverStep ==
    \/ Open \/ Read \/ Restore \/ Verify
    \/ Snapshot \/ Fill \/ Check \/ Link \/ MarkStarted \/ Unlink \/ Rename \/ Recheck
    \/ Done \/ Fail \/ Exit \/ ReceiveFails \/ OsError \/ Interrupted \/ Killed

ClientStep ==
    \/ Submit \/ Settle \/ Ready \/ Paste
    \/ Acknowledged \/ Return \/ GiveUp
    \/ TypeControlC \/ Recover \/ RecoveryFails \/ Probe

Next ==
    \/ ReceiverStep \/ ClientStep \/ SubmitFails \/ PasteFails \/ Cancel
    \/ ProbeEnds \/ UserTypesControlC \/ ForeignChange

Spec == Init /\ [][Next]_vars

\* Every wait of write_remote_file and recover_pane has a timeout.
FairSpec == Spec /\ WF_vars(ClientStep)

(* Properties                                                              *)

FilesOK ==
    /\ file \in [Places -> Contents \cup {None}] /\ link \in Targets \cup {None}
    /\ seen \in BOOLEAN /\ landed \in BOOLEAN

ClientOK ==
    /\ pc \in {"prepare", "startup", "transfer", "finish", "exit", "settle", "repair",
               "probe", "unwind", "end"}
    /\ stage \in {"prepare", "startup", "transfer", "finish"}
    /\ ccs \in 0..2
    /\ outcome \in {"ok", "failed", "cancelled", None}
    /\ reported \in {"unchanged", "unknown", None}
    /\ recovered \in BOOLEAN /\ probing \in BOOLEAN

TerminalOK ==
    /\ sent \in 0..Chunks + 1 /\ input \in 0..Chunks + 1 /\ got \in 0..Chunks + 1
    /\ intact \in BOOLEAN /\ sig \in BOOLEAN /\ tty \in {"sane", "raw"}

ReceiverOK ==
    /\ screen \subseteq {"READY", "ERROR", "DONE", "EXIT"}
    /\ rx \in {"none", "boot", "receiving", "restore", "verify", "snapshot", "fill",
               "check", "swap", "linked", "unlink", "rename", "recheck", "done",
               "failing", "exit", "gone"}
    /\ snap \in [kind : {"missing", "entry", "symlink"}, is : Contents \cup Places \cup {None}]
    /\ started \in BOOLEAN /\ code \in {0, 1}
    /\ error \in {"unchanged", "unknown", None}

BoundsOK ==
    /\ faults \in 0..MaxFaults /\ typed \in 0..MaxTyped
    /\ foreign \in 0..MaxForeign /\ cancels \in 0..MaxCancels

TypeOK == FilesOK /\ ClientOK /\ TerminalOK /\ ReceiverOK /\ BoundsOK

\* Whatever fails or interrupts the write, no name ever leads to a payload
\* that lost bytes on its way.
NeverTorn == \A p \in Places : file[p] # "garbled"

\* remote_write says ok only if the path has led to the new content at some
\* moment of the call: not when a link was retargeted under the rename, not
\* when the acknowledgement was lost and someone else's file is there.  It
\* takes three changes by others, each in its place, to deceive it: the link
\* turned away before the rename, the new file gone behind it, and the link
\* put back before it is compared again.
SuccessMeansWritten ==
    outcome = "ok" => landed /\ (seen \/ (snap.kind = "symlink" /\ foreign > 2))

\* A failure that reports destination_state "unchanged" is right, and stays
\* right while the receiver lives on; unless a person interrupts the
\* receiver, which can then be wrong about itself.
UnchangedMeansUnchanged ==
    reported = "unchanged" /\ typed = 0 => \A p \in Places : file[p] # "ours"

\* A write that found no file never overwrites one that appeared meanwhile.
CreationKept ==
    [][rx' # rx /\ snap.kind = "missing" =>
           \A p \in Places : file[p] # None => file'[p] = file[p]]_vars

\* When the call returns ok, or says that the pane recovered, the receiver is
\* gone and the shell has a sane terminal and none of the payload on its line.
\* It is at its prompt, too, unless the write failed and the probe of the
\* destination that followed the recovery did not end, or was cancelled: that
\* command still runs, whatever the caller is told.
CleanPaneAtEnd ==
    /\ outcome = "ok" \/ recovered => Gone /\ tty = "sane" /\ input = 0
    /\ probing => outcome \in {"failed", "cancelled"} /\ Gone

Abstract == INSTANCE AtomicWrite

\* All of it together: the file system and the answer change as if the write
\* were one indivisible step.
ImplementsAtomicWrite == Abstract!Spec

\* Every remote_write is answered.
WriteEnds == <>(pc = "end")
=============================================================================
