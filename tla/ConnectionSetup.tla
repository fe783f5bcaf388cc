-------------------------- MODULE ConnectionSetup --------------------------
(***************************************************************************)
(* SessionManager.connect (session.py): concurrent remote_connect calls    *)
(* create tmux sessions and windows under _connect_lock, log in without    *)
(* it, and clean up after themselves, while disconnects kill windows       *)
(* without that lock.  The tmux server is external: a session lives as     *)
(* long as it has a window, a command whose client is killed may have been *)
(* executed all the same, and a kill may fail.                             *)
(*                                                                         *)
(* Left out: the preflight (it touches none of this state), the project    *)
(* directory and pwd commands (their timeouts are ignored, their errors    *)
(* fail the login step), and what the login prints.                        *)
(***************************************************************************)
EXTENDS Naturals

CONSTANTS
    Connects,    \* calls of remote_connect
    Host,        \* Host[c]: the host that c asks for
    Renamed,     \* hosts whose session name tmux does not keep as given
    NoOne,       \* nobody holds _connect_lock, or no session
    MaxFaults,   \* bound: tmux commands that fail or whose reply is lost
    MaxCancels   \* bound: cancellations of one connect call

ASSUME HostAssumption == DOMAIN Host = Connects
ASSUME NoOneAssumption == NoOne \notin Connects
ASSUME BoundsAssumption == MaxFaults \in Nat /\ MaxCancels \in Nat

\* A session is named by the connect that created it, a window by the
\* connect and its purpose: the ssh client, or new-session's placeholder.
Ssh(c) == <<"ssh", c>>
Boot(c) == <<"bootstrap", c>>
Windows == {"ssh", "bootstrap"} \X Connects
Owner(w) == w[2]

VARIABLES
    place,       \* the session of every live window: place[w], or NoOne
    number,      \* the id tmux gave each window, "@0", "@1", ...
    next,        \* the id of the tmux server's next window
    history,     \* sessions whose history-limit was raised
    proper,      \* windows created in a session of their host, after that
    lock,        \* the holder of _connect_lock, or NoOne
    pc,          \* where each connect call is suspended
    target,      \* the session id that _session_target or _new_session returned
    known,       \* windows whose id the creating connect learnt
    doomed,      \* windows whose kill goes on in the background
    missed,      \* windows that a kill was sent to and did not reach
    registered,  \* connects whose connection is in _connections
    faults,      \* faults so far
    cancels      \* cancellations so far, by connect

tmux == <<place, number, next>>
vars == <<tmux, history, proper, lock, pc, target, known, doomed, missed, registered,
          faults, cancels>>

\* Suspension points inside "async with self._connect_lock": list-sessions,
\* new-session, set-option, new-window, the kill of the placeholder, and the
\* two kills of _new_session's error path.
Locked == {"lookup", "create", "configure", "newwin", "drop", "undo_ssh", "undo_boot"}
PCs == {"idle", "waiting", "login", "cleanup", "up", "failed", "closed"} \cup Locked

Live == {w \in Windows : place[w] # NoOne}
Alive(s) == \E w \in Live : place[w] = s

\* list-sessions and new-session see the name tmux stored.
SameName(s, c) == Host[s] = Host[c]

Init ==
    /\ place = [w \in Windows |-> NoOne]
    /\ number = [w \in Windows |-> 0] /\ next = 0
    /\ history = {} /\ proper = {}
    /\ lock = NoOne
    /\ pc = [c \in Connects |-> "idle"]
    /\ target = [c \in Connects |-> NoOne]
    /\ known = {} /\ doomed = {} /\ missed = {} /\ registered = {}
    /\ faults = 0
    /\ cancels = [c \in Connects |-> 0]

Goto(c, p) == pc' = [pc EXCEPT ![c] = p]

\* Mutant: a release without "async with" that the error path forgets.
KeepOnError(c, p) ==
    lock' = (IF p = "failed" THEN lock ELSE NoOne) /\ Goto(c, p)

\* "async with" ends: successfully, or because its body raised.
Unlock(c, p) == lock' = NoOne /\ Goto(c, p)

Fault == faults < MaxFaults /\ faults' = faults + 1

Cancelled(c) ==
    /\ cancels[c] < MaxCancels
    /\ cancels' = [cancels EXCEPT ![c] = @ + 1]

Start(c) ==
    /\ pc[c] = "idle"
    /\ Goto(c, "waiting")
    /\ UNCHANGED <<tmux, history, proper, lock, target, known, doomed, missed, registered,
                   faults, cancels>>

\* Mutant: sessions and windows are created without the lock.
Unserialized == TRUE

LockIsFree == lock = NoOne

Acquire(c) ==
    /\ pc[c] = "waiting"
    /\ LockIsFree
    /\ lock' = c
    /\ Goto(c, "lookup")
    /\ UNCHANGED <<tmux, history, proper, target, known, doomed, missed, registered,
                   faults, cancels>>

(* tmux commands under the lock                                            *)

\* _session_target: compares whole names, so it does not find a session
\* that tmux renamed.
Lookup(c) ==
    /\ pc[c] = "lookup"
    /\ \/ \E s \in Connects :
            /\ Alive(s) /\ SameName(s, c) /\ Host[c] \notin Renamed
            /\ target' = [target EXCEPT ![c] = s]
            /\ Goto(c, "configure")
       \/ /\ \A s \in Connects :
                Alive(s) /\ SameName(s, c) => Host[c] \in Renamed
          /\ Goto(c, "create")
          /\ UNCHANGED target
    /\ UNCHANGED <<tmux, history, proper, lock, known, doomed, missed, registered, faults,
                   cancels>>

\* A live session has the name that c asks new-session for.
Duplicate(c) == \E s \in Connects : Alive(s) /\ SameName(s, c)

\* tmux opens w in session s and counts on.
Open(w, s) ==
    /\ place' = [place EXCEPT ![w] = s]
    /\ number' = [number EXCEPT ![w] = next]
    /\ next' = next + 1

\* new-session creates the session with its placeholder window, or tmux
\* refuses: "duplicate session".
Create(c) ==
    /\ pc[c] = "create"
    /\ IF Duplicate(c)
       THEN Unlock(c, "failed") /\ UNCHANGED <<tmux, known, target>>
       ELSE /\ Open(Boot(c), c)
            /\ known' = known \cup {Boot(c)}
            /\ target' = [target EXCEPT ![c] = c]
            /\ Goto(c, "configure")
            /\ UNCHANGED lock
    /\ UNCHANGED <<history, proper, doomed, missed, registered, faults, cancels>>

\* Mutant: the target is the session's name, and tmux takes the name of a
\* longer host when there is no exact match.
ResolveByName(c) == {s \in Connects : Alive(s) /\ (Alive(target[c]) => s = target[c])}

\* The target is a session id: tmux finds that very session, or none.
Resolve(c) == {s \in Connects : Alive(s) /\ s = target[c]}

\* set-option history-limit.
RaiseHistory(c, s) == history' = history \cup {s}

Configure(c) ==
    /\ pc[c] = "configure"
    /\ \E s \in Resolve(c) : RaiseHistory(c, s)
    /\ Goto(c, "newwin")
    /\ UNCHANGED <<tmux, proper, lock, target, known, doomed, missed, registered, faults,
                   cancels>>

\* A window whose session is its host's and keeps its history.
Settled(c, s) ==
    IF SameName(s, c) /\ s \in history THEN proper \cup {Ssh(c)} ELSE proper

\* new-window in the session that was there: connect leaves the lock; in the
\* session it has just created, the placeholder goes first.
NewWindow(c) ==
    /\ pc[c] = "newwin"
    /\ \E s \in Resolve(c) : Open(Ssh(c), s) /\ proper' = Settled(c, s)
    /\ known' = known \cup {Ssh(c)}
    /\ IF target[c] = c THEN Goto(c, "drop") /\ UNCHANGED lock
                        ELSE Unlock(c, "login")
    /\ UNCHANGED <<history, target, doomed, missed, registered, faults, cancels>>

\* Mutant: new-session's placeholder is not undone.
NoUndo(c) == Unlock(c, "failed")

\* _new_session raises: it kills the ssh window if there is one, then the
\* placeholder.  A connect to an existing session has nothing to undo.
Raise(c) ==
    IF target[c] = c THEN Goto(c, "undo_boot") /\ UNCHANGED lock
                     ELSE Unlock(c, "failed")

\* The session is gone: its last window was closed meanwhile.
SessionVanished(c) ==
    /\ pc[c] \in {"configure", "newwin"}
    /\ Resolve(c) = {}
    /\ Raise(c)
    /\ UNCHANGED <<tmux, history, proper, target, known, doomed, missed, registered, faults,
                   cancels>>

\* A command that opens a window, although nobody gets its reply.
Unseen(c) ==
    \/ pc[c] = "create" /\ ~Duplicate(c) /\ Open(Boot(c), c)
    \/ pc[c] = "newwin" /\ \E s \in Resolve(c) : Open(Ssh(c), s)

\* A tmux command times out or is cancelled; list-sessions and new-session
\* leave nothing that connect knows of.
Interrupted(c) ==
    /\ pc[c] \in {"lookup", "create", "configure", "newwin"}
    /\ Unseen(c) \/ UNCHANGED tmux
    /\ history' \in {history} \cup
           {history \cup {s} : s \in {t \in Resolve(c) : pc[c] = "configure"}}
    /\ IF pc[c] \in {"lookup", "create"} THEN Unlock(c, "failed") ELSE Raise(c)
    /\ UNCHANGED <<proper, target, known, doomed, missed, registered>>

CommandFails(c) == Interrupted(c) /\ Fault /\ UNCHANGED cancels
CancelCommand(c) == Interrupted(c) /\ Cancelled(c) /\ UNCHANGED faults

(* Killing windows                                                         *)

\* Mutant: the window is unlinked and belongs to a session without a name.
Unlinked(w) == place' = [place EXCEPT ![w] = ""] /\ UNCHANGED <<number, next>>

\* The window that tmux knows by the id of w: w, if it is alive, or one that
\* a later server gave the same number, or none.
Named(w) == {v \in Live : number[v] = number[w]}

Killed(w) ==
    /\ place' = [v \in Windows |-> IF v \in Named(w) THEN NoOne ELSE place[v]]
    /\ UNCHANGED <<number, next>>

\* _cleanup_window: kills the window or swallows the failure to.
Cleanup(w) ==
    \/ Killed(w) /\ UNCHANGED <<missed, faults>>
    \/ Fault /\ missed' = missed \cup {w} /\ UNCHANGED tmux

\* The window that a connect is killing at each of its suspension points.
Victim(c) == IF pc[c] \in {"drop", "undo_boot"} THEN Boot(c) ELSE Ssh(c)

\* What follows the kill.
AfterKill(c) ==
    CASE pc[c] = "drop" -> Unlock(c, "login")
      [] pc[c] = "undo_ssh" -> Goto(c, "undo_boot") /\ UNCHANGED lock
      [] pc[c] = "undo_boot" -> Unlock(c, "failed")
      [] pc[c] = "cleanup" -> Goto(c, "failed") /\ UNCHANGED lock

KillWindow(c) ==
    /\ pc[c] \in {"drop", "undo_ssh", "undo_boot", "cleanup"}
    /\ Cleanup(Victim(c))
    /\ AfterKill(c)
    /\ UNCHANGED <<history, proper, target, known, doomed, registered, cancels>>

\* The unshielded kill of the placeholder is cancelled; both windows go.
CancelDrop(c) ==
    /\ pc[c] = "drop"
    /\ Cancelled(c)
    /\ Killed(Boot(c)) \/ UNCHANGED tmux
    /\ Goto(c, "undo_ssh")
    /\ UNCHANGED <<history, proper, lock, target, known, doomed, missed, registered, faults>>

\* A cancelled error path leaves its shielded kill to the background and
\* does not come to the next one.
CancelUndo(c) ==
    /\ pc[c] \in {"undo_ssh", "undo_boot", "cleanup"}
    /\ Cancelled(c)
    /\ doomed' = doomed \cup {Victim(c)}
    /\ IF pc[c] = "cleanup" THEN Goto(c, "failed") /\ UNCHANGED lock
                            ELSE Unlock(c, "failed")
    /\ UNCHANGED <<tmux, history, proper, target, known, missed, registered, faults>>

BackgroundKill(w) ==
    /\ w \in doomed
    /\ doomed' = doomed \ {w}
    /\ Cleanup(w)
    /\ UNCHANGED <<history, proper, lock, pc, target, known, registered, cancels>>

(* Login, registration, disconnect                                         *)

Register(c) ==
    /\ pc[c] = "login"
    /\ registered' = registered \cup {c}
    /\ Goto(c, "up")
    /\ UNCHANGED <<tmux, history, proper, lock, target, known, doomed, missed, faults,
                   cancels>>

\* "except BaseException": the shielded _cleanup_window comes first.
WithCleanup(c) == Goto(c, "cleanup")

\* _wait_for_shell or a command in the pane raises.
LoginFails(c) ==
    /\ pc[c] = "login"
    /\ WithCleanup(c)
    /\ UNCHANGED <<tmux, history, proper, lock, target, known, doomed, missed, registered,
                   faults, cancels>>

CancelLogin(c) ==
    /\ pc[c] = "login"
    /\ Cancelled(c)
    /\ WithCleanup(c)
    /\ UNCHANGED <<tmux, history, proper, lock, target, known, doomed, missed, registered,
                   faults>>

CancelWaiting(c) ==
    /\ pc[c] = "waiting"
    /\ Cancelled(c)
    /\ Goto(c, "failed")
    /\ UNCHANGED <<tmux, history, proper, lock, target, known, doomed, missed, registered,
                   faults>>

\* disconnect() kills the window, under the connection's own lock only.
Disconnect(c) ==
    /\ pc[c] = "up"
    /\ Killed(Ssh(c))
    /\ registered' = registered \ {c}
    /\ Goto(c, "closed")
    /\ UNCHANGED <<history, proper, lock, target, known, doomed, missed, faults, cancels>>

\* The ssh client exits and takes its window along.
ClientExits(c) ==
    /\ place[Ssh(c)] # NoOne
    /\ place' = [place EXCEPT ![Ssh(c)] = NoOne]
    /\ UNCHANGED <<number, next, history, proper, lock, pc, target, known, doomed, missed,
                   registered, faults, cancels>>

\* The tmux server exits with its last window, and the next one numbers its
\* windows from zero.  (The sessions are numbered afresh too, but whoever
\* holds the id of one has the lock.)
ServerExits ==
    /\ Live = {} /\ next # 0
    /\ next' = 0
    /\ UNCHANGED <<place, number, history, proper, lock, pc, target, known, doomed, missed,
                   registered, faults, cancels>>

(* The specification                                                       *)

\* Every step of a connect is bounded by a tmux or a login timeout.
Progress(c) ==
    \/ Acquire(c) \/ Lookup(c) \/ Create(c)
    \/ Configure(c) \/ NewWindow(c) \/ SessionVanished(c)
    \/ KillWindow(c)
    \/ Register(c) \/ LoginFails(c)

Next ==
    \/ \E c \in Connects :
         \/ Start(c) \/ Progress(c) \/ CommandFails(c)
         \/ CancelWaiting(c) \/ CancelCommand(c) \/ CancelDrop(c) \/ CancelUndo(c)
         \/ CancelLogin(c)
         \/ Disconnect(c) \/ ClientExits(c)
    \/ \E w \in Windows : BackgroundKill(w)
    \/ ServerExits

Spec == Init /\ [][Next]_vars

FairSpec ==
    /\ Spec
    /\ \A c \in Connects : WF_vars(Progress(c))
    /\ \A w \in Windows : WF_vars(BackgroundKill(w))

(* Properties                                                              *)

TypeOK ==
    /\ place \in [Windows -> Connects \cup {NoOne}]
    /\ history \subseteq Connects
    /\ number \in [Windows -> Nat] /\ next \in Nat
    /\ proper \subseteq Windows /\ known \subseteq Windows
    /\ doomed \subseteq Windows /\ missed \subseteq Windows
    /\ lock \in Connects \cup {NoOne}
    /\ pc \in [Connects -> PCs]
    /\ target \in [Connects -> Connects \cup {NoOne}]
    /\ registered \subseteq Connects
    /\ faults \in 0..MaxFaults
    /\ cancels \in [Connects -> 0..MaxCancels]

\* A registered connection's window was created in a session of its own
\* host, and after that session's history-limit had been raised: large
\* outputs survive, and attaching to a host shows that host's windows only.
WindowInOwnSession == \A c \in registered : Ssh(c) \in proper

\* The lock does what it is there for: a connect that is about to create a
\* session cannot meet one that appeared since it looked.
NoDuplicateSession ==
    \A c \in Connects :
        pc[c] = "create" /\ Host[c] \notin Renamed => ~Duplicate(c)

\* Once connect learnt a window's id it accounts for the window: it is
\* registered, still being set up, or being killed, whatever else failed.  Two
\* are left: a window that a kill was sent to and failed, and the placeholder
\* of a call that was cancelled again in its error path.
KnownWindowsAccounted ==
    \A w \in (Live \cap known) \ missed :
        LET c == Owner(w) IN
        \/ w = Boot(c) /\ cancels[c] > 1
        \/ w \in doomed
        \/ pc[c] \in Locked
        \/ w = Ssh(c) /\ (pc[c] \in {"login", "cleanup"} \/ c \in registered)

\* Every remote_connect is answered, and whatever was left to background
\* kills is worked off: nothing stays suspended, at the lock or elsewhere.
ConnectsEnd ==
    <>[](doomed = {} /\ \A c \in Connects : pc[c] \in {"idle", "up", "failed", "closed"})
=============================================================================
