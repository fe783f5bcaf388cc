------------------------ MODULE ConnectionSetupProofs ------------------------
(***************************************************************************)
(* Proofs about ConnectionSetup, for any number of connects, hosts, faults *)
(* and cancellations.                                                      *)
(***************************************************************************)
EXTENDS ConnectionSetup, TLAPS

\* The holder of the lock, and nobody else, is at a step under the lock.
Guarded == \A c \in Connects : pc[c] \in Locked <=> lock = c

\* The session that a connect works on is one of its own host, and was
\* given its history before the window.
Targeted ==
    \A c \in Connects :
       /\ pc[c] \in {"configure", "newwin"} => target[c] \in Connects /\ SameName(target[c], c)
       /\ pc[c] = "newwin" => target[c] \in history
       /\ pc[c] \in {"drop", "login", "up"} => Ssh(c) \in proper
       /\ c \in registered => pc[c] = "up"

\* No window is known before the command that creates it.
Fresh ==
    \A c \in Connects :
       /\ pc[c] \in {"idle", "waiting", "lookup", "create"} => Boot(c) \notin known
       /\ pc[c] \in {"idle", "waiting", "lookup", "create", "configure", "newwin"} =>
              Ssh(c) \notin known
       /\ pc[c] \in {"configure", "newwin"} /\ target[c] # c => Boot(c) \notin known

\* A step of connect c, of the disconnect of its connection, or the end of
\* its ssh client.
ConnectStep(c) ==
    \/ Start(c) \/ Progress(c) \/ CommandFails(c)
    \/ CancelWaiting(c) \/ CancelCommand(c) \/ CancelDrop(c) \/ CancelUndo(c) \/ CancelLogin(c)
    \/ Disconnect(c) \/ ClientExits(c)

USE DEF ConnectStep

(* Lemmas                                                                  *)

\* The two windows of each connect are different ones.
LEMMA WindowFacts ==
    /\ \A c \in Connects : Ssh(c) \in Windows /\ Boot(c) \in Windows
    /\ \A c, d \in Connects : Ssh(c) # Boot(d)
    /\ \A c, d \in Connects : Ssh(c) = Ssh(d) => c = d
    /\ \A c, d \in Connects : Boot(c) = Boot(d) => c = d
    /\ \A w \in Windows :
          Owner(w) \in Connects /\ (w = Ssh(Owner(w)) \/ w = Boot(Owner(w)))
BY DEF Ssh, Boot, Windows, Owner

\* The types of tmux's own state.
TmuxType ==
    place \in [Windows -> Connects \cup {NoOne}] /\ number \in [Windows -> Nat] /\ next \in Nat

\* tmux opens a window.
LEMMA OpenType ==
    ASSUME TypeOK, NEW w \in Windows, NEW s \in Connects, Open(w, s)
    PROVE  TmuxType'
BY DEF TypeOK, TmuxType, Open

\* What a command does that nobody gets the reply of.
LEMMA InterruptedType ==
    ASSUME TypeOK, NEW c \in Connects, Interrupted(c)
    PROVE  /\ TmuxType' /\ history' \subseteq Connects
           /\ lock' \in Connects \cup {NoOne} /\ pc' \in [Connects -> PCs]
<1>1. TmuxType'
  <2>1. CASE UNCHANGED tmux BY <2>1 DEF tmux, TmuxType, TypeOK
  <2>2. CASE Unseen(c) BY <2>2, OpenType, WindowFacts DEF Unseen, Resolve
  <2> QED BY <2>1, <2>2 DEF Interrupted
<1> USE DEF TypeOK, PCs, Locked
<1>2. history' \subseteq Connects
  BY DEF Interrupted, Resolve
<1>3. lock' \in Connects \cup {NoOne} /\ pc' \in [Connects -> PCs]
  BY DEF Interrupted, Unlock, Goto, Raise
<1> QED BY <1>1, <1>2, <1>3

\* A kill, whether it reaches the window or not.
LEMMA CleanupType ==
    ASSUME TypeOK, NEW w \in Windows, Cleanup(w)
    PROVE  TmuxType' /\ missed' \subseteq Windows /\ faults' \in 0..MaxFaults
BY BoundsAssumption DEF TypeOK, TmuxType, Cleanup, Killed, Fault, tmux

\* Every step keeps the types.
LEMMA TypeStep == TypeOK /\ [Next]_vars => TypeOK'
<1> SUFFICES ASSUME TypeOK, [Next]_vars PROVE TypeOK' OBVIOUS
<1> USE NoOneAssumption, BoundsAssumption DEF TypeOK, PCs, Locked, tmux
<1>1. ASSUME NEW c \in Connects, ConnectStep(c)
      PROVE TypeOK'
  <2>1. CASE Start(c) BY <1>1, <2>1 DEF Start, Goto
  <2>2. CASE Acquire(c) BY <1>1, <2>2 DEF Acquire, Goto, LockIsFree
  <2>3. CASE Lookup(c) BY <1>1, <2>3 DEF Lookup, Goto
  <2>4. CASE Create(c)
    <3>1. CASE Duplicate(c) BY <2>4, <3>1 DEF Create, Goto, Unlock
    <3>2. CASE ~Duplicate(c)
      <4>1. TmuxType' BY <2>4, <3>2, OpenType, WindowFacts DEF Create
      <4>2. Boot(c) \in Windows BY WindowFacts
      <4> QED BY <2>4, <1>1, <3>2, <4>1, <4>2 DEF Create, Goto, TmuxType
    <3> QED BY <3>1, <3>2
  <2>5. CASE Configure(c) BY <1>1, <2>5 DEF Configure, Goto, RaiseHistory, Resolve
  <2>6. CASE NewWindow(c)
    <3>1. PICK s \in Resolve(c) : Open(Ssh(c), s) /\ proper' = Settled(c, s)
      BY <2>6 DEF NewWindow
    <3>2. TmuxType' BY <3>1, OpenType, WindowFacts DEF Resolve
    <3>3. pc' \in [Connects -> PCs] /\ lock' \in Connects \cup {NoOne}
      BY <2>6 DEF NewWindow, Goto, Unlock
    <3>4. proper' \subseteq Windows /\ known' \subseteq Windows
      BY <2>6, <3>1, WindowFacts DEF NewWindow, Settled
    <3> QED BY <2>6, <3>2, <3>3, <3>4 DEF NewWindow, TmuxType
  <2>7. CASE SessionVanished(c) BY <1>1, <2>7 DEF SessionVanished, Goto, Raise, Unlock, Resolve
  <2>8. CASE KillWindow(c)
    <3>1. TmuxType' /\ missed' \subseteq Windows /\ faults' \in 0..MaxFaults
      BY <2>8, CleanupType, WindowFacts DEF KillWindow, Victim
    <3>3. pc' \in [Connects -> PCs] /\ lock' \in Connects \cup {NoOne}
      BY <2>8 DEF KillWindow, AfterKill, Unlock, Goto
    <3> QED BY <2>8, <3>1, <3>3 DEF KillWindow, TmuxType
  <2>9. CASE Register(c) BY <1>1, <2>9 DEF Register, Goto
  <2>10. CASE LoginFails(c) BY <1>1, <2>10 DEF LoginFails, Goto, WithCleanup
  <2>11. CASE CommandFails(c)
    <3>1. faults' \in 0..MaxFaults BY <2>11 DEF CommandFails, Fault
    <3> QED BY <2>11, <1>1, <3>1, InterruptedType DEF CommandFails, Interrupted, TmuxType
  <2>12. CASE CancelCommand(c)
    <3>1. cancels' \in [Connects -> 0..MaxCancels] BY <2>12 DEF CancelCommand, Cancelled
    <3> QED BY <2>12, <1>1, <3>1, InterruptedType DEF CancelCommand, Interrupted, TmuxType
  <2>13. CASE CancelWaiting(c) BY <1>1, <2>13 DEF CancelWaiting, Goto, Cancelled
  <2>14. CASE CancelDrop(c) BY <1>1, <2>14 DEF CancelDrop, Goto, Cancelled, Killed
  <2>15. CASE CancelUndo(c)
    BY <1>1, <2>15, WindowFacts DEF CancelUndo, Goto, Cancelled, Victim, Unlock
  <2>16. CASE CancelLogin(c) BY <1>1, <2>16 DEF CancelLogin, Goto, Cancelled, WithCleanup
  <2>17. CASE Disconnect(c) BY <1>1, <2>17 DEF Disconnect, Goto, Killed
  <2>18. CASE ClientExits(c) BY <1>1, <2>18 DEF ClientExits
  <2> QED BY <1>1, <2>1, <2>2, <2>3, <2>4, <2>5, <2>6, <2>7, <2>8, <2>9, <2>10, <2>11, <2>12,
        <2>13, <2>14, <2>15, <2>16, <2>17, <2>18 DEF Progress
<1>2. ASSUME NEW w \in Windows, BackgroundKill(w) PROVE TypeOK'
  <2>1. TmuxType' /\ missed' \subseteq Windows /\ faults' \in 0..MaxFaults
    BY <1>2, CleanupType DEF BackgroundKill
  <2> QED BY <1>2, <2>1 DEF BackgroundKill, TmuxType
<1>3. CASE ServerExits BY <1>3 DEF ServerExits
<1>4. CASE UNCHANGED vars BY <1>4 DEF vars
<1> QED BY <1>1, <1>2, <1>3, <1>4 DEF Next

\* "async with": the lock is taken and given back by its holder only.
LEMMA GuardedStep == TypeOK /\ Guarded /\ [Next]_vars => Guarded'
<1> SUFFICES ASSUME TypeOK /\ Guarded, [Next]_vars PROVE Guarded' OBVIOUS
<1> USE NoOneAssumption, BoundsAssumption DEF TypeOK, PCs, Locked, Guarded
<1>1. ASSUME NEW c \in Connects, ConnectStep(c)
      PROVE Guarded'
  <2>1. CASE Start(c) BY <1>1, <2>1 DEF Start, Goto
  <2>2. CASE Acquire(c) BY <1>1, <2>2 DEF Acquire, Goto, LockIsFree
  <2>3. CASE Lookup(c) BY <1>1, <2>3 DEF Lookup, Goto
  <2>4. CASE Create(c) BY <1>1, <2>4 DEF Create, Goto, Unlock
  <2>5. CASE Configure(c) BY <1>1, <2>5 DEF Configure, Goto, RaiseHistory, Resolve
  <2>6. CASE NewWindow(c) BY <1>1, <2>6 DEF NewWindow, Goto, Unlock, Resolve, Settled
  <2>7. CASE SessionVanished(c) BY <1>1, <2>7 DEF SessionVanished, Goto, Raise, Unlock, Resolve
  <2>8. CASE KillWindow(c)
    <3>1. pc[c] \in {"drop", "undo_ssh", "undo_boot", "cleanup"} /\ AfterKill(c)
      BY <2>8 DEF KillWindow
    <3>2. CASE pc[c] = "drop" BY <1>1, <3>1, <3>2 DEF Goto, Unlock, AfterKill
    <3>3. CASE pc[c] = "undo_ssh" BY <1>1, <3>1, <3>3 DEF Goto, Unlock, AfterKill
    <3>4. CASE pc[c] = "undo_boot" BY <1>1, <3>1, <3>4 DEF Goto, Unlock, AfterKill
    <3>5. CASE pc[c] = "cleanup" BY <1>1, <3>1, <3>5 DEF Goto, Unlock, AfterKill
    <3> QED BY <3>1, <3>2, <3>3, <3>4, <3>5
  <2>9. CASE Register(c) BY <1>1, <2>9 DEF Register, Goto
  <2>10. CASE LoginFails(c) BY <1>1, <2>10 DEF LoginFails, Goto, WithCleanup
  <2>11. CASE CommandFails(c)
    BY <1>1, <2>11 DEF CommandFails, Interrupted, Goto, Unlock, Raise, Fault
  <2>12. CASE CancelCommand(c)
    BY <1>1, <2>12 DEF CancelCommand, Interrupted, Goto, Unlock, Raise, Cancelled
  <2>13. CASE CancelWaiting(c) BY <1>1, <2>13 DEF CancelWaiting, Goto, Cancelled
  <2>14. CASE CancelDrop(c) BY <1>1, <2>14 DEF CancelDrop, Goto, Cancelled
  <2>15. CASE CancelUndo(c) BY <1>1, <2>15 DEF CancelUndo, Goto, Cancelled, Victim, Unlock
  <2>16. CASE CancelLogin(c) BY <1>1, <2>16 DEF CancelLogin, Goto, Cancelled, WithCleanup
  <2>17. CASE Disconnect(c) BY <1>1, <2>17 DEF Disconnect, Goto
  <2>18. CASE ClientExits(c) BY <1>1, <2>18 DEF ClientExits
  <2> QED BY <1>1, <2>1, <2>2, <2>3, <2>4, <2>5, <2>6, <2>7, <2>8, <2>9, <2>10, <2>11, <2>12,
        <2>13, <2>14, <2>15, <2>16, <2>17, <2>18 DEF Progress
<1>2. ASSUME NEW w \in Windows, BackgroundKill(w) PROVE Guarded'
  BY <1>2 DEF BackgroundKill
<1>3. CASE ServerExits BY <1>3 DEF ServerExits
<1>4. CASE UNCHANGED vars BY <1>4 DEF vars
<1> QED BY <1>1, <1>2, <1>3, <1>4 DEF Next

\* Sessions are found and created by the name of the host.
LEMMA TargetedStep == TypeOK /\ Targeted /\ [Next]_vars => Targeted'
<1> SUFFICES ASSUME TypeOK /\ Targeted, [Next]_vars PROVE Targeted' OBVIOUS
<1> USE NoOneAssumption, BoundsAssumption DEF TypeOK, PCs, Locked, Targeted
<1>1. ASSUME NEW c \in Connects, ConnectStep(c)
      PROVE Targeted'
  <2>1. CASE Start(c) BY <1>1, <2>1 DEF Start, Goto
  <2>2. CASE Acquire(c) BY <1>1, <2>2 DEF Acquire, Goto, LockIsFree
  <2>3. CASE Lookup(c) BY <1>1, <2>3 DEF Lookup, Goto, SameName
  <2>4. CASE Create(c) BY <1>1, <2>4 DEF Create, Goto, Unlock, SameName
  <2>5. CASE Configure(c) BY <1>1, <2>5 DEF Configure, Goto, RaiseHistory, Resolve
  <2>6. CASE NewWindow(c) BY <1>1, <2>6 DEF NewWindow, Goto, Unlock, Resolve, Settled, SameName
  <2>7. CASE SessionVanished(c) BY <1>1, <2>7 DEF SessionVanished, Goto, Raise, Unlock, Resolve
  <2>8. CASE KillWindow(c)
    <3>1. /\ pc[c] \in {"drop", "undo_ssh", "undo_boot", "cleanup"} /\ AfterKill(c)
          /\ UNCHANGED <<history, proper, target, known, registered>>
      BY <2>8 DEF KillWindow
    <3>2. CASE pc[c] = "drop" BY <1>1, <3>1, <3>2 DEF Goto, Unlock, AfterKill
    <3>3. CASE pc[c] = "undo_ssh" BY <1>1, <3>1, <3>3 DEF Goto, Unlock, AfterKill
    <3>4. CASE pc[c] = "undo_boot" BY <1>1, <3>1, <3>4 DEF Goto, Unlock, AfterKill
    <3>5. CASE pc[c] = "cleanup" BY <1>1, <3>1, <3>5 DEF Goto, Unlock, AfterKill
    <3> QED BY <3>1, <3>2, <3>3, <3>4, <3>5
  <2>9. CASE Register(c) BY <1>1, <2>9 DEF Register, Goto
  <2>10. CASE LoginFails(c) BY <1>1, <2>10 DEF LoginFails, Goto, WithCleanup
  <2>11. CASE CommandFails(c)
    BY <1>1, <2>11 DEF CommandFails, Interrupted, Goto, Unlock, Raise, Fault
  <2>12. CASE CancelCommand(c)
    BY <1>1, <2>12 DEF CancelCommand, Interrupted, Goto, Unlock, Raise, Cancelled
  <2>13. CASE CancelWaiting(c) BY <1>1, <2>13 DEF CancelWaiting, Goto, Cancelled
  <2>14. CASE CancelDrop(c) BY <1>1, <2>14 DEF CancelDrop, Goto, Cancelled
  <2>15. CASE CancelUndo(c) BY <1>1, <2>15 DEF CancelUndo, Goto, Cancelled, Victim, Unlock
  <2>16. CASE CancelLogin(c) BY <1>1, <2>16 DEF CancelLogin, Goto, Cancelled, WithCleanup
  <2>17. CASE Disconnect(c) BY <1>1, <2>17 DEF Disconnect, Goto
  <2>18. CASE ClientExits(c) BY <1>1, <2>18 DEF ClientExits
  <2> QED BY <1>1, <2>1, <2>2, <2>3, <2>4, <2>5, <2>6, <2>7, <2>8, <2>9, <2>10, <2>11, <2>12,
        <2>13, <2>14, <2>15, <2>16, <2>17, <2>18 DEF Progress
<1>2. ASSUME NEW w \in Windows, BackgroundKill(w) PROVE Targeted'
  BY <1>2 DEF BackgroundKill
<1>3. CASE ServerExits BY <1>3 DEF ServerExits
<1>4. CASE UNCHANGED vars BY <1>4 DEF vars
<1> QED BY <1>1, <1>2, <1>3, <1>4 DEF Next

\* Each connect runs through its commands once.
LEMMA FreshStep == TypeOK /\ Fresh /\ [Next]_vars => Fresh'
<1> SUFFICES ASSUME TypeOK /\ Fresh, [Next]_vars PROVE Fresh' OBVIOUS
<1> USE NoOneAssumption, BoundsAssumption DEF TypeOK, PCs, Locked, Fresh
<1>1. ASSUME NEW c \in Connects, ConnectStep(c)
      PROVE Fresh'
  <2>1. CASE Start(c) BY <1>1, <2>1 DEF Start, Goto
  <2>2. CASE Acquire(c) BY <1>1, <2>2 DEF Acquire, Goto, LockIsFree
  <2>3. CASE Lookup(c) BY <1>1, <2>3 DEF Lookup, Goto
  <2>4. CASE Create(c) BY <1>1, <2>4, WindowFacts DEF Create, Goto, Unlock, Duplicate
  <2>5. CASE Configure(c) BY <1>1, <2>5 DEF Configure, Goto, RaiseHistory, Resolve
  <2>6. CASE NewWindow(c)
    BY <1>1, <2>6, WindowFacts DEF NewWindow, Goto, Unlock, Resolve, Settled
  <2>7. CASE SessionVanished(c) BY <1>1, <2>7 DEF SessionVanished, Goto, Raise, Unlock, Resolve
  <2>8. CASE KillWindow(c)
    <3>1. /\ pc[c] \in {"drop", "undo_ssh", "undo_boot", "cleanup"} /\ AfterKill(c)
          /\ UNCHANGED <<history, proper, target, known, registered>>
      BY <2>8 DEF KillWindow
    <3>2. CASE pc[c] = "drop" BY <1>1, <3>1, <3>2 DEF Goto, Unlock, AfterKill
    <3>3. CASE pc[c] = "undo_ssh" BY <1>1, <3>1, <3>3 DEF Goto, Unlock, AfterKill
    <3>4. CASE pc[c] = "undo_boot" BY <1>1, <3>1, <3>4 DEF Goto, Unlock, AfterKill
    <3>5. CASE pc[c] = "cleanup" BY <1>1, <3>1, <3>5 DEF Goto, Unlock, AfterKill
    <3> QED BY <3>1, <3>2, <3>3, <3>4, <3>5
  <2>9. CASE Register(c) BY <1>1, <2>9 DEF Register, Goto
  <2>10. CASE LoginFails(c) BY <1>1, <2>10 DEF LoginFails, Goto, WithCleanup
  <2>11. CASE CommandFails(c)
    BY <1>1, <2>11 DEF CommandFails, Interrupted, Goto, Unlock, Raise, Fault
  <2>12. CASE CancelCommand(c)
    BY <1>1, <2>12 DEF CancelCommand, Interrupted, Goto, Unlock, Raise, Cancelled
  <2>13. CASE CancelWaiting(c) BY <1>1, <2>13 DEF CancelWaiting, Goto, Cancelled
  <2>14. CASE CancelDrop(c) BY <1>1, <2>14 DEF CancelDrop, Goto, Cancelled
  <2>15. CASE CancelUndo(c) BY <1>1, <2>15 DEF CancelUndo, Goto, Cancelled, Victim, Unlock
  <2>16. CASE CancelLogin(c) BY <1>1, <2>16 DEF CancelLogin, Goto, Cancelled, WithCleanup
  <2>17. CASE Disconnect(c) BY <1>1, <2>17 DEF Disconnect, Goto
  <2>18. CASE ClientExits(c) BY <1>1, <2>18 DEF ClientExits
  <2> QED BY <1>1, <2>1, <2>2, <2>3, <2>4, <2>5, <2>6, <2>7, <2>8, <2>9, <2>10, <2>11, <2>12,
        <2>13, <2>14, <2>15, <2>16, <2>17, <2>18 DEF Progress
<1>2. ASSUME NEW w \in Windows, BackgroundKill(w) PROVE Fresh'
  BY <1>2 DEF BackgroundKill
<1>3. CASE ServerExits BY <1>3 DEF ServerExits
<1>4. CASE UNCHANGED vars BY <1>4 DEF vars
<1> QED BY <1>1, <1>2, <1>3, <1>4 DEF Next

\* Only the holder of the lock brings windows to life, and it moves on.
LEMMA Growth ==
    ASSUME TypeOK, [Next]_vars, NEW w \in Windows, place'[w] # NoOne, place'[w] # place[w]
    PROVE  \E c \in Connects :
              \/ w = Boot(c) /\ pc[c] = "create" /\ pc'[c] # "create"
              \/ w = Ssh(c) /\ pc[c] = "newwin" /\ pc'[c] # "newwin"
<1> USE DEF TypeOK
<1>1. ASSUME NEW c \in Connects, Create(c)
      PROVE w = Boot(c) /\ pc[c] = "create" /\ pc'[c] # "create"
  <2>1. pc[c] = "create" /\ pc'[c] # "create"
    BY <1>1 DEF Create, Unlock, Goto
  <2>2. place' = place \/ place' = [place EXCEPT ![Boot(c)] = c]
    BY <1>1 DEF Create, Open, tmux
  <2> QED BY <2>1, <2>2
<1>2. ASSUME NEW c \in Connects, NewWindow(c)
      PROVE w = Ssh(c) /\ pc[c] = "newwin" /\ pc'[c] # "newwin"
  BY <1>2 DEF NewWindow, Unlock, Goto, Open
<1>3. ASSUME NEW c \in Connects, Interrupted(c)
      PROVE  \/ w = Boot(c) /\ pc[c] = "create" /\ pc'[c] # "create"
             \/ w = Ssh(c) /\ pc[c] = "newwin" /\ pc'[c] # "newwin"
  <2>1. pc'[c] \notin {"create", "newwin"}
    BY <1>3 DEF Interrupted, Raise, Unlock, Goto
  <2>2. \/ pc[c] = "create" /\ place' = [place EXCEPT ![Boot(c)] = c]
        \/ pc[c] = "newwin" /\ place' = [place EXCEPT ![Ssh(c)] = target[c]]
    BY <1>3 DEF Interrupted, Unseen, Open, tmux, Resolve
  <2> QED BY <2>1, <2>2
<1>4. ASSUME NEW v \in Windows, Killed(v) PROVE FALSE
  BY <1>4 DEF Killed, Named, Live
<1>5. CASE place' # place /\ \E c \in Connects :
           Progress(c) \/ CommandFails(c) \/ CancelCommand(c) \/ CancelDrop(c) \/ Disconnect(c)
             \/ ClientExits(c)
  <2>1. PICK c \in Connects :
           Progress(c) \/ CommandFails(c) \/ CancelCommand(c) \/ CancelDrop(c) \/ Disconnect(c)
             \/ ClientExits(c)
    BY <1>5
  <2>2. Victim(c) \in Windows /\ Ssh(c) \in Windows /\ Boot(c) \in Windows
    BY WindowFacts DEF Victim
  <2>3. ~KillWindow(c) /\ ~CancelDrop(c) /\ ~Disconnect(c) /\ ~ClientExits(c)
    BY <1>4, <1>5, <2>2 DEF KillWindow, Cleanup, CancelDrop, Disconnect, ClientExits, tmux
  <2>4. Create(c) \/ NewWindow(c) \/ Interrupted(c)
    BY <1>5, <2>1, <2>3 DEF Progress, Acquire, Lookup, Configure, SessionVanished, Register,
       LoginFails, CommandFails, CancelCommand, tmux
  <2> QED BY <1>1, <1>2, <1>3, <2>4
<1>6. CASE \E v \in Windows : BackgroundKill(v)
  BY <1>4, <1>6 DEF BackgroundKill, Cleanup, tmux
<1>7. CASE ServerExits \/ UNCHANGED vars
  BY <1>7 DEF ServerExits, vars, tmux
<1>8. place' # place
  OBVIOUS
<1> QED BY <1>5, <1>6, <1>7, <1>8
        DEF Next, Start, CancelWaiting, CancelUndo, CancelLogin, tmux

\* Whoever creates a session has held the lock since it looked.
LEMMA NoDuplicateStep ==
    TypeOK /\ Guarded /\ NoDuplicateSession /\ [Next]_vars => NoDuplicateSession'
<1> SUFFICES ASSUME TypeOK, Guarded, NoDuplicateSession, [Next]_vars,
                    NEW c \in Connects, pc'[c] = "create", Host[c] \notin Renamed,
                    NEW s \in Connects, NEW w \in Windows, place'[w] # NoOne, place'[w] = s,
                    SameName(s, c)
             PROVE  FALSE
  BY DEF NoDuplicateSession, Duplicate, Alive, Live, SameName
<1>1. CASE pc[c] = "create"
  <2>1. ~(place[w] = s)
    BY <1>1 DEF NoDuplicateSession, Duplicate, Alive, Live
  <2>2. PICK d \in Connects :
              \/ w = Boot(d) /\ pc[d] = "create" /\ pc'[d] # "create"
              \/ w = Ssh(d) /\ pc[d] = "newwin" /\ pc'[d] # "newwin"
    BY <2>1, Growth
  <2>3. d = c
    BY <1>1, <2>2 DEF Guarded, Locked
  <2> QED BY <1>1, <2>2, <2>3
<1>2. CASE pc[c] # "create"
  <2>1. Lookup(c)
    <3>1. pc' # pc BY <1>2
    <3>2. PICK d \in Connects : ConnectStep(d)
      BY <3>1 DEF Next, vars, BackgroundKill, ServerExits
    <3> USE <1>2, <3>2 DEF TypeOK, Goto
    <3>3. ~Start(d) BY DEF Start
    <3>4. ~Acquire(d) /\ ~Create(d) /\ ~Configure(d) /\ ~NewWindow(d)
      BY DEF Acquire, Create, Configure, NewWindow, Unlock
    <3>5. ~SessionVanished(d) /\ ~CommandFails(d) /\ ~CancelCommand(d)
      BY DEF SessionVanished, CommandFails, CancelCommand, Interrupted, Raise, Unlock
    <3>6. ~KillWindow(d) /\ ~CancelDrop(d) /\ ~CancelUndo(d)
      BY DEF KillWindow, AfterKill, CancelDrop, CancelUndo, Unlock
    <3>7. ~Register(d) /\ ~LoginFails(d) /\ ~CancelLogin(d) /\ ~CancelWaiting(d)
      BY DEF Register, LoginFails, CancelLogin, CancelWaiting, WithCleanup
    <3>8. ~Disconnect(d) /\ ~ClientExits(d)
      BY DEF Disconnect, ClientExits
    <3>9. Lookup(d)
      BY <3>3, <3>4, <3>5, <3>6, <3>7, <3>8 DEF Progress
    <3> QED BY <3>9 DEF Lookup
  <2>2. place' = place /\ ~Duplicate(c)
    BY <1>2, <2>1 DEF Lookup, Goto, TypeOK, Duplicate, tmux
  <2> QED BY <2>2 DEF Duplicate, Alive, Live
<1> QED BY <1>1, <1>2

(* Accounting for windows                                                  *)

\* What one connect does is not seen in the others' control state.
LEMMA Framed ==
    ASSUME TypeOK, NEW c \in Connects, ConnectStep(c)
    PROVE  /\ \A d \in Connects \ {c} :
                 pc'[d] = pc[d] /\ cancels'[d] = cancels[d]
                 /\ (d \in registered => d \in registered')
           /\ doomed \subseteq doomed'
           /\ cancels[c] > 1 => cancels'[c] > 1
           /\ missed \subseteq missed'
           /\ known' \subseteq known \cup {Boot(c), Ssh(c)}
<1> USE DEF TypeOK, Goto
<1>1. \A d \in Connects \ {c} : pc'[d] = pc[d]
  BY DEF Start, Progress, Acquire, Lookup, Create, Configure, NewWindow, SessionVanished,
     KillWindow, Register, LoginFails, CommandFails, CancelCommand, Interrupted, CancelWaiting,
     CancelDrop, CancelUndo, CancelLogin, Disconnect, ClientExits, Unlock, Raise, AfterKill,
     WithCleanup
<1>2. UNCHANGED cancels \/ Cancelled(c)
  BY DEF Start, Progress, Acquire, Lookup, Create, Configure, NewWindow,
     SessionVanished, KillWindow, Register, LoginFails, CommandFails, CancelCommand,
     Interrupted, CancelWaiting, CancelDrop, CancelUndo, CancelLogin, Disconnect, ClientExits
<1>3. /\ \A d \in Connects \ {c} : cancels'[d] = cancels[d]
      /\ cancels[c] > 1 => cancels'[c] > 1
  <2>1. cancels[c] \in Nat BY BoundsAssumption
  <2> QED BY <1>2, <2>1 DEF Cancelled
<1>5. missed \subseteq missed'
  BY DEF Start, Progress, Acquire, Lookup, Create, Configure, NewWindow, SessionVanished,
     KillWindow, Register, LoginFails, CommandFails, CancelCommand, Interrupted, CancelWaiting,
     CancelDrop, CancelUndo, CancelLogin, Disconnect, ClientExits, Cleanup
<1>6. /\ doomed \subseteq doomed' /\ known' \subseteq known \cup {Boot(c), Ssh(c)}
      /\ \A d \in Connects \ {c} : d \in registered => d \in registered'
  BY DEF Start, Progress, Acquire, Lookup, Create, Configure, NewWindow,
     SessionVanished, KillWindow, Register, LoginFails, CommandFails, CancelCommand,
     Interrupted, CancelWaiting, CancelDrop, CancelUndo, CancelLogin, Disconnect, ClientExits
<1> QED BY <1>1, <1>3, <1>5, <1>6

\* After a kill the window is dead, also if its number is another one's by
\* now, or the kill is known to have failed.
LEMMA Kills ==
    /\ \A w \in Windows : TypeOK /\ Killed(w) => place'[w] = NoOne
    /\ \A w \in Windows : TypeOK /\ Cleanup(w) => place'[w] = NoOne \/ w \in missed'
<1>1. ASSUME TypeOK, NEW w \in Windows, Killed(w) PROVE place'[w] = NoOne
  BY <1>1 DEF Killed, Named, Live
<1> QED BY <1>1 DEF Cleanup

\* An error path kills the ssh window, if it knew one, before the
\* placeholder, and knows one only if it was cancelled.
Undone ==
    \A c \in Connects :
       /\ pc[c] = "undo_boot" => Ssh(c) \notin (Live \cap known) \ missed
       /\ pc[c] = "undo_ssh" => cancels[c] > 0

IInv ==
    /\ TypeOK /\ Guarded /\ Targeted /\ Fresh /\ Undone
    /\ NoDuplicateSession /\ KnownWindowsAccounted

\* The part of KnownWindowsAccounted that is about one window.
AccountedFor(w) ==
    LET c == Owner(w) IN
    \/ w = Boot(c) /\ cancels[c] > 1
    \/ w \in doomed
    \/ pc[c] \in Locked
    \/ w = Ssh(c) /\ (pc[c] \in {"login", "cleanup"} \/ c \in registered)

\* An error path comes to the placeholder when the ssh window is dead or was
\* never known.
LEMMA UndoneStep == IInv /\ [Next]_vars => Undone'
<1> SUFFICES ASSUME IInv, [Next]_vars, NEW c \in Connects
             PROVE  /\ (pc[c] = "undo_boot" => Ssh(c) \notin (Live \cap known) \ missed)'
                    /\ (pc[c] = "undo_ssh" => cancels[c] > 0)'
  BY DEF Undone
<1> USE DEF IInv
<1>1. CASE pc'[c] = pc[c] /\ pc[c] \in {"undo_boot", "undo_ssh"}
  <2>1. cancels'[c] = cancels[c] \/ cancels'[c] > 0
    <3>1. cancels[c] \in Nat BY BoundsAssumption DEF TypeOK
    <3>2. UNCHANGED cancels \/ \E d \in Connects : Cancelled(d)
      BY DEF Next, vars, Start, Progress, Acquire, Lookup, Create, Configure, NewWindow,
         SessionVanished, KillWindow, Register, LoginFails, CommandFails, CancelCommand,
         Interrupted, CancelWaiting, CancelDrop, CancelUndo, CancelLogin, Disconnect,
         ClientExits, BackgroundKill, ServerExits
    <3> QED BY <3>1, <3>2 DEF Cancelled, TypeOK
  <2>2. missed \subseteq missed'
    BY DEF Next, vars, Start, Progress, Acquire, Lookup, Create, Configure, NewWindow,
       SessionVanished, KillWindow, Register, LoginFails, CommandFails, CancelCommand,
       Interrupted, CancelWaiting, CancelDrop, CancelUndo, CancelLogin, Disconnect,
       ClientExits, BackgroundKill, ServerExits, Cleanup
  <2>3. Ssh(c) \in known' => Ssh(c) \in known
    <3>1. known' = known \/ \E d \in Connects : Create(d) \/ NewWindow(d)
      BY DEF Next, vars, Start, Progress, Acquire, Lookup, Create, Configure, NewWindow,
         SessionVanished, KillWindow, Register, LoginFails, CommandFails, CancelCommand,
         Interrupted, CancelWaiting, CancelDrop, CancelUndo, CancelLogin, Disconnect,
         ClientExits, BackgroundKill, ServerExits
    <3>2. ASSUME NEW d \in Connects, NewWindow(d) \/ Create(d) PROVE d # c
      BY <1>1, <3>2 DEF NewWindow, Create
    <3> QED BY <3>1, <3>2, WindowFacts DEF Create, NewWindow
  <2>4. Ssh(c) \in Live' => Ssh(c) \in Live
    <3> SUFFICES ASSUME place'[Ssh(c)] # NoOne, place[Ssh(c)] = NoOne PROVE FALSE
      BY WindowFacts DEF Live
    <3>1. PICK d \in Connects :
              \/ Ssh(c) = Boot(d) /\ pc[d] = "create" /\ pc'[d] # "create"
              \/ Ssh(c) = Ssh(d) /\ pc[d] = "newwin" /\ pc'[d] # "newwin"
      BY WindowFacts, Growth
    <3> QED BY <1>1, <3>1, WindowFacts
  <2> QED BY <1>1, <2>1, <2>2, <2>3, <2>4 DEF Undone
<1>2. CASE pc'[c] # pc[c] /\ pc'[c] = "undo_ssh"
  <2>1. CancelDrop(c)
    <3>1. PICK d \in Connects : ConnectStep(d)
      BY <1>2 DEF Next, vars, BackgroundKill, ServerExits
    <3>2. d = c BY <1>2, <3>1, Framed
    <3> QED BY <1>2, <3>1, <3>2
            DEF TypeOK, Goto, Start, Progress, Acquire, Lookup, Create, Configure, NewWindow,
            SessionVanished, KillWindow, Register, LoginFails, CommandFails, CancelCommand,
            Interrupted, CancelWaiting, CancelUndo, CancelLogin, Disconnect,
            ClientExits, Unlock, Raise, AfterKill, WithCleanup
  <2>2. cancels[c] \in Nat BY BoundsAssumption DEF TypeOK
  <2>3. cancels'[c] = cancels[c] + 1
    BY <2>1 DEF CancelDrop, Cancelled, TypeOK
  <2> QED BY <1>2, <2>2, <2>3
<1>3. CASE pc'[c] # pc[c] /\ pc'[c] = "undo_boot"
  <2>1. PICK d \in Connects : ConnectStep(d)
    BY <1>3 DEF Next, vars, BackgroundKill, ServerExits
  <2>2. d = c BY <1>3, <2>1, Framed
  <2>3. SessionVanished(c) \/ Interrupted(c) \/ (pc[c] = "undo_ssh" /\ KillWindow(c))
    BY <1>3, <2>1, <2>2
       DEF TypeOK, Goto, Start, Progress, Acquire, Lookup, Create, Configure, NewWindow,
       KillWindow, Register, LoginFails, CommandFails, CancelCommand, CancelDrop,
       CancelWaiting, CancelUndo, CancelLogin, Disconnect, ClientExits, Unlock,
       AfterKill, WithCleanup
  <2>4. CASE SessionVanished(c) \/ Interrupted(c)
    <3>1. pc[c] \in {"configure", "newwin"} /\ known' = known
      BY <1>3, <2>4 DEF SessionVanished, Interrupted, Unlock, Goto, TypeOK
    <3> QED BY <1>3, <3>1 DEF Fresh
  <2>5. CASE pc[c] = "undo_ssh" /\ KillWindow(c)
    <3>1. Victim(c) = Ssh(c) /\ Ssh(c) \in Windows BY <2>5, WindowFacts DEF Victim
    <3>2. place'[Ssh(c)] = NoOne \/ Ssh(c) \in missed'
      BY <2>5, <3>1, Kills DEF KillWindow
    <3> QED BY <1>3, <3>2 DEF Live
  <2> QED BY <2>3, <2>4, <2>5
<1>4. CASE pc'[c] \notin {"undo_boot", "undo_ssh"}
  BY <1>4
<1> QED BY <1>1, <1>2, <1>3, <1>4

\* The windows of a connect that takes a step.
LEMMA OwnWindows ==
    ASSUME IInv, NEW c \in Connects, NEW w \in Windows, Owner(w) = c,
           [Next]_vars, place'[w] # NoOne, w \in known' \ missed',
           ConnectStep(c)
    PROVE  AccountedFor(w)'
<1> USE DEF IInv
<1>1. w = Ssh(c) \/ w = Boot(c) BY WindowFacts
<1>2. w \notin missed /\ doomed \subseteq doomed' /\ (cancels[c] > 1 => cancels'[c] > 1)
  BY Framed
<1>3. CASE pc'[c] \in Locked \/ (w = Boot(c) /\ cancels'[c] > 1) \/ w \in doomed'
  BY <1>3 DEF AccountedFor
<1>4. CASE pc'[c] \notin Locked /\ ~(w = Boot(c) /\ cancels'[c] > 1) /\ w \notin doomed'
  <2>1. pc[c] \in {"idle", "waiting", "lookup", "create"} => w \notin known
    BY <1>1 DEF Fresh
  <2>2. pc[c] \notin Locked /\ pc[c] # "waiting" /\ w \in Live /\ w \in known =>
          w = Ssh(c) /\ (pc[c] \in {"login", "cleanup"} \/ c \in registered)
    BY <1>2, <1>4 DEF KnownWindowsAccounted
  <2>3. place[w] # NoOne \/ NewWindow(c) \/ w \notin known'
    <3> SUFFICES ASSUME place[w] = NoOne PROVE NewWindow(c) \/ w \notin known' OBVIOUS
    <3>1. PICK d \in Connects :
              \/ w = Boot(d) /\ pc[d] = "create" /\ pc'[d] # "create"
              \/ w = Ssh(d) /\ pc[d] = "newwin" /\ pc'[d] # "newwin"
      BY Growth
    <3>2. d = c BY <1>1, <3>1, WindowFacts
    <3>3. CASE Create(c)
      BY <1>4, <2>1, <3>3 DEF Create, Goto, Locked, TypeOK
    <3>4. w \notin known BY <3>1, <3>2 DEF Fresh
    <3>5. CASE ~Create(c) /\ ~NewWindow(c)
      BY <3>4, <3>5 DEF Start, Progress, Acquire, Lookup, Configure, SessionVanished,
         KillWindow, Register, LoginFails, CommandFails, CancelCommand, Interrupted,
         CancelWaiting, CancelDrop, CancelUndo, CancelLogin, Disconnect, ClientExits
    <3> QED BY <3>3, <3>5
  <2> SUFFICES w = Ssh(c) /\ (pc'[c] \in {"login", "cleanup"} \/ c \in registered')
    BY DEF AccountedFor
  <2> USE <1>1, <1>4, <2>1, <2>2, <2>3 DEF TypeOK, Goto, Live
  <2>4. CASE Start(c) \/ Acquire(c) \/ CancelWaiting(c) \/ Lookup(c) \/ Configure(c)
    BY <2>4, WindowFacts DEF Start, Acquire, CancelWaiting, Lookup, Configure, Locked, Fresh
  <2>5. CASE Create(c)
    BY <2>5 DEF Create, Locked, Unlock
  <2>6. CASE NewWindow(c)
    BY <2>6, WindowFacts DEF NewWindow, Unlock, Fresh, Locked
  <2>7. CASE SessionVanished(c) \/ Interrupted(c)
    BY <2>7, WindowFacts DEF SessionVanished, Interrupted, Raise, Unlock, Fresh, Locked
  <2>8. CASE KillWindow(c)
    <3>1. w # Victim(c)
      <4>1. Victim(c) \in Windows BY WindowFacts DEF Victim
      <4> QED BY <2>8, <4>1, Kills DEF KillWindow
    <3>2. CASE pc[c] = "drop"
      BY <2>8, <3>1, <3>2 DEF KillWindow, AfterKill, Unlock, Victim
    <3>3. CASE pc[c] = "undo_boot"
      <4>1. w # Boot(c) BY <3>1, <3>3 DEF Victim
      <4>2. w \in known BY <2>8 DEF KillWindow
      <4>3. w \notin Live BY <1>2, <3>3, <4>1, <4>2 DEF Undone
      <4> QED BY <2>8, <4>2, <4>3, <3>3 DEF NewWindow
    <3>4. CASE pc[c] = "cleanup"
      BY <2>8, <3>1, <3>4, WindowFacts DEF KillWindow, Victim, Locked, NewWindow
    <3>5. CASE pc[c] = "undo_ssh"
      BY <2>8, <3>5 DEF KillWindow, AfterKill, Locked
    <3> QED BY <2>8, <3>2, <3>3, <3>4, <3>5 DEF KillWindow
  <2>9. CASE CancelDrop(c)
    BY <2>9 DEF CancelDrop, Locked
  <2>10. CASE CancelUndo(c)
    <3>1. CASE pc[c] = "undo_ssh"
      <4>1. w # Ssh(c) BY <2>10, <3>1 DEF CancelUndo, Victim
      <4>2. pc[c] = "undo_ssh" => cancels[c] > 0 BY DEF Undone
      <4>3. cancels[c] \in Nat BY BoundsAssumption
      <4>4. cancels'[c] = cancels[c] + 1 BY <2>10 DEF CancelUndo, Cancelled
      <4> QED BY <3>1, <4>1, <4>2, <4>3, <4>4
    <3>2. CASE pc[c] = "undo_boot"
      <4>1. w # Boot(c) BY <2>10, <3>2 DEF CancelUndo, Victim
      <4>2. w \in known /\ place' = place BY <2>10 DEF CancelUndo, tmux
      <4> QED BY <1>2, <3>2, <4>1, <4>2 DEF Undone
    <3>3. CASE pc[c] = "cleanup"
      <4>1. w # Ssh(c) BY <2>10, <3>3 DEF CancelUndo, Victim
      <4>2. w \in known /\ place' = place BY <2>10 DEF CancelUndo, tmux
      <4> QED BY <3>3, <4>1, <4>2, WindowFacts DEF Locked
    <3> QED BY <2>10, <3>1, <3>2, <3>3 DEF CancelUndo
  <2>11. CASE Register(c) \/ LoginFails(c) \/ CancelLogin(c)
    <3>1. /\ pc[c] = "login" /\ place' = place /\ known' = known
          /\ pc'[c] = "cleanup" \/ c \in registered'
      BY <2>11 DEF Register, LoginFails, CancelLogin, WithCleanup, tmux
    <3> QED BY <3>1 DEF Locked
  <2>12. CASE Disconnect(c)
    <3>1. place'[Ssh(c)] = NoOne BY <2>12, Kills, WindowFacts DEF Disconnect
    <3> QED BY <2>12, <3>1, WindowFacts DEF Disconnect, Locked, NewWindow
  <2>13. CASE ClientExits(c)
    BY <2>13, WindowFacts DEF ClientExits, Locked
  <2> QED BY <2>4, <2>5, <2>6, <2>7, <2>8, <2>9, <2>10, <2>11, <2>12, <2>13
          DEF Progress, CommandFails, CancelCommand
<1> QED BY <1>3, <1>4

\* Each window that connect knows of stays accounted for.
LEMMA AccountedStep == IInv /\ [Next]_vars => KnownWindowsAccounted'
<1> SUFFICES ASSUME IInv, [Next]_vars,
                    NEW w \in Windows, place'[w] # NoOne, w \in known' \ missed'
             PROVE  AccountedFor(w)'
  BY DEF KnownWindowsAccounted, AccountedFor, Live
<1> USE DEF IInv
<1>1. ASSUME NEW c \in Connects, ConnectStep(c)
      PROVE  AccountedFor(w)'
  <2>1. CASE Owner(w) = c BY <1>1, <2>1, OwnWindows
  <2>2. CASE Owner(w) # c
    <3>1. Owner(w) \in Connects \ {c} /\ w \notin {Boot(c), Ssh(c)}
      BY <2>2, WindowFacts DEF Boot, Ssh, Owner
    <3>2. w \in known \ missed
      BY <1>1, <3>1, Framed
    <3>3. place[w] # NoOne
      <4> SUFFICES ASSUME place[w] = NoOne PROVE FALSE OBVIOUS
      <4>1. PICK d \in Connects :
              \/ w = Boot(d) /\ pc[d] = "create" /\ pc'[d] # "create"
              \/ w = Ssh(d) /\ pc[d] = "newwin" /\ pc'[d] # "newwin"
        BY Growth
      <4> QED BY <3>2, <4>1 DEF Fresh
    <3>4. AccountedFor(w)
      BY <3>2, <3>3 DEF KnownWindowsAccounted, AccountedFor, Live
    <3> QED BY <1>1, <3>1, <3>4, Framed DEF AccountedFor
  <2> QED BY <2>1, <2>2
<1>2. ASSUME NEW v \in Windows, BackgroundKill(v) PROVE AccountedFor(w)'
  <2>1. Cleanup(v) /\ w # v /\ known' = known
    BY <1>2, Kills DEF BackgroundKill
  <2>2. place[w] # NoOne /\ w \notin missed
    BY <2>1 DEF Cleanup, Killed, TypeOK, tmux
  <2>3. AccountedFor(w)
    BY <2>1, <2>2 DEF KnownWindowsAccounted, AccountedFor, Live
  <2> QED BY <1>2, <2>1, <2>3 DEF AccountedFor, BackgroundKill
<1>3. CASE ServerExits \/ UNCHANGED vars
  BY <1>3 DEF ServerExits, vars, tmux, KnownWindowsAccounted, AccountedFor, Live
<1> QED BY <1>1, <1>2, <1>3 DEF Next

\* The invariant is inductive.
LEMMA Invariance == Spec => []IInv
<1>1. Init => IInv
  <2> SUFFICES ASSUME Init PROVE IInv OBVIOUS
  <2>1. TypeOK BY BoundsAssumption DEF Init, TypeOK, PCs
  <2>2. Guarded /\ Targeted /\ Fresh /\ Undone
    BY NoOneAssumption DEF Init, Guarded, Targeted, Fresh, Undone, Locked
  <2>3. NoDuplicateSession /\ KnownWindowsAccounted
    BY DEF Init, NoDuplicateSession, KnownWindowsAccounted
  <2> QED BY <2>1, <2>2, <2>3 DEF IInv
<1>2. IInv /\ [Next]_vars => IInv'
  BY TypeStep, GuardedStep, TargetedStep, FreshStep, UndoneStep, NoDuplicateStep,
     AccountedStep DEF IInv
<1> QED BY <1>1, <1>2, PTL DEF Spec

(* The theorems                                                            *)

\* Type correctness.
THEOREM TypeCorrect == Spec => []TypeOK
BY Invariance, PTL DEF IInv

\* A registered connection's window was created in its own host's session,
\* behind the raised history limit: what set-option and new-window are told
\* names that very session as long as the connect holds the lock.
THEOREM OwnSession == Spec => []WindowInOwnSession
<1>1. IInv => WindowInOwnSession
  BY DEF IInv, TypeOK, Targeted, WindowInOwnSession
<1> QED BY <1>1, Invariance, PTL

\* Nobody else creates a session between a connect's list-sessions and its
\* new-session.
THEOREM Exclusive == Spec => []NoDuplicateSession
BY Invariance, PTL DEF IInv

\* Whatever fails, connect leaves no window behind that it knew of, unless
\* the very kill of that window failed, or the call was cancelled a second
\* time while it undid its session: then the placeholder is forgotten.
THEOREM NoWindowForgotten == Spec => []KnownWindowsAccounted
BY Invariance, PTL DEF IInv
=============================================================================
