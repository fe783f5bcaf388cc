-------------------------- MODULE WriteFileProofs --------------------------
(***************************************************************************)
(* Proofs about WriteFile, for any number of chunks, faults, cancellations *)
(* and foreign changes.                                                    *)
(***************************************************************************)
EXTENDS WriteFile, TLAPS

\* Some name leads to the new content.
Ours == \E p \in Places : file[p] = "ours"

\* Stages before the first byte of the payload is typed.
Early == {"prepare", "startup"}

\* Where the receiver is once it has the whole payload and nothing failed.
Commits == {"verify", "snapshot", "fill", "check", "swap", "linked", "unlink", "rename",
            "recheck", "done"}

Left == {"exit", "gone"}

Recovering == {"settle", "repair", "unwind"}

\* No piece is read that was not typed.
Accounted ==
    /\ pc = "prepare" => stage = "prepare" /\ rx = "none"
    /\ pc = "startup" => stage = "startup"
    /\ pc = "transfer" => stage = "transfer" /\ sent <= Chunks /\ got + input <= sent
    /\ got + input <= Chunks + 1
    /\ stage \in Early => input = 0 /\ got = 0 /\ sent = 0

\* A receiver that has everything has nothing more to come, and what it
\* verified is whole.
Fed ==
    /\ rx \in Commits \/ (rx = "restore" /\ error = None) =>
           stage \notin Early /\ pc # "transfer"
    /\ rx \in Commits \ {"verify"} => intact

\* The receiver's error and its replace_started tell what it did, but for
\* the moment between os.link and the assignment.
Honest ==
    /\ rx \in Commits \cup {"none", "boot", "receiving"} => error = None
    /\ rx = "failing" => error # None
    /\ started => error # "unchanged"
    /\ started => rx \in {"rename", "unlink", "recheck", "done", "failing"} \cup Left
    /\ rx \in {"rename", "unlink", "recheck", "done"} => started
    /\ rx = "rename" => snap.kind # "missing"
    /\ Ours => stage \notin Early
    /\ Ours /\ ~started => rx \in {"linked", "failing"} \cup Left

\* What was reported was read off the screen, and a receiver that errs about
\* itself was interrupted by a client that does not read it any more.
Marked ==
    /\ "ERROR" \in screen => rx \in Left /\ error # None
    /\ pc = "settle" => "ERROR" \in screen
    /\ typed = 0 /\ sig => pc \in Recovering \cup {"probe", "end"}
    /\ Ours /\ error = "unchanged" /\ typed = 0 => pc \in {"repair", "unwind", "probe", "end"}
    /\ reported = "unchanged" => pc = "end" /\ (stage \in Early \/ rx \in Left)

\* The terminal is clean behind a receiver that committed, and behind a
\* recovery that succeeded.
Clean ==
    /\ rx \in Commits => tty = "sane" /\ input = 0
    /\ rx \in Left /\ code = 0 =>
           tty = "sane" /\ input = 0 /\ stage \notin Early /\ pc # "transfer"
    /\ "EXIT" \in screen => rx = "gone"
    /\ pc \in Recovering /\ ccs > 0 => input = 0
    /\ pc = "probe" => Gone /\ tty = "sane" /\ input = 0
    /\ outcome # None \/ recovered => pc = "end"

IInv ==
    /\ TypeOK /\ NeverTorn /\ UnchangedMeansUnchanged /\ CleanPaneAtEnd
    /\ Accounted /\ Fed /\ Honest /\ Marked /\ Clean

(* The induction: actions that need a proof of their own                   *)

\* os.link creates the destination only where nothing is.
LEMMA LinkStep == IInv /\ Link => IInv'
<1> SUFFICES ASSUME IInv, Link PROVE IInv' OBVIOUS
<1> USE ChunksAssumption, TargetsAssumption, NoneAssumption, BoundsAssumption
        DEF IInv, TypeOK, FilesOK, ClientOK, TerminalOK, ReceiverOK, BoundsOK,
           NeverTorn, UnchangedMeansUnchanged, CleanPaneAtEnd, Accounted, Fed,
           Honest, Marked, Clean, Ours, Early, Commits, Left, Recovering,
           Gone, Places, Contents, Link, fs, client, terminal, bounds, NoFile,
           World, Entry, Payload, Abort, MustCreate, At
<1>1. FilesOK' OBVIOUS
<1>2. ClientOK' OBVIOUS
<1>3. TerminalOK' OBVIOUS
<1>4. ReceiverOK' OBVIOUS
<1>5. BoundsOK' OBVIOUS
<1>6. TypeOK' BY <1>1, <1>2, <1>3, <1>4, <1>5
<1>7. (NeverTorn /\ UnchangedMeansUnchanged /\ CleanPaneAtEnd)' OBVIOUS
<1>8. (Accounted /\ Fed)' OBVIOUS
<1>9. (Honest /\ Marked /\ Clean)' OBVIOUS
<1> QED BY <1>6, <1>7, <1>8, <1>9

\* os.replace installs the payload at the snapshot's destination.
LEMMA RenameStep == IInv /\ Rename => IInv'
<1> SUFFICES ASSUME IInv, Rename PROVE IInv' OBVIOUS
<1> USE ChunksAssumption, TargetsAssumption, NoneAssumption, BoundsAssumption
        DEF IInv, TypeOK, FilesOK, ClientOK, TerminalOK, ReceiverOK, BoundsOK,
           NeverTorn, UnchangedMeansUnchanged, CleanPaneAtEnd, Accounted, Fed,
           Honest, Marked, Clean, Ours, Early, Commits, Left, Recovering,
           Gone, Places, Contents, Rename, client, terminal, bounds, World,
           Step, Destination, Payload, At
<1>1. FilesOK' OBVIOUS
<1>2. ClientOK' OBVIOUS
<1>3. TerminalOK' OBVIOUS
<1>4. ReceiverOK' OBVIOUS
<1>5. BoundsOK' OBVIOUS
<1>6. TypeOK' BY <1>1, <1>2, <1>3, <1>4, <1>5
<1>7. (NeverTorn /\ UnchangedMeansUnchanged /\ CleanPaneAtEnd)' OBVIOUS
<1>8. (Accounted /\ Fed)' OBVIOUS
<1>9. (Honest /\ Marked /\ Clean)' OBVIOUS
<1> QED BY <1>6, <1>7, <1>8, <1>9

\* A signal: the error it leaves tells the truth, or the client has given up.
LEMMA InterruptedStep == IInv /\ Interrupted => IInv'
<1> SUFFICES ASSUME IInv, Interrupted PROVE IInv' OBVIOUS
<1> USE ChunksAssumption, TargetsAssumption, NoneAssumption, BoundsAssumption
        DEF IInv, TypeOK, FilesOK, ClientOK, TerminalOK, ReceiverOK, BoundsOK,
           NeverTorn, UnchangedMeansUnchanged, CleanPaneAtEnd, Accounted, Fed,
           Honest, Marked, Clean, Ours, Early, Commits, Left, Recovering,
           Gone, Places, Contents, Interrupted, fs, client, terminal, bounds,
           Abort
<1>1. FilesOK' OBVIOUS
<1>2. ClientOK' OBVIOUS
<1>3. TerminalOK' OBVIOUS
<1>4. ReceiverOK' OBVIOUS
<1>5. BoundsOK' OBVIOUS
<1>6. TypeOK' BY <1>1, <1>2, <1>3, <1>4, <1>5
<1>7. (NeverTorn /\ UnchangedMeansUnchanged /\ CleanPaneAtEnd)' OBVIOUS
<1>8. (Accounted /\ Fed)' OBVIOUS
<1>9. (Honest /\ Marked /\ Clean)' OBVIOUS
<1> QED BY <1>6, <1>7, <1>8, <1>9

\* A killed receiver leaves no marker and a non-zero exit code.
LEMMA KilledStep == IInv /\ Killed => IInv'
<1> SUFFICES ASSUME IInv, Killed PROVE IInv' OBVIOUS
<1> USE ChunksAssumption, TargetsAssumption, NoneAssumption, BoundsAssumption
        DEF IInv, TypeOK, FilesOK, ClientOK, TerminalOK, ReceiverOK, BoundsOK,
           NeverTorn, UnchangedMeansUnchanged, CleanPaneAtEnd, Accounted, Fed,
           Honest, Marked, Clean, Ours, Early, Commits, Left, Recovering,
           Gone, Places, Contents, Killed, fs, client, terminal, Fault
<1>1. FilesOK' OBVIOUS
<1>2. ClientOK' OBVIOUS
<1>3. TerminalOK' OBVIOUS
<1>4. ReceiverOK' OBVIOUS
<1>5. BoundsOK' OBVIOUS
<1>6. TypeOK' BY <1>1, <1>2, <1>3, <1>4, <1>5
<1>7. (NeverTorn /\ UnchangedMeansUnchanged /\ CleanPaneAtEnd)' OBVIOUS
<1>8. (Accounted /\ Fed)' OBVIOUS
<1>9. (Honest /\ Marked /\ Clean)' OBVIOUS
<1> QED BY <1>6, <1>7, <1>8, <1>9

\* Typing the payload: the receiver cannot be further than what was sent.
LEMMA PasteStep == IInv /\ Paste => IInv'
<1> SUFFICES ASSUME IInv, Paste PROVE IInv' OBVIOUS
<1> USE DEF IInv, TypeOK
<1>1. /\ pc = "transfer" /\ stage = "transfer" /\ sent <= Chunks /\ sent' = sent + 1
      /\ input' \in {input, input + 1}
      /\ IF sent = Chunks THEN stage' = "finish" /\ pc' = "finish"
                          ELSE stage' = "transfer" /\ pc' = "transfer"
      /\ UNCHANGED <<fs, ccs, tty, receiver, screen, sig, outcome, reported, recovered,
                     probing>>
  BY DEF Paste, Goto, ClientUnchanged, Accounted
<1>2. intact' \in BOOLEAN /\ BoundsOK' /\ typed' = typed
  <2>1. CASE UNCHANGED <<intact, bounds>>
    <3>1. intact' = intact /\ typed' = typed
      BY <2>1 DEF bounds
    <3>2. BoundsOK'
      BY <2>1 DEF bounds, BoundsOK
    <3> QED BY <3>1, <3>2 DEF TerminalOK
  <2>2. CASE intact' = FALSE /\ Fault
    <3>1. BoundsOK'
      BY <2>2, BoundsAssumption DEF Fault, BoundsOK
    <3>2. intact' \in BOOLEAN /\ typed' = typed
      BY <2>2 DEF Fault
    <3> QED BY <3>1, <3>2
  <2>3. UNCHANGED <<intact, bounds>> \/ (intact' = FALSE /\ Fault)
    BY DEF Paste
  <2> QED BY <2>1, <2>2, <2>3
<1>3. /\ got + input' <= sent' /\ sent' <= Chunks + 1
      /\ sent' \in 0..Chunks + 1 /\ input' \in 0..Chunks + 1 /\ got + input' <= Chunks + 1
      /\ sent # Chunks => sent' <= Chunks
  <2>1. sent \in Nat /\ input \in Nat /\ got \in Nat /\ Chunks \in Nat
    BY ChunksAssumption DEF TerminalOK
  <2>2. got + input <= sent
    BY <1>1 DEF Accounted
  <2>3. sent' = sent + 1 /\ sent <= Chunks /\ (input' = input \/ input' = input + 1)
    BY <1>1
  <2>4. CASE input' = input
    BY <2>1, <2>2, <2>3, <2>4
  <2>5. CASE input' = input + 1
    BY <2>1, <2>2, <2>3, <2>5
  <2> QED BY <2>3, <2>4, <2>5
<1>4. TypeOK'
  BY <1>1, <1>2, <1>3 DEF FilesOK, ClientOK, TerminalOK, ReceiverOK, fs, receiver
<1>5. Accounted'
  BY <1>1, <1>3 DEF Accounted, Early, receiver
<1>6. Fed'
  BY <1>1 DEF Fed, Early, Commits, receiver
<1>7. (NeverTorn /\ UnchangedMeansUnchanged /\ CleanPaneAtEnd)'
  BY <1>1, <1>2, NoneAssumption DEF NeverTorn, UnchangedMeansUnchanged, CleanPaneAtEnd,
     Marked, Clean, fs
<1>8. (Honest /\ Marked /\ Clean)'
  BY <1>1, <1>2, NoneAssumption DEF Honest, Marked, Clean, Fed, Ours, Early, Commits, Left,
     Recovering, Gone, fs, receiver
<1> QED BY <1>4, <1>5, <1>6, <1>7, <1>8

\* A failed paste may have typed one piece more than the client counts.
LEMMA PasteFailsStep == IInv /\ PasteFails => IInv'
<1> SUFFICES ASSUME IInv, PasteFails PROVE IInv' OBVIOUS
<1> USE DEF IInv, TypeOK
<1>1. /\ pc = "transfer" /\ stage = "transfer"
      /\ stage' = stage /\ pc' = "repair" /\ ccs' = 0 /\ input' \in {input, input + 1}
      /\ UNCHANGED <<fs, sent, intact, tty, receiver, screen, sig, outcome, reported,
                     recovered, probing>>
  BY DEF PasteFails, Raise, Goto, ClientUnchanged, Accounted
<1>2. got + input' <= Chunks + 1 /\ input' \in 0..Chunks + 1
  <2>1. sent \in Nat /\ input \in Nat /\ got \in Nat /\ Chunks \in Nat
    BY ChunksAssumption DEF TerminalOK
  <2>2. got + input <= sent /\ sent <= Chunks
    BY <1>1 DEF Accounted
  <2>3. input' = input \/ input' = input + 1
    BY <1>1
  <2>4. CASE input' = input
    BY <2>1, <2>2, <2>4
  <2>5. CASE input' = input + 1
    BY <2>1, <2>2, <2>5
  <2> QED BY <2>3, <2>4, <2>5
<1>3. BoundsOK'
  BY BoundsAssumption DEF BoundsOK, PasteFails, Fault
<1>4. TypeOK'
  BY <1>1, <1>2, <1>3 DEF FilesOK, ClientOK, TerminalOK, ReceiverOK, fs, receiver
<1>5. (Accounted /\ Fed)'
  BY <1>1, <1>2 DEF Accounted, Fed, Early, Commits, receiver
<1>6. (NeverTorn /\ UnchangedMeansUnchanged /\ CleanPaneAtEnd)'
  BY <1>1, NoneAssumption DEF NeverTorn, UnchangedMeansUnchanged, CleanPaneAtEnd, Marked,
     Clean, fs
<1>7. (Honest /\ Marked /\ Clean)'
  BY <1>1, NoneAssumption DEF Honest, Marked, Clean, Fed, Ours, Early, Commits, Left,
     Recovering, Gone, fs, receiver, PasteFails, Fault
<1> QED BY <1>4, <1>5, <1>6, <1>7

\* Exit code 0 is only left behind a commit.
LEMMA ReturnStep == IInv /\ Return => IInv'
<1> SUFFICES ASSUME IInv, Return PROVE IInv' OBVIOUS
<1> USE ChunksAssumption, TargetsAssumption, NoneAssumption, BoundsAssumption
        DEF IInv, TypeOK, FilesOK, ClientOK, TerminalOK, ReceiverOK, BoundsOK,
           NeverTorn, UnchangedMeansUnchanged, CleanPaneAtEnd, Accounted, Fed,
           Honest, Marked, Clean, Ours, Early, Commits, Left, Recovering,
           Gone, Places, Contents, Return, fs, terminal, receiver, bounds, End,
           Answer
<1>1. FilesOK' OBVIOUS
<1>2. ClientOK' OBVIOUS
<1>3. TerminalOK' OBVIOUS
<1>4. ReceiverOK' OBVIOUS
<1>5. BoundsOK' OBVIOUS
<1>6. TypeOK' BY <1>1, <1>2, <1>3, <1>4, <1>5
<1>7. (NeverTorn /\ UnchangedMeansUnchanged /\ CleanPaneAtEnd)' OBVIOUS
<1>8. (Accounted /\ Fed)' OBVIOUS
<1>9. (Honest /\ Marked /\ Clean)' OBVIOUS
<1> QED BY <1>6, <1>7, <1>8, <1>9

\* A recovery ends with nothing typed ahead and a sane terminal.
LEMMA RecoverStep == IInv /\ Recover => IInv'
<1> SUFFICES ASSUME IInv, Recover PROVE IInv' OBVIOUS
<1> USE DEF IInv, TypeOK
<1>1. input = 0 /\ input' = 0 /\ tty' = "sane" /\ Gone'
  BY DEF Recover, Clean, Recovering, Gone, receiver
<1>2. UNCHANGED <<fs, stage, ccs, sent, intact, receiver, screen, sig, bounds>>
  BY DEF Recover
<1>3. /\ pc' \in {"probe", "end"}
      /\ pc' = "probe" => outcome' = outcome /\ reported' = reported /\ recovered' = recovered
      /\ outcome' \in {outcome, "failed", "cancelled"} /\ recovered' \in BOOLEAN
      /\ probing' = probing
      /\ reported' # reported => (pc = "settle" /\ reported' = error) \/ reported' = None
  BY DEF Recover, After, End, Answer, Goto, ClientUnchanged, ClientOK
<1>4. ClientOK'
  BY <1>2, <1>3 DEF ClientOK, ReceiverOK
<1>5. TypeOK'
  BY <1>1, <1>2, <1>4, ChunksAssumption
     DEF FilesOK, TerminalOK, ReceiverOK, BoundsOK, fs, receiver, bounds
<1>6. (Accounted /\ Fed)'
  BY <1>1, <1>2, <1>3, ChunksAssumption DEF Accounted, Fed, TerminalOK, receiver, Early, Commits
<1>7. (NeverTorn /\ CleanPaneAtEnd)'
  BY <1>1, <1>2, <1>3 DEF NeverTorn, CleanPaneAtEnd, fs
<1>8. (UnchangedMeansUnchanged /\ Marked)'
  BY <1>2, <1>3, NoneAssumption DEF UnchangedMeansUnchanged, Marked, Recover, Recovering,
     Ours, fs, receiver, bounds, Left
<1>9. (Honest /\ Clean)'
  BY <1>1, <1>2, <1>3 DEF Honest, Clean, Recover, Recovering, Ours, Early, Commits, Left,
     Gone, fs, receiver
<1> QED BY <1>5, <1>6, <1>7, <1>8, <1>9

\* A recovery that failed reports what the receiver or the stage said.
LEMMA RecoveryFailsStep == IInv /\ RecoveryFails => IInv'
<1> SUFFICES ASSUME IInv, RecoveryFails PROVE IInv' OBVIOUS
<1> USE DEF IInv, TypeOK
<1>1. /\ UNCHANGED <<fs, stage, ccs, sent, terminal, receiver, screen, sig, bounds>>
      /\ pc \in Recovering /\ pc' = "end" /\ recovered' = FALSE
      /\ outcome' \in {"failed", "cancelled"} /\ probing' = probing
  BY DEF RecoveryFails, After, End, Answer, Recovering
<1>2. \/ reported' = None
      \/ pc = "settle" /\ reported' = error
      \/ pc = "repair" /\ reported' = ByStage
  BY DEF RecoveryFails, After, End, Answer
<1>3. ClientOK'
  BY <1>1, <1>2 DEF ClientOK, ReceiverOK, ByStage
<1>4. TypeOK'
  BY <1>1, <1>3 DEF FilesOK, TerminalOK, ReceiverOK, BoundsOK, fs, terminal, receiver, bounds
<1>5. (Accounted /\ Fed)'
  BY <1>1 DEF Accounted, Fed, terminal, receiver, Early, Commits
<1>6. (NeverTorn /\ CleanPaneAtEnd)'
  BY <1>1, NoneAssumption DEF NeverTorn, CleanPaneAtEnd, Gone, receiver, fs
<1>7. UnchangedMeansUnchanged'
  BY <1>1, <1>2, NoneAssumption DEF UnchangedMeansUnchanged, Marked, Honest, Ours, ByStage,
     Early, fs, bounds
<1>8. Marked'
  BY <1>1, <1>2, NoneAssumption DEF Marked, Recovering, Ours, ByStage, Early, Left, fs,
     receiver, bounds
<1>9. (Honest /\ Clean)'
  BY <1>1 DEF Honest, Clean, Recovering, Ours, Early, Commits, Left, Gone, fs, terminal, receiver
<1> QED BY <1>4, <1>5, <1>6, <1>7, <1>8, <1>9

\* The probe runs at a clean prompt.
LEMMA ProbeStep == IInv /\ Probe => IInv'
<1> SUFFICES ASSUME IInv, Probe PROVE IInv' OBVIOUS
<1> USE ChunksAssumption, TargetsAssumption, NoneAssumption, BoundsAssumption
        DEF IInv, TypeOK, FilesOK, ClientOK, TerminalOK, ReceiverOK, BoundsOK,
           NeverTorn, UnchangedMeansUnchanged, CleanPaneAtEnd, Accounted, Fed,
           Honest, Marked, Clean, Ours, Early, Commits, Left, Recovering,
           Gone, Places, Contents, Probe, Confirmed, fs, terminal, receiver, bounds,
           At, End, Answer, ByStage
<1>1. FilesOK' OBVIOUS
<1>2. ClientOK' OBVIOUS
<1>3. TerminalOK' OBVIOUS
<1>4. ReceiverOK' OBVIOUS
<1>5. BoundsOK' OBVIOUS
<1>6. TypeOK' BY <1>1, <1>2, <1>3, <1>4, <1>5
<1>7. (NeverTorn /\ UnchangedMeansUnchanged /\ CleanPaneAtEnd)' OBVIOUS
<1>8. (Accounted /\ Fed)' OBVIOUS
<1>9. (Honest /\ Marked /\ Clean)' OBVIOUS
<1> QED BY <1>6, <1>7, <1>8, <1>9

\* Cancellation, with the paste that may have gone through.
LEMMA CancelStep == IInv /\ Cancel => IInv'
<1> SUFFICES ASSUME IInv, Cancel PROVE IInv' OBVIOUS
<1> USE DEF IInv, TypeOK
<1>1. UNCHANGED <<fs, stage, sent, intact, tty, got, snap, started, error, code, screen,
                  sig, faults, typed, foreign>>
  BY DEF Cancel
<1>2. /\ pc # "end" /\ outcome = None /\ ~recovered
      /\ pc' \in {"unwind", "end"} /\ ccs' \in {0, ccs}
      /\ pc' = "unwind" => ccs' = 0 /\ outcome' = outcome /\ reported' = reported
      /\ pc' = "end" =>
             pc \in {"repair", "probe", "unwind"} /\ outcome' = "cancelled" /\ reported' = None
      /\ ~recovered' /\ probing' \in BOOLEAN
      /\ probing' # probing => pc = "probe" /\ pc' = "end"
  BY DEF Cancel, Goto, ClientUnchanged, Answer, Clean, ClientOK
<1>3. rx' = rx \/ (pc = "prepare" /\ rx = "none" /\ rx' = "boot")
  BY DEF Cancel, Accounted
<1>4. input' = input \/ (pc = "transfer" /\ input' = input + 1)
  BY DEF Cancel
<1>5. got + input' <= Chunks + 1 /\ input' \in 0..Chunks + 1
  BY <1>4, ChunksAssumption DEF TerminalOK, Accounted
<1>6. BoundsOK'
  BY <1>1, BoundsAssumption DEF Cancel, BoundsOK
<1>7. ClientOK'
  <2>1. ClientOK /\ stage' = stage BY <1>1
  <2>2. ccs' \in 0..2 BY <1>2, <2>1 DEF ClientOK
  <2>3. reported' \in {"unchanged", "unknown", None} BY <1>2, <2>1 DEF ClientOK
  <2>4. recovered' \in BOOLEAN
    BY DEF Cancel, Goto, ClientUnchanged, Answer, ClientOK
  <2> QED BY <1>2, <2>1, <2>2, <2>3, <2>4 DEF ClientOK
<1>8. TypeOK'
  BY <1>1, <1>3, <1>5, <1>6, <1>7 DEF FilesOK, TerminalOK, ReceiverOK, fs
<1>9. (Accounted /\ Fed)'
  BY <1>1, <1>2, <1>3, <1>4, <1>5 DEF Accounted, Fed, Early, Commits
<1>10. (NeverTorn /\ CleanPaneAtEnd)'
  <2>1. NeverTorn' BY <1>1 DEF NeverTorn, fs
  <2>2. ~probing BY <1>2, NoneAssumption DEF CleanPaneAtEnd
  <2>3. CASE probing'
    <3>1. pc = "probe" /\ outcome' = "cancelled" BY <1>2, <2>2, <2>3
    <3>2. Gone' BY <1>3, <3>1 DEF Clean, Gone
    <3> QED BY <1>2, <2>1, <3>1, <3>2 DEF CleanPaneAtEnd
  <2>4. CASE ~probing'
    BY <1>2, <2>1, <2>4, NoneAssumption DEF CleanPaneAtEnd
  <2> QED BY <2>3, <2>4
<1>11. UnchangedMeansUnchanged'
  BY <1>1, <1>2, NoneAssumption DEF UnchangedMeansUnchanged, fs
<1>12. Marked'
  <2>1. ("ERROR" \in screen => rx \in Left /\ error # None)'
    BY <1>1, <1>3 DEF Marked, Left
  <2>2. (Ours /\ error = "unchanged" /\ typed = 0 => pc \in {"repair", "unwind", "probe", "end"})'
    BY <1>1, <1>2 DEF Marked, fs
  <2>3. (reported = "unchanged" => pc = "end" /\ (stage \in Early \/ rx \in Left))'
    BY <1>1, <1>2, <1>3, NoneAssumption DEF Marked
  <2> QED BY <1>1, <1>2, <2>1, <2>2, <2>3 DEF Marked, Recovering
<1>13. Honest'
  BY <1>1, <1>3 DEF Honest, Ours, Early, Commits, Left, fs
<1>14. Clean'
  BY <1>1, <1>2, <1>3, <1>4 DEF Clean, Fed, Recovering, Early, Commits, Left, Gone
<1> QED BY <1>8, <1>9, <1>10, <1>11, <1>12, <1>13, <1>14

\* The end of a probe changes nothing else.
LEMMA ProbeEndsStep == IInv /\ ProbeEnds => IInv'
<1> SUFFICES ASSUME IInv, ProbeEnds PROVE IInv' OBVIOUS
<1> USE DEF IInv, TypeOK
<1>1. /\ UNCHANGED <<file, link, seen, landed>> /\ UNCHANGED <<input, intact, tty>>
      /\ UNCHANGED <<rx, got, snap, started, error, code, screen, sig>>
      /\ UNCHANGED <<pc, stage, ccs, outcome, reported, recovered, sent>>
      /\ UNCHANGED <<faults, typed, foreign, cancels>>
      /\ probing' = FALSE
  BY DEF ProbeEnds, fs, terminal, receiver, bounds
<1>2. TypeOK'
  <2>1. FilesOK' BY <1>1 DEF FilesOK
  <2>2. ClientOK' BY <1>1 DEF ClientOK
  <2>3. TerminalOK' BY <1>1 DEF TerminalOK
  <2>4. ReceiverOK' BY <1>1 DEF ReceiverOK
  <2>5. BoundsOK' BY <1>1 DEF BoundsOK
  <2> QED BY <2>1, <2>2, <2>3, <2>4, <2>5
<1>3. (NeverTorn /\ UnchangedMeansUnchanged /\ CleanPaneAtEnd)'
  BY <1>1 DEF NeverTorn, UnchangedMeansUnchanged, CleanPaneAtEnd, Gone
<1>4. (Accounted /\ Fed)'
  BY <1>1 DEF Accounted, Fed
<1>5. Ours' = Ours /\ Gone' = Gone
  BY <1>1 DEF Ours, Gone
<1>6. (Honest /\ Marked /\ Clean)'
  BY <1>1, <1>5 DEF Honest, Marked, Clean
<1> QED BY <1>2, <1>3, <1>4, <1>6

\* Foreign changes bring neither our content nor a garbled one.
LEMMA ForeignChangeStep == IInv /\ ForeignChange => IInv'
<1> SUFFICES ASSUME IInv, ForeignChange PROVE IInv' OBVIOUS
<1> USE ChunksAssumption, TargetsAssumption, NoneAssumption, BoundsAssumption
        DEF IInv, TypeOK, FilesOK, ClientOK, TerminalOK, ReceiverOK, BoundsOK,
           NeverTorn, UnchangedMeansUnchanged, CleanPaneAtEnd, Accounted, Fed,
           Honest, Marked, Clean, Ours, Early, Commits, Left, Recovering,
           Gone, Places, Contents, ForeignChange, client, terminal, receiver,
           World, At
<1>1. FilesOK'
  <2>1. CASE \E p \in Places, c \in {None, "theirs"} :
                World([file EXCEPT ![p] = c], IF p = "path" THEN None ELSE link)
    <3>1. PICK p \in Places, c \in {None, "theirs"} :
                World([file EXCEPT ![p] = c], IF p = "path" THEN None ELSE link)
      BY <2>1
    <3>2. file' = [file EXCEPT ![p] = c]
      BY <3>1
    <3>3. link' \in Targets \cup {None} /\ seen' \in BOOLEAN /\ landed' \in BOOLEAN
      BY <3>1
    <3> QED BY <3>2, <3>3
  <2>2. CASE \E t \in Targets : World([file EXCEPT !["path"] = None], t)
    BY <2>2
  <2> QED BY <2>1, <2>2
<1>2. ClientOK' OBVIOUS
<1>3. TerminalOK' OBVIOUS
<1>4. ReceiverOK' OBVIOUS
<1>5. BoundsOK' OBVIOUS
<1>6. TypeOK' BY <1>1, <1>2, <1>3, <1>4, <1>5
<1>7. (NeverTorn /\ UnchangedMeansUnchanged /\ CleanPaneAtEnd)' OBVIOUS
<1>8. (Accounted /\ Fed)' OBVIOUS
<1>9. (Honest /\ Marked /\ Clean)' OBVIOUS
<1> QED BY <1>6, <1>7, <1>8, <1>9

(* The induction: all actions                                              *)

\* Every step of the receiver preserves the invariant.
LEMMA ReceiverSteps == IInv /\ ReceiverStep => IInv'
<1> SUFFICES ASSUME IInv, ReceiverStep PROVE IInv' OBVIOUS
<1> USE ChunksAssumption, TargetsAssumption, NoneAssumption, BoundsAssumption
        DEF IInv, TypeOK, FilesOK, ClientOK, TerminalOK, ReceiverOK, BoundsOK,
           NeverTorn, UnchangedMeansUnchanged, CleanPaneAtEnd, Accounted, Fed,
           Honest, Marked, Clean, Ours, Early, Commits, Left, Recovering,
           Gone, Places, Contents
<1>1. CASE Open
  BY <1>1 DEF Open, fs, client, bounds, Step
<1>2. CASE Read
  BY <1>2 DEF Read, fs, client, bounds, Step
<1>3. CASE Restore
  BY <1>3 DEF Restore, fs, client, bounds, Step
<1>4. CASE Verify
  BY <1>4 DEF Verify, fs, client, terminal, bounds, Step, Verified
<1>5. CASE Snapshot
  BY <1>5 DEF Snapshot, fs, client, terminal, bounds, Step, Entry, NoFile
<1>6. CASE Fill
  BY <1>6 DEF Fill, fs, client, terminal, bounds, Step
<1>7. CASE Check
  BY <1>7 DEF Check, fs, client, terminal, bounds, Matches, Abort, Entry,
     NoFile
<1>8. CASE Link
  BY <1>8, LinkStep
<1>9. CASE MarkStarted
  BY <1>9 DEF MarkStarted, fs, client, terminal, bounds, Step, MustCreate
<1>10. CASE Unlink
  BY <1>10 DEF Unlink, fs, client, terminal, bounds, Step
<1>11. CASE Rename
  BY <1>11, RenameStep
<1>12. CASE Recheck
  BY <1>12 DEF Recheck, fs, client, terminal, bounds, Matches, Abort, Entry,
     NoFile
<1>13. CASE Done
  BY <1>13 DEF Done, fs, client, terminal, bounds, Leaves
<1>14. CASE Fail
  BY <1>14 DEF Fail, fs, client, terminal, bounds, Leaves
<1>15. CASE Exit
  BY <1>15 DEF Exit, fs, client, terminal, bounds, Step
<1>16. CASE OsError
  BY <1>16 DEF OsError, fs, client, terminal, Fault, Abort, MustCreate
<1>17. CASE Interrupted
  BY <1>17, InterruptedStep
<1>19. CASE ReceiveFails
  BY <1>19 DEF ReceiveFails, fs, client, terminal, Fault
<1>18. CASE Killed
  BY <1>18, KilledStep
<1> QED BY <1>1, <1>2, <1>3, <1>4, <1>5, <1>6, <1>7, <1>8, <1>9, <1>10, <1>11,
       <1>12, <1>13, <1>14, <1>15, <1>16, <1>17, <1>18, <1>19 DEF ReceiverStep

\* Every step of write_remote_file preserves the invariant.
LEMMA ClientSteps == IInv /\ ClientStep => IInv'
<1> SUFFICES ASSUME IInv, ClientStep PROVE IInv' OBVIOUS
<1> USE ChunksAssumption, TargetsAssumption, NoneAssumption, BoundsAssumption
        DEF IInv, TypeOK, FilesOK, ClientOK, TerminalOK, ReceiverOK, BoundsOK,
           NeverTorn, UnchangedMeansUnchanged, CleanPaneAtEnd, Accounted, Fed,
           Honest, Marked, Clean, Ours, Early, Commits, Left, Recovering,
           Gone, Places, Contents
<1>1. CASE Submit
  BY <1>1 DEF Submit, fs, terminal, bounds, Goto, ClientUnchanged
<1>2. CASE Settle
  BY <1>2 DEF Settle, fs, terminal, receiver, bounds, Goto, ClientUnchanged
<1>3. CASE Ready
  BY <1>3 DEF Ready, fs, terminal, receiver, bounds, Goto, ClientUnchanged
<1>4. CASE Paste
  BY <1>4, PasteStep
<1>5. CASE Acknowledged
  BY <1>5 DEF Acknowledged, fs, terminal, receiver, bounds, AwaitExit, Goto,
     ClientUnchanged
<1>6. CASE Return
  BY <1>6, ReturnStep
<1>7. CASE GiveUp
  BY <1>7 DEF GiveUp, fs, terminal, receiver, bounds, Raise, Awaits, Goto,
     ClientUnchanged
<1>8. CASE TypeControlC
  BY <1>8 DEF TypeControlC, fs, receiver, bounds, Goto, ControlC,
     ClientUnchanged
<1>9. CASE Recover
  BY <1>9, RecoverStep
<1>10. CASE RecoveryFails
  BY <1>10, RecoveryFailsStep
<1>11. CASE Probe
  BY <1>11, ProbeStep
<1> QED BY <1>1, <1>2, <1>3, <1>4, <1>5, <1>6, <1>7, <1>8, <1>9, <1>10, <1>11 DEF ClientStep

\* The invariant holds initially.
LEMMA Initially == Init => IInv
<1> SUFFICES ASSUME Init PROVE IInv OBVIOUS
<1>1. FilesOK /\ \A p \in Places : file[p] \in {None, "old"}
  BY DEF Init, FilesOK, Places, Contents
<1>2. ClientOK
  <2>1. pc = "prepare" /\ stage = "prepare" /\ ccs = 0 /\ outcome = None /\ reported = None
    BY DEF Init
  <2>2. recovered \in BOOLEAN /\ probing \in BOOLEAN
    BY DEF Init
  <2> QED BY <2>1, <2>2 DEF ClientOK
<1>3. TerminalOK
  <2>1. sent \in 0..Chunks + 1 /\ input \in 0..Chunks + 1 /\ got \in 0..Chunks + 1
    BY ChunksAssumption DEF Init
  <2> QED BY <2>1 DEF Init, TerminalOK
<1>4. ReceiverOK
  BY DEF Init, ReceiverOK, NoFile
<1>5. BoundsOK
  BY BoundsAssumption DEF Init, BoundsOK
<1>6. NeverTorn /\ ~Ours
  BY <1>1, NoneAssumption DEF NeverTorn, Ours
<1>7. UnchangedMeansUnchanged /\ CleanPaneAtEnd
  BY NoneAssumption DEF Init, UnchangedMeansUnchanged, CleanPaneAtEnd
<1>8. Accounted /\ Fed
  BY ChunksAssumption DEF Init, Accounted, Fed, Early, Commits
<1>9. Honest
  BY <1>6 DEF Init, Honest, Early, Commits, Left
<1>10. Marked
  BY <1>6, NoneAssumption DEF Init, Marked
<1>11. Clean
  BY NoneAssumption DEF Init, Clean, Commits, Left, Recovering
<1> QED
  BY <1>1, <1>2, <1>3, <1>4, <1>5, <1>6, <1>7, <1>8, <1>9, <1>10, <1>11 DEF IInv, TypeOK

\* Every step, and standing still, preserves the invariant.
LEMMA InductiveStep == IInv /\ [Next]_vars => IInv'
<1> SUFFICES ASSUME IInv, [Next]_vars PROVE IInv' OBVIOUS
<1> USE ChunksAssumption, TargetsAssumption, NoneAssumption, BoundsAssumption
        DEF IInv, TypeOK, FilesOK, ClientOK, TerminalOK, ReceiverOK,
           BoundsOK, NeverTorn, UnchangedMeansUnchanged, CleanPaneAtEnd,
           Accounted, Fed, Honest, Marked, Clean, Ours, Early, Commits,
           Left, Recovering, Gone, Places, Contents
<1>1. CASE ReceiverStep BY <1>1, ReceiverSteps
<1>2. CASE ClientStep BY <1>2, ClientSteps
<1>3. CASE SubmitFails
  BY <1>3 DEF SubmitFails, fs, terminal, Fault, Raise, Goto, ClientUnchanged
<1>4. CASE PasteFails BY <1>4, PasteFailsStep
<1>5. CASE Cancel BY <1>5, CancelStep
<1>6. CASE UserTypesControlC
  BY <1>6 DEF UserTypesControlC, fs, client, receiver, ControlC
<1>7. CASE ForeignChange BY <1>7, ForeignChangeStep
<1>9. CASE ProbeEnds BY <1>9, ProbeEndsStep
<1>8. CASE UNCHANGED vars
  BY <1>8 DEF vars, fs, client, terminal, receiver, bounds
<1> QED BY <1>1, <1>2, <1>3, <1>4, <1>5, <1>6, <1>7, <1>8, <1>9 DEF Next

\* IInv is inductive.
LEMMA Invariance == Spec => []IInv
<1>1. Init => IInv BY Initially
<1>2. IInv /\ [Next]_vars => IInv' BY InductiveStep
<1> QED BY <1>1, <1>2, PTL DEF Spec

\* Of the receiver's steps only os.link and os.replace change a file, and the
\* latter is not reached when nothing was there.
LEMMA CreationStep ==
    ASSUME IInv, Next, rx' # rx, snap.kind = "missing", NEW p \in Places, file[p] # None
    PROVE  file'[p] = file[p]
<1>1. CASE Link
  <2>1. CASE Entry = NoFile
    <3>1. p # "path"
      BY <2>1 DEF Entry, NoFile
    <3>2. file' = [file EXCEPT !["path"] = Payload]
      BY <1>1, <2>1 DEF Link, World
    <3> QED BY <3>1, <3>2 DEF IInv, TypeOK, FilesOK
  <2>2. CASE Entry # NoFile
    BY <1>1, <2>2 DEF Link, fs
  <2> QED BY <2>1, <2>2
<1>2. CASE Rename
  BY <1>2 DEF Rename, Step, IInv, Honest
<1>3. CASE ForeignChange
  BY <1>3 DEF ForeignChange, receiver
<1>4. CASE ReceiverStep /\ ~Link /\ ~Rename
  BY <1>4 DEF ReceiverStep, fs, Open, Read, Restore, Verify, Snapshot, Fill, Check, MarkStarted,
     Unlink, Recheck, Done, Fail, Exit, ReceiveFails, OsError, Interrupted,
     Killed
<1>5. CASE ClientStep \/ SubmitFails \/ PasteFails \/ Cancel \/ UserTypesControlC \/ ProbeEnds
  BY <1>5 DEF ClientStep, fs, Submit, Settle, Ready, Paste, Acknowledged, Return, GiveUp,
     TypeControlC, Recover, RecoveryFails, Probe, SubmitFails, PasteFails, Cancel,
     UserTypesControlC, ProbeEnds
<1> QED BY <1>1, <1>2, <1>3, <1>4, <1>5 DEF Next

(* The theorems                                                            *)

\* Type correctness.
THEOREM TypeCorrect == Spec => []TypeOK
BY Invariance, PTL DEF IInv

\* No name ever leads to a payload that lost bytes on its way: only a
\* receiver that verified the payload comes to link or replace.
THEOREM Atomic == Spec => []NeverTorn
BY Invariance, PTL DEF IInv

\* "unchanged" is never said of a destination that was written, as long as
\* nobody but recover_pane types C-c.
THEOREM UnchangedIsTrue == Spec => []UnchangedMeansUnchanged
BY Invariance, PTL DEF IInv

\* A write that returns ok, or says that the pane recovered, leaves no
\* receiver, a sane terminal and nothing typed ahead; and the only command
\* that can still run is the probe of a failed or cancelled write.
THEOREM PaneIsClean == Spec => []CleanPaneAtEnd
BY Invariance, PTL DEF IInv

\* A file that appears where the write found none is never overwritten.
THEOREM CreationIsExclusive == Spec => CreationKept
<1>1. IInv /\ [Next]_vars =>
        [rx' # rx /\ snap.kind = "missing" =>
            \A p \in Places : file[p] # None => file'[p] = file[p]]_vars
  BY CreationStep
<1> QED BY <1>1, Invariance, PTL DEF Spec, CreationKept

(* WriteFile implements AtomicWrite, and an ok is deserved                 *)

\* The content has a name exactly from os.link or os.replace on.
Landing ==
    /\ Ours => landed
    /\ At(file, link) = "ours" => seen
    /\ seen => landed
    /\ landed => rx \in {"linked", "unlink", "recheck", "done", "failing"} \cup Left
    /\ rx \in {"linked", "unlink", "recheck", "done"} => landed
    /\ rx \in {"linked", "unlink"} => seen
    /\ rx = "recheck" /\ snap.kind # "symlink" => seen

\* How a link can be turned away from the receiver and back again: each
\* stretch of the way costs one foreign change.
Turned ==
    /\ snap.kind = "symlink" => snap.is \in Targets
    /\ rx \in {"fill", "check", "swap", "rename"} /\ snap.kind = "symlink" /\ link # snap.is =>
           foreign > 0
    /\ rx = "recheck" /\ snap.kind = "symlink" /\ ~seen =>
           \/ link # snap.is /\ file[snap.is] = "ours" /\ foreign > 0
           \/ link # snap.is /\ foreign > 1
           \/ foreign > 2

Deserved == landed /\ (seen \/ (snap.kind = "symlink" /\ foreign > 2))

Answered == rx = "done" \/ (rx \in Left /\ code = 0) => Deserved

Traced == Landing /\ Turned /\ Answered /\ SuccessMeansWritten

\* os.link: the path leads to the new content at once.
LEMMA LinkTraced == IInv /\ Traced /\ Link => Traced'
<1> SUFFICES ASSUME IInv, Traced, Link PROVE Traced' OBVIOUS
<1> USE TargetsAssumption, NoneAssumption
    DEF Traced, Landing, Turned, Deserved, Answered, SuccessMeansWritten, IInv, TypeOK, FilesOK,
        Ours, Left, At, Places, Contents, Link, client, bounds, fs, Abort, CleanPaneAtEnd, Gone
<1>1. rx = "swap" /\ snap' = snap /\ code' = code /\ foreign' = foreign /\ outcome' = outcome
  OBVIOUS
<1>2. CASE Entry = NoFile
  <2>1. link = None /\ file["path"] = None
    BY <1>2 DEF Entry, NoFile
  <2>2. Payload = "ours"
    BY DEF Payload, Fed, Commits
  <2>3. file' = [file EXCEPT !["path"] = "ours"] /\ link' = None
    BY <1>2, <2>1, <2>2 DEF World
  <2>4. seen' = TRUE /\ landed' = TRUE
    BY <1>2, <2>1, <2>2 DEF World
  <2>5. rx' = "linked" BY <1>2
  <2>6. snap.kind = "missing" BY DEF MustCreate
  <2> QED BY <1>1, <2>3, <2>4, <2>5, <2>6
<1>3. CASE Entry # NoFile
  BY <1>1, <1>3
<1> QED BY <1>2, <1>3

\* os.replace: a link that leads elsewhere was turned by somebody.
LEMMA RenameTraced == IInv /\ Traced /\ Rename => Traced'
<1> SUFFICES ASSUME IInv, Traced, Rename PROVE Traced' OBVIOUS
<1> USE TargetsAssumption, NoneAssumption
    DEF Traced, Landing, Turned, Deserved, Answered, SuccessMeansWritten, IInv, TypeOK, FilesOK,
        Ours, Left, At, Places, Contents, client, bounds, CleanPaneAtEnd, Gone
<1>1. /\ rx = "rename" /\ rx' = "recheck" /\ snap' = snap /\ foreign' = foreign
      /\ outcome' = outcome
  BY DEF Rename, Step
<1>2. Payload = "ours"
  BY <1>1 DEF Payload, Fed, Commits
<1>3. Destination \in Places
  BY DEF Destination
<1>4. /\ file' = [file EXCEPT ![Destination] = "ours"]
      /\ link' = IF Destination = "path" THEN None ELSE link
      /\ seen' = (seen \/ At(file', link') = "ours") /\ landed' = TRUE
  BY <1>2, <1>3 DEF Rename, World
<1>5. CASE snap.kind = "symlink"
  BY <1>1, <1>4, <1>5 DEF Destination
<1>6. CASE snap.kind # "symlink"
  BY <1>1, <1>4, <1>6 DEF Destination
<1> QED BY <1>5, <1>6

\* Another program's change brings a link that was turned one stretch on.
LEMMA ForeignTraced == IInv /\ Traced /\ ForeignChange => Traced'
<1> SUFFICES ASSUME IInv, Traced, ForeignChange PROVE Traced' OBVIOUS
<1>1. /\ UNCHANGED <<rx, snap, code, outcome>>
      /\ foreign \in Nat /\ foreign' = foreign + 1
  BY BoundsAssumption DEF ForeignChange, client, receiver, IInv, TypeOK, BoundsOK
<1>2. /\ \A p \in Places : file'[p] = "ours" => file[p] = "ours"
      /\ file' \in [Places -> Contents \cup {None}] /\ link' \in Targets \cup {None}
      /\ seen' = (seen \/ At(file', link') = "ours")
      /\ landed' = (landed \/ \E p \in Places : file'[p] = "ours")
  BY NoneAssumption DEF ForeignChange, World, IInv, TypeOK, FilesOK, Places, Contents
<1>3. Ours' => Ours
  BY <1>2 DEF Ours
<1>4. landed' = landed /\ (landed' => landed)
  BY <1>2, <1>3 DEF Ours, Traced, Landing, IInv, TypeOK, FilesOK
<1>5. seen' => landed
  BY <1>2, <1>3, <1>4, TargetsAssumption DEF Ours, At, Places, Traced, Landing
<1>6. Landing'
  BY <1>1, <1>2, <1>3, <1>4, <1>5 DEF Landing, Traced
<1>11. foreign' > 0 /\ (foreign > 0 => foreign' > 1) /\ (foreign > 1 => foreign' > 2)
      /\ (foreign > 2 => foreign' > 2)
  BY <1>1
<1>12. seen => seen'
  BY <1>2
<1>7. Turned'
  <2>1. (snap.kind = "symlink" => snap.is \in Targets)'
    BY <1>1 DEF Turned, Traced
  <2>2. ASSUME rx = "recheck", snap.kind = "symlink", ~seen'
        PROVE  \/ link' # snap.is /\ file'[snap.is] = "ours"
               \/ link' # snap.is /\ foreign' > 1
               \/ foreign' > 2
    <3>1. \/ link # snap.is /\ file[snap.is] = "ours" /\ foreign > 0
          \/ link # snap.is /\ foreign > 1
          \/ foreign > 2
      BY <1>12, <2>2 DEF Turned, Traced
    <3>2. snap.is # None
      BY <2>2, TargetsAssumption DEF Turned, Traced
    <3>3. link' = snap.is => file'[snap.is] # "ours"
      BY <1>2, <2>2, <3>2 DEF At
    <3>4. CASE link # snap.is /\ file[snap.is] = "ours" /\ foreign > 0
      <4>1. CASE link' = snap.is
        <5>1. snap.is \in Targets BY <2>2 DEF Turned, Traced
        <5>3. file'[snap.is] = file[snap.is] \/ link' # snap.is
          BY <3>4, <4>1, <5>1, TargetsAssumption
             DEF ForeignChange, World, IInv, TypeOK, FilesOK, Places
        <5> QED BY <3>3, <3>4, <4>1, <5>3
      <4>2. CASE link' # snap.is
        BY <1>11, <3>4, <4>2
      <4> QED BY <4>1, <4>2
    <3>5. CASE (link # snap.is /\ foreign > 1) \/ foreign > 2
      BY <1>11, <3>5
    <3> QED BY <3>1, <3>4, <3>5
  <2> QED BY <1>1, <1>11, <2>1, <2>2 DEF Turned
<1>8. Deserved => Deserved'
  BY <1>1, <1>11, <1>12, <1>4 DEF Deserved
<1>9. Answered'
  BY <1>1, <1>8 DEF Answered, Traced
<1>10. SuccessMeansWritten'
  BY <1>1, <1>8 DEF Deserved, SuccessMeansWritten, Traced
<1> QED BY <1>6, <1>7, <1>9, <1>10 DEF Traced

\* Every other step of the receiver leaves the files alone.
LEMMA ReceiverTraced == IInv /\ Traced /\ ReceiverStep => Traced'
<1> SUFFICES ASSUME IInv, Traced, ReceiverStep PROVE Traced' OBVIOUS
<1>1. CASE Link BY <1>1, LinkTraced
<1>2. CASE Rename BY <1>2, RenameTraced
<1>3. CASE ~Link /\ ~Rename
  <2>1. UNCHANGED <<file, link, seen, landed, outcome, foreign>>
    BY <1>3 DEF ReceiverStep, fs, client, bounds, Fault, Open, Read, Restore, Verify, Snapshot,
       Fill, Check, MarkStarted, Unlink, Recheck, Done, Fail, Exit, ReceiveFails, OsError, Interrupted,
     Killed
  <2>2. (Ours => landed)' /\ (At(file, link) = "ours" => seen)' /\ (seen => landed)'
    BY <2>1 DEF Traced, Landing, Ours, At
  <2> USE <2>1, <1>3 DEF Traced, Turned, Answered, Deserved, SuccessMeansWritten, Left, Step,
          CleanPaneAtEnd, Gone, IInv
  <2>3. CASE snap' # snap
    <3>1. rx = "snapshot" /\ rx' = "fill" /\ snap' = Entry /\ code' = code
      BY <2>3 DEF ReceiverStep, Open, Read, Restore, Verify, Snapshot, Fill, Check, MarkStarted,
         Unlink, Recheck, Done, Fail, Exit, ReceiveFails, OsError, Interrupted, Killed
    <3>2. snap'.kind = "symlink" => snap'.is = link /\ link \in Targets
      BY <3>1 DEF Entry, NoFile, TypeOK, FilesOK
    <3>3. outcome # "ok"
      BY <3>1
    <3>4. Landing'
      BY <2>2, <3>1 DEF Landing
    <3> QED BY <3>1, <3>2, <3>3, <3>4
  <2>4. CASE snap' = snap
    <3> USE <2>4, <2>2
    <3> USE DEF Landing
    <3>1. CASE Open BY <3>1 DEF Open
    <3>2. CASE Read BY <3>2 DEF Read
    <3>3. CASE Restore BY <3>3 DEF Restore
    <3>4. CASE Verify BY <3>4 DEF Verify
    <3>5. CASE Snapshot BY <3>5, TargetsAssumption DEF Snapshot, Entry, NoFile, TypeOK, FilesOK
    <3>6. CASE Fill BY <3>6 DEF Fill
    <3>7. CASE Check BY <3>7 DEF Check, Abort
    <3>8. CASE MarkStarted BY <3>8 DEF MarkStarted
    <3>9. CASE Unlink BY <3>9 DEF Unlink
    <3>10. CASE Recheck
      <4>1. Entry = snap /\ snap.kind = "symlink" => link = snap.is
        BY DEF Entry, NoFile
      <4>2. rx = "recheck" /\ rx' \in {"done", "failing"} /\ code' = code
        BY <3>10 DEF Recheck, Abort
      <4>3. rx' = "done" => Deserved
        BY <3>10, <4>1, <4>2 DEF Recheck, Abort, Matches
      <4> QED BY <4>2, <4>3
    <3>11. CASE Done BY <3>11 DEF Done, Leaves
    <3>12. CASE Fail BY <3>12 DEF Fail, Leaves
    <3>13. CASE Exit BY <3>13 DEF Exit
    <3>14. CASE OsError BY <3>14 DEF OsError, Abort
    <3>17. CASE ReceiveFails BY <3>17 DEF ReceiveFails
    <3>15. CASE Interrupted BY <3>15 DEF Interrupted, Abort
    <3>16. CASE Killed BY <3>16 DEF Killed
    <3> QED BY <3>1, <3>2, <3>3, <3>4, <3>5, <3>6, <3>7, <3>8, <3>9, <3>10, <3>11, <3>12, <3>13,
            <3>14, <3>15, <3>16, <3>17 DEF ReceiverStep
  <2> QED BY <2>3, <2>4
<1> QED BY <1>1, <1>2, <1>3

\* The caller is told ok behind exit code 0, or by a probe that found the
\* content.
LEMMA ClientTraced == IInv /\ Traced /\ ClientStep => Traced'
<1> SUFFICES ASSUME IInv, Traced, ClientStep PROVE Traced' OBVIOUS
<1>1. UNCHANGED <<fs, snap, code, foreign>>
  BY DEF ClientStep, receiver, bounds, Fault, Submit, Settle, Ready, Paste, Acknowledged, Return,
     GiveUp, TypeControlC, Recover, RecoveryFails, Probe
<1>2. rx' = rx \/ (rx = "none" /\ rx' = "boot")
  BY DEF ClientStep, receiver, Submit, Settle, Ready, Paste, Acknowledged, Return, GiveUp,
     TypeControlC, Recover, RecoveryFails, Probe, IInv, Accounted
<1>3. Landing'
  BY <1>1, <1>2 DEF Landing, Traced, fs, Ours, At, Left
<1>4. Turned'
  BY <1>1, <1>2 DEF Turned, Traced, fs
<1>5. Answered'
  BY <1>1, <1>2 DEF Answered, Deserved, Traced, fs, Left
<1>6. outcome' = "ok" => Deserved
  <2>1. CASE Return
    BY <2>1 DEF Return, IInv, Clean, Left, Traced, Answered
  <2>2. CASE Probe
    BY <2>2, NoneAssumption
       DEF Probe, Confirmed, End, Answer, Traced, Landing, Deserved
  <2>3. CASE Recover \/ RecoveryFails
    BY <2>3, NoneAssumption
       DEF Recover, RecoveryFails, After, End, Answer, Goto, ClientUnchanged, IInv, Clean
  <2>4. CASE ~Return /\ ~Probe /\ ~Recover /\ ~RecoveryFails
    <3>1. outcome' = outcome
      BY <2>4 DEF ClientStep, ClientUnchanged, Goto, Raise, AwaitExit, Submit, Settle, Ready,
         Paste, Acknowledged, GiveUp, TypeControlC
    <3> QED BY <3>1 DEF SuccessMeansWritten, Deserved, Traced
  <2> QED BY <2>1, <2>2, <2>3, <2>4
<1>7. SuccessMeansWritten'
  BY <1>1, <1>6 DEF SuccessMeansWritten, Deserved, fs
<1> QED BY <1>3, <1>4, <1>5, <1>7 DEF Traced

\* Failing tmux calls, cancellations and typed signals change no file and
\* bring no ok.
LEMMA OtherTraced ==
    ASSUME IInv, Traced,
           SubmitFails \/ PasteFails \/ Cancel \/ UserTypesControlC \/ ProbeEnds
             \/ UNCHANGED vars
    PROVE  Traced'
<1>1. UNCHANGED <<fs, snap, code, foreign>>
  BY DEF SubmitFails, PasteFails, Cancel, UserTypesControlC, ProbeEnds, vars, fs, receiver, bounds,
     Fault
<1>2. rx' = rx \/ (rx = "none" /\ rx' = "boot")
  BY DEF SubmitFails, PasteFails, Cancel, UserTypesControlC, ProbeEnds, vars, receiver,
     IInv, Accounted
<1>3. outcome' = outcome \/ outcome' # "ok"
  BY DEF SubmitFails, PasteFails, Cancel, UserTypesControlC, ProbeEnds, vars, client, Raise, Goto,
     ClientUnchanged, Answer
<1>4. Landing'
  BY <1>1, <1>2 DEF Landing, Traced, fs, Ours, At, Left
<1>5. Turned' /\ Answered' /\ SuccessMeansWritten'
  BY <1>1, <1>2, <1>3
     DEF Turned, Answered, SuccessMeansWritten, Deserved, Traced, fs, Left
<1> QED BY <1>4, <1>5 DEF Traced

\* IInv and Traced together are inductive.
LEMMA TracedInvariance == Spec => [](IInv /\ Traced)
<1>1. Init => Traced
  <2> SUFFICES ASSUME Init PROVE Traced OBVIOUS
  <2>1. \A p \in Places : file[p] \in {None, "old"}
    BY DEF Init, Places
  <2>2. ~Ours /\ At(file, link) # "ours"
    BY <2>1, NoneAssumption, TargetsAssumption DEF Init, Ours, At, Places
  <2> QED BY <2>2, NoneAssumption
          DEF Init, NoFile, Traced, Landing, Turned, Answered, SuccessMeansWritten, Left
<1>2. IInv /\ Traced /\ [Next]_vars => Traced'
  <2> SUFFICES ASSUME IInv, Traced, [Next]_vars PROVE Traced' OBVIOUS
  <2>1. CASE ReceiverStep BY <2>1, ReceiverTraced
  <2>2. CASE ClientStep BY <2>2, ClientTraced
  <2>3. CASE ForeignChange BY <2>3, ForeignTraced
  <2>4. CASE SubmitFails \/ PasteFails \/ Cancel \/ UserTypesControlC \/ ProbeEnds
             \/ UNCHANGED vars
    BY <2>4, OtherTraced
  <2> QED BY <2>1, <2>2, <2>3, <2>4 DEF Next
<1> QED BY <1>1, <1>2, Invariance, PTL DEF Spec

(* The refinement                                                          *)

\* Each step is a step of AtomicWrite or leaves its variables alone.
LEMMA Simulation == IInv /\ Traced /\ [Next]_vars => [Abstract!Next]_(Abstract!vars)
<1> SUFFICES ASSUME IInv, Traced, [Next]_vars PROVE [Abstract!Next]_(Abstract!vars) OBVIOUS
<1> USE DEF Abstract!Next, Abstract!vars
<1>1. CASE Link
  <2>1. CASE Entry = NoFile
    <3>1. link = None BY <2>1 DEF Entry, NoFile
    <3>2. rx = "swap" /\ Payload = "ours" BY <1>1 DEF Link, Payload, IInv, Fed, Commits
    <3>3. ~landed /\ outcome # "ok"
      BY <3>2 DEF Traced, Landing, Left, IInv, CleanPaneAtEnd, Gone
    <3>4. file' = [file EXCEPT !["path"] = "ours"] /\ link' = None
      BY <1>1, <2>1, <3>1, <3>2 DEF Link, World
    <3>5. landed' = TRUE
      BY <1>1, <2>1, <3>2 DEF Link, World, Places, IInv, TypeOK, FilesOK
    <3>6. outcome' = outcome BY <1>1 DEF Link, client
    <3>7. Abstract!Land("path") BY <3>1, <3>3, <3>4, <3>5, <3>6 DEF Abstract!Land
    <3> QED BY <3>7 DEF Places
  <2>2. CASE Entry # NoFile
    BY <1>1, <2>2 DEF Link, fs, client
  <2> QED BY <2>1, <2>2
<1>2. CASE Rename
  <2>1. rx = "rename" /\ Payload = "ours"
    BY <1>2 DEF Rename, Step, Payload, IInv, Fed, Commits
  <2>2. ~landed /\ outcome # "ok"
    BY <2>1 DEF Traced, Landing, Left, IInv, CleanPaneAtEnd, Gone
  <2>3. Destination \in Places
    BY DEF Destination, Places, Traced, Turned
  <2>4. /\ file' = [file EXCEPT ![Destination] = "ours"]
        /\ link' = IF Destination = "path" THEN None ELSE link
    BY <1>2, <2>1 DEF Rename, World
  <2>5. landed' = TRUE
    BY <1>2, <2>1, <2>3 DEF Rename, World, IInv, TypeOK, FilesOK
  <2>6. outcome' = outcome BY <1>2 DEF Rename, client
  <2>7. Abstract!Land(Destination) BY <2>2, <2>4, <2>5, <2>6 DEF Abstract!Land
  <2> QED BY <2>3, <2>7
<1>3. CASE ReceiverStep /\ ~Link /\ ~Rename
  BY <1>3 DEF ReceiverStep, fs, client, Open, Read, Restore, Verify, Snapshot, Fill, Check,
     MarkStarted, Unlink, Recheck, Done, Fail, Exit, ReceiveFails, OsError, Interrupted,
     Killed
<1>4. CASE ForeignChange
  <2>1. \E p \in Places, c \in {None, "theirs"} : file' = [file EXCEPT ![p] = c]
    BY <1>4 DEF ForeignChange, World, Places
  <2>2. outcome' = outcome BY <1>4 DEF ForeignChange, client
  <2>3. landed' = (landed \/ \E p \in Places : file'[p] = "ours")
    BY <1>4 DEF ForeignChange, World
  <2>4. Ours' => landed
    BY <2>1, NoneAssumption DEF Ours, IInv, TypeOK, FilesOK, Traced, Landing
  <2>5. landed' = landed
    BY <2>3, <2>4 DEF Ours, IInv, TypeOK, FilesOK
  <2>6. Abstract!Foreign BY <2>1, <2>2, <2>5 DEF Abstract!Foreign
  <2> QED BY <2>6
<1>5. CASE ClientStep \/ SubmitFails \/ PasteFails \/ Cancel
  <2>1. UNCHANGED <<file, link, landed>>
    BY <1>5 DEF ClientStep, fs, Submit, Settle, Ready, Paste, Acknowledged, Return, GiveUp,
       TypeControlC, Recover, RecoveryFails, Probe, SubmitFails, PasteFails, Cancel
  <2>2. outcome' # outcome => outcome = None
    <3>1. pc # "end" => outcome = None
      BY DEF IInv, Clean
    <3> QED BY <1>5, <3>1 DEF ClientStep, Submit, Settle, Ready, Paste, Acknowledged, Return,
            GiveUp, TypeControlC, Recover, RecoveryFails, Probe, SubmitFails, PasteFails, Cancel,
            Goto, ClientUnchanged, Raise, AwaitExit, Awaits
  <2>3. outcome' = "ok" => landed
    <3>1. SuccessMeansWritten'
      <4>1. Traced'
        <5>1. CASE ClientStep BY <5>1, ClientTraced
        <5>2. CASE ~ClientStep
          BY <1>5, <5>2, OtherTraced
        <5> QED BY <5>1, <5>2
      <4> QED BY <4>1 DEF Traced
    <3> QED BY <2>1, <3>1 DEF SuccessMeansWritten
  <2>4. outcome' \in {"ok", "failed", "cancelled", None}
    <3>1. IInv' BY InductiveStep
    <3> QED BY <3>1 DEF IInv, TypeOK, ClientOK
  <2>5. outcome' = outcome \/ outcome' # None
    BY <2>2
  <2> QED BY <2>1, <2>2, <2>3, <2>4, <2>5 DEF Abstract!Answer
<1>6. CASE UserTypesControlC \/ ProbeEnds \/ UNCHANGED vars
  BY <1>6 DEF UserTypesControlC, ProbeEnds, fs, client, vars
<1> QED BY <1>1, <1>2, <1>3, <1>4, <1>5, <1>6 DEF Next

(* The theorems                                                            *)

\* A remote_write that says ok wrote: the path has led to the new content,
\* or three changes by others, each in its place, deceived the write through
\* a link.
THEOREM OkIsDeserved == Spec => []SuccessMeansWritten
BY TracedInvariance, PTL DEF Traced

\* The write changes the files and answers as AtomicWrite does: the new
\* content appears whole, under one name, once, and never behind an ok.
THEOREM WriteIsAtomic == Spec => ImplementsAtomicWrite
<1>1. Init => Abstract!Init
  <2> SUFFICES ASSUME Init PROVE Abstract!Init OBVIOUS
  <2>1. \A p \in Places : file[p] \in {None, "old"}
    BY DEF Init, Places
  <2> QED BY <2>1, NoneAssumption DEF Init, Abstract!Init
<1>2. IInv /\ Traced /\ [Next]_vars => [Abstract!Next]_(Abstract!vars)
  BY Simulation
<1> QED BY <1>1, <1>2, TracedInvariance, PTL DEF Spec, ImplementsAtomicWrite, Abstract!Spec
=============================================================================
