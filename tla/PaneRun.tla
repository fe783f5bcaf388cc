------------------------------ MODULE PaneRun ------------------------------
(***************************************************************************)
(* run_in_pane (runner.py): a command is typed into a pane between two     *)
(* printed markers, the pane is polled through a bounded window, and its   *)
(* output is cut out of the history between the markers, while the command *)
(* and programs in the background go on printing and the history forgets   *)
(* its oldest lines.                                                       *)
(*                                                                         *)
(* The pane is a sequence of lines: the markers of this call, the numbered *)
(* lines of its command, and everything else as "other" (older output,     *)
(* prompts, the echo of the command line, whose marker is split).  Left    *)
(* out: terminal control sequences that erase single lines.                *)
(***************************************************************************)
EXTENDS Naturals, Sequences

CONSTANTS
    PollLines,     \* RUN_POLL_CAPTURE_LINES
    TimeoutLines,  \* RUN_TIMEOUT_CAPTURE_LINES
    HistoryLimit,  \* PANE_HISTORY_LIMIT = RUN_FINAL_CAPTURE_LINES
    MaxOutput,     \* bound: lines that the command prints
    MaxOther,      \* bound: lines that others print
    MaxClears,     \* bound: times somebody clears screen and history
    MaxFaults      \* bound: failing tmux commands

ASSUME LinesAssumption ==
    /\ PollLines \in Nat \ {0} /\ TimeoutLines \in Nat /\ HistoryLimit \in Nat
    /\ PollLines <= TimeoutLines /\ TimeoutLines <= HistoryLimit
ASSUME BoundsAssumption ==
    MaxOutput \in Nat /\ MaxOther \in Nat /\ MaxClears \in Nat /\ MaxFaults \in Nat

VARIABLES
    pane,     \* what the pane and its history show
    shell,    \* what the wrapper has come to
    printed,  \* lines that the command has printed
    pc,       \* where run_in_pane is suspended
    last,     \* its local variable last_screen
    result,   \* what it returned or raised
    others, clears, faults

program == <<shell, printed>>
client == <<pc, last, result>>
vars == <<pane, program, client, others, clears, faults>>

Markers == {"BEGIN", "END", "CWD"}
Mark(kind) == <<kind, 0>>
Own(n) == <<"output", n>>
Lines == {Mark(kind) : kind \in Markers \cup {"other"}} \cup {Own(n) : n \in 1..MaxOutput}

\* The last n lines of a screen.
LastLines(screen, n) ==
    SubSeq(screen, IF Len(screen) > n THEN Len(screen) - n + 1 ELSE 1, Len(screen))

\* Mutant: capture-pane without its bound.
CaptureAll(n) == pane

\* capture_pane
Capture(n) == LastLines(pane, n)

\* The pane shows one more line; the history drops what exceeds its limit.
PrintLine(line) == pane' = LastLines(Append(pane, line), HistoryLimit)

Init ==
    /\ pane = << >>
    /\ shell = "prompt" /\ printed = 0
    /\ pc = "paste" /\ last = << >>
    /\ result = [kind |-> "none", stdout |-> << >>]
    /\ others = 0 /\ clears = 0 /\ faults = 0

(* The wrapper in the shell                                                *)

Begin ==
    /\ shell = "typed" /\ shell' = "running"
    /\ PrintLine(Mark("BEGIN"))
    /\ UNCHANGED <<printed, client, others, clears, faults>>

Output ==
    /\ shell = "running" /\ printed < MaxOutput
    /\ printed' = printed + 1
    /\ PrintLine(Own(printed + 1))
    /\ UNCHANGED <<shell, client, others, clears, faults>>

End ==
    /\ shell = "running" /\ shell' = "ended"
    /\ PrintLine(Mark("END"))
    /\ UNCHANGED <<printed, client, others, clears, faults>>

Cwd ==
    /\ shell = "ended" /\ shell' = "prompt"
    /\ PrintLine(Mark("CWD"))
    /\ UNCHANGED <<printed, client, others, clears, faults>>

\* A prompt, the echo, or a program in the background.
OtherOutput ==
    /\ others < MaxOther /\ others' = others + 1
    /\ PrintLine(Mark("other"))
    /\ UNCHANGED <<program, client, clears, faults>>

Clear ==
    /\ clears < MaxClears /\ clears' = clears + 1
    /\ pane' = << >>
    /\ UNCHANGED <<program, client, others, faults>>

(* Reading a screen                                                        *)

At(screen, kind) == {i \in DOMAIN screen : screen[i][1] = kind}

Earliest(S) == CHOOSE i \in S : \A j \in S : i <= j
Latest(S) == CHOOSE i \in S : \A j \in S : j <= i

\* "m and cwd_match": an END marker, and a CWD marker behind it.
Complete(screen) ==
    \E e \in At(screen, "END") : \E w \in At(screen, "CWD") : e < w

\* Mutant: without a BEGIN marker the output starts where the screen does.
AnyBegin(screen) == {0} \cup At(screen, "BEGIN")

\* BEGIN markers in front of the END marker, if there is one.
Begins(screen) ==
    {b \in At(screen, "BEGIN") : \A e \in At(screen, "END") : b < e}

\* Mutant: the output ends where the screen does.
ExtractRest(screen) == SubSeq(screen, Latest(Begins(screen)) + 1, Len(screen))

\* _extract_output and _extract_partial_output: from the last BEGIN marker to
\* the END marker or to the end of the screen.
Extract(screen) ==
    SubSeq(screen, Latest(Begins(screen)) + 1,
           IF At(screen, "END") = {} THEN Len(screen) ELSE Earliest(At(screen, "END")) - 1)

(* run_in_pane                                                             *)

Return(kind, stdout) ==
    pc' = "end" /\ result' = [kind |-> kind, stdout |-> stdout]

Fault == faults < MaxFaults /\ faults' = faults + 1

Paste ==
    /\ pc = "paste"
    /\ shell' = "typed" /\ pc' = "poll"
    /\ UNCHANGED <<pane, printed, last, result, others, clears, faults>>

PasteFails ==
    /\ pc = "paste" /\ Fault
    /\ shell' \in {"prompt", "typed"}
    /\ Return("error", << >>)
    /\ UNCHANGED <<pane, printed, last, others, clears>>

Poll ==
    /\ pc = "poll"
    /\ last' = Capture(PollLines)
    /\ pc' = IF Complete(last') THEN "final" ELSE "poll"
    /\ UNCHANGED <<pane, program, result, others, clears, faults>>

\* Mutant: the output is cut out of the screen that showed the end marker.
NoSecondCapture == last

WholeHistory == Capture(HistoryLimit)

\* The markers are looked up again in everything that tmux still has.
FinalCapture ==
    /\ pc = "final"
    /\ IF Complete(WholeHistory) /\ Begins(WholeHistory) # {}
       THEN Return("done", Extract(WholeHistory))
       ELSE Return("error", << >>)
    /\ UNCHANGED <<pane, program, last, others, clears, faults>>

CaptureFails ==
    /\ pc \in {"poll", "final"} /\ Fault
    /\ Return("error", << >>)
    /\ UNCHANGED <<pane, program, last, others, clears>>

\* The screen at the deadline, or else the last poll; nothing if neither
\* shows where the output begins.
Partial(screen) ==
    IF Begins(screen) # {} THEN Extract(screen)
    ELSE IF Begins(last) # {} THEN Extract(last)
    ELSE << >>

\* Mutant: the clock starts when the command does.
DeadlineOnceBegun == pc = "poll" /\ Begins(last) # {}

\* The deadline is looked at before every poll.
Deadline == pc = "poll"

Timeout ==
    /\ Deadline
    /\ \/ Return("timed_out", Partial(Capture(TimeoutLines))) /\ UNCHANGED faults
       \/ Return("timed_out", Partial(last)) /\ Fault
    /\ UNCHANGED <<pane, program, last, others, clears>>

(* The specification                                                       *)

RunStep == Paste \/ FinalCapture \/ Timeout

Next ==
    \/ Begin \/ Output \/ End \/ Cwd \/ OtherOutput \/ Clear
    \/ RunStep \/ Poll \/ PasteFails \/ CaptureFails

Spec == Init /\ [][Next]_vars

\* tmux commands are answered, and the deadline passes in the end.
FairSpec == Spec /\ WF_vars(RunStep)

(* Properties                                                              *)

TypeOK ==
    /\ pane \in Seq(Lines) /\ Len(pane) <= HistoryLimit
    /\ shell \in {"prompt", "typed", "running", "ended"}
    /\ printed \in 0..MaxOutput
    /\ pc \in {"paste", "poll", "final", "end"}
    /\ last \in Seq(Lines) /\ Len(last) <= PollLines
    /\ result.kind \in {"none", "done", "timed_out", "error"}
    /\ result.stdout \in Seq(Lines)
    /\ others \in 0..MaxOther /\ clears \in 0..MaxClears /\ faults \in 0..MaxFaults

\* The command's lines on a screen are its first n, in order.
Prints(screen, n) ==
    /\ {screen[i][2] : i \in At(screen, "output")} = 1..n
    /\ \A i, j \in At(screen, "output") : i < j => screen[i][2] < screen[j][2]

\* A command that is reported as completed comes with every line it
\* printed, in order: output that the history or a clear lost is an error,
\* never a shorter result.
CompleteOrError == result.kind = "done" => Prints(result.stdout, printed)

\* A command that timed out comes with the beginning of its own output and
\* with no line from before it, or with nothing.
PartialIsPrefix ==
    result.kind = "timed_out" =>
        /\ \E n \in 0..printed : Prints(result.stdout, n)
        /\ \A kind \in Markers : At(result.stdout, kind) = {}

\* run_in_pane fails only if tmux did or the beginning of the output is
\* really gone: never for a command whose output tmux still has, whenever
\* the polls fall between the wrapper's lines.
NoSpuriousError == result.kind = "error" /\ faults = 0 => At(pane, "BEGIN") = {}

\* Every run_in_pane returns, whatever the pane shows.
RunEnds == <>(pc = "end")
=============================================================================
