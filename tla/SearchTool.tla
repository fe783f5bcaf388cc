----------------------------- MODULE SearchTool -----------------------------
(***************************************************************************)
(* One remote_grep or remote_glob: the handler (server.py) asks for one    *)
(* result more than it will report, the helper on the remote host          *)
(* (_search_runner.py) stops the grep or rg process, or the directory      *)
(* walk, once it has that many, and its exit code and its lines become the *)
(* answer.  The process prints, ends, fails and dies in its own time; a    *)
(* timeout of the call interrupts both with C-c.  The way of the lines     *)
(* through the pane is in PaneRun.                                         *)
(***************************************************************************)
EXTENDS Naturals

CONSTANTS
    MaxResults,  \* max_results
    MaxPrinted,  \* bound: lines that a search finds
    MaxSplits    \* bound: line breaks that str.splitlines sees in the lines

VARIABLES
    search,    \* "none", "grep", "glob"
    helper,    \* where the helper is: "gone" when it has exited, "aborted" when it did
               \* so in an interrupt that its handler did not see to the end
    child,     \* "none", "running", "signalled", "killed" (SIGKILL), "exited"
    printed,   \* lines that the process wrote, or files there are to find
    lines,     \* how many the helper has
    stopped,   \* terminated_for_limit
    status,    \* the process's: "none", "success", "trouble", "signal"
    code,      \* the helper's exit code, 0 or not
    trouble,   \* something failed, or somebody interfered
    answer     \* the tool's

vars == <<search, helper, child, printed, lines, stopped, status, code, trouble, answer>>

Init ==
    /\ search = "none" /\ helper = "idle" /\ child = "none"
    /\ printed = 0 /\ lines = 0 /\ stopped = FALSE
    /\ status = "none" /\ code = 0 /\ trouble = FALSE
    /\ answer = [kind |-> "none"]

\* Mutant: the handler asks for no more than it reports.
NoSurplus == MaxResults

Limit == MaxResults + 1

Exit(c) == helper' = "gone" /\ code' = c

Exited == {"gone", "aborted"}

(* _grep and _emit_limited_process                                         *)

Popen ==
    /\ search = "none" /\ search' = "grep"
    /\ helper' = "starting" /\ child' = "running"
    /\ UNCHANGED <<printed, lines, stopped, status, code, trouble, answer>>

\* No such program, or no process to be had: main turns the OSError into 2.
PopenFails ==
    /\ search = "none" /\ search' = "grep"
    /\ Exit(2) /\ trouble' = TRUE
    /\ UNCHANGED <<child, printed, lines, stopped, status, answer>>

\* The process is there, and now the try that looks after it.
EnterTry ==
    /\ helper = "starting" /\ helper' = "reading"
    /\ UNCHANGED <<search, child, printed, lines, stopped, status, code, trouble, answer>>

ReadLine ==
    /\ helper = "reading" /\ search = "grep" /\ lines < printed
    /\ lines' = lines + 1
    /\ helper' = IF lines' >= Limit THEN "polling" ELSE "reading"
    /\ UNCHANGED <<search, child, printed, stopped, status, code, trouble, answer>>

EndOfOutput ==
    /\ helper = "reading" /\ search = "grep" /\ lines = printed /\ child = "exited"
    /\ helper' = "waiting"
    /\ UNCHANGED <<search, child, printed, lines, stopped, status, code, trouble, answer>>

\* poll, and terminate unless the process has ended meanwhile.
Poll ==
    /\ helper = "polling" /\ helper' = "waiting"
    /\ IF child = "exited" THEN UNCHANGED <<child, stopped>>
                           ELSE child' = "signalled" /\ stopped' = TRUE
    /\ UNCHANGED <<search, printed, lines, status, code, trouble, answer>>

\* Mutant: the two seconds are all the helper waits.
GiveUp == Exit(2) /\ UNCHANGED child

\* Mutant: it waits on without killing.
Patient == helper' = "killing" /\ UNCHANGED <<child, code>>

KillChild == helper' = "killing" /\ child' = "killed" /\ UNCHANGED code

\* TimeoutExpired
WaitTimeout ==
    /\ helper = "waiting" /\ child # "exited"
    /\ KillChild
    /\ UNCHANGED <<search, printed, lines, stopped, status, trouble, answer>>

\* wait returns: the lines are printed, the return code decides.
Reap ==
    /\ helper \in {"waiting", "killing"} /\ child = "exited"
    /\ Exit(IF stopped \/ status = "success" THEN 0 ELSE 2)
    /\ UNCHANGED <<search, child, printed, lines, stopped, status, trouble, answer>>

(* The process, or the files                                               *)

ChildPrints ==
    /\ child \in {"running", "signalled"} /\ printed < MaxPrinted
    /\ printed' = printed + 1
    /\ UNCHANGED <<search, helper, child, lines, stopped, status, code, trouble, answer>>

\* With matches or without, or with an error: an unreadable file, say.
ChildExits ==
    /\ child \in {"running", "signalled"} /\ child' = "exited"
    /\ status' \in {"success", "trouble"}
    /\ trouble' = (trouble \/ status' = "trouble")
    /\ UNCHANGED <<search, helper, printed, lines, stopped, code, answer>>

ChildDies ==
    /\ child \in {"signalled", "killed"} /\ child' = "exited" /\ status' = "signal"
    /\ UNCHANGED <<search, helper, printed, lines, stopped, code, trouble, answer>>

\* Somebody else kills it.
ChildKilled ==
    /\ child = "running" /\ child' = "signalled" /\ trouble' = TRUE
    /\ UNCHANGED <<search, helper, printed, lines, stopped, status, code, answer>>

(* _glob                                                                   *)

GlobStart ==
    /\ search = "none" /\ search' = "glob" /\ helper' = "walking"
    /\ printed' \in 0..MaxPrinted
    /\ UNCHANGED <<child, lines, stopped, status, code, trouble, answer>>

\* Mutant: the directory that the walk starts from is counted as well.
RootToo ==
    /\ helper = "walking"
    /\ IF lines <= printed /\ lines < Limit
       THEN lines' = lines + 1 /\ UNCHANGED <<helper, code>>
       ELSE Exit(0) /\ UNCHANGED lines
    /\ UNCHANGED <<search, child, printed, stopped, status, trouble, answer>>

GlobStep ==
    /\ helper = "walking"
    /\ IF lines < printed /\ lines < Limit
       THEN lines' = lines + 1 /\ UNCHANGED <<helper, code>>
       ELSE Exit(0) /\ UNCHANGED lines
    /\ UNCHANGED <<search, child, printed, stopped, status, trouble, answer>>

\* os.walk meets an unreadable directory, or os.lstat a file that was removed
\* since its directory was listed: nothing is printed.
GlobFails ==
    /\ helper = "walking"
    /\ Exit(2) /\ trouble' = TRUE
    /\ UNCHANGED <<search, child, printed, lines, stopped, status, answer>>

(* C-c, for the process and for the helper; run_command sends it twice     *)

\* A KeyboardInterrupt is handled once: one that is raised before the try, or
\* in the handler before the kill, ends the helper, with the process left to
\* the C-c that it got itself.
Interrupt ==
    /\ helper \notin {"idle"} \cup Exited /\ trouble' = TRUE
    /\ child' = IF child = "running" THEN "signalled" ELSE child
    /\ \/ (child = "none" \/ helper = "unwinding") /\ Exit(130)
       \/ /\ helper \in {"starting", "interrupted"}
          /\ helper' = "aborted" /\ code' = 130
       \/ /\ child # "none" /\ helper \notin {"starting", "interrupted", "unwinding"}
          /\ helper' = "interrupted" /\ UNCHANGED code
    /\ UNCHANGED <<search, printed, lines, stopped, status, answer>>

\* The "except BaseException": kill, reap, raise again.
Unwind ==
    /\ helper = "interrupted" /\ helper' = "unwinding"
    /\ child' = IF child = "exited" THEN "exited" ELSE "killed"
    /\ UNCHANGED <<search, printed, lines, stopped, status, code, trouble, answer>>

Reraise ==
    /\ helper = "unwinding" /\ child = "exited"
    /\ Exit(130)
    /\ UNCHANGED <<search, child, printed, lines, stopped, status, trouble, answer>>

(* remote_grep, remote_glob                                                *)

Failure == [kind |-> "error"]

\* m is what str.splitlines makes of the lines.
Success(m) ==
    [kind |-> "ok", count |-> IF m < MaxResults THEN m ELSE MaxResults,
     truncated |-> m > MaxResults, splits |-> m - lines]

Answer ==
    /\ helper \in Exited /\ answer.kind = "none"
    /\ IF code # 0 THEN answer' = Failure
       ELSE \E m \in lines..(IF lines = 0 THEN 0 ELSE lines + MaxSplits) : answer' = Success(m)
    /\ UNCHANGED <<search, helper, child, printed, lines, stopped, status, code, trouble>>

\* The command has timed out, or the pane is lost.
AnswerFails ==
    /\ helper # "idle" /\ answer.kind = "none"
    /\ answer' = Failure /\ trouble' = TRUE
    /\ UNCHANGED <<search, helper, child, printed, lines, stopped, status, code>>

(* The specification                                                       *)

HelperStep ==
    \/ EnterTry \/ ReadLine \/ EndOfOutput \/ Poll \/ WaitTimeout \/ Reap
    \/ GlobStep \/ Unwind \/ Reraise \/ Answer

\* A process that got a SIGKILL dies; of one that got a SIGTERM who knows.
Death == child = "killed" /\ ChildDies

Next ==
    \/ HelperStep \/ Popen \/ PopenFails \/ GlobStart \/ GlobFails
    \/ ChildPrints \/ ChildExits \/ ChildDies \/ ChildKilled
    \/ Interrupt \/ AnswerFails

Spec == Init /\ [][Next]_vars

(* Properties                                                              *)

\* What the constants can be.
Parameters == MaxResults \in Nat /\ MaxPrinted \in Nat /\ MaxSplits \in Nat

TypeOK ==
    /\ search \in {"none", "grep", "glob"}
    /\ helper \in {"idle", "starting", "reading", "polling", "waiting", "killing", "walking",
                   "interrupted", "unwinding", "gone", "aborted"}
    /\ child \in {"none", "running", "signalled", "killed", "exited"}
    /\ printed \in 0..MaxPrinted /\ lines \in 0..printed
    /\ stopped \in BOOLEAN /\ trouble \in BOOLEAN
    /\ status \in {"none", "success", "trouble", "signal"} /\ code \in {0, 2, 130}
    /\ answer.kind \in {"none", "ok", "error"}

\* When no match of a search has a line break within it, the answer is exact:
\* as many matches as there are, but max_results at most, and marked as
\* truncated just when there are more.  When one has (a file name with a
\* newline, or a match with a form feed, is several lines to str.splitlines),
\* the pieces are counted, and an answer can be marked as truncated although
\* there are no more matches; one that is not marked is complete all the same.
\* A search with such an answer ended by itself, and none is failed for having
\* reached its limit: stopping the process is not its error.
SearchIsExact ==
    /\ answer.kind = "ok" /\ answer.splits = 0 =>
          /\ answer.truncated <=> printed > MaxResults
          /\ answer.count = IF printed < MaxResults THEN printed ELSE MaxResults
    /\ answer.kind = "ok" /\ ~answer.truncated =>
          /\ lines = printed
          /\ answer.count = lines + answer.splits
          /\ search = "grep" => status = "success"
    /\ answer.kind = "error" => trouble

\* The helper does not exit before its process has ended or got a SIGKILL,
\* whether it reached the limit, the process ignores SIGTERM, or a C-c came.
\* Only a C-c that strikes outside the try or before its handler's kill
\* ("aborted") leaves the process to its own SIGINT.
ChildGone ==
    /\ helper = "gone" => child \in {"none", "killed", "exited"}
    /\ helper = "aborted" => child # "running"
=============================================================================
