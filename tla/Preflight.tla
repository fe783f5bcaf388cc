------------------------------ MODULE Preflight ------------------------------
(***************************************************************************)
(* run_preflight (preflight.py): with agent forwarding ssh-add, then a     *)
(* login with ssh, then, with forwarding, ssh-add -l on the host, each a   *)
(* local child process with a timeout of its own.  What goes wrong with    *)
(* the agent is a warning of the connection, what goes wrong with the      *)
(* login is the end of it.  The child ends in its own time, also in the    *)
(* moment in which its timeout fires or the connect is cancelled.          *)
(*                                                                         *)
(* It comes before the connect takes _connect_lock and touches nothing     *)
(* that other connects see: ConnectionSetup begins where it has passed.    *)
(***************************************************************************)
EXTENDS Naturals

CONSTANT Checks  \* "add", "login", "agent": the children in their order

VARIABLES
    check,      \* the child of the moment
    stage,      \* where the coroutine is suspended, "end" when it is not
    proc,       \* the child: "none", "running", "killed", "exited"
    exitcode,   \* its returncode
    forwarding, \* agent_forwarding
    ran,        \* what became of each child
    warnings,   \* whom the warnings are about
    present,    \* forwarded_agent_present: "unknown", "yes", "no"
    outcome     \* "none", "ok", "error", "raised", "cancelled"

vars == <<check, stage, proc, exitcode, forwarding, ran, warnings, present, outcome>>

Init ==
    /\ check = "login" /\ stage = "idle" /\ proc = "none" /\ exitcode = 0
    /\ forwarding = FALSE
    /\ ran = [c \in Checks |-> "not_run"]
    /\ warnings = {} /\ present = "unknown" /\ outcome = "none"

End(o) == stage' = "end" /\ outcome' = o

Begin ==
    /\ stage = "idle" /\ stage' = "spawn"
    /\ forwarding' \in BOOLEAN
    /\ check' = IF forwarding' THEN "add" ELSE "login"
    /\ UNCHANGED <<proc, exitcode, ran, warnings, present, outcome>>

Spawn ==
    /\ stage = "spawn" /\ stage' = "communicate"
    /\ proc' = "running"
    /\ UNCHANGED <<check, exitcode, forwarding, ran, warnings, present, outcome>>

\* There is no ssh or ssh-add to run: nobody catches the OSError.
SpawnFails ==
    /\ stage = "spawn"
    /\ End("raised")
    /\ UNCHANGED <<check, proc, exitcode, forwarding, ran, warnings, present>>

\* A cancelled create_subprocess_exec kills what it has started.
SpawnCancelled ==
    /\ stage = "spawn"
    /\ End("cancelled")
    /\ UNCHANGED <<check, proc, exitcode, forwarding, ran, warnings, present>>

(* The child                                                               *)

\* ssh-add -l: 1 for no keys, 2 for no agent; ssh itself: 255.
ChildExits ==
    /\ proc = "running" /\ proc' = "exited"
    /\ exitcode' \in {0, 1, 2}
    /\ ran' = [ran EXCEPT ![check] = IF exitcode' = 0 THEN "succeeded" ELSE "failed"]
    /\ UNCHANGED <<check, stage, forwarding, warnings, present, outcome>>

ChildDies ==
    /\ proc = "killed" /\ proc' = "exited"
    /\ UNCHANGED <<check, stage, exitcode, forwarding, ran, warnings, present, outcome>>

Kill ==
    IF proc = "running" THEN proc' = "killed" /\ ran' = [ran EXCEPT ![check] = "timed_out"]
                        ELSE UNCHANGED <<proc, ran>>

(* What follows each child                                                 *)

Following == IF check = "add" THEN "login" ELSE "agent"

Continue ==
    /\ check' = Following
    /\ stage' = "spawn"
    /\ proc' = "none"
    /\ UNCHANGED outcome

Finish(o) == End(o) /\ UNCHANGED <<check, proc>>

\* Mutant: only an exit code is worth a warning.
QuietTimeout(c) == {}

\* The warning for a child that was stopped by its timeout.
TimeoutWarning(c) == {c}

\* communicate returns.
Communicate ==
    /\ stage = "communicate" /\ proc = "exited"
    /\ \/ /\ check = "add"
          /\ warnings' = IF exitcode = 0 THEN warnings ELSE warnings \cup {"add"}
          /\ Continue
          /\ UNCHANGED present
       \/ /\ check = "login"
          /\ IF exitcode = 0 /\ forwarding THEN Continue
             ELSE Finish(IF exitcode = 0 THEN "ok" ELSE "error")
          /\ UNCHANGED <<warnings, present>>
       \/ /\ check = "agent"
          /\ present' = IF exitcode = 0 THEN "yes" ELSE "no"
          /\ warnings' = IF exitcode = 0 THEN warnings ELSE warnings \cup {"agent"}
          /\ Finish("ok")
    /\ UNCHANGED <<exitcode, forwarding, ran>>

\* The child is killed if it is still there.  _ssh_add does not look: when
\* the child has just ended, asyncio answers with a ProcessLookupError.
Timeout ==
    /\ stage = "communicate"
    /\ Kill
    /\ \/ stage' = "reap" /\ UNCHANGED outcome
       \/ check = "add" /\ proc = "exited" /\ End("raised")
    /\ UNCHANGED <<check, exitcode, forwarding, warnings, present>>

\* proc.wait after a timeout: a warning for ssh-add, else a PreflightError.
Reap ==
    /\ stage = "reap" /\ proc = "exited"
    /\ IF check = "add" THEN warnings' = warnings \cup TimeoutWarning(check) /\ Continue
       ELSE Finish("error") /\ UNCHANGED warnings
    /\ UNCHANGED <<exitcode, forwarding, ran, present>>

StopChild == Kill /\ stage' = "unwind"

Cancel ==
    /\ stage = "communicate"
    /\ StopChild
    /\ UNCHANGED <<check, exitcode, forwarding, warnings, present, outcome>>

\* proc.wait after a cancellation.
Unwind ==
    /\ stage = "unwind" /\ proc = "exited"
    /\ Finish("cancelled")
    /\ UNCHANGED <<exitcode, forwarding, ran, warnings, present>>

\* A cancellation during a proc.wait: the child has been killed before.
CancelWait ==
    /\ stage \in {"reap", "unwind"}
    /\ Finish("cancelled")
    /\ UNCHANGED <<exitcode, forwarding, ran, warnings, present>>

(* The specification                                                       *)

\* What happens without anyone cancelling, and within the timeouts.
Progress == Begin \/ Spawn \/ Communicate \/ Timeout \/ Reap \/ Unwind \/ ChildDies

Next == Progress \/ SpawnFails \/ SpawnCancelled \/ ChildExits \/ Cancel \/ CancelWait

Spec == Init /\ [][Next]_vars

(* Properties                                                              *)

\* What the constant can be.
Parameters == {"add", "login", "agent"} \subseteq Checks

TypeOK ==
    /\ check \in Checks
    /\ stage \in {"idle", "spawn", "communicate", "reap", "unwind", "end"}
    /\ proc \in {"none", "running", "killed", "exited"} /\ exitcode \in {0, 1, 2}
    /\ forwarding \in BOOLEAN
    /\ ran \in [Checks -> {"not_run", "succeeded", "failed", "timed_out"}]
    /\ warnings \subseteq Checks /\ present \in {"unknown", "yes", "no"}
    /\ outcome \in {"none", "ok", "error", "raised", "cancelled"}

\* A preflight that passes has logged in, and its warnings say exactly what is
\* wrong with the agent: a child that failed or was stopped is never taken for
\* one that succeeded.  (An ssh-add that succeeds in the moment of its timeout
\* can still be warned about.)
AgentWarned ==
    outcome = "ok" =>
        /\ ran["login"] = "succeeded"
        /\ forwarding =>
              /\ ran["add"] # "succeeded" => "add" \in warnings
              /\ "agent" \in warnings <=> ran["agent"] # "succeeded"
              /\ present = "yes" <=> ran["agent"] = "succeeded"
        /\ ~forwarding =>
              /\ ran["add"] = "not_run" /\ ran["agent"] = "not_run"
              /\ warnings = {} /\ present = "unknown"

\* However the preflight ends, no ssh or ssh-add process goes on.
ChildStopped == stage = "end" => proc # "running"
=============================================================================
