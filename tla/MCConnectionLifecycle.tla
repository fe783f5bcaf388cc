----------------------- MODULE MCConnectionLifecycle -----------------------
(***************************************************************************)
(* Model-checking instances of ConnectionLifecycle: the sets of kinds, and *)
(* what the documentation says of the code.                                *)
(***************************************************************************)
EXTENDS ConnectionLifecycle

NoWrites == {"run", "read", "disconnect"}
RunsOnly == {"run"}
WritesOnly == {"write"}
Disconnects == {"disconnect"}

\* README.md:294-297, of a run whose task is cancelled: a connection that is
\* not unresponsive has a shell that was recovered.
ReadyMeansRecovered == state = "ready" => pane = <<>>

\* README.md:301-305, of a failed write: "ready" after pane_recovered=true
\* means the pane takes the next command.
RecoveredMeansUsable == state = "ready" => pane = <<>>

\* session.py:489-490 refuses a connection that "is closing": some task is
\* closing it.
ClosingMeansInProgress == state = "closing" /\ registered => holder # NoCall
=============================================================================
