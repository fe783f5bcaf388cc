----------------------------- MODULE PaneLease -----------------------------
(***************************************************************************)
(* What SessionManager promises about one pane: it is leased to one call   *)
(* at a time, only while its shell sits at a prompt; a lease ends with the *)
(* shell back at its prompt or with the connection declared broken; and a  *)
(* broken or closed pane is never leased again.  Where calls can be        *)
(* cancelled, or fail half-way through a write, they may leave something   *)
(* behind: a command that the shell finishes later, or an abandoned close. *)
(***************************************************************************)
CONSTANTS
    Calls,      \* those who may hold the lease
    NoCall,     \* nobody does
    Leftovers   \* whether calls may leave something behind

VARIABLES
    user,    \* the call that has the pane, or NoCall
    shell    \* "clean", "dirty", "used", "broken", "closing" or "closed"

vars == <<user, shell>>

Possibly(s) == IF Leftovers THEN {s} ELSE {}

\* Nobody uses the shell: it is at its prompt, or finishes a leftover.
Idle == {"clean"} \cup Possibly("dirty")

Init == user = NoCall /\ shell = "clean"

Grant(c) ==
    /\ user = NoCall /\ shell \in Idle
    /\ user' = c /\ shell' = "used"

Return(c) ==
    /\ user = c /\ shell = "used"
    /\ user' = NoCall /\ shell' \in Idle \cup {"broken"}

\* Closing waits for the lease to end; a broken pane can be closed too, and
\* an abandoned close be taken up again.
StartClose(c) ==
    /\ user = NoCall /\ shell \in Idle \cup {"broken"} \cup Possibly("closing")
    /\ user' = c /\ shell' = "closing"

EndClose(c) ==
    /\ user = c /\ shell = "closing"
    /\ user' = NoCall /\ shell' \in {"closed", "broken"} \cup Possibly("closing")

\* A leftover is only ever finished or interrupted: an idle shell that sits
\* at its prompt stays there.
Settle ==
    /\ user = NoCall /\ shell = "dirty"
    /\ shell' = "clean" /\ UNCHANGED user

Next ==
    \/ \E c \in Calls : Grant(c) \/ Return(c) \/ StartClose(c) \/ EndClose(c)
    \/ Settle

\* Every lease and every attempt to close ends.
Fairness == \A c \in Calls : WF_vars(Return(c)) /\ WF_vars(EndClose(c))

Spec == Init /\ [][Next]_vars /\ Fairness
=============================================================================
