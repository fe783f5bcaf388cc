----------------------------- MODULE AtomicWrite -----------------------------
(***************************************************************************)
(* What remote_write promises, whatever goes wrong underneath: at one      *)
(* moment, if at all, one name gets the whole new content; the call        *)
(* answers once, and says ok only after that moment; after an ok nothing   *)
(* of the call is still to come.  Other programs change the same names all *)
(* the time.                                                               *)
(***************************************************************************)
CONSTANTS Places, None

VARIABLES
    file,     \* what each name holds, or None
    link,     \* the name that the path is a symbolic link to, or None
    landed,   \* the new content was given a name
    outcome   \* what the caller was told, or None

vars == <<file, link, landed, outcome>>

Init ==
    /\ \A p \in Places : file[p] # "ours"
    /\ landed = FALSE /\ outcome = None

\* A link gives way only to a file of its own name.
Land(p) ==
    /\ ~landed /\ landed' = TRUE
    /\ outcome # "ok"
    /\ file' = [file EXCEPT ![p] = "ours"]
    /\ link' = IF p = "path" THEN None ELSE link
    /\ UNCHANGED outcome

\* Another program's file, or none, takes a name; the link may change.
Foreign ==
    /\ \E p \in Places, c \in {None, "theirs"} : file' = [file EXCEPT ![p] = c]
    /\ UNCHANGED <<landed, outcome>>

Answer ==
    /\ outcome = None /\ outcome' \in {"ok", "failed", "cancelled"}
    /\ outcome' = "ok" => landed
    /\ UNCHANGED <<file, link, landed>>

Next == (\E p \in Places : Land(p)) \/ Foreign \/ Answer

Spec == Init /\ [][Next]_vars
=============================================================================
