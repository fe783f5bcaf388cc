---------------------------- MODULE MCWriteFile ----------------------------
(***************************************************************************)
(* WriteFile for model checking, and what the documentation says of it.    *)
(***************************************************************************)
EXTENDS WriteFile

\* "the error includes ... whether the destination is known to be unchanged":
\* a destination reported as unchanged does not hold the new content.
KnownUnchanged == reported = "unchanged" => \A p \in Places : file[p] # "ours"
=============================================================================
