----------------------------- MODULE MCToolCalls -----------------------------
(* Constants for ToolCalls.cfg.                                            *)
EXTENDS ToolCalls

\* Files with and without the string to replace, once, twice, overlapping
\* itself, and over two chunks; with a character cut off or over two chunks.
\* The new string is longer, and makes new places of the old one.
MCContents == {
    << >>, <<"a", "a">>, <<"b", "a", "a">>, <<"a", "a", "a">>,
    <<"a", "a", "b", "a", "a">>, <<"b", "lead", "cont">>, <<"b", "lead">>}

MCOld == <<"a", "a">>
MCNew == <<"a", "b", "a">>

\* Two edits, of all places and of one, and a read (see EditRequest).
MCRequests ==
    {[tool |-> "edit", all |-> all, offset |-> 0, limit |-> MaxRead] : all \in BOOLEAN}
        \cup {[tool |-> "read", all |-> FALSE, offset |-> 1, limit |-> 2]}
=============================================================================
