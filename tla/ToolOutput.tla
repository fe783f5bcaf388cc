----------------------------- MODULE ToolOutput -----------------------------
(***************************************************************************)
(* _truncate_output (server.py): the output of a command, encoded, cut in  *)
(* the middle to so many bytes and decoded again, where a character of two *)
(* or three bytes can be cut too.                                          *)
(*                                                                         *)
(* A character is <<number, width>>, where numbers tell equal characters   *)
(* apart; its bytes are <<character, 1>>, <<character, 2>>, ...            *)
(***************************************************************************)
EXTENDS Integers, Sequences, SequencesExt

CONSTANTS
    MaxChars,     \* bound: characters of the output
    Widths,       \* bytes that a character can have
    MarkerLen,    \* bytes of the truncation marker
    OutputLimits  \* the parameter limit, never less than the marker

VARIABLES
    text,   \* the output
    shown,  \* what the tool returns of it
    cut,    \* its field truncated
    limit

vars == <<text, shown, cut, limit>>

\* The marker, one character here.
Marker == <<0, MarkerLen>>

Bytes(c) == [k \in 1..c[2] |-> <<c, k>>]

Encode(s) == FlattenSeq([i \in DOMAIN s |-> Bytes(s[i])])

\* decode("utf-8", errors="ignore"): the characters that are all there.
Decode(b) ==
    LET Whole(i) == LET c == b[i][1]
                    IN i + c[2] - 1 <= Len(b) /\ SubSeq(b, i, i + c[2] - 1) = Bytes(c)
    IN FlattenSeq([i \in DOMAIN b |-> IF Whole(i) THEN <<b[i][1]>> ELSE << >>])

HeadOf(raw, n) == Decode(SubSeq(raw, 1, n))

\* Mutant: raw[-0:] is all of raw.
Slice(raw, n) == Decode(IF n = 0 THEN raw ELSE SubSeq(raw, Len(raw) - n + 1, Len(raw)))

\* The last n bytes, none for 0.
TailOf(raw, n) == IF n = 0 THEN << >> ELSE Decode(SubSeq(raw, Len(raw) - n + 1, Len(raw)))

Truncate(s, max) ==
    LET raw == Encode(s)
        available == IF max > MarkerLen THEN max - MarkerLen ELSE 0
        head == available \div 2
    IN IF Len(raw) <= max THEN <<s, FALSE>>
       ELSE <<HeadOf(raw, head) \o <<Marker>> \o TailOf(raw, available - head), TRUE>>

Init == text = << >> /\ shown = << >> /\ cut = FALSE /\ limit = 0

\* One result of run_command.
Respond ==
    /\ limit = 0 /\ limit' \in OutputLimits
    /\ \E n \in 0..MaxChars : \E w \in [1..n -> Widths] : text' = [i \in 1..n |-> <<i, w[i]>>]
    /\ shown' = Truncate(text', limit')[1]
    /\ cut' = Truncate(text', limit')[2]

Next == Respond

Spec == Init /\ [][Next]_vars

(* Properties                                                              *)

\* What the constants can be.
Parameters ==
    /\ MaxChars \in Nat /\ MarkerLen \in Nat \ {0} /\ Widths \subseteq Nat \ {0}
    /\ \A max \in OutputLimits : max \in Nat /\ MarkerLen <= max

TypeOK ==
    /\ \A s \in {text, shown} : s \in Seq((0..MaxChars) \X (Widths \cup {MarkerLen}))
    /\ cut \in BOOLEAN /\ limit \in OutputLimits \cup {0}

\* What the agent is shown is the whole output, or no more than the limit of
\* it, marked as truncated: a beginning and an end of the output with the
\* marker between them, no character broken or shown twice, and no more missing
\* than what is left of the two characters that the cuts went through.
OutputHonest ==
    IF ~cut THEN shown = text /\ Len(Encode(text)) <= limit
    ELSE /\ Len(Encode(text)) > limit /\ Len(Encode(shown)) <= limit
         /\ \E h, t \in 0..Len(text) :
               /\ h + t < Len(text)
               /\ shown = SubSeq(text, 1, h) \o <<Marker>>
                           \o SubSeq(text, Len(text) - t + 1, Len(text))
               /\ limit - Len(Encode(shown)) <=
                     (text[h + 1][2] - 1) + (text[Len(text) - t][2] - 1)
=============================================================================
