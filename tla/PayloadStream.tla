--------------------------- MODULE PayloadStream ---------------------------
(***************************************************************************)
(* The payload of a write on its way through the pane, symbol by symbol:   *)
(* write_remote_file pastes its chunks and a delimiter through private     *)
(* tmux buffers (files.py, tmux.py), the terminal hands the receiver       *)
(* whatever is there, and receive_payload (_write_receiver.py) looks for   *)
(* the delimiter in the parts it reads, spooling all that cannot belong to *)
(* it.  A person can type into the same pane, symbols can get lost.        *)
(*                                                                         *)
(* WriteFile has the same transfer as a count of pieces; what happens      *)
(* before and after it, signals included, is there.                        *)
(***************************************************************************)
EXTENDS Naturals, Sequences

CONSTANTS
    PayloadLen,  \* symbols of the encoded content
    ChunkLen,    \* symbols of a full chunk (65,536)
    ReadLen,     \* symbols that one os.read returns at most (65,536)
    Slack,       \* surplus that is not yet an error (65,536: room for the delimiter)
    MaxTyped,    \* bound: symbols that a person types
    MaxFaults,   \* bound: failing tmux commands, lost symbols, hang-ups
    MaxCancels   \* bound: cancellations of the write

VARIABLES
    sender,    \* where the transfer loop is suspended, or how it ended
    piece,     \* the piece it pastes
    unloaded,  \* it gave up on a load-buffer command
    buffers,   \* pieces that the tmux server holds in a paste buffer
    input,     \* what reached the terminal and was not read yet
    stream,    \* what the receiver has read
    pending,   \* its bytearray pending
    spool,     \* what it has written to the encoded file
    receiver,  \* "reading", "accepted", "rejected"
    typed, faults, cancels

client == <<sender, piece, unloaded, buffers>>
remote == <<stream, pending, spool, receiver>>
bounds == <<typed, faults, cancels>>
vars == <<client, input, remote, bounds>>

\* The delimiter begins and ends with a dot, which base64 does not have.
Dot == <<"dot", 0>>
Payload == [i \in 1..PayloadLen |-> <<"payload", i>>]
Delimiter == <<Dot, <<"end", 0>>, Dot>>
Symbols == {Payload[i] : i \in 1..PayloadLen} \cup {Dot, <<"end", 0>>, <<"stray", 0>>}

Chunks == (PayloadLen + ChunkLen - 1) \div ChunkLen

\* Chunk k of the content, or the delimiter after the last one.
Piece(k) ==
    IF k > Chunks THEN Delimiter
    ELSE SubSeq(Payload, (k - 1) * ChunkLen + 1,
                IF k = Chunks THEN PayloadLen ELSE k * ChunkLen)

Init ==
    /\ sender = "load" /\ piece = 1 /\ unloaded = FALSE /\ buffers = {}
    /\ input = << >> /\ stream = << >> /\ pending = << >> /\ spool = << >>
    /\ receiver = "reading"
    /\ typed = 0 /\ faults = 0 /\ cancels = 0

Fault == faults < MaxFaults /\ faults' = faults + 1 /\ UNCHANGED <<typed, cancels>>
Cancelled == cancels < MaxCancels /\ cancels' = cancels + 1 /\ UNCHANGED <<typed, faults>>

(* _load_and_paste, for each piece in turn                                 *)

Load ==
    /\ sender = "load" /\ sender' = "paste"
    /\ buffers' = buffers \cup {piece}
    /\ UNCHANGED <<piece, unloaded, input, remote, bounds>>

\* The client of load-buffer is killed by its timeout or a cancellation, or
\* tmux refuses; nothing deletes a buffer that was loaded all the same.
LoadBreaks ==
    /\ sender = "load"
    /\ \/ Fault /\ sender' = "failed"
       \/ Cancelled /\ sender' = "cancelled"
    /\ unloaded' = TRUE
    /\ buffers' \in {buffers, buffers \cup {piece}}
    /\ UNCHANGED <<piece, input, remote>>

\* What the terminal gets when s is pasted: all of it, or one symbol less.
Arrivals(s) == {s} \cup {SubSeq(s, 1, i - 1) \o SubSeq(s, i + 1, Len(s)) : i \in DOMAIN s}

\* paste-buffer -d
Pasted(s) == input' = input \o s /\ buffers' = buffers \ {piece}

\* The next chunk, or after the last one the delimiter, or the end.
Paste ==
    /\ sender = "paste"
    /\ \E s \in Arrivals(Piece(piece)) :
          /\ Pasted(s)
          /\ IF s = Piece(piece) THEN UNCHANGED bounds ELSE Fault
    /\ IF piece > Chunks THEN sender' = "sent" /\ UNCHANGED piece
                         ELSE sender' = "load" /\ piece' = piece + 1
    /\ UNCHANGED <<unloaded, remote>>

DropBuffer == sender' = IF cancels' = cancels THEN "delete" ELSE "shielded"

\* A timeout, a refusal or a cancellation; tmux may have pasted already.
PasteBreaks ==
    /\ sender = "paste"
    /\ Fault \/ Cancelled
    /\ DropBuffer
    /\ Pasted(Piece(piece)) \/ UNCHANGED <<input, buffers>>
    /\ UNCHANGED <<piece, unloaded, remote>>

\* Once it is shielded, a further cancellation does not stop delete-buffer.
Delete ==
    /\ sender \in {"delete", "shielded"}
    /\ sender' = IF sender = "delete" THEN "failed" ELSE "cancelled"
    /\ buffers' = buffers \ {piece}
    /\ UNCHANGED <<piece, unloaded, input, remote, bounds>>

DeleteBreaks ==
    /\ \/ sender = "delete" /\ sender' = "failed" /\ Fault
       \/ sender = "delete" /\ sender' = "cancelled" /\ Cancelled
       \/ sender = "shielded" /\ sender' = "cancelled" /\ Fault
    /\ buffers' \in {buffers, buffers \ {piece}}
    /\ UNCHANGED <<piece, unloaded, input, remote>>

PersonTypes ==
    /\ typed < MaxTyped /\ typed' = typed + 1
    /\ \E s \in {Dot, <<"end", 0>>, <<"stray", 0>>} : input' = Append(input, s)
    /\ UNCHANGED <<client, remote, faults, cancels>>

(* receive_payload                                                         *)

OccursAt(s, i) ==
    /\ i + Len(Delimiter) - 1 <= Len(s)
    /\ \A j \in DOMAIN Delimiter : s[i + j - 1] = Delimiter[j]

\* s.find(delimiter), every place.
Places(s) == {i \in DOMAIN s : OccursAt(s, i)}
First(s) == CHOOSE i \in Places(s) : \A j \in Places(s) : i <= j

\* The "finally": tcflush.
Stop(verdict) == receiver' = verdict /\ input' = << >> /\ pending' = << >>

\* Nothing behind the delimiter, and the expected number of symbols before.
Fits(all) ==
    /\ First(all) + Len(Delimiter) - 1 = Len(all)
    /\ First(all) - 1 + Len(spool) = PayloadLen

Finish(all) ==
    /\ spool' = spool \o SubSeq(all, 1, First(all) - 1)
    /\ Stop(IF Fits(all) THEN "accepted" ELSE "rejected")

\* Mutant: one symbol too few is held back.
HoldLess(all) == IF Len(all) >= Len(Delimiter) - 1 THEN Len(all) - Len(Delimiter) + 2 ELSE 0

\* flush_bytes: what cannot be the beginning of a delimiter.
Flushed(all) == IF Len(all) >= Len(Delimiter) THEN Len(all) - Len(Delimiter) + 1 ELSE 0

\* Mutant: the delimiter that is held back counts as surplus.
NoRoom == PayloadLen

Ceiling == PayloadLen + Slack

Hold(all) ==
    /\ spool' = spool \o SubSeq(all, 1, Flushed(all))
    /\ IF Len(spool) + Len(all) > Ceiling
       THEN Stop("rejected")
       ELSE /\ pending' = SubSeq(all, Flushed(all) + 1, Len(all))
            /\ UNCHANGED receiver

\* os.read returns some of what is there.
Read ==
    /\ receiver = "reading"
    /\ \E n \in 1..ReadLen :
          LET part == SubSeq(input, 1, n)
              all == pending \o part
          IN /\ n <= Len(input)
             /\ stream' = stream \o part
             /\ IF Places(all) # {} THEN Finish(all)
                ELSE /\ Hold(all)
                     /\ receiver' = "reading" => input' = SubSeq(input, n + 1, Len(input))
    /\ UNCHANGED <<client, bounds>>

\* os.read returns nothing: the terminal hung up.
HangUp ==
    /\ receiver = "reading" /\ Fault
    /\ Stop("rejected")
    /\ UNCHANGED <<client, stream, spool>>

(* The specification                                                       *)

SenderStep == Load \/ Paste \/ Delete

Next ==
    \/ SenderStep \/ LoadBreaks \/ PasteBreaks \/ DeleteBreaks
    \/ PersonTypes \/ Read \/ HangUp

Spec == Init /\ [][Next]_vars

(* Properties                                                              *)

\* What the constants can be: a delimiter that is held back is no surplus.
Parameters ==
    /\ PayloadLen \in Nat /\ ChunkLen \in Nat \ {0} /\ ReadLen \in Nat
    /\ Slack \in Nat /\ Slack >= Len(Delimiter) - 1
    /\ MaxTyped \in Nat /\ MaxFaults \in Nat /\ MaxCancels \in Nat

Ended == sender \in {"sent", "failed", "cancelled"}

TypeOK ==
    /\ sender \in {"load", "paste", "delete", "shielded", "sent", "failed", "cancelled"}
    /\ piece \in 1..(Chunks + 1) /\ buffers \subseteq 1..(Chunks + 1)
    /\ unloaded \in BOOLEAN
    /\ \A s \in {input, stream, pending, spool} : s \in Seq(Symbols)
    /\ receiver \in {"reading", "accepted", "rejected"}
    /\ typed \in 0..MaxTyped /\ faults \in 0..MaxFaults /\ cancels \in 0..MaxCancels

\* However the stream is cut into reads: what is spooled and held back is all
\* that was read, in order, and a delimiter in it is never missed; a payload
\* is accepted only if it is what came before the first delimiter, with
\* nothing behind; and the spooled file cannot grow without limit.
DelimiterEndsPayload ==
    /\ receiver = "reading" =>
          /\ stream = spool \o pending
          /\ Places(stream) = {}
          /\ Len(stream) <= PayloadLen + Slack
    /\ receiver = "accepted" =>
          /\ stream = spool \o Delimiter
          /\ First(stream) = Len(spool) + 1
          /\ Len(spool) = PayloadLen

\* A payload that nobody disturbed is never rejected, and is spooled as it
\* was sent once everything was read.
CleanTransferAccepted ==
    typed = 0 /\ faults = 0 =>
        /\ receiver # "rejected"
        /\ sender = "sent" /\ input = << >> => receiver = "accepted" /\ spool = Payload

\* A transfer that ended leaves no paste buffer with the payload in the tmux
\* server, unless its load-buffer command was interrupted or a second thing
\* went wrong.
BuffersGone == Ended /\ buffers # {} => unloaded \/ faults + cancels > 1
=============================================================================
