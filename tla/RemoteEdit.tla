----------------------------- MODULE RemoteEdit -----------------------------
(***************************************************************************)
(* One remote_read or remote_edit (server.py, files.py) on a file that     *)
(* other programs change at any time: read_remote_file asks for the size,  *)
(* then reads a chunk; read_entire_remote_file does so until the file has  *)
(* ended; edit_remote_file replaces a string in what it got and writes the *)
(* whole back.                                                             *)
(*                                                                         *)
(* The write is what WriteFile makes of it: a snapshot of the path, then a *)
(* rename if the path still is what it was, and an answer that can get     *)
(* lost.  A file is a sequence of bytes; "lead" and "cont" are the halves  *)
(* of a two-byte UTF-8 character.  One os.read is atomic.                  *)
(***************************************************************************)
EXTENDS Naturals, Sequences, SequencesExt

CONSTANTS
    MaxRead,     \* MAX_READ_BYTES
    Contents,    \* what files can hold
    NoFile,      \* the path leads nowhere
    Old, New,    \* the edit's arguments
    Requests,    \* the calls to choose from, see EditRequest and ReadRequest
    MaxForeign,  \* bound: changes by others during the call
    MaxErrors    \* bound: tmux errors, timeouts, missing size lines, lost answers

VARIABLES
    file,      \* what the path leads to
    inode,     \* its identity
    past,      \* all that the path led to during the call
    caller,    \* where the call is suspended
    request,   \* its arguments
    size,      \* os.path.getsize
    part,      \* the chunk
    got,       \* what the call has assembled
    snap,      \* the identity that the write's snapshot holds
    written,   \* the new text
    result,    \* how the call ended
    foreign, errors

disk == <<file, inode, past>>
call == <<caller, request, size, part, got, snap, written, result>>
vars == <<disk, call, foreign, errors>>

EditRequest(all) == [tool |-> "edit", all |-> all, offset |-> 0, limit |-> MaxRead]
ReadRequest(o, n) == [tool |-> "read", all |-> FALSE, offset |-> o, limit |-> n]

Least(m, n) == IF m < n THEN m ELSE n

Init ==
    /\ file = NoFile /\ inode = 0 /\ past = {}
    /\ caller = "idle" /\ request = ReadRequest(0, MaxRead)
    /\ size = 0 /\ part = << >> /\ got = << >>
    /\ snap = 0 /\ written = NoFile /\ result = "none"
    /\ foreign = 0 /\ errors = 0

Error == errors < MaxErrors /\ errors' = errors + 1

End(r) == caller' = "end" /\ result' = r

(* read_remote_file: two system calls, then an answer through the pane     *)

Call ==
    /\ caller = "idle" /\ caller' = "stat"
    /\ request' \in Requests
    /\ past' = {file}
    /\ UNCHANGED <<file, inode, size, part, got, snap, written, result, foreign, errors>>

\* An edit goes on behind what it has.
Offset == request.offset + (IF request.tool = "edit" THEN Len(got) ELSE 0)

Stat ==
    /\ caller = "stat"
    /\ IF file = NoFile THEN End("failed") /\ UNCHANGED size
       ELSE size' = Len(file) /\ caller' = "chunk" /\ UNCHANGED result
    /\ UNCHANGED <<disk, request, part, got, snap, written, foreign, errors>>

Chunk ==
    /\ caller = "chunk"
    /\ IF file = NoFile THEN End("failed") /\ UNCHANGED part
       ELSE /\ part' = SubSeq(file, Offset + 1, Least(Offset + request.limit, Len(file)))
            /\ caller' = "answer"
            /\ UNCHANGED result
    /\ UNCHANGED <<disk, request, size, got, snap, written, foreign, errors>>

\* A timeout or garbled output, a FileOpError; or a TmuxError, which the
\* handlers do not catch.
ReadBreaks ==
    /\ caller \in {"stat", "chunk", "answer"}
    /\ Error
    /\ End("failed") \/ End("raised")
    /\ UNCHANGED <<disk, request, size, part, got, snap, written, foreign>>

(* edit_remote_file: decode, count, replace                                *)

\* data.decode("utf-8") succeeds.
Valid(s) ==
    \A i \in DOMAIN s :
        /\ s[i] = "lead" => i < Len(s) /\ s[i + 1] = "cont"
        /\ s[i] = "cont" => i > 1 /\ s[i - 1] = "lead"

Matches(s, i) == i + Len(Old) - 1 <= Len(s) /\ SubSeq(s, i, i + Len(Old) - 1) = Old

\* Where str.count and str.replace find Old: from the left, not overlapping.
Hits(s) ==
    LET places == {i \in 1..Len(s) : Matches(s, i)}
    IN CHOOSE P \in SUBSET places : \A i \in places :
           i \in P <=> \A j \in P : j < i => j + Len(Old) <= i

\* s with the hits at P replaced.
Replace(s, P) ==
    FlattenSeq([i \in 1..Len(s) |->
        IF i \in P THEN New
        ELSE IF \E p \in P : p < i /\ i < p + Len(Old) THEN << >>
        ELSE <<s[i]>>])

\* Mutant: every hit is replaced, unique or not.
Unasked(P) == P

\* The hits to replace, or none.
Chosen(P) == IF request.all \/ Cardinality(P) = 1 THEN P ELSE {}

Edit(s) ==
    IF ~Valid(s) THEN End("invalid") /\ UNCHANGED written
    ELSE IF Hits(s) = {} THEN End("not_found") /\ UNCHANGED written
    ELSE IF Chosen(Hits(s)) = {} THEN End("ambiguous") /\ UNCHANGED written
    ELSE /\ written' = Replace(s, Chosen(Hits(s)))
         /\ caller' = "snapshot" /\ UNCHANGED result

(* read_entire_remote_file                                                 *)

\* Mutant: without a size line the first chunk is the file.
OneChunk(total, all) == total = "missing" \/ Len(all) >= size

\* The file has ended: its size says so or, without a size line, a chunk.
Complete(total, all) ==
    IF total = "known" THEN Len(all) >= size ELSE Len(part) < MaxRead

Continue(total, all) ==
    IF Complete(total, all) THEN Edit(all)
    ELSE /\ UNCHANGED written
         /\ IF total = "known" /\ part = << >> THEN End("failed")
            ELSE caller' = "stat" /\ UNCHANGED result

\* The result of run_in_pane: the chunk, with or without the size line.
Answer ==
    /\ caller = "answer"
    /\ got' = got \o part
    /\ \E total \in {"known", "missing"} :
          /\ IF total = "known" THEN UNCHANGED errors ELSE Error
          /\ IF request.tool = "edit" THEN Continue(total, got')
             ELSE End("ok") /\ UNCHANGED written
    /\ UNCHANGED <<disk, request, size, part, snap, foreign>>

(* write_remote_file, abstracted                                           *)

\* The path's identity, as destination_snapshot and destination_matches see it.
Identity == IF file = NoFile THEN NoFile ELSE <<inode>>

Snapshot ==
    /\ caller = "snapshot" /\ caller' = "commit"
    /\ snap' = Identity
    /\ UNCHANGED <<disk, request, size, part, got, written, result, foreign, errors>>

Replaced == file' = written /\ inode' = inode + 1 /\ past' = past

Commit ==
    /\ caller = "commit"
    /\ IF Identity = snap THEN Replaced /\ End("ok") ELSE End("failed") /\ UNCHANGED disk
    /\ UNCHANGED <<request, size, part, got, snap, written, foreign, errors>>

\* The write fails, or its answer gets lost.
CommitBreaks ==
    /\ caller = "commit" /\ Error
    /\ \/ UNCHANGED disk
       \/ Identity = snap /\ Replaced
    /\ End("failed")
    /\ UNCHANGED <<request, size, part, got, snap, written, foreign>>

\* Other programs change the file in place, rename another one onto it or
\* remove it; any number of times before the call.
ForeignWrite ==
    /\ file' \in (Contents \cup {NoFile}) \ {file}
    /\ inode' \in {inode, inode + 1}
    /\ inode' = inode => file # NoFile \/ caller = "idle"
    /\ inode' # inode => caller # "idle"
    /\ IF caller = "idle" THEN UNCHANGED <<foreign, past>>
       ELSE foreign < MaxForeign /\ foreign' = foreign + 1 /\ past' = past \cup {file'}
    /\ UNCHANGED <<call, errors>>

(* The specification                                                       *)

CallStep == Call \/ Stat \/ Chunk \/ Answer \/ Snapshot \/ Commit

Next == CallStep \/ ReadBreaks \/ CommitBreaks \/ ForeignWrite

Spec == Init /\ [][Next]_vars

(* Properties                                                              *)

Bytes == UNION {{c[i] : i \in DOMAIN c} : c \in Contents \cup {Old, New}}

\* What the constants can be: read_entire_remote_file asks from the beginning
\* for chunks of MAX_READ_BYTES; edit_remote_file refuses an empty old.
Parameters ==
    /\ MaxRead \in Nat /\ MaxForeign \in Nat /\ MaxErrors \in Nat
    /\ Contents \cup {Old, New} \subseteq Seq(Bytes)
    /\ NoFile \notin Contents /\ Old # << >>
    /\ \A r \in Requests :
          /\ r.offset \in Nat /\ r.limit \in Nat
          /\ r.tool = "edit" => r.offset = 0 /\ r.limit = MaxRead

TypeOK ==
    /\ file = NoFile \/ file \in Seq(Bytes)
    /\ caller \in {"idle", "stat", "chunk", "answer", "snapshot", "commit", "end"}
    /\ result \in {"none", "ok", "failed", "raised", "invalid", "not_found", "ambiguous"}
    /\ part \in Seq(Bytes) /\ got \in Seq(Bytes)
    /\ written = NoFile \/ written \in Seq(Bytes)
    /\ foreign \in 0..MaxForeign /\ errors \in 0..MaxErrors

\* The call has all that it was going to read.
HasRead ==
    \/ caller \in {"snapshot", "commit"}
    \/ result \in {"ok", "invalid", "not_found", "ambiguous"}

\* What a call read is the file: each byte was in its place at some moment of
\* the call, and the end was the end of the file at some moment.  If nobody
\* changed the file, that is the file itself, whatever its length, and with or
\* without size lines.
ReadReflectsFile ==
    HasRead =>
        /\ \A i \in DOMAIN got : \E c \in past \ {NoFile} :
              request.offset + i <= Len(c) /\ c[request.offset + i] = got[i]
        /\ request.tool = "edit" \/ Len(got) < request.limit =>
              \E c \in past \ {NoFile} : Len(c) <= request.offset + Len(got)

Occurs(s) == \E i \in 1..Len(s) : Matches(s, i)

\* What str.count counts and str.replace replaces in s: places of Old that do
\* not overlap, taken from the left, so that any other place overlaps one.
AreHits(s, P) ==
    /\ \A p \in P : Matches(s, p)
    /\ \A o, p \in P : o < p => o + Len(Old) <= p
    /\ \A i \in DOMAIN s : Matches(s, i) => \E p \in P : p <= i /\ i < p + Len(Old)

\* The bytes of s that no hit covers, and where the i-th byte of s comes to be
\* when every hit before it gives way to New.
Kept(s, P) == {i \in DOMAIN s : \A p \in P : i < p \/ p + Len(Old) <= i}

Place(s, P, i) ==
    1 + Cardinality({k \in Kept(s, P) : k < i})
      + Len(New) * Cardinality({p \in P : p < i})

\* r is s with New for each hit, and everything else in its order.
IsReplaced(s, P, r) ==
    /\ Len(r) = Cardinality(Kept(s, P)) + Len(New) * Cardinality(P)
    /\ \A i \in Kept(s, P) : r[Place(s, P, i)] = s[i]
    /\ \A p \in P : \A k \in DOMAIN New : r[Place(s, P, p) + k - 1] = New[k]

\* An edit writes what it read with the one hit or, if asked to, all of them
\* replaced, and nothing else changed.  When nobody changed the file, what it
\* read is the file, and the call gives the true reason if it does not
\* replace: an Old that falls over two chunks is found, a character that does
\* is no decoding error.
EditIsExact ==
    request.tool = "edit" =>
        /\ written # NoFile =>
              \E P \in SUBSET DOMAIN got :
                  /\ P # {} /\ AreHits(got, P)
                  /\ request.all \/ \E p \in P : P = {p}
                  /\ IsReplaced(got, P, written)
        /\ \A c \in past \ {NoFile} : past = {c} =>
              /\ written # NoFile => got = c
              /\ result = "invalid" => ~Valid(c)
              /\ result = "not_found" => ~Occurs(c)
              /\ result = "ambiguous" => \E i, j \in DOMAIN c :
                    i + Len(Old) <= j /\ Matches(c, i) /\ Matches(c, j)
=============================================================================
