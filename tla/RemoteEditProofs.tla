-------------------------- MODULE RemoteEditProofs --------------------------
(***************************************************************************)
(* Proofs about RemoteEdit: what a read of a changing file returns and     *)
(* what an edit makes of it, for any contents, any strings, any size of a  *)
(* chunk and any number of changes.                                        *)
(***************************************************************************)
EXTENDS RemoteEdit, FiniteSetTheorems, WellFoundedInduction, TLAPS

Files == past \ {NoFile}

\* The history of the path, as far as the reads need it.
Known ==
    /\ past \subseteq Contents \cup {NoFile}
    /\ caller \in {"idle", "stat", "chunk", "answer"} => file \in Contents \cup {NoFile}
    /\ caller \in {"stat", "chunk", "answer", "snapshot", "commit"} => file \in past

\* The arguments of the call, and where it has come to.
Asked ==
    /\ request.offset \in Nat /\ request.limit \in Nat
    /\ request.tool = "edit" => request.offset = 0 /\ request.limit = MaxRead
    /\ caller \in {"idle", "stat", "chunk", "answer"} => result = "none"
    /\ caller \in {"idle", "stat", "chunk", "answer"} =>
          request.tool = "edit" \/ got = << >>
    /\ caller = "idle" => got = << >>

\* b was the byte at place i of the file at some moment of the call.
Held(i, b) == \E c \in Files : request.offset + i <= Len(c) /\ c[request.offset + i] = b

\* s is what a read from offset o on returns of c.
IsChunk(s, c, o) == s = SubSeq(c, o + 1, Least(o + request.limit, Len(c)))

\* The end of what was read was the end of the file at some moment.
Ended(s) == \E c \in Files : Len(c) <= request.offset + Len(s)

Reading ==
    /\ got \in Seq(Bytes)
    /\ \A i \in 1..Len(got) : Held(i, got[i])
    /\ caller \in {"chunk", "answer"} => \E c \in Files : size = Len(c)
    /\ caller = "answer" => \E c \in Files : IsChunk(part, c, Offset)
    /\ HasRead => (request.tool = "edit" \/ Len(got) < request.limit => Ended(got))

IInv == Parameters /\ Known /\ Asked /\ Reading

\* A chunk consists of the bytes of the file behind the offset; one that is
\* shorter than the limit reaches the end.
LEMMA ChunkFacts ==
    ASSUME NEW S, NEW c \in Seq(S), NEW o \in Nat, request.limit \in Nat,
           NEW s, IsChunk(s, c, o)
    PROVE  /\ s \in Seq(S)
           /\ \A i \in 1..Len(s) : o + i <= Len(c) /\ s[i] = c[o + i]
           /\ Len(s) < request.limit => Len(c) <= o + Len(s)
<1> DEFINE n == Least(o + request.limit, Len(c))
<1>1. n \in Nat /\ n <= Len(c) /\ n <= o + request.limit
      /\ (n = Len(c) \/ n = o + request.limit)
  BY DEF Least
<1>2. s = SubSeq(c, o + 1, n)
  BY DEF IsChunk
<1> HIDE DEF n
<1>3. CASE o + 1 <= n
  <2>1. s \in Seq(S) /\ Len(s) = n - o /\ \A i \in 1..n - o : s[i] = c[o + 1 + i - 1]
    BY <1>1, <1>2, <1>3
  <2>2. \A i \in 1..n - o : o + 1 + i - 1 = o + i
    OBVIOUS
  <2> QED BY <1>1, <2>1, <2>2
<1>4. CASE n < o + 1
  <2>1. s = << >>
    BY <1>1, <1>2, <1>4
  <2> QED BY <1>1, <1>4, <2>1
<1> QED BY <1>1, <1>3, <1>4

\* The path holds a file of Contents, or nothing, while a call looks at it.
LEMMA FilesAreContents == ASSUME Parameters, Known PROVE \A c \in Files : c \in Seq(Bytes)
BY DEF Parameters, Known, Files

\* What was once read stays true: the history of the path only grows.
LEMMA HeldStays ==
    ASSUME IInv, request' = request, got' = got, size' = size, past \subseteq past'
    PROVE  /\ \A i \in 1..Len(got) : Held(i, got[i])'
           /\ \A s : Ended(s) => Ended(s)'
           /\ (\E c \in Files : size = Len(c)) => (\E c \in Files : size = Len(c))'
           /\ \A s : (\E c \in Files : IsChunk(s, c, Offset)) =>
                        (\E c \in Files : IsChunk(s, c, Offset))'
<1>1. Files \subseteq Files'
  BY DEF Files
<1>2. \A i \in 1..Len(got) : Held(i, got[i])'
  BY <1>1 DEF IInv, Reading, Held
<1>3. \A s : Ended(s) => Ended(s)'
  BY <1>1 DEF Ended
<1>4. (\E c \in Files : size = Len(c)) => (\E c \in Files : size = Len(c))'
  BY <1>1
<1>5. \A s, c : IsChunk(s, c, Offset) <=> IsChunk(s, c, Offset)'
  BY DEF IsChunk, Offset
<1> QED BY <1>1, <1>2, <1>3, <1>4, <1>5

\* Reading a chunk: at that moment it is what the file holds there.
LEMMA ChunkStep == ASSUME IInv, Chunk PROVE IInv'
<1>1. CASE file = NoFile
  <2>1. /\ caller' = "end" /\ result' = "failed"
        /\ UNCHANGED <<file, past, request, size, got>>
    BY <1>1 DEF Chunk, End, disk
  <2> QED BY <2>1, HeldStays DEF IInv, Parameters, Known, Asked, Reading, HasRead, Held, Files
<1>2. CASE file # NoFile
  <2>1. /\ part' = SubSeq(file, Offset + 1, Least(Offset + request.limit, Len(file)))
        /\ caller = "chunk" /\ caller' = "answer"
        /\ UNCHANGED <<file, past, request, size, got, result>>
    BY <1>2 DEF Chunk, disk
  <2>2. file \in Files' /\ (IsChunk(part, file, Offset))'
    BY <1>2, <2>1 DEF IInv, Known, Files, IsChunk, Offset
  <2>3. Reading'
    <3>1. \E c \in Files' : IsChunk(part, c, Offset)'
      BY <2>2, <2>1 DEF IsChunk, Offset
    <3>2. ~HasRead'
      BY <2>1 DEF HasRead, IInv, Asked
    <3>3. (\E c \in Files : size = Len(c))' /\ \A i \in 1..Len(got) : Held(i, got[i])'
      BY <2>1, HeldStays DEF IInv, Reading
    <3> QED BY <2>1, <3>1, <3>2, <3>3 DEF IInv, Reading
  <2> QED BY <2>1, <2>3 DEF IInv, Parameters, Known, Asked
<1> QED BY <1>1, <1>2

\* The whole that the call then has: all its bytes were in the file, and if
\* the chunk was short, or as long as the file is known to be, so is the end.
LEMMA Assembled ==
    ASSUME IInv, Answer
    PROVE  /\ got' \in Seq(Bytes)
           /\ \A i \in 1..Len(got') : Held(i, got'[i])
           /\ Len(part) < request.limit => Ended(got')
           /\ request.offset = 0 /\ Len(got') >= size => Ended(got')
           /\ request.tool # "edit" => Len(got') = Len(part)
<1>1. caller = "answer" /\ got' = got \o part
  BY DEF Answer
<1>2. PICK c \in Files : IsChunk(part, c, Offset)
  BY <1>1 DEF IInv, Reading
<1>3. c \in Seq(Bytes) /\ got \in Seq(Bytes) /\ request.offset \in Nat /\ request.limit \in Nat
  BY FilesAreContents DEF IInv, Reading, Asked
<1>4. request.tool = "edit" \/ got = << >>
  BY <1>1 DEF IInv, Asked
<1>5. Offset = request.offset + Len(got) /\ Offset \in Nat
  BY <1>3, <1>4 DEF Offset
<1>6. /\ part \in Seq(Bytes)
      /\ \A i \in 1..Len(part) : Offset + i <= Len(c) /\ part[i] = c[Offset + i]
      /\ Len(part) < request.limit => Len(c) <= Offset + Len(part)
  BY <1>2, <1>3, <1>5, ChunkFacts
<1>7. got' \in Seq(Bytes) /\ Len(got') = Len(got) + Len(part)
      /\ (\A i \in 1..Len(got) : got'[i] = got[i])
      /\ (\A i \in 1..Len(part) : got'[Len(got) + i] = part[i])
  BY <1>1, <1>3, <1>6
<1>8. ASSUME NEW i \in 1..Len(got')
      PROVE  Held(i, got'[i])
  <2>1. CASE i <= Len(got)
    BY <1>3, <1>7, <2>1 DEF IInv, Reading
  <2>2. CASE i > Len(got)
    <3>1. i - Len(got) \in 1..Len(part) /\ Len(got) + (i - Len(got)) = i
      BY <1>3, <1>6, <1>7, <2>2
    <3>2. got'[i] = part[i - Len(got)]
      BY <1>7, <3>1
    <3>3. Offset + (i - Len(got)) = request.offset + i
      BY <1>3, <1>5
    <3>4. request.offset + i <= Len(c) /\ got'[i] = c[request.offset + i]
      BY <1>6, <3>1, <3>2, <3>3
    <3> QED BY <3>4 DEF Held
  <2> QED BY <1>3, <1>7, <2>1, <2>2
<1>9. Len(part) < request.limit => Ended(got')
  <2>1. Offset + Len(part) = request.offset + Len(got')
    BY <1>3, <1>5, <1>6, <1>7
  <2> QED BY <1>6, <2>1 DEF Ended
<1>10. request.offset = 0 /\ Len(got') >= size => Ended(got')
  <2> SUFFICES ASSUME request.offset = 0, Len(got') >= size PROVE Ended(got')
    OBVIOUS
  <2>1. PICK d \in Files : size = Len(d)
    BY <1>1 DEF IInv, Reading
  <2>2. d \in Seq(Bytes)
    BY FilesAreContents DEF IInv
  <2>3. Len(d) <= request.offset + Len(got')
    BY <1>7, <2>1, <2>2
  <2> QED BY <2>3 DEF Ended
<1>11. request.tool # "edit" => Len(got') = Len(part)
  BY <1>4, <1>6, <1>7
<1> QED BY <1>7, <1>8, <1>9, <1>10, <1>11

\* The answer of a read: an edit goes on only with a file that has ended.
LEMMA AnswerStep == ASSUME IInv, Answer PROVE IInv'
<1>1. /\ caller = "answer"
      /\ UNCHANGED <<file, past, request, size>> /\ result = "none"
  BY DEF Answer, disk, IInv, Asked
<1>2. /\ \A i, b : Held(i, b) => Held(i, b)'
      /\ \A s : Ended(s) => Ended(s)'
  BY <1>1 DEF Held, Ended, Files
<1>3. /\ got' \in Seq(Bytes)
      /\ (\A i \in 1..Len(got) : Held(i, got[i]))'
      /\ Len(part) < request.limit => Ended(got)'
      /\ request.offset = 0 /\ Len(got') >= size => Ended(got)'
      /\ request.tool # "edit" => Len(got') = Len(part)
  BY <1>2, Assembled
\* What is left to show of each way on.
<1>4. ASSUME caller' \in {"stat", "end", "snapshot"},
             caller' = "stat" => request.tool = "edit" /\ result' = "none",
             HasRead' => (request.tool = "edit" \/ Len(got') < request.limit => Ended(got)')
      PROVE  IInv'
  <2>1. Parameters' /\ Known'
    BY <1>1, <1>4 DEF IInv, Known, Parameters
  <2>2. Asked'
    BY <1>1, <1>4 DEF IInv, Asked
  <2>3. Reading'
    BY <1>1, <1>3, <1>4 DEF Reading
  <2> QED BY <2>1, <2>2, <2>3 DEF IInv
<1>5. CASE request.tool = "edit"
  <2>1. PICK total \in {"known", "missing"} : Continue(total, got')
    BY <1>5 DEF Answer
  <2>2. CASE Complete(total, got')
    <3>1. Ended(got)'
      BY <1>3, <1>5, <2>2 DEF Complete, IInv, Asked
    <3>2. Edit(got')
      BY <2>1, <2>2 DEF Continue
    <3>3. caller' \in {"end", "snapshot"}
      BY <3>2 DEF Edit, End
    <3> QED BY <1>4, <3>1, <3>3
  <2>3. CASE ~Complete(total, got')
    <3>1. \/ caller' = "stat" /\ result' = "none"
          \/ caller' = "end" /\ result' = "failed"
      BY <1>1, <2>1, <2>3 DEF Continue, End
    <3>2. ~HasRead'
      BY <3>1 DEF HasRead
    <3> QED BY <1>4, <1>5, <3>1, <3>2
  <2> QED BY <2>2, <2>3
<1>6. CASE request.tool # "edit"
  <2>1. caller' = "end" /\ result' = "ok"
    BY <1>6 DEF Answer, End
  <2>2. Len(got') < request.limit => Ended(got)'
    BY <1>3, <1>6
  <2> QED BY <1>4, <1>6, <2>1, <2>2
<1> QED BY <1>5, <1>6

\* The other steps: the path's history goes on, and what was read stays.
LEMMA OtherStep ==
    ASSUME IInv,
           \/ Call \/ Stat \/ Snapshot \/ Commit \/ ReadBreaks \/ CommitBreaks
           \/ ForeignWrite \/ UNCHANGED vars
    PROVE  IInv'
<1> USE DEF IInv, Parameters, Known, Asked
<1>1. CASE Call
  <2>1. /\ request' \in Requests /\ past' = {file} /\ got' = << >>
        /\ caller' = "stat"
        /\ result' = "none" /\ file' = file
    BY <1>1 DEF Call, Parameters
  <2>2. ~HasRead'
    BY <2>1 DEF HasRead
  <2>3. Known'
    BY <1>1, <2>1 DEF Call
  <2>4. Asked'
    BY <2>1
  <2>5. Reading'
    BY <2>1, <2>2 DEF Reading
  <2> QED BY <2>3, <2>4, <2>5
<1>2. CASE Stat
  <2>1. UNCHANGED <<file, past, request, got>> /\ caller = "stat"
    BY <1>2 DEF Stat, disk
  <2>2. CASE file = NoFile
    <3>1. caller' = "end" /\ result' = "failed" /\ ~HasRead' /\ size' = size
      BY <1>2, <2>2 DEF Stat, End, HasRead
    <3> QED BY <2>1, <3>1, HeldStays DEF Reading
  <2>3. CASE file # NoFile
    <3>1. /\ caller' = "chunk" /\ result' = result /\ size' = Len(file) /\ file \in Files'
      BY <1>2, <2>1, <2>3 DEF Stat, Files
    <3>2. ~HasRead'
      BY <2>1, <3>1 DEF HasRead
    <3>3. \A i \in 1..Len(got) : Held(i, got[i])'
      BY <2>1 DEF Reading, Held, Files
    <3> QED BY <2>1, <3>1, <3>2, <3>3 DEF Reading
  <2> QED BY <2>2, <2>3
<1>3. CASE Snapshot \/ Commit \/ ReadBreaks \/ CommitBreaks
  <2>1. /\ UNCHANGED <<past, request, got, size>>
        /\ caller' \in {"commit", "end"}
        /\ HasRead' => HasRead
        /\ caller \in {"stat", "chunk", "answer", "snapshot", "commit"}
        /\ caller' = "commit" => UNCHANGED <<file, result>>
    BY <1>3 DEF Snapshot, Commit, ReadBreaks, CommitBreaks, Replaced, End, disk, HasRead
  <2> QED BY <2>1, HeldStays DEF Reading
<1>4. CASE ForeignWrite
  <2>1. /\ UNCHANGED <<caller, request, got, size, part, result>>
        /\ file' \in Contents \cup {NoFile}
        /\ caller # "idle" => past' = past \cup {file'}
        /\ past \subseteq past' /\ past' \subseteq past \cup {file'}
    BY <1>4 DEF ForeignWrite, call
  <2>2. HasRead' = HasRead
    BY <2>1 DEF HasRead
  <2> QED BY <2>1, <2>2, HeldStays DEF Reading
<1>5. CASE UNCHANGED vars
  <2>1. UNCHANGED <<file, past, caller, request, got, size, part, result>>
    BY <1>5 DEF vars, disk, call
  <2>2. HasRead' = HasRead
    BY <2>1 DEF HasRead
  <2> QED BY <2>1, <2>2, HeldStays DEF Reading
<1> QED BY <1>1, <1>2, <1>3, <1>4, <1>5

\* The invariant is inductive.
LEMMA Invariance == Parameters /\ Spec => []IInv
<1>1. Parameters /\ Init => IInv
  <2> SUFFICES ASSUME Parameters, Init PROVE IInv OBVIOUS
  <2>1. request.offset = 0 /\ request.limit = MaxRead /\ request.tool = "read"
    BY DEF Init, ReadRequest
  <2>2. ~HasRead
    BY DEF Init, HasRead
  <2> QED BY <2>1, <2>2 DEF Init, IInv, Parameters, Known, Asked, Reading
<1>2. IInv /\ [Next]_vars => IInv'
  BY ChunkStep, AnswerStep, OtherStep DEF Next, CallStep
<1> QED BY <1>1, <1>2, PTL DEF Spec

\* What a call read is made of bytes that were in their places in the file
\* during the call, and it ended where the file ended at some moment of it:
\* for any file, any size of a chunk, and with or without size lines.
THEOREM ReadsAreReal == Parameters /\ Spec => []ReadReflectsFile
<1>1. IInv => ReadReflectsFile
  BY DEF IInv, Reading, Held, Ended, Files, ReadReflectsFile
<1> QED BY <1>1, Invariance, PTL

(* Flattened sequences                                                     *)

\* Induction up to n, on the set of the numbers of which something is true.
LEMMA UpTo ==
    ASSUME NEW n \in Nat, NEW T, 0 \in T, \A m \in 0..n : m \in T /\ m < n => m + 1 \in T
    PROVE  \A m \in 0..n : m \in T
<1> DEFINE Bad == {m \in 0..n : m \notin T}
<1>1. SUFFICES ASSUME Bad # {} PROVE FALSE
  OBVIOUS
<1>2. IsWellFoundedOn(OpToRel(<, Nat), Nat)
  BY NatLessThanWellFounded
<1>3. PICK m \in Bad : \A y \in Bad : ~ (<<y, m>> \in OpToRel(<, Nat))
  <2>1. Bad \subseteq Nat
    OBVIOUS
  <2> HIDE DEF Bad
  <2> QED BY <1>1, <1>2, <2>1, WFMin
<1>4. m \in 1..n /\ m - 1 \in 0..n /\ m - 1 < n /\ m = (m - 1) + 1
  OBVIOUS
<1>5. <<m - 1, m>> \in OpToRel(<, Nat)
  BY <1>4 DEF OpToRel
<1>6. m - 1 \in T
  BY <1>3, <1>4, <1>5
<1> QED BY <1>4, <1>6

\* Where the elements of a concatenation are.
LEMMA Concatenated ==
    ASSUME NEW S, NEW a \in Seq(S), NEW b \in Seq(S)
    PROVE  /\ a \o b \in Seq(S) /\ Len(a) \in Nat /\ Len(b) \in Nat
           /\ Len(a \o b) = Len(a) + Len(b)
           /\ \A i \in 1..Len(a) : (a \o b)[i] = a[i]
           /\ \A k \in 1..Len(b) : (a \o b)[Len(a) + k] = b[k]
OBVIOUS

\* f[n] is the first n pieces of q, joined.
Joined(f, q) ==
    /\ f[0] = << >>
    /\ \A i \in 1..Len(q) : f[i] = f[i - 1] \o q[i]

\* A sequence of sequences can be joined piece by piece.
LEMMA JoinedExists ==
    ASSUME NEW S, NEW q \in Seq(Seq(S))
    PROVE  \E f \in [0..Len(q) -> Seq(S)] : Joined(f, q)
<1> DEFINE Joining(f, m) == f[0] = << >> /\ \A i \in 1..m : f[i] = f[i - 1] \o q[i]
           T == {m \in 0..Len(q) : \E f \in [0..m -> Seq(S)] : Joining(f, m)}
<1>0. Len(q) \in Nat /\ \A i \in 1..Len(q) : q[i] \in Seq(S)
  OBVIOUS
<1>1. 0 \in T
  <2> DEFINE e == [i \in 0..0 |-> << >>]
  <2>1. e \in [0..0 -> Seq(S)] /\ Joining(e, 0)
    OBVIOUS
  <2>2. \E f \in [0..0 -> Seq(S)] : Joining(f, 0)
    <3> HIDE DEF e, Joining
    <3> QED BY <2>1
  <2> HIDE DEF Joining
  <2> QED BY <1>0, <2>2
<1>2. ASSUME NEW m \in 0..Len(q), m \in T, m < Len(q)
      PROVE  m + 1 \in T
  <2>1. PICK f \in [0..m -> Seq(S)] : Joining(f, m)
    BY <1>2
  <2> DEFINE g == [i \in 0..m + 1 |-> IF i = m + 1 THEN f[m] \o q[m + 1] ELSE f[i]]
  <2>2. m \in Nat /\ m + 1 \in 1..Len(q) /\ f[m] \in Seq(S) /\ q[m + 1] \in Seq(S)
    BY <1>0, <1>2
  <2>3. g \in [0..m + 1 -> Seq(S)]
    BY <2>2
  <2>4. ASSUME NEW i \in 1..m + 1
        PROVE  g[i] = g[i - 1] \o q[i]
    <3>1. i - 1 \in 0..m /\ i - 1 # m + 1 /\ (i = m + 1 \/ i \in 1..m)
      BY <2>2
    <3>2. g[i - 1] = f[i - 1] /\ g[i] = IF i = m + 1 THEN f[m] \o q[m + 1] ELSE f[i]
      BY <3>1
    <3>3. i \in 1..m => f[i] = f[i - 1] \o q[i]
      BY <2>1
    <3> HIDE DEF g
    <3>4. CASE i = m + 1
      <4>1. i - 1 = m
        BY <2>2, <3>4
      <4> QED BY <3>2, <3>4, <4>1
    <3>5. CASE i # m + 1
      <4>1. g[i] = f[i]
        BY <3>2, <3>5
      <4> QED BY <3>1, <3>2, <3>3, <3>5, <4>1
    <3> QED BY <3>4, <3>5
  <2>5. g[0] = << >>
    BY <2>1, <2>2
  <2>6. Joining(g, m + 1)
    <3> HIDE DEF g
    <3> QED BY <2>4, <2>5
  <2>7. \E e \in [0..m + 1 -> Seq(S)] : Joining(e, m + 1)
    <3> HIDE DEF g, Joining
    <3> QED BY <2>3, <2>6
  <2>8. m + 1 \in 0..Len(q)
    BY <2>2
  <2> HIDE DEF Joining, g
  <2> QED BY <2>7, <2>8
<1>3. Len(q) \in T
  <2> HIDE DEF T
  <2>1. \A m \in 0..Len(q) : m \in T /\ m < Len(q) => m + 1 \in T
    BY <1>2
  <2>2. \A m \in 0..Len(q) : m \in T
    BY <1>0, <1>1, <2>1, UpTo
  <2> QED BY <1>0, <2>2
<1> QED BY <1>3 DEF Joined

\* What FlattenSeq computes, as a step-by-step join.
LEMMA FlattenJoins ==
    ASSUME NEW S, NEW q \in Seq(Seq(S)), NEW f \in [0..Len(q) -> Seq(S)], Joined(f, q)
    PROVE  FlattenSeq(q) = f[Len(q)]
<1>0. Len(q) \in Nat /\ \A i \in 1..Len(q) : q[i] \in Seq(S)
  OBVIOUS
<1>1. CASE q = << >>
  BY <1>1 DEF FlattenSeq, Joined
<1>2. CASE q # << >>
  <2> DEFINE Is(g) == g = [i \in 1..Len(q) |-> IF i = 1 THEN q[i] ELSE g[i - 1] \o q[i]]
             h == [i \in 1..Len(q) |-> f[i]]
  <2>1. Len(q) # 0
    BY <1>2
  <2>2. Is(h)
    <3>1. ASSUME NEW i \in 1..Len(q)
          PROVE  h[i] = IF i = 1 THEN q[i] ELSE h[i - 1] \o q[i]
      <4>1. CASE i = 1
        <5>1. f[i] = f[i - 1] \o q[i] /\ f[i - 1] = << >> /\ q[i] \in Seq(S)
          <6>1. i - 1 = 0 /\ q[i] \in Seq(S) /\ f[i] = f[i - 1] \o q[i] /\ f[0] = << >>
            <7> HIDE DEF h
            <7>1. i - 1 = 0 /\ q[i] \in Seq(S)
              BY <1>0, <4>1
            <7>2. f[i] = f[i - 1] \o q[i] /\ f[0] = << >>
              BY DEF Joined
            <7> QED BY <7>1, <7>2
          <6> HIDE DEF h
          <6> QED BY <6>1
        <5>2. << >> \o q[i] = q[i]
          BY <5>1
        <5>3. h[i] = f[i]
          OBVIOUS
        <5> HIDE DEF h
        <5> QED BY <4>1, <5>1, <5>2, <5>3
      <4>2. CASE i # 1
        <5>1. i - 1 \in 1..Len(q)
          BY <1>0, <4>2
        <5>2. h[i] = f[i] /\ h[i - 1] = f[i - 1]
          BY <5>1
        <5>3. f[i] = f[i - 1] \o q[i]
          BY DEF Joined
        <5> HIDE DEF h
        <5> QED BY <4>2, <5>2, <5>3
      <4> QED BY <4>1, <4>2
    <3> QED BY <3>1
  <2> DEFINE g == CHOOSE g : Is(g)
  <2>3. Is(g)
    BY <2>2
  <2>4. FlattenSeq(q) = g[Len(q)]
    BY <2>1 DEF FlattenSeq
  <2> HIDE DEF g
  <2>5. \A i \in 1..Len(q) : g[i] = IF i = 1 THEN q[i] ELSE g[i - 1] \o q[i]
    BY <2>3
  <2> DEFINE T == {m \in 0..Len(q) : m = 0 \/ g[m] = f[m]}
  <2>6. 0 \in T
    BY <1>0
  <2>7. ASSUME NEW m \in 0..Len(q), m \in T, m < Len(q)
        PROVE  m + 1 \in T
    <3>1. m + 1 \in 1..Len(q) /\ (m + 1) - 1 = m
      BY <1>0, <2>7
    <3>2. f[m + 1] = f[m] \o q[m + 1] /\ q[m + 1] \in Seq(S)
      BY <1>0, <3>1 DEF Joined
    <3>3. g[m + 1] = IF m + 1 = 1 THEN q[m + 1] ELSE g[m] \o q[m + 1]
      <4> HIDE DEF T
      <4> QED BY <2>5, <3>1
    <3>4. m = 0 \/ g[m] = f[m]
      BY <2>7
    <3> HIDE DEF T, h
    <3>5. g[m + 1] = f[m + 1]
      <4>1. CASE m = 0
        <5>1. f[m] = << >> /\ << >> \o q[m + 1] = q[m + 1]
          BY <3>2, <4>1 DEF Joined
        <5>2. m + 1 = 1
          BY <4>1
        <5> QED BY <3>2, <3>3, <5>1, <5>2
      <4>2. CASE m # 0
        <5>1. m + 1 # 1
          BY <4>2
        <5> QED BY <3>2, <3>3, <3>4, <4>2, <5>1
      <4> QED BY <4>1, <4>2
    <3>6. m + 1 \in 0..Len(q)
      BY <1>0, <3>1
    <3> QED BY <3>5, <3>6 DEF T
  <2>8. Len(q) \in T
    <3> HIDE DEF T
    <3>1. \A m \in 0..Len(q) : m \in T /\ m < Len(q) => m + 1 \in T
      BY <2>7
    <3>2. \A m \in 0..Len(q) : m \in T
      BY <1>0, <2>6, <3>1, UpTo
    <3> QED BY <1>0, <3>2
  <2> QED BY <2>1, <2>4, <2>8
<1> QED BY <1>1, <1>2

\* o[i] is where the i-th piece of q ends in the flattened sequence.
Offsets(o, q) ==
    /\ o \in [0..Len(q) -> Nat]
    /\ o[0] = 0
    /\ \A i \in 1..Len(q) : o[i] = o[i - 1] + Len(q[i])

\* The offsets are the lengths of what is joined.
LEMMA OffsetsExist ==
    ASSUME NEW S, NEW q \in Seq(Seq(S))
    PROVE  \E o : Offsets(o, q)
<1>1. PICK f \in [0..Len(q) -> Seq(S)] : Joined(f, q)
  BY JoinedExists
<1> DEFINE o == [i \in 0..Len(q) |-> Len(f[i])]
<1>2. Len(q) \in Nat /\ \A i \in 1..Len(q) : q[i] \in Seq(S)
  OBVIOUS
<1>3. o \in [0..Len(q) -> Nat] /\ o[0] = 0
  BY <1>1, <1>2 DEF Joined
<1>4. ASSUME NEW i \in 1..Len(q) PROVE o[i] = o[i - 1] + Len(q[i])
  <2>1. i - 1 \in 0..Len(q) /\ i \in 0..Len(q)
    BY <1>2
  <2>2. f[i] = f[i - 1] \o q[i] /\ f[i - 1] \in Seq(S) /\ q[i] \in Seq(S)
    BY <1>1, <1>2, <2>1 DEF Joined
  <2>3. Len(f[i]) = Len(f[i - 1]) + Len(q[i])
    BY <2>2, Concatenated
  <2>4. o[i] = Len(f[i]) /\ o[i - 1] = Len(f[i - 1])
    BY <2>1
  <2> HIDE DEF o
  <2> QED BY <2>3, <2>4
<1> HIDE DEF o
<1>5. Offsets(o, q)
  BY <1>3, <1>4 DEF Offsets
<1> QED BY <1>5

\* The pieces follow each other, and leave no gap.
LEMMA OffsetsOrder ==
    ASSUME NEW S, NEW q \in Seq(Seq(S)), NEW o, Offsets(o, q)
    PROVE  /\ \A i, j \in 0..Len(q) : i <= j => o[i] <= o[j]
           /\ \A p \in 1..o[Len(q)] : \E i \in 1..Len(q) : o[i - 1] < p /\ p <= o[i]
<1>0. Len(q) \in Nat /\ (\A i \in 1..Len(q) : q[i] \in Seq(S) /\ Len(q[i]) \in Nat)
  OBVIOUS
<1>1. ASSUME NEW m \in 0..Len(q), m < Len(q)
      PROVE  m + 1 \in 1..Len(q) /\ o[m] \in Nat /\ o[m + 1] \in Nat /\ o[m] <= o[m + 1]
  <2>1. m + 1 \in 1..Len(q) /\ (m + 1) - 1 = m
    BY <1>0, <1>1
  <2>2. o[m + 1] = o[m] + Len(q[m + 1]) /\ o[m] \in Nat /\ Len(q[m + 1]) \in Nat
    BY <1>0, <2>1 DEF Offsets
  <2> QED BY <2>1, <2>2
<1>2. \A i, j \in 0..Len(q) : i <= j => o[i] <= o[j]
  <2> DEFINE T == {j \in 0..Len(q) : \A i \in 0..j : o[i] <= o[j]}
  <2>1. 0 \in T
    BY <1>0 DEF Offsets
  <2>2. ASSUME NEW m \in 0..Len(q), m \in T, m < Len(q)
        PROVE  m + 1 \in T
    <3>1. ASSUME NEW i \in 0..m + 1 PROVE o[i] <= o[m + 1]
      <4>1. i \in 0..Len(q) /\ (i \in 0..m \/ i = m + 1)
        BY <1>0, <2>2
      <4>2. o[i] \in Nat /\ o[m + 1] \in Nat /\ o[m] \in Nat /\ o[m] <= o[m + 1]
        BY <1>1, <2>2, <4>1 DEF Offsets
      <4> QED BY <2>2, <4>1, <4>2
    <3> QED BY <1>1, <2>2, <3>1
  <2>3. \A j \in 0..Len(q) : j \in T
    <3> HIDE DEF T
    <3>1. \A m \in 0..Len(q) : m \in T /\ m < Len(q) => m + 1 \in T
      BY <2>2
    <3> QED BY <1>0, <2>1, <3>1, UpTo
  <2> QED BY <1>0, <2>3
<1>3. \A p \in 1..o[Len(q)] : \E i \in 1..Len(q) : o[i - 1] < p /\ p <= o[i]
  <2> DEFINE T == {j \in 0..Len(q) :
                     \A p \in 1..o[j] : \E i \in 1..j : o[i - 1] < p /\ p <= o[i]}
  <2>1. 0 \in T
    BY <1>0 DEF Offsets
  <2>2. ASSUME NEW m \in 0..Len(q), m \in T, m < Len(q)
        PROVE  m + 1 \in T
    <3>1. ASSUME NEW p \in 1..o[m + 1]
          PROVE  \E i \in 1..m + 1 : o[i - 1] < p /\ p <= o[i]
      <4>1. CASE p \in 1..o[m]
        BY <1>0, <2>2, <4>1
      <4>2. CASE p \notin 1..o[m]
        <5>1. o[m] < p /\ p <= o[m + 1] /\ m + 1 \in 1..m + 1 /\ (m + 1) - 1 = m
          BY <1>0, <1>1, <2>2, <4>2
        <5> QED BY <5>1
      <4> QED BY <4>1, <4>2
    <3> QED BY <1>1, <2>2, <3>1
  <2>3. Len(q) \in T
    <3> HIDE DEF T
    <3>1. \A m \in 0..Len(q) : m \in T /\ m < Len(q) => m + 1 \in T
      BY <2>2
    <3>2. \A m \in 0..Len(q) : m \in T
      BY <1>0, <2>1, <3>1, UpTo
    <3> QED BY <1>0, <3>2
  <2> QED BY <2>3
<1> QED BY <1>2, <1>3

\* Where every element of every piece is in the flattened sequence.
LEMMA FlattenLayout ==
    ASSUME NEW S, NEW q \in Seq(Seq(S)), NEW o, Offsets(o, q)
    PROVE  /\ FlattenSeq(q) \in Seq(S)
           /\ Len(FlattenSeq(q)) = o[Len(q)]
           /\ \A i \in 1..Len(q) : \A k \in 1..Len(q[i]) :
                 /\ o[i - 1] + k \in 1..o[Len(q)]
                 /\ FlattenSeq(q)[o[i - 1] + k] = q[i][k]
<1>0. Len(q) \in Nat /\ (\A i \in 1..Len(q) : q[i] \in Seq(S) /\ Len(q[i]) \in Nat)
  OBVIOUS
<1>1. PICK f \in [0..Len(q) -> Seq(S)] : Joined(f, q)
  BY JoinedExists
<1> DEFINE Good(m) ==
      /\ Len(f[m]) = o[m]
      /\ \A i \in 1..m : \A k \in 1..Len(q[i]) :
            o[i - 1] + k \in 1..o[m] /\ f[m][o[i - 1] + k] = q[i][k]
    T == {m \in 0..Len(q) : Good(m)}
<1>2. 0 \in T
  BY <1>0, <1>1 DEF Joined, Offsets
<1>3. ASSUME NEW m \in 0..Len(q), m \in T, m < Len(q)
      PROVE  m + 1 \in T
  <2>1. m + 1 \in 1..Len(q) /\ (m + 1) - 1 = m /\ m \in Nat
    BY <1>0, <1>3
  <2>2. /\ f[m + 1] = f[m] \o q[m + 1] /\ f[m] \in Seq(S) /\ q[m + 1] \in Seq(S)
        /\ o[m + 1] = o[m] + Len(q[m + 1]) /\ o[m] \in Nat /\ Good(m)
    BY <1>0, <1>1, <1>3, <2>1 DEF Joined, Offsets
  <2>3. /\ Len(f[m + 1]) = o[m + 1]
        /\ \A p \in 1..o[m] : f[m + 1][p] = f[m][p]
        /\ \A k \in 1..Len(q[m + 1]) : f[m + 1][o[m] + k] = q[m + 1][k]
    <3>1. Len(f[m]) = o[m]
      BY <2>2
    <3> HIDE DEF Good, T
    <3>2. /\ Len(f[m] \o q[m + 1]) = Len(f[m]) + Len(q[m + 1])
          /\ \A p \in 1..Len(f[m]) : (f[m] \o q[m + 1])[p] = f[m][p]
          /\ \A k \in 1..Len(q[m + 1]) : (f[m] \o q[m + 1])[Len(f[m]) + k] = q[m + 1][k]
      <4> DEFINE a == f[m]
                 b == q[m + 1]
      <4>1. a \in Seq(S) /\ b \in Seq(S)
        BY <2>2
      <4> HIDE DEF a, b
      <4>2. /\ Len(a \o b) = Len(a) + Len(b)
            /\ \A p \in 1..Len(a) : (a \o b)[p] = a[p]
            /\ \A k \in 1..Len(b) : (a \o b)[Len(a) + k] = b[k]
        BY <4>1, Concatenated
      <4> QED BY <4>2 DEF a, b
    <3> QED BY <2>2, <3>1, <3>2
  <2>4. ASSUME NEW i \in 1..m + 1, NEW k \in 1..Len(q[i])
        PROVE  o[i - 1] + k \in 1..o[m + 1] /\ f[m + 1][o[i - 1] + k] = q[i][k]
    <3>1. CASE i = m + 1
      <4>1. i - 1 = m /\ Len(q[m + 1]) \in Nat /\ k \in 1..Len(q[m + 1])
        BY <1>0, <2>1, <3>1
      <4>2. o[m] \in Nat /\ o[m + 1] = o[m] + Len(q[m + 1])
        BY <2>2
      <4>3. o[m] + k \in 1..o[m + 1]
        BY <4>1, <4>2
      <4>4. f[m + 1][o[m] + k] = q[m + 1][k]
        BY <2>3, <4>1
      <4> QED BY <3>1, <4>1, <4>3, <4>4
    <3>2. CASE i # m + 1
      <4>1. i \in 1..m
        BY <2>1, <3>2
      <4>2. o[i - 1] + k \in 1..o[m] /\ f[m][o[i - 1] + k] = q[i][k]
        BY <2>2, <4>1
      <4>3. Len(q[m + 1]) \in Nat
        BY <1>0, <2>1
      <4>4. o[m] \in Nat /\ o[m + 1] = o[m] + Len(q[m + 1])
        BY <2>2
      <4> DEFINE p == o[i - 1] + k
                 u == o[m]
                 v == o[m + 1]
                 w == Len(q[m + 1])
      <4>5. p \in 1..u /\ u \in Nat /\ w \in Nat /\ v = u + w
        BY <4>2, <4>3, <4>4
      <4>6. f[m + 1][p] = q[i][k]
        BY <2>3, <4>2
      <4> HIDE DEF p, u, v, w
      <4>7. p \in 1..v
        BY <4>5
      <4> QED BY <4>6, <4>7 DEF p, v
    <3> QED BY <3>1, <3>2
  <2> QED BY <2>1, <2>3, <2>4
<1>4. Good(Len(q))
  <2>1. Len(q) \in T
    <3> HIDE DEF T
    <3>1. \A m \in 0..Len(q) : m \in T /\ m < Len(q) => m + 1 \in T
      BY <1>3
    <3>2. \A m \in 0..Len(q) : m \in T
      BY <1>0, <1>2, <3>1, UpTo
    <3> QED BY <1>0, <3>2
  <2> QED BY <2>1
<1>5. FlattenSeq(q) = f[Len(q)] /\ f[Len(q)] \in Seq(S)
  BY <1>0, <1>1, FlattenJoins
<1> QED BY <1>4, <1>5

(* The replacement                                                         *)

LEMMA Multiplied == \A a, b \in Nat : a * (b + 1) = a * b + a /\ a * b \in Nat /\ a * 0 = 0
OBVIOUS

\* How many of the numbers in A come up to m.
UpThrough(A, m) == Cardinality({a \in A : a <= m})

CountsUp(A) ==
    \A m \in Nat : UpThrough(A, m + 1) =
                      IF m + 1 \in A THEN UpThrough(A, m) + 1 ELSE UpThrough(A, m)

LEMMA Counting ==
    ASSUME NEW n \in Nat, NEW A \in SUBSET (1..n)
    PROVE  /\ \A m \in Nat : UpThrough(A, m) \in Nat
           /\ UpThrough(A, 0) = 0 /\ UpThrough(A, n) = Cardinality(A)
           /\ CountsUp(A)
<1>0. \A a \in A : a \in Nat /\ ~(a <= 0) /\ a <= n
  OBVIOUS
<1>1. IsFiniteSet(1..n)
  BY FS_Interval
<1>2. \A m \in Nat : IsFiniteSet({a \in A : a <= m}) /\ UpThrough(A, m) \in Nat
  <2>1. ASSUME NEW m \in Nat
        PROVE  IsFiniteSet({a \in A : a <= m})
    <3>1. {a \in A : a <= m} \in SUBSET (1..n)
      OBVIOUS
    <3> QED BY <1>1, <3>1, FS_Subset
  <2> QED BY <2>1, FS_CardinalityType DEF UpThrough
<1>3. UpThrough(A, 0) = 0 /\ UpThrough(A, n) = Cardinality(A)
  <2>1. {a \in A : a <= 0} = {} /\ {a \in A : a <= n} = A
    BY <1>0
  <2> QED BY <2>1, FS_EmptySet DEF UpThrough
<1>4. ASSUME NEW m \in Nat
      PROVE  UpThrough(A, m + 1) =
                IF m + 1 \in A THEN UpThrough(A, m) + 1 ELSE UpThrough(A, m)
  <2> DEFINE B == {a \in A : a <= m}
  <2>1. CASE m + 1 \in A
    <3>1. {a \in A : a <= m + 1} = B \cup {m + 1} /\ m + 1 \notin B
      <4>1. \A a \in A : a <= m + 1 <=> a <= m \/ a = m + 1
        BY <1>0
      <4>2. m + 1 <= m + 1 /\ ~(m + 1 <= m)
        OBVIOUS
      <4> QED BY <2>1, <4>1, <4>2
    <3>2. Cardinality(B \cup {m + 1}) = Cardinality(B) + 1
      <4> HIDE DEF B
      <4>1. IsFiniteSet(B)
        BY <1>2 DEF B
      <4> QED BY <3>1, <4>1, FS_AddElement
    <3> QED BY <2>1, <3>1, <3>2 DEF UpThrough
  <2>2. CASE m + 1 \notin A
    <3>1. {a \in A : a <= m + 1} = B
      <4>1. \A a \in A : a <= m + 1 <=> a <= m
        BY <1>0, <2>2
      <4> QED BY <4>1
    <3> QED BY <2>2, <3>1 DEF UpThrough
  <2> QED BY <2>1, <2>2
<1> QED BY <1>2, <1>3, <1>4 DEF CountsUp

\* Taking places from the left, as far as they do not overlap, ends with
\* such a set as Hits chooses.
LEMMA HitsAre ==
    ASSUME Parameters, NEW s \in Seq(Bytes)
    PROVE  Hits(s) \subseteq DOMAIN s /\ AreHits(s, Hits(s))
<1> DEFINE places == {i \in 1..Len(s) : Matches(s, i)}
           Greedy(P, m) == \A i \in places : i <= m =>
                              (i \in P <=> \A j \in P : j < i => j + Len(Old) <= i)
           T == {m \in 0..Len(s) : \E P \in SUBSET {i \in places : i <= m} : Greedy(P, m)}
<1>0. Len(s) \in Nat /\ Len(Old) \in Nat /\ Len(Old) > 0 /\ places \subseteq Nat
  BY DEF Parameters
<1>1. 0 \in T
  <2>1. {} \in SUBSET {i \in places : i <= 0} /\ Greedy({}, 0)
    OBVIOUS
  <2> HIDE DEF Greedy
  <2> QED BY <1>0, <2>1
<1>2. ASSUME NEW m \in 0..Len(s), m \in T, m < Len(s)
      PROVE  m + 1 \in T
  <2>1. PICK P \in SUBSET {i \in places : i <= m} : Greedy(P, m)
    BY <1>2
  <2> DEFINE fits == m + 1 \in places /\ \A j \in P : j + Len(Old) <= m + 1
             Q == IF fits THEN P \cup {m + 1} ELSE P
  <2> HIDE DEF places
  <2>2. Q \in SUBSET {i \in places : i <= m + 1} /\ P \subseteq Q /\ Q \subseteq P \cup {m + 1}
    BY <1>0
  <2>3. m + 1 \in Q <=> fits
    BY <1>0
  <2>4. ASSUME NEW i \in places, i <= m + 1
        PROVE  i \in Q <=> \A j \in Q : j < i => j + Len(Old) <= i
    <3>1. CASE i <= m
      <4>1. i # m + 1 /\ ~(m + 1 < i)
        BY <1>0, <3>1
      <4>2. i \in P <=> \A j \in P : j < i => j + Len(Old) <= i
        BY <2>1, <3>1
      <4> HIDE DEF Q
      <4> QED BY <2>2, <4>1, <4>2
    <3>2. CASE i = m + 1
      <4>1. (\A j \in Q : j < i => j + Len(Old) <= i) <=> (\A j \in P : j + Len(Old) <= m + 1)
        <5>1. \A j \in P : j < m + 1 /\ ~(m + 1 < m + 1)
          BY <1>0
        <5> HIDE DEF Q
        <5> QED BY <2>2, <3>2, <5>1
      <4> HIDE DEF Q
      <4> QED BY <2>3, <2>4, <3>2, <4>1
    <3> QED BY <1>0, <2>4, <3>1, <3>2
  <2>5. Greedy(Q, m + 1)
    <3> HIDE DEF Q
    <3> QED BY <2>4
  <2>6. \E R \in SUBSET {i \in places : i <= m + 1} : Greedy(R, m + 1)
    <3> HIDE DEF Q, Greedy
    <3> QED BY <2>2, <2>5
  <2>7. m + 1 \in 0..Len(s)
    BY <1>0, <1>2
  <2> HIDE DEF Greedy
  <2> QED BY <2>6, <2>7
<1>3. Len(s) \in T
  <2> HIDE DEF T
  <2>1. \A m \in 0..Len(s) : m \in T /\ m < Len(s) => m + 1 \in T
    BY <1>2
  <2>2. \A m \in 0..Len(s) : m \in T
    BY <1>0, <1>1, <2>1, UpTo
  <2> QED BY <1>0, <2>2
<1>4. \E P \in SUBSET places : \A i \in places :
         i \in P <=> \A j \in P : j < i => j + Len(Old) <= i
  <2>1. PICK P \in SUBSET {i \in places : i <= Len(s)} : Greedy(P, Len(s))
    BY <1>3
  <2>2. \A i \in places : i <= Len(s)
    OBVIOUS
  <2> HIDE DEF places
  <2> QED BY <2>1, <2>2
<1>5. /\ Hits(s) \subseteq places
      /\ \A i \in places : i \in Hits(s) <=> \A j \in Hits(s) : j < i => j + Len(Old) <= i
  BY <1>4 DEF Hits
<1>6. ASSUME NEW i \in DOMAIN s, Matches(s, i)
      PROVE  \E p \in Hits(s) : p <= i /\ i < p + Len(Old)
  <2>1. i \in places /\ i \in Nat
    BY <1>6
  <2>2. CASE i \in Hits(s)
    BY <1>0, <2>1, <2>2
  <2>3. CASE i \notin Hits(s)
    <3>1. PICK j \in Hits(s) : j < i /\ ~(j + Len(Old) <= i)
      BY <1>5, <2>1, <2>3
    <3> QED BY <1>0, <1>5, <2>1, <3>1
  <2> QED BY <2>2, <2>3
<1> QED BY <1>5, <1>6 DEF AreHits

\* What Replace joins: New for a hit, nothing for what it covers, every other
\* byte itself; and so each byte comes to its place.
LEMMA ReplaceIs ==
    ASSUME Parameters, NEW s \in Seq(Bytes), NEW P \in SUBSET (DOMAIN s),
           \A o, p \in P : o < p => o + Len(Old) <= p
    PROVE  IsReplaced(s, P, Replace(s, P)) /\ Replace(s, P) \in Seq(Bytes)
<1> DEFINE q == [i \in 1..Len(s) |->
                   IF i \in P THEN New
                   ELSE IF \E p \in P : p < i /\ i < p + Len(Old) THEN << >>
                   ELSE <<s[i]>>]
           K == Kept(s, P)
<1>0. /\ Len(s) \in Nat /\ DOMAIN s = 1..Len(s) /\ (\A i \in 1..Len(s) : s[i] \in Bytes)
      /\ New \in Seq(Bytes) /\ Len(New) \in Nat /\ DOMAIN New = 1..Len(New)
      /\ Len(Old) \in Nat /\ Len(Old) > 0
  BY DEF Parameters
<1>1. Replace(s, P) = FlattenSeq(q)
  BY DEF Replace
<1>2. q \in Seq(Seq(Bytes)) /\ Len(q) = Len(s)
  <2>1. \A i \in 1..Len(s) : <<s[i]>> \in Seq(Bytes) /\ << >> \in Seq(Bytes)
    BY <1>0
  <2>2. q \in [1..Len(s) -> Seq(Bytes)]
    BY <1>0, <2>1
  <2> HIDE DEF q
  <2> QED BY <1>0, <2>2
<1>3. ASSUME NEW i \in 1..Len(s)
      PROVE  /\ i \in P => q[i] = New /\ i \notin K
             /\ i \in K => q[i] = <<s[i]>> /\ i \notin P
             /\ i \notin P /\ i \notin K => q[i] = << >>
  <2>1. i \in P => i \notin K
    BY <1>0 DEF Kept
  <2>2. i \notin P => (i \in K <=> ~ \E p \in P : p < i /\ i < p + Len(Old))
    <3> SUFFICES ASSUME i \notin P
                 PROVE  i \in K <=> ~ \E p \in P : p < i /\ i < p + Len(Old)
      OBVIOUS
    <3>1. \A p \in P : p \in Nat /\ (i < p \/ p + Len(Old) <= i <=> ~(p < i /\ i < p + Len(Old)))
      BY <1>0
    <3> QED BY <1>0, <3>1 DEF Kept
  <2>3. q[i] = IF i \in P THEN New
               ELSE IF \E p \in P : p < i /\ i < p + Len(Old) THEN << >> ELSE <<s[i]>>
    OBVIOUS
  <2> HIDE DEF q, K
  <2> QED BY <2>1, <2>2, <2>3
<1>4. K \in SUBSET (1..Len(s)) /\ P \in SUBSET (1..Len(s))
  BY <1>0 DEF Kept
<1> HIDE DEF q, K
<1>5. PICK o : Offsets(o, q)
  BY <1>2, OffsetsExist
<1>6. /\ \A m \in Nat : UpThrough(K, m) \in Nat /\ UpThrough(P, m) \in Nat
      /\ UpThrough(K, 0) = 0 /\ UpThrough(P, 0) = 0
      /\ UpThrough(K, Len(s)) = Cardinality(K) /\ UpThrough(P, Len(s)) = Cardinality(P)
  BY <1>0, <1>4, Counting
<1> DEFINE T == {m \in 0..Len(s) : o[m] = UpThrough(K, m) + Len(New) * UpThrough(P, m)}
<1>7. CountsUp(K) /\ CountsUp(P)
  BY <1>0, <1>4, Counting
<1>end. \A m \in 0..Len(s) : m \in T
  <2>1. 0 \in T
    BY <1>0, <1>2, <1>5, <1>6, Multiplied DEF Offsets
  <2>2. ASSUME NEW m \in 0..Len(s), m \in T, m < Len(s)
        PROVE  m + 1 \in T
    <3>1. m + 1 \in 1..Len(s) /\ m \in Nat /\ (m + 1) - 1 = m
      BY <1>0, <2>2
    <3>2. o[m + 1] = o[m] + Len(q[m + 1]) /\ o[m] = UpThrough(K, m) + Len(New) * UpThrough(P, m)
      BY <1>2, <1>5, <2>2, <3>1 DEF Offsets
    <3>3. /\ UpThrough(K, m + 1) = IF m + 1 \in K THEN UpThrough(K, m) + 1 ELSE UpThrough(K, m)
          /\ UpThrough(P, m + 1) = IF m + 1 \in P THEN UpThrough(P, m) + 1 ELSE UpThrough(P, m)
      BY <1>7, <3>1 DEF CountsUp
    <3>4. UpThrough(K, m) \in Nat /\ UpThrough(P, m) \in Nat
      BY <1>6, <3>1
    <3>5. /\ Len(New) * (UpThrough(P, m) + 1) = Len(New) * UpThrough(P, m) + Len(New)
          /\ Len(New) * UpThrough(P, m) \in Nat
      BY <1>0, <3>4, Multiplied
    <3>6. o[m + 1] = UpThrough(K, m + 1) + Len(New) * UpThrough(P, m + 1)
      <4>1. CASE m + 1 \in P
        <5>1. m + 1 \notin K /\ q[m + 1] = New
          BY <1>3, <3>1, <4>1
        <5> QED BY <1>0, <3>2, <3>3, <3>4, <3>5, <4>1, <5>1
      <4>2. CASE m + 1 \in K
        <5>1. m + 1 \notin P /\ q[m + 1] = <<s[m + 1]>>
          BY <1>3, <3>1, <4>2
        <5>2. Len(q[m + 1]) = 1
          BY <5>1
        <5> QED BY <3>2, <3>3, <3>4, <3>5, <4>2, <5>1, <5>2
      <4>3. CASE m + 1 \notin P /\ m + 1 \notin K
        <5>1. q[m + 1] = << >>
          BY <1>3, <3>1, <4>3
        <5>2. Len(q[m + 1]) = 0
          BY <5>1
        <5> QED BY <3>2, <3>3, <3>4, <3>5, <4>3, <5>2
      <4> QED BY <4>1, <4>2, <4>3
    <3> QED BY <1>0, <3>1, <3>6
  <2> HIDE DEF T
  <2>3. \A m \in 0..Len(s) : m \in T /\ m < Len(s) => m + 1 \in T
    BY <2>2
  <2> QED BY <1>0, <2>1, <2>3, UpTo
<1>8. /\ FlattenSeq(q) \in Seq(Bytes) /\ Len(FlattenSeq(q)) = o[Len(s)]
      /\ \A i \in 1..Len(s) : \A k \in 1..Len(q[i]) : FlattenSeq(q)[o[i - 1] + k] = q[i][k]
  BY <1>2, <1>5, FlattenLayout
<1>9. ASSUME NEW i \in 1..Len(s)
      PROVE  Place(s, P, i) = 1 + o[i - 1] /\ o[i - 1] \in Nat
  <2>1. i - 1 \in 0..Len(s) /\ i - 1 \in Nat
    BY <1>0
  <2>2. {k \in K : k < i} = {k \in K : k <= i - 1} /\ {p \in P : p < i} = {p \in P : p <= i - 1}
    <3>1. \A j \in 1..Len(s) : j < i <=> j <= i - 1
      BY <1>0
    <3> QED BY <1>4, <3>1
  <2>3. Place(s, P, i) = 1 + UpThrough(K, i - 1) + Len(New) * UpThrough(P, i - 1)
    BY <2>2 DEF Place, UpThrough, K
  <2>4. /\ UpThrough(K, i - 1) \in Nat /\ Len(New) * UpThrough(P, i - 1) \in Nat
        /\ o[i - 1] = UpThrough(K, i - 1) + Len(New) * UpThrough(P, i - 1)
    BY <1>0, <1>6, <1>end, <2>1, Multiplied
  <2> QED BY <2>3, <2>4
<1>10. Len(FlattenSeq(q)) = Cardinality(K) + Len(New) * Cardinality(P)
  <2>1. Len(s) \in T
    BY <1>0, <1>end
  <2> QED BY <1>6, <1>8, <2>1
<1>11. ASSUME NEW i \in K
       PROVE  FlattenSeq(q)[Place(s, P, i)] = s[i]
  <2>1. i \in 1..Len(s) /\ q[i] = <<s[i]>>
    BY <1>3, <1>4
  <2>2. Len(q[i]) = 1 /\ q[i][1] = s[i]
    BY <2>1
  <2>3. FlattenSeq(q)[o[i - 1] + 1] = s[i]
    <3>1. 1 \in 1..Len(q[i])
      BY <2>2
    <3> QED BY <1>8, <2>1, <2>2, <3>1
  <2>4. Place(s, P, i) = o[i - 1] + 1
    BY <1>9, <2>1
  <2> QED BY <2>3, <2>4
<1>12. ASSUME NEW p \in P, NEW k \in DOMAIN New
       PROVE  FlattenSeq(q)[Place(s, P, p) + k - 1] = New[k]
  <2>1. p \in 1..Len(s) /\ q[p] = New /\ k \in 1..Len(New) /\ k \in Nat
    BY <1>0, <1>3, <1>4
  <2>2. FlattenSeq(q)[o[p - 1] + k] = New[k]
    BY <1>8, <2>1
  <2>3. Place(s, P, p) + k - 1 = o[p - 1] + k
    BY <1>9, <2>1
  <2> QED BY <2>2, <2>3
<1> QED BY <1>1, <1>8, <1>10, <1>11, <1>12 DEF IsReplaced, K

\* What the edit concluded from what it had, and that it had all of a file.
Verdict ==
    /\ caller \in {"idle", "stat", "chunk", "answer"} => written = NoFile
    /\ request.tool = "edit" =>
          /\ written # NoFile =>
                /\ Ended(got) /\ Chosen(Hits(got)) # {}
                /\ written = Replace(got, Chosen(Hits(got)))
          /\ result = "invalid" => ~Valid(got)
          /\ result = "not_found" => Hits(got) = {}
          /\ result = "ambiguous" => Hits(got) # {} /\ Chosen(Hits(got)) = {}

LEMMA VerdictStep == IInv /\ Verdict /\ IInv' /\ [Next]_vars => Verdict'
<1> SUFFICES ASSUME IInv, Verdict, IInv', [Next]_vars PROVE Verdict'
  OBVIOUS
<1>1. CASE Answer
  <2>1. caller = "answer" /\ request' = request /\ result = "none" /\ written = NoFile
    BY <1>1 DEF Answer, IInv, Asked, Verdict
  <2>2. CASE request.tool = "edit"
    <3>1. PICK total \in {"known", "missing"} : Continue(total, got')
      BY <1>1, <2>2 DEF Answer
    <3>2. CASE Complete(total, got')
      <4>1. Edit(got')
        BY <3>1, <3>2 DEF Continue
      <4>2. \A P : Chosen(P)' = Chosen(P)
        BY <2>1 DEF Chosen
      <4>3. caller' = "snapshot" => Ended(got)'
        BY <2>1, <2>2 DEF IInv, Reading, HasRead
      <4>4. Hits(got)' = Hits(got')
        OBVIOUS
      <4> HIDE DEF Hits
      <4> QED BY <2>1, <4>1, <4>2, <4>3 DEF Edit, End, Verdict
    <3>3. CASE ~Complete(total, got')
      BY <2>1, <3>1, <3>3 DEF Continue, End, Verdict
    <3> QED BY <3>2, <3>3
  <2>3. CASE request.tool # "edit"
    BY <1>1, <2>1, <2>3 DEF Answer, End, Verdict
  <2> QED BY <2>2, <2>3
<1>2. CASE Call
  BY <1>2 DEF Call, Verdict, IInv, Asked
<1>3. CASE ~Answer /\ ~Call
  <2>1. /\ UNCHANGED <<request, got, written>> /\ past \subseteq past'
        /\ result' = result \/ result' \in {"failed", "raised", "ok"}
        /\ caller' \in {"idle", "stat", "chunk", "answer"} =>
              caller \in {"idle", "stat", "chunk", "answer"}
    BY <1>3 DEF Next, CallStep, Stat, Chunk, Snapshot, Commit, ReadBreaks, CommitBreaks,
                ForeignWrite, Replaced, End, disk, call, vars
  <2>2. Ended(got) => Ended(got)'
    BY <2>1 DEF Ended, Files
  <2>3. Chosen(Hits(got))' = Chosen(Hits(got))
    BY <2>1 DEF Chosen
  <2> QED BY <2>1, <2>2, <2>3 DEF Verdict
<1> QED BY <1>1, <1>2, <1>3

LEMMA VerdictHolds == Parameters /\ Spec => [](IInv /\ Verdict)
<1>1. Init => Verdict
  BY DEF Init, Verdict, ReadRequest
<1> QED BY <1>1, Invariance, VerdictStep, PTL DEF Spec

\* When nobody changed the file, what was read to its end is the file.
LEMMA ReadIsFile ==
    ASSUME IInv, request.tool = "edit", Ended(got), NEW c \in Files, past = {c}
    PROVE  got = c
<1>1. c \in Seq(Bytes) /\ got \in Seq(Bytes) /\ request.offset = 0 /\ Files = {c}
  BY FilesAreContents DEF IInv, Reading, Asked, Files
<1>2. Len(c) <= Len(got)
  <2>1. Len(c) <= 0 + Len(got)
    BY <1>1 DEF Ended
  <2> QED BY <1>1, <2>1
<1>3. ASSUME NEW i \in 1..Len(got)
      PROVE  i <= Len(c) /\ c[i] = got[i]
  <2>1. 0 + i <= Len(c) /\ c[0 + i] = got[i]
    BY <1>1 DEF IInv, Reading, Held
  <2> QED BY <1>1, <2>1
<1>4. Len(got) <= Len(c)
  BY <1>1, <1>3
<1> QED BY <1>1, <1>2, <1>3, <1>4

\* What an edit writes is what it read with the one hit replaced, or all of
\* them, each byte in its place: for any contents, any old string that is not
\* empty, any new string and any size of a chunk.  And when nobody changes
\* the file, it decides on the whole file.
THEOREM EditsAreExact == Parameters /\ Spec => []EditIsExact
<1>1. IInv /\ Verdict => EditIsExact
  <2> SUFFICES ASSUME IInv, Verdict, request.tool = "edit" PROVE EditIsExact
    BY DEF EditIsExact
  <2> DEFINE P == Hits(got)
  <2>1. got \in Seq(Bytes) /\ Parameters
    BY DEF IInv, Reading
  <2>2. P \subseteq DOMAIN got /\ AreHits(got, P)
    BY <2>1, HitsAre
  <2>3. IsFiniteSet(P)
    <3>1. DOMAIN got = 1..Len(got) /\ Len(got) \in Nat
      BY <2>1
    <3>2. IsFiniteSet(1..Len(got))
      BY <3>1, FS_Interval
    <3> QED BY <2>2, <3>1, <3>2, FS_Subset
  <2> HIDE DEF P
  <2>4. ASSUME written # NoFile
        PROVE  /\ P # {} /\ (request.all \/ \E p \in P : P = {p})
               /\ IsReplaced(got, P, written) /\ Ended(got)
    <3>1. Chosen(P) # {} /\ written = Replace(got, Chosen(P)) /\ Ended(got)
      BY <2>4 DEF Verdict, P
    <3>2. Chosen(P) = P /\ (request.all \/ Cardinality(P) = 1)
      BY <3>1 DEF Chosen
    <3>3. request.all \/ \E p \in P : P = {p}
      BY <2>3, <3>2, FS_Singleton
    <3>4. IsReplaced(got, P, Replace(got, P))
      BY <2>1, <2>2, ReplaceIs DEF AreHits
    <3> QED BY <3>1, <3>2, <3>3, <3>4
  <2>5. ASSUME NEW c \in past \ {NoFile}, past = {c}
        PROVE  /\ written # NoFile => got = c
               /\ result = "invalid" => ~Valid(c)
               /\ result = "not_found" => ~Occurs(c)
               /\ result = "ambiguous" => \E i, j \in DOMAIN c :
                     i + Len(Old) <= j /\ Matches(c, i) /\ Matches(c, j)
    <3>1. Ended(got) => got = c
      BY <2>5, ReadIsFile DEF Files
    <3>2. result \in {"invalid", "not_found", "ambiguous"} => got = c
      BY <3>1 DEF IInv, Reading, HasRead
    <3>3. result = "invalid" => ~Valid(c)
      BY <3>2 DEF Verdict
    <3>4. result = "not_found" => ~Occurs(c)
      BY <2>1, <2>2, <3>2 DEF Verdict, AreHits, Occurs, P
    <3>5. ASSUME result = "ambiguous"
          PROVE  \E i, j \in DOMAIN c : i + Len(Old) <= j /\ Matches(c, i) /\ Matches(c, j)
      <4>1. P # {} /\ Chosen(P) = {}
        BY <3>5 DEF Verdict, P
      <4>2. Cardinality(P) # 1
        BY <4>1 DEF Chosen
      <4>3. PICK i \in P, j \in P : i # j
        BY <2>3, <4>1, <4>2, FS_Singleton
      <4>4. i \in DOMAIN got /\ j \in DOMAIN got /\ (i < j \/ j < i)
        BY <2>1, <2>2, <4>3
      <4> QED BY <2>2, <3>2, <3>5, <4>4 DEF AreHits
    <3> QED BY <2>4, <3>1, <3>3, <3>4, <3>5
  <2> QED BY <2>2, <2>4, <2>5 DEF EditIsExact
<1> QED BY <1>1, VerdictHolds, PTL

(* Types                                                                   *)

\* What Reading leaves out of TypeOK.
Typed ==
    /\ caller \in {"idle", "stat", "chunk", "answer", "snapshot", "commit", "end"}
    /\ result \in {"none", "ok", "failed", "raised", "invalid", "not_found", "ambiguous"}
    /\ file = NoFile \/ file \in Seq(Bytes)
    /\ part \in Seq(Bytes)
    /\ written = NoFile \/ written \in Seq(Bytes)
    /\ foreign \in 0..MaxForeign /\ errors \in 0..MaxErrors

\* A new text consists of the bytes of files and arguments.
LEMMA AnswerTyped ==
    ASSUME IInv, IInv', Typed, Answer
    PROVE  Typed'
<1>1. /\ caller = "answer" /\ got' \in Seq(Bytes) /\ Parameters
      /\ UNCHANGED <<file, part, foreign>>
  BY DEF Answer, IInv, Reading, disk
<1>2. errors' \in 0..MaxErrors
  <2>1. errors' = errors \/ (errors < MaxErrors /\ errors' = errors + 1)
    BY DEF Answer, Error
  <2> QED BY <1>1, <2>1 DEF Typed, Parameters
<1>3. ASSUME Edit(got')
      PROVE  /\ caller' \in {"snapshot", "end"}
             /\ result' \in {result, "invalid", "not_found", "ambiguous"}
             /\ written' = written \/ written' \in Seq(Bytes)
  <2> DEFINE P == Hits(got')
             Q == Chosen(P)
             w == Replace(got', Q)
  <2>1. P \subseteq DOMAIN got' /\ AreHits(got', P)
    BY <1>1, HitsAre
  <2> HIDE DEF P
  <2>2. Q \subseteq P
    BY DEF Chosen
  <2> HIDE DEF Q
  <2>3. Q \in SUBSET (DOMAIN got') /\ \A o, p \in Q : o < p => o + Len(Old) <= p
    BY <2>1, <2>2 DEF AreHits
  <2>4. w \in Seq(Bytes)
    BY <1>1, <2>3, ReplaceIs
  <2> HIDE DEF w
  <2>5. \/ caller' = "end" /\ result' \in {"invalid", "not_found", "ambiguous"} /\ written' = written
        \/ caller' = "snapshot" /\ result' = result /\ written' = w
    BY <1>3 DEF Edit, End, P, Q, w
  <2> QED BY <2>4, <2>5
<1>4. /\ caller' \in {"stat", "snapshot", "end"}
      /\ result' \in {result, "ok", "failed", "invalid", "not_found", "ambiguous"}
      /\ written' = written \/ written' \in Seq(Bytes)
  <2>1. CASE request.tool = "edit"
    <3>1. PICK total \in {"known", "missing"} : Continue(total, got')
      BY <2>1 DEF Answer
    <3>2. CASE Complete(total, got')
      BY <1>3, <3>1, <3>2 DEF Continue
    <3>3. CASE ~Complete(total, got')
      BY <3>1, <3>3 DEF Continue, End
    <3> QED BY <3>2, <3>3
  <2>2. CASE request.tool # "edit"
    BY <2>2 DEF Answer, End
  <2> QED BY <2>1, <2>2
<1> QED BY <1>1, <1>2, <1>4 DEF Typed

LEMMA TypedStep == IInv /\ Typed /\ IInv' /\ [Next]_vars => Typed'
<1> SUFFICES ASSUME IInv, Typed, IInv', [Next]_vars
             PROVE  Typed'
  OBVIOUS
<1>1. CASE Answer
  BY <1>1, AnswerTyped
<1>2. CASE Chunk
  <2>1. /\ UNCHANGED <<file, written, foreign, errors>> /\ caller' \in {"answer", "end"}
        /\ result' \in {result, "failed"}
    BY <1>2 DEF Chunk, End, disk
  <2>2. part' \in Seq(Bytes)
    <3>1. CASE file = NoFile
      BY <1>2, <3>1 DEF Chunk, Typed
    <3>2. CASE file # NoFile
      <4>1. file \in Seq(Bytes) /\ Offset \in Nat /\ request.limit \in Nat
        BY <3>2 DEF Typed, IInv, Asked, Reading, Offset
      <4>2. IsChunk(part', file, Offset)
        BY <1>2, <3>2 DEF Chunk, IsChunk
      <4> QED BY <4>1, <4>2, ChunkFacts
    <3> QED BY <3>1, <3>2
  <2> QED BY <2>1, <2>2 DEF Typed
<1>3. CASE Call \/ Stat \/ Snapshot
  <2>1. /\ UNCHANGED <<file, part, written, foreign, errors>>
        /\ caller' \in {"stat", "chunk", "commit", "end"} /\ result' \in {result, "failed"}
    BY <1>3 DEF Call, Stat, Snapshot, End, disk
  <2> QED BY <2>1 DEF Typed
<1>4. CASE Commit
  <2>1. /\ UNCHANGED <<part, written, foreign, errors>> /\ file' \in {file, written}
        /\ caller' = "end" /\ result' \in {"ok", "failed"}
    BY <1>4 DEF Commit, Replaced, End, disk
  <2> QED BY <2>1 DEF Typed
<1>5. CASE ReadBreaks \/ CommitBreaks
  <2>1. /\ UNCHANGED <<part, written, foreign>> /\ file' \in {file, written}
        /\ caller' = "end" /\ result' \in {"raised", "failed"}
        /\ errors < MaxErrors /\ errors' = errors + 1
    BY <1>5 DEF ReadBreaks, CommitBreaks, Error, Replaced, End, disk
  <2>2. errors' \in 0..MaxErrors
    BY <2>1 DEF Typed, IInv, Parameters
  <2> QED BY <2>1, <2>2 DEF Typed
<1>6. CASE ForeignWrite
  <2>1. /\ UNCHANGED <<caller, result, part, written, errors>>
        /\ file' \in Contents \cup {NoFile}
        /\ foreign' = foreign \/ (foreign < MaxForeign /\ foreign' = foreign + 1)
    BY <1>6 DEF ForeignWrite, call
  <2>2. foreign' \in 0..MaxForeign /\ (file' = NoFile \/ file' \in Seq(Bytes))
    BY <2>1 DEF Typed, IInv, Parameters
  <2> QED BY <2>1, <2>2 DEF Typed
<1>7. CASE UNCHANGED vars
  BY <1>7 DEF vars, disk, call, Typed
<1> QED BY <1>1, <1>2, <1>3, <1>4, <1>5, <1>6, <1>7 DEF Next, CallStep

\* Every variable of a read or an edit keeps to its type.
THEOREM EditTyped == Parameters /\ Spec => []TypeOK
<1>1. Parameters /\ Init => Typed
  BY DEF Init, Typed, Parameters
<1>2. IInv /\ Typed => TypeOK
  BY DEF IInv, Reading, Typed, TypeOK
<1> QED BY <1>1, <1>2, TypedStep, Invariance, PTL DEF Spec
=============================================================================
