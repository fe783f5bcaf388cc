--------------------------- MODULE ToolCallsProofs ---------------------------
(***************************************************************************)
(* What is proved about each machine holds of the server's tool calls: a   *)
(* behaviour of ToolCalls is one of each machine, with stutters.  And the  *)
(* proofs about the two machines without a proof module of their own: what *)
(* a command's output becomes, and the preflight.                          *)
(***************************************************************************)
EXTENDS ToolCalls, TLAPS

\* The machines again, with the theorems about them.
WriteP == INSTANCE PayloadStreamProofs
EditP == INSTANCE RemoteEditProofs
SearchP == INSTANCE SearchToolProofs

(* The write                                                               *)

LEMMA WriteSteps == Write!Next => WriteP!Next
BY DEF Write!Fault, WriteP!Fault, Write!Cancelled, WriteP!Cancelled, Write!Load, WriteP!Load,
       Write!Paste, WriteP!Paste, Write!Delete, WriteP!Delete, Write!LoadBreaks,
       WriteP!LoadBreaks, Write!PasteBreaks, WriteP!PasteBreaks, Write!DeleteBreaks,
       WriteP!DeleteBreaks, Write!PersonTypes, WriteP!PersonTypes, Write!Read, WriteP!Read,
       Write!HangUp, WriteP!HangUp, Write!Arrivals, WriteP!Arrivals, Write!Pasted,
       WriteP!Pasted, Write!Piece, WriteP!Piece, Write!Chunks, WriteP!Chunks, Write!Payload,
       WriteP!Payload, Write!Delimiter, WriteP!Delimiter, Write!Dot, WriteP!Dot,
       Write!DropBuffer, WriteP!DropBuffer, Write!Places, WriteP!Places, Write!OccursAt,
       WriteP!OccursAt, Write!First, WriteP!First, Write!Stop, WriteP!Stop, Write!Fits,
       WriteP!Fits, Write!Finish, WriteP!Finish, Write!Flushed, WriteP!Flushed, Write!Ceiling,
       WriteP!Ceiling, Write!Hold, WriteP!Hold, Write!SenderStep, WriteP!SenderStep,
       Write!Next, WriteP!Next, Write!client, WriteP!client, Write!remote, WriteP!remote,
       Write!bounds, WriteP!bounds

LEMMA WriteBehaves == Spec => WriteP!Spec
<1>1. Init => WriteP!Init
  BY DEF Init, Write!Init, WriteP!Init
<1>2. [Next]_vars => [WriteP!Next]_(WriteP!vars)
  <2>1. WriteStep => WriteP!Next
    BY WriteSteps DEF WriteStep
  <2>2. ASSUME [Next]_vars, ~WriteStep
        PROVE  UNCHANGED WriteP!vars
    <3>1. UNCHANGED writing
      BY <2>2 DEF Next, vars, Start, EditStep, SearchStep, ConnectStep, RunStep
    <3> QED BY <3>1 DEF writing, WriteP!vars, WriteP!client, WriteP!remote, WriteP!bounds
  <2> QED BY <2>1, <2>2
<1> QED BY <1>1, <1>2, PTL DEF Spec, WriteP!Spec

LEMMA WriteParameters == WriteP!Parameters
BY ParametersAssumption
DEF Write!Parameters, WriteP!Parameters, Write!Delimiter, WriteP!Delimiter, Write!Dot,
    WriteP!Dot

\* Of every write that the server makes: however its stream is cut into
\* reads, the receiver finds the delimiter and accepts only what precedes it.
THEOREM DelimiterAlwaysFound == Spec => []DelimiterEndsPayload
<1>1. WriteP!DelimiterEndsPayload => DelimiterEndsPayload
  BY DEF DelimiterEndsPayload, Write!DelimiterEndsPayload, WriteP!DelimiterEndsPayload,
         Write!Places, WriteP!Places, Write!OccursAt, WriteP!OccursAt, Write!First,
         WriteP!First, Write!Delimiter, WriteP!Delimiter, Write!Dot, WriteP!Dot
<1> QED BY <1>1, WriteBehaves, WriteParameters, WriteP!DelimiterFound, PTL

\* Of every write: what nobody disturbed is accepted as it was sent.
THEOREM CleanTransfersArrive == Spec => []CleanTransferAccepted
<1>1. WriteP!CleanTransferAccepted => CleanTransferAccepted
  BY DEF CleanTransferAccepted, Write!CleanTransferAccepted, WriteP!CleanTransferAccepted,
         Write!Payload, WriteP!Payload
<1> QED BY <1>1, WriteBehaves, WriteParameters, WriteP!CleanTransferArrives, PTL

(* The read and the edit                                                   *)

\* The same machine on both sides, operator by operator.
LEMMA SameEdit == \A s : Edit!Edit(s) <=> EditP!Edit(s)
<1>1. \A s : Edit!Valid(s) <=> EditP!Valid(s)
  BY DEF Edit!Valid, EditP!Valid
<1>2. \A s : Edit!Hits(s) = EditP!Hits(s)
  BY DEF Edit!Hits, EditP!Hits, Edit!Matches, EditP!Matches
<1>3. \A s, P : Edit!Replace(s, P) = EditP!Replace(s, P)
  BY DEF Edit!Replace, EditP!Replace, Edit!FlattenSeq, EditP!FlattenSeq
<1>4. \A P : Edit!Chosen(P) = EditP!Chosen(P)
  BY DEF Edit!Chosen, EditP!Chosen, Edit!Cardinality, EditP!Cardinality
<1> QED BY <1>1, <1>2, <1>3, <1>4 DEF Edit!Edit, EditP!Edit, Edit!End, EditP!End

LEMMA EditSteps == Edit!Next => EditP!Next
<1>1. Edit!Answer <=> EditP!Answer
  BY SameEdit
  DEF Edit!Answer, EditP!Answer, Edit!Continue, EditP!Continue, Edit!Complete, EditP!Complete,
      Edit!End, EditP!End, Edit!Error, EditP!Error, Edit!disk, EditP!disk
<1>2. Edit!CallStep => EditP!CallStep
  BY <1>1
  DEF Edit!CallStep, EditP!CallStep, Edit!Call, EditP!Call, Edit!Stat, EditP!Stat, Edit!Chunk,
      EditP!Chunk, Edit!Snapshot, EditP!Snapshot, Edit!Commit, EditP!Commit, Edit!disk,
      EditP!disk, Edit!call, EditP!call, Edit!End, EditP!End, Edit!Identity, EditP!Identity,
      Edit!Replaced, EditP!Replaced, Edit!Offset, EditP!Offset, Edit!Least, EditP!Least
<1> QED
  BY <1>2
  DEF Edit!Next, EditP!Next, Edit!ReadBreaks, EditP!ReadBreaks, Edit!CommitBreaks,
      EditP!CommitBreaks, Edit!ForeignWrite, EditP!ForeignWrite, Edit!disk, EditP!disk,
      Edit!call, EditP!call, Edit!Error, EditP!Error, Edit!End, EditP!End, Edit!Replaced,
      EditP!Replaced, Edit!Identity, EditP!Identity

LEMMA EditBehaves == Spec => EditP!Spec
<1>1. Init => EditP!Init
  BY DEF Init, Edit!Init, EditP!Init, Edit!ReadRequest, EditP!ReadRequest
<1>2. [Next]_vars => [EditP!Next]_(EditP!vars)
  <2>1. EditStep => EditP!Next
    BY EditSteps DEF EditStep
  <2>2. ASSUME [Next]_vars, ~EditStep
        PROVE  UNCHANGED EditP!vars
    <3>1. UNCHANGED editing
      BY <2>2 DEF Next, vars, Start, WriteStep, SearchStep, ConnectStep, RunStep
    <3> QED BY <3>1 DEF editing, EditP!vars, EditP!disk, EditP!call
  <2> QED BY <2>1, <2>2
<1> QED BY <1>1, <1>2, PTL DEF Spec, EditP!Spec

LEMMA EditParameters == EditP!Parameters
BY ParametersAssumption DEF Edit!Parameters, EditP!Parameters, Edit!Bytes, EditP!Bytes

\* Of every remote_read and remote_edit: what it got was in the file.
THEOREM ReadsAreReal == Spec => []ReadReflectsFile
<1>1. EditP!ReadReflectsFile => ReadReflectsFile
  BY DEF ReadReflectsFile, Edit!ReadReflectsFile, EditP!ReadReflectsFile, Edit!HasRead,
         EditP!HasRead
<1> QED BY <1>1, EditParameters, EditBehaves, EditP!ReadsAreReal, PTL

\* Of every remote_edit: it writes what it read with the one place, or all
\* places, of the old string replaced, and it decides on the whole file when
\* nobody changes that.
THEOREM EditsAreExact == Spec => []EditIsExact
<1>1. \A s, i : Edit!Matches(s, i) <=> EditP!Matches(s, i)
  BY DEF Edit!Matches, EditP!Matches
<1>2. \A s, P : Edit!AreHits(s, P) <=> EditP!AreHits(s, P)
  BY <1>1 DEF Edit!AreHits, EditP!AreHits
<1>3. \A s, P, r : Edit!IsReplaced(s, P, r) <=> EditP!IsReplaced(s, P, r)
  BY DEF Edit!IsReplaced, EditP!IsReplaced, Edit!Place, EditP!Place, Edit!Kept, EditP!Kept,
         Edit!Cardinality, EditP!Cardinality
<1>4. \A s : (Edit!Valid(s) <=> EditP!Valid(s)) /\ (Edit!Occurs(s) <=> EditP!Occurs(s))
  BY <1>1 DEF Edit!Valid, EditP!Valid, Edit!Occurs, EditP!Occurs
<1>5. EditP!EditIsExact => EditIsExact
  BY <1>1, <1>2, <1>3, <1>4 DEF EditIsExact, Edit!EditIsExact, EditP!EditIsExact
<1> QED BY <1>5, EditParameters, EditBehaves, EditP!EditsAreExact, PTL

(* The output of a command                                                 *)

\* The edit and the output flatten alike.
LEMMA SameFlatten == \A q : Run!FlattenSeq(q) = EditP!FlattenSeq(q)
BY DEF Run!FlattenSeq, EditP!FlattenSeq

\* Characters of some bytes each.
Chars == Nat \X (Nat \ {0})

\* A byte: its character and its place in it.
Token == Chars \X Nat

\* The bytes of s, character by character.
Spelled(s) == [i \in DOMAIN s |-> Run!Bytes(s[i])]

\* Each character has its width of bytes, numbered from 1.
LEMMA SpelledFacts ==
    ASSUME NEW s \in Seq(Chars)
    PROVE  /\ Len(s) \in Nat /\ DOMAIN s = 1..Len(s)
           /\ Spelled(s) \in Seq(Seq(Token)) /\ Len(Spelled(s)) = Len(s)
           /\ \A i \in 1..Len(s) :
                 /\ s[i] \in Chars /\ s[i][2] \in Nat /\ s[i][2] > 0
                 /\ Spelled(s)[i] \in Seq(Token)
                 /\ Len(Spelled(s)[i]) = s[i][2]
                 /\ \A k \in 1..s[i][2] : Spelled(s)[i][k] = <<s[i], k>>
<1>1. Len(s) \in Nat /\ DOMAIN s = 1..Len(s)
  OBVIOUS
<1>2. ASSUME NEW c \in Chars
      PROVE  /\ c[2] \in Nat /\ c[2] > 0 /\ Run!Bytes(c) \in Seq(Token)
             /\ Len(Run!Bytes(c)) = c[2] /\ \A k \in 1..c[2] : Run!Bytes(c)[k] = <<c, k>>
  <2>1. c[2] \in Nat /\ c[2] > 0
    BY DEF Chars
  <2>2. \A k \in 1..c[2] : <<c, k>> \in Token
    BY <2>1 DEF Token
  <2>3. Run!Bytes(c) \in [1..c[2] -> Token] /\ \A k \in 1..c[2] : Run!Bytes(c)[k] = <<c, k>>
    BY <2>2 DEF Run!Bytes
  <2> QED BY <2>1, <2>3
<1>3. \A i \in 1..Len(s) : s[i] \in Chars /\ Spelled(s)[i] = Run!Bytes(s[i])
  BY <1>1 DEF Spelled
<1>4. Spelled(s) \in [1..Len(s) -> Seq(Token)]
  <2>1. \A i \in 1..Len(s) : Run!Bytes(s[i]) \in Seq(Token)
    BY <1>2, <1>3
  <2> QED BY <1>1, <2>1 DEF Spelled
<1>5. Spelled(s) \in Seq(Seq(Token)) /\ Len(Spelled(s)) = Len(s)
  BY <1>1, <1>4
<1> QED BY <1>1, <1>2, <1>3, <1>5

\* Where the bytes of each character lie in the encoded text.
LEMMA EncodeFacts ==
    ASSUME NEW s \in Seq(Chars), NEW o, EditP!Offsets(o, Spelled(s))
    PROVE  /\ Run!Encode(s) \in Seq(Token) /\ Len(Run!Encode(s)) = o[Len(s)]
           /\ \A i \in 1..Len(s) : \A k \in 1..s[i][2] :
                 o[i - 1] + k \in 1..o[Len(s)] /\ Run!Encode(s)[o[i - 1] + k] = <<s[i], k>>
           /\ \A i \in 0..Len(s) : o[i] \in Nat
           /\ \A i \in 1..Len(s) : o[i] = o[i - 1] + s[i][2]
           /\ \A i, j \in 0..Len(s) : i <= j => o[i] <= o[j]
           /\ \A p \in 1..o[Len(s)] : \E i \in 1..Len(s) : o[i - 1] < p /\ p <= o[i]
<1>1. Run!Encode(s) = EditP!FlattenSeq(Spelled(s))
  BY SameFlatten DEF Run!Encode, Spelled
<1>2. Spelled(s) \in Seq(Seq(Token)) /\ Len(Spelled(s)) = Len(s)
  BY SpelledFacts
<1>3. /\ EditP!FlattenSeq(Spelled(s)) \in Seq(Token)
      /\ Len(EditP!FlattenSeq(Spelled(s))) = o[Len(s)]
      /\ \A i \in 1..Len(s) : \A k \in 1..Len(Spelled(s)[i]) :
            /\ o[i - 1] + k \in 1..o[Len(s)]
            /\ EditP!FlattenSeq(Spelled(s))[o[i - 1] + k] = Spelled(s)[i][k]
  BY <1>2, EditP!FlattenLayout
<1>4. /\ \A i, j \in 0..Len(s) : i <= j => o[i] <= o[j]
      /\ \A p \in 1..o[Len(s)] : \E i \in 1..Len(s) : o[i - 1] < p /\ p <= o[i]
  BY <1>2, EditP!OffsetsOrder
<1>5. /\ \A i \in 0..Len(s) : o[i] \in Nat
      /\ \A i \in 1..Len(s) : o[i] = o[i - 1] + Len(Spelled(s)[i])
  BY <1>2 DEF EditP!Offsets
<1>6. \A i \in 1..Len(s) : /\ Len(Spelled(s)[i]) = s[i][2]
                            /\ \A k \in 1..s[i][2] : Spelled(s)[i][k] = <<s[i], k>>
  BY SpelledFacts
<1>7. \A i \in 1..Len(s) : \A k \in 1..s[i][2] :
         o[i - 1] + k \in 1..o[Len(s)] /\ Run!Encode(s)[o[i - 1] + k] = <<s[i], k>>
  <2> SUFFICES ASSUME NEW i \in 1..Len(s), NEW k \in 1..s[i][2]
               PROVE  o[i - 1] + k \in 1..o[Len(s)] /\ Run!Encode(s)[o[i - 1] + k] = <<s[i], k>>
    OBVIOUS
  <2>1. k \in 1..Len(Spelled(s)[i]) /\ Spelled(s)[i][k] = <<s[i], k>>
    BY <1>6
  <2>2. /\ o[i - 1] + k \in 1..o[Len(s)]
        /\ EditP!FlattenSeq(Spelled(s))[o[i - 1] + k] = Spelled(s)[i][k]
    BY <1>3, <2>1
  <2> QED BY <1>1, <2>1, <2>2
<1>8. \A i \in 1..Len(s) : o[i] = o[i - 1] + s[i][2]
  BY <1>5, <1>6
<1> QED BY <1>1, <1>3, <1>4, <1>5, <1>7, <1>8

\* Where only empty pieces follow, the offset stays.
LEMMA OffsetsStay ==
    ASSUME NEW S, NEW q \in Seq(Seq(S)), NEW o, EditP!Offsets(o, q),
           NEW x \in 0..Len(q), NEW y \in 0..Len(q), x <= y,
           \A j \in x + 1..y : q[j] = << >>
    PROVE  o[y] = o[x]
<1> DEFINE T == {d \in 0..y - x : o[x + d] = o[x]}
<1>0. x \in Nat /\ y \in Nat /\ y - x \in Nat /\ Len(q) \in Nat /\ x + (y - x) = y
  OBVIOUS
<1>1. 0 \in T
  BY <1>0
<1>2. ASSUME NEW d \in 0..y - x, d \in T, d < y - x
      PROVE  d + 1 \in T
  <2>1. x + d + 1 \in x + 1..y /\ x + d + 1 \in 1..Len(q) /\ (x + d + 1) - 1 = x + d
    BY <1>0, <1>2
  <2>2. o[x + d + 1] = o[x + d] + Len(q[x + d + 1]) /\ q[x + d + 1] = << >>
    BY <2>1 DEF EditP!Offsets
  <2>3. Len(<< >>) = 0 /\ o[x + d] \in Nat /\ o[x + d] = o[x]
    BY <1>0, <1>2, <2>1 DEF EditP!Offsets
  <2>4. o[x + (d + 1)] = o[x] /\ d + 1 \in 0..y - x
    <3> DEFINE u == o[x + d]
               k == Len(q[x + d + 1])
    <3>1. u \in Nat /\ k = 0 /\ u = o[x] /\ o[x + d + 1] = u + k
      BY <2>2, <2>3
    <3> HIDE DEF u, k
    <3>2. o[x + d + 1] = o[x]
      BY <3>1
    <3>3. x + (d + 1) = x + d + 1 /\ d + 1 \in 0..y - x
      BY <1>0, <1>2
    <3> QED BY <3>2, <3>3
  <2> QED BY <2>4
<1>3. \A d \in 0..y - x : d \in T
  <2> HIDE DEF T
  <2>1. \A d \in 0..y - x : d \in T /\ d < y - x => d + 1 \in T
    BY <1>2
  <2> QED BY <1>0, <1>1, <2>1, EditP!UpTo
<1>4. y - x \in T
  <2>1. y - x \in 0..y - x
    BY <1>0
  <2> HIDE DEF T
  <2> QED BY <1>3, <2>1
<1> QED BY <1>0, <1>4

\* The w elements of q from place j on.
Part(q, j, w) == SubSeq(q, j, j + w - 1)

LEMMA PartFacts ==
    ASSUME NEW S, NEW q \in Seq(S), NEW j \in Nat, NEW w \in Nat,
           j > 0, w > 0, j + w - 1 <= Len(q)
    PROVE  /\ Part(q, j, w) \in Seq(S) /\ Len(Part(q, j, w)) = w
           /\ \A x \in 1..w : Part(q, j, w)[x] = q[j + x - 1]
<1>1. Len(q) \in Nat /\ j + w - 1 \in Nat /\ j <= j + w - 1 /\ (j + w - 1) - j + 1 = w
  OBVIOUS
<1>2. PICK n \in Nat : n = j + w - 1
  BY <1>1
<1>3. SubSeq(q, j, n) \in Seq(S) /\ Len(SubSeq(q, j, n)) = n - j + 1
      /\ \A x \in 1..(n - j + 1) : SubSeq(q, j, n)[x] = q[j + x - 1]
  BY <1>1, <1>2
<1>4. Part(q, j, w) = SubSeq(q, j, n)
  BY <1>2 DEF Part
<1> QED BY <1>1, <1>2, <1>3, <1>4

\* A character of which b holds all bytes, from place i on.
Whole(b, i) ==
    /\ i + b[i][1][2] - 1 <= Len(b)
    /\ SubSeq(b, i, i + b[i][1][2] - 1) = Run!Bytes(b[i][1])

Found(b) == [i \in DOMAIN b |-> IF Whole(b, i) THEN <<b[i][1]>> ELSE << >>]

\* The bytes behind a up to e hold, of the characters that end at the offsets
\* in o, those behind the l-th up to the m-th.
Holds(o, n, a, e, l, m) ==
    /\ a <= e /\ e <= o[n] /\ l <= m /\ a <= o[l] /\ o[m] <= e
    /\ \A i \in 0..n : a <= o[i] => l <= i
    /\ \A i \in 0..n : o[i] <= e => i <= m

\* Decoding the bytes behind a up to e gives the characters that begin and end
\* there.
LEMMA DecodeSlice ==
    ASSUME NEW s \in Seq(Chars), NEW o, EditP!Offsets(o, Spelled(s)),
           NEW a \in Nat, NEW e \in Nat, NEW l \in 0..Len(s), NEW m \in 0..Len(s),
           Holds(o, Len(s), a, e, l, m)
    PROVE  Run!Decode(SubSeq(Run!Encode(s), a + 1, e)) = SubSeq(s, l + 1, m)
<1> DEFINE raw == Run!Encode(s)
           b == SubSeq(raw, a + 1, e)
<1>0. /\ Len(s) \in Nat /\ l \in Nat /\ m \in Nat /\ e - a \in Nat
      /\ raw \in Seq(Token) /\ Len(raw) = o[Len(s)]
      /\ \A i \in 0..Len(s) : o[i] \in Nat
      /\ \A i \in 1..Len(s) : /\ o[i] = o[i - 1] + s[i][2] /\ s[i] \in Chars
                              /\ s[i][2] \in Nat /\ s[i][2] > 0
      /\ \A i, j \in 0..Len(s) : i <= j => o[i] <= o[j]
  <2>1. /\ raw \in Seq(Token) /\ Len(raw) = o[Len(s)]
        /\ \A i \in 0..Len(s) : o[i] \in Nat
        /\ \A i \in 1..Len(s) : o[i] = o[i - 1] + s[i][2]
        /\ \A i, j \in 0..Len(s) : i <= j => o[i] <= o[j]
    BY EncodeFacts
  <2>2. \A i \in 1..Len(s) : s[i] \in Chars /\ s[i][2] \in Nat /\ s[i][2] > 0
    BY DEF Chars
  <2>3. Len(s) \in Nat /\ l \in Nat /\ m \in Nat /\ a <= e
    BY DEF Holds
  <2> HIDE DEF raw
  <2>4. e - a \in Nat
    BY <2>3
  <2> QED BY <2>1, <2>2, <2>3, <2>4
<1>cover. \A p \in 1..o[Len(s)] : \E i \in 1..Len(s) : o[i - 1] < p /\ p <= o[i]
  BY EncodeFacts
<1>ends. /\ o[l] \in Nat /\ o[m] \in Nat /\ o[Len(s)] \in Nat /\ o[l] <= o[m]
         /\ a <= e /\ e <= o[Len(s)] /\ l <= m /\ a <= o[l] /\ o[m] <= e
  BY <1>0 DEF Holds
<1>most. /\ \A i \in 0..Len(s) : a <= o[i] => l <= i
         /\ \A i \in 0..Len(s) : o[i] <= e => i <= m
  BY DEF Holds
<1>1. b \in Seq(Token) /\ Len(b) = e - a /\ \A j \in 1..e - a : b[j] = raw[a + j]
  <2> HIDE DEF raw
  <2>1. a + 1 \in Nat /\ e <= Len(raw) /\ Len(raw) \in Nat /\ a <= e
    BY <1>0, <1>ends
  <2>2. CASE a + 1 <= e
    <3>1. /\ b \in Seq(Token) /\ Len(b) = e - (a + 1) + 1
          /\ \A j \in 1..e - (a + 1) + 1 : b[j] = raw[a + 1 + j - 1]
      BY <1>0, <2>1, <2>2
    <3>2. e - (a + 1) + 1 = e - a /\ \A j \in 1..e - a : a + 1 + j - 1 = a + j
      OBVIOUS
    <3> HIDE DEF b
    <3> QED BY <3>1, <3>2
  <2>3. CASE ~(a + 1 <= e)
    <3>1. b = << >> /\ e - a = 0
      BY <1>0, <2>1, <2>3
    <3> HIDE DEF b
    <3> QED BY <3>1
  <2> QED BY <2>2, <2>3
<1>2. ASSUME NEW i \in 1..Len(s), NEW k \in 1..s[i][2]
      PROVE  raw[o[i - 1] + k] = <<s[i], k>> /\ o[i - 1] + k \in 1..o[Len(s)]
  BY EncodeFacts
<1> HIDE DEF raw, b
<1>3. ASSUME NEW i \in 1..Len(s), NEW k \in 1..s[i][2], NEW j \in 1..e - a, a + j = o[i - 1] + k
      PROVE  b[j] = <<s[i], k>> /\ (Whole(b, j) <=> k = 1 /\ o[i] <= e)
  <2> DEFINE w == s[i][2]
  <2>1. /\ w \in Nat /\ w > 0 /\ o[i] = o[i - 1] + w /\ o[i - 1] \in Nat /\ o[i] \in Nat
        /\ j \in Nat /\ k \in Nat
    <3>1. i - 1 \in 0..Len(s) /\ i \in 0..Len(s)
      BY <1>0
    <3> QED BY <1>0, <3>1
  <2>2. b[j] = <<s[i], k>> /\ b[j][1] = s[i]
    <3>1. b[j] = raw[o[i - 1] + k]
      BY <1>1, <1>3
    <3>2. raw[o[i - 1] + k] = <<s[i], k>>
      BY <1>2
    <3> QED BY <3>1, <3>2
  <2> HIDE DEF w
  <2>3. Whole(b, j) <=> j + w - 1 <= e - a /\ SubSeq(b, j, j + w - 1) = Run!Bytes(s[i])
    BY <1>1, <2>2 DEF Whole, w
  <2>4. j + w - 1 <= e - a =>
           /\ SubSeq(b, j, j + w - 1) \in Seq(Token) /\ Len(SubSeq(b, j, j + w - 1)) = w
           /\ \A x \in 1..w : SubSeq(b, j, j + w - 1)[x] = b[j + x - 1]
    <3> SUFFICES ASSUME j + w - 1 <= e - a
                 PROVE  /\ SubSeq(b, j, j + w - 1) \in Seq(Token)
                        /\ Len(SubSeq(b, j, j + w - 1)) = w
                        /\ \A x \in 1..w : SubSeq(b, j, j + w - 1)[x] = b[j + x - 1]
      OBVIOUS
    <3>1. b \in Seq(Token) /\ Len(b) \in Nat /\ j + w - 1 <= Len(b)
      BY <1>1
    <3>2. j \in Nat /\ j > 0 /\ w \in Nat /\ w > 0
      BY <2>1
    <3>3. /\ Part(b, j, w) \in Seq(Token) /\ Len(Part(b, j, w)) = w
          /\ \A x \in 1..w : Part(b, j, w)[x] = b[j + x - 1]
      BY <3>1, <3>2, PartFacts, SMTT(20)
    <3> QED BY <3>3 DEF Part
  <2>5. /\ Run!Bytes(s[i]) \in Seq(Token) /\ Len(Run!Bytes(s[i])) = w
        /\ \A x \in 1..w : Run!Bytes(s[i])[x] = <<s[i], x>>
    BY SpelledFacts DEF Spelled, w
  <2>6. ASSUME Whole(b, j)
        PROVE  k = 1 /\ o[i] <= e
    <3>1. 1 \in 1..w /\ j + 1 - 1 = j
      BY <2>1
    <3>2. <<s[i], k>> = <<s[i], 1>>
      BY <2>2, <2>3, <2>4, <2>5, <2>6, <3>1
    <3>3. k = 1
      BY <3>2
    <3>4. j + w - 1 <= e - a
      BY <2>3, <2>6
    <3> DEFINE u == o[i - 1]
               v == o[i]
    <3>5. a + j = u + 1 /\ u \in Nat /\ v = u + w
      BY <1>3, <2>1, <3>3
    <3> HIDE DEF u, v
    <3>6. v <= e
      BY <2>1, <3>4, <3>5
    <3> QED BY <3>3, <3>6 DEF v
  <2>7. ASSUME k = 1, o[i] <= e
        PROVE  Whole(b, j)
    <3>1. j + w - 1 <= e - a
      BY <1>3, <2>1, <2>7
    <3>2. ASSUME NEW x \in 1..w
          PROVE  SubSeq(b, j, j + w - 1)[x] = <<s[i], x>>
      <4>1. j + x - 1 \in 1..e - a /\ a + (j + x - 1) = o[i - 1] + x
        <5> DEFINE u == o[i - 1]
        <5>1. u \in Nat /\ a + j = u + 1
          BY <1>3, <2>1, <2>7
        <5> HIDE DEF u
        <5>2. j + x - 1 \in 1..e - a /\ a + (j + x - 1) = u + x
          BY <2>1, <3>1, <5>1
        <5> QED BY <5>2 DEF u
      <4>2. raw[o[i - 1] + x] = <<s[i], x>>
        BY <1>2 DEF w
      <4> QED BY <1>1, <2>4, <3>1, <4>1, <4>2
    <3>3. SubSeq(b, j, j + w - 1) = Run!Bytes(s[i])
      <4> DEFINE c == SubSeq(b, j, j + w - 1)
                 d == Run!Bytes(s[i])
      <4>1. /\ c \in Seq(Token) /\ d \in Seq(Token) /\ Len(c) = w /\ Len(d) = w
            /\ \A x \in 1..w : c[x] = d[x]
        BY <2>4, <2>5, <3>1, <3>2
      <4> HIDE DEF c, d
      <4>2. c = d
        BY <4>1
      <4> QED BY <4>2 DEF c, d
    <3> QED BY <2>3, <3>1, <3>3
  <2> QED BY <2>2, <2>6, <2>7
<1>4. ASSUME NEW j \in 1..e - a
      PROVE  \E i \in 1..Len(s) : \E k \in 1..s[i][2] : a + j = o[i - 1] + k
  <2>1. a + j \in 1..o[Len(s)]
    BY <1>ends
  <2>2. PICK i \in 1..Len(s) : o[i - 1] < a + j /\ a + j <= o[i]
    BY <1>cover, <2>1
  <2>3. o[i - 1] \in Nat /\ o[i] = o[i - 1] + s[i][2] /\ s[i][2] \in Nat
    <3>1. i - 1 \in 0..Len(s)
      BY <1>0
    <3> QED BY <1>0, <3>1
  <2> DEFINE u == o[i - 1]
             v == o[i]
             w == s[i][2]
             k == (a + j) - u
  <2>4. u \in Nat /\ v = u + w /\ w \in Nat /\ u < a + j /\ a + j <= v
    BY <2>2, <2>3
  <2>5. k \in 1..w /\ a + j = u + k
    <3> HIDE DEF u, v, w
    <3> QED BY <2>4
  <2> HIDE DEF k
  <2> QED BY <2>5
<1> DEFINE q == Found(b)
<1>5. q \in Seq(Seq(Chars)) /\ Len(q) = e - a
      /\ \A j \in 1..e - a : q[j] = IF Whole(b, j) THEN <<b[j][1]>> ELSE << >>
  <2>1. DOMAIN b = 1..e - a
    BY <1>1
  <2>2. \A j \in 1..e - a : q[j] = IF Whole(b, j) THEN <<b[j][1]>> ELSE << >>
    BY <2>1 DEF Found
  <2>3. \A j \in 1..e - a : b[j][1] \in Chars
    BY <1>1 DEF Token
  <2>4. q \in [1..e - a -> Seq(Chars)]
    <3>1. \A j \in 1..e - a : <<b[j][1]>> \in Seq(Chars) /\ << >> \in Seq(Chars)
      BY <2>3
    <3> QED BY <2>1, <3>1 DEF Found
  <2> HIDE DEF q
  <2>5. q \in Seq(Seq(Chars)) /\ Len(q) = e - a
    <3> DEFINE n == e - a
    <3>1. n \in Nat /\ q \in [1..n -> Seq(Chars)]
      BY <1>0, <2>4
    <3> HIDE DEF n
    <3>2. q \in Seq(Seq(Chars)) /\ Len(q) = n
      BY <3>1
    <3> QED BY <3>2 DEF n
  <2> QED BY <2>2, <2>5
<1> HIDE DEF q
<1>6. PICK r : EditP!Offsets(r, q)
  BY <1>5, EditP!OffsetsExist
<1>7. \A j \in 1..o[l] - a : q[j] = << >>
  <2> SUFFICES ASSUME NEW j \in 1..o[l] - a PROVE q[j] = << >>
    OBVIOUS
  <2>1. o[l] \in Nat /\ o[m] \in Nat /\ o[l] <= o[m] /\ j \in 1..e - a /\ a + j <= o[l]
    BY <1>ends
  <2>p. PICK i \in 1..Len(s) : \E k \in 1..s[i][2] : a + j = o[i - 1] + k
    BY <1>4, <2>1
  <2>2. PICK k \in 1..s[i][2] : a + j = o[i - 1] + k
    BY <2>p
  <2>3. i - 1 \in 0..Len(s) /\ o[i - 1] \in Nat /\ k \in Nat /\ k > 0
    <3>1. i - 1 \in 0..Len(s)
      BY <1>0
    <3> QED BY <1>0, <3>1
  <2>4. ~Whole(b, j)
    <3> SUFFICES ASSUME Whole(b, j) PROVE FALSE
      OBVIOUS
    <3>1. k = 1
      BY <1>3, <2>1, <2>2
    <3>2. a <= o[i - 1] /\ o[i - 1] < o[l]
      <4> DEFINE u == o[i - 1]
                 v == o[l]
      <4>1. u \in Nat /\ v \in Nat /\ a + j = u + 1 /\ a + j <= v /\ j \in Nat /\ j > 0
        BY <2>1, <2>2, <2>3, <3>1
      <4> HIDE DEF u, v
      <4>2. a <= u /\ u < v
        BY <4>1
      <4> QED BY <4>2 DEF u, v
    <3>3. l <= i - 1
      BY <1>most, <2>3, <3>2
    <3>4. o[l] <= o[i - 1]
      BY <1>0, <2>3, <3>3
    <3> DEFINE u == o[i - 1]
               y == o[l]
    <3>5. u \in Nat /\ y \in Nat /\ y <= u /\ u < y
      BY <2>1, <2>3, <3>2, <3>4
    <3> HIDE DEF u, y
    <3> QED BY <3>5
  <2> QED BY <1>5, <2>1, <2>4
<1>8. \A j \in (o[m] - a) + 1..e - a : q[j] = << >>
  <2> SUFFICES ASSUME NEW j \in (o[m] - a) + 1..e - a PROVE q[j] = << >>
    OBVIOUS
  <2>1. o[l] \in Nat /\ o[m] \in Nat /\ o[l] <= o[m] /\ j \in 1..e - a /\ o[m] < a + j
    BY <1>ends
  <2>p. PICK i \in 1..Len(s) : \E k \in 1..s[i][2] : a + j = o[i - 1] + k
    BY <1>4, <2>1
  <2>2. PICK k \in 1..s[i][2] : a + j = o[i - 1] + k
    BY <2>p
  <2>3. /\ i - 1 \in 0..Len(s) /\ i \in 0..Len(s) /\ o[i - 1] \in Nat /\ k \in Nat /\ k > 0
        /\ o[i] = o[i - 1] + s[i][2] /\ s[i][2] \in Nat /\ o[i] \in Nat
    <3>1. i - 1 \in 0..Len(s) /\ i \in 0..Len(s)
      BY <1>0
    <3> QED BY <1>0, <3>1
  <2>4. ~Whole(b, j)
    <3> SUFFICES ASSUME Whole(b, j) PROVE FALSE
      OBVIOUS
    <3>1. o[i] <= e
      BY <1>3, <2>1, <2>2
    <3>2. o[m] < o[i]
      <4> DEFINE u == o[i - 1]
                 v == o[i]
                 w == s[i][2]
                 x == o[m]
      <4>1. /\ u \in Nat /\ v = u + w /\ w \in Nat /\ x \in Nat /\ x < a + j
            /\ a + j = u + k /\ k \in 1..w
        BY <2>1, <2>2, <2>3
      <4> HIDE DEF u, v, w, x
      <4>2. x < v
        BY <4>1
      <4> QED BY <4>2 DEF v, x
    <3>3. i <= m
      BY <1>most, <2>3, <3>1
    <3>4. o[i] <= o[m]
      BY <1>0, <2>3, <3>3
    <3> DEFINE v == o[i]
               x == o[m]
    <3>5. v \in Nat /\ x \in Nat /\ v <= x /\ x < v
      BY <2>1, <2>3, <3>2, <3>4
    <3> HIDE DEF v, x
    <3> QED BY <3>5
  <2> QED BY <1>5, <2>1, <2>4
<1>9. ASSUME NEW i \in l + 1..m
      PROVE  /\ i \in 1..Len(s) /\ i - 1 \in 0..Len(s) /\ i \in 0..Len(s)
             /\ o[i - 1] \in Nat /\ a <= o[i - 1] /\ o[i] \in Nat /\ o[i] <= e
             /\ o[i] = o[i - 1] + s[i][2] /\ s[i][2] \in Nat /\ s[i][2] > 0
             /\ (o[i - 1] - a) + 1 \in 1..e - a
             /\ q[(o[i - 1] - a) + 1] = <<s[i]>>
             /\ \A j \in (o[i - 1] - a) + 2..o[i] - a : q[j] = << >>
  <2>1. i \in 1..Len(s) /\ i - 1 \in 0..Len(s) /\ i \in 0..Len(s) /\ l <= i - 1 /\ i <= m
    BY <1>0
  <2>2. /\ o[i - 1] \in Nat /\ o[i] \in Nat /\ o[i] = o[i - 1] + s[i][2]
        /\ s[i][2] \in Nat /\ s[i][2] > 0 /\ o[l] \in Nat /\ o[m] \in Nat
        /\ o[l] <= o[i - 1] /\ o[i] <= o[m]
    BY <1>0, <2>1
  <2>3. a <= o[i - 1] /\ o[i] <= e
    <3> DEFINE u == o[i - 1]
               v == o[i]
               x == o[l]
               y == o[m]
    <3>1. /\ u \in Nat /\ v \in Nat /\ x \in Nat /\ y \in Nat
          /\ x <= u /\ v <= y /\ a <= x /\ y <= e
      BY <1>ends, <2>2
    <3> HIDE DEF u, v, x, y
    <3>2. a <= u /\ v <= e
      BY <3>1
    <3> QED BY <3>2 DEF u, v
  <2> DEFINE f == (o[i - 1] - a) + 1
  <2>4. f \in 1..e - a /\ a + f = o[i - 1] + 1 /\ 1 \in 1..s[i][2]
    <3> DEFINE u == o[i - 1]
               v == o[i]
               w == s[i][2]
    <3>1. u \in Nat /\ v \in Nat /\ w \in Nat /\ w > 0 /\ v = u + w /\ a <= u /\ v <= e
      BY <2>2, <2>3
    <3> HIDE DEF u, v, w
    <3>2. (u - a) + 1 \in 1..e - a /\ a + ((u - a) + 1) = u + 1 /\ 1 \in 1..w
      BY <3>1
    <3> QED BY <3>2 DEF u, v, w
  <2>5. q[f] = <<s[i]>>
    <3> HIDE DEF f
    <3>1. b[f] = <<s[i], 1>> /\ Whole(b, f)
      BY <1>3, <2>1, <2>3, <2>4
    <3>2. b[f][1] = s[i]
      BY <3>1
    <3>3. q[f] = <<b[f][1]>>
      BY <1>5, <2>4, <3>1
    <3> QED BY <3>2, <3>3
  <2>6. ASSUME NEW j \in (o[i - 1] - a) + 2..o[i] - a
        PROVE  q[j] = << >>
    <3> DEFINE u == o[i - 1]
               v == o[i]
               w == s[i][2]
               k == (a + j) - u
    <3>1. /\ u \in Nat /\ v \in Nat /\ w \in Nat /\ v = u + w /\ a <= u /\ v <= e
          /\ j \in (u - a) + 2..v - a
      BY <2>2, <2>3
    <3>2. k \in 1..w /\ k # 1 /\ a + j = u + k /\ j \in 1..e - a
      <4> HIDE DEF u, v, w
      <4> QED BY <3>1
    <3> HIDE DEF k
    <3>3. ~Whole(b, j)
      BY <1>3, <2>1, <3>2
    <3> QED BY <1>5, <3>2, <3>3
  <2> QED BY <2>1, <2>2, <2>3, <2>4, <2>5, <2>6
<1>10. r \in [0..e - a -> Nat] /\ r[0] = 0
       /\ \A j \in 1..e - a : r[j] = r[j - 1] + Len(q[j])
  BY <1>5, <1>6 DEF EditP!Offsets
<1>stay. ASSUME NEW x \in 0..e - a, NEW y \in 0..e - a, x <= y,
                \A j \in x + 1..y : q[j] = << >>
         PROVE  r[y] = r[x]
  <2>1. q \in Seq(Seq(Chars)) /\ x \in 0..Len(q) /\ y \in 0..Len(q)
    BY <1>5
  <2> QED BY <1>6, <1>stay, <2>1, OffsetsStay
<1> DEFINE T == {d \in 0..m - l : r[o[l + d] - a] = d}
<1>11. 0 \in T
  <2>1. o[l] \in Nat /\ o[l] <= e /\ o[l] - a \in 0..e - a /\ 0 \in 0..e - a /\ 0 <= o[l] - a
    BY <1>ends
  <2>2. \A j \in 0 + 1..o[l] - a : q[j] = << >>
    BY <1>7
  <2>3. r[o[l] - a] = r[0]
    <3> DEFINE y == o[l] - a
    <3> HIDE DEF y
    <3>1. y \in 0..e - a /\ 0 \in 0..e - a /\ 0 <= y /\ \A j \in 0 + 1..y : q[j] = << >>
      BY <2>1, <2>2 DEF y
    <3>2. r[y] = r[0]
      BY <1>stay, <3>1
    <3> QED BY <3>2 DEF y
  <2>4. l + 0 = l /\ 0 \in 0..m - l
    BY <1>0, <1>ends
  <2> QED BY <1>10, <2>3, <2>4
<1>12. ASSUME NEW d \in 0..m - l, d \in T, d < m - l
       PROVE  d + 1 \in T
  <2> DEFINE i == l + d + 1
             f == (o[i - 1] - a) + 1
  <2>1. i \in l + 1..m /\ i - 1 = l + d /\ l + (d + 1) = i /\ d + 1 \in 0..m - l
    BY <1>0, <1>12
  <2> HIDE DEF i
  <2>2. /\ o[i - 1] \in Nat /\ a <= o[i - 1] /\ o[i] \in Nat /\ o[i] <= e
        /\ o[i] = o[i - 1] + s[i][2] /\ s[i][2] \in Nat /\ s[i][2] > 0
        /\ f \in 1..e - a /\ q[f] = <<s[i]>>
        /\ \A j \in (o[i - 1] - a) + 2..o[i] - a : q[j] = << >>
    BY <1>9, <2>1
  <2>3. f - 1 = o[i - 1] - a /\ f \in 0..e - a /\ o[i] - a \in 0..e - a /\ f <= o[i] - a
        /\ f + 1 = (o[i - 1] - a) + 2 /\ f - 1 \in 0..e - a
    <3> DEFINE u == o[i - 1]
               v == o[i]
               w == s[i][2]
    <3>1. u \in Nat /\ v \in Nat /\ w \in Nat /\ w > 0 /\ v = u + w /\ a <= u /\ v <= e
      BY <2>2
    <3> HIDE DEF u, v, w
    <3> DEFINE g == (u - a) + 1
    <3>2. /\ g - 1 = u - a /\ g \in 0..e - a /\ v - a \in 0..e - a /\ g <= v - a
          /\ g + 1 = (u - a) + 2 /\ g - 1 \in 0..e - a
      BY <3>1
    <3> QED BY <3>2 DEF u, v, w
  <2>4. r[f - 1] = d
    BY <1>12, <2>1, <2>3
  <2> HIDE DEF f
  <2>5. r[f] = d + 1
    <3>1. Len(q[f]) = 1
      BY <2>2
    <3> QED BY <1>10, <2>2, <2>4, <3>1
  <2>6. \A j \in f + 1..o[i] - a : q[j] = << >>
    BY <2>2, <2>3
  <2>7. r[o[i] - a] = r[f]
    <3> DEFINE y == o[i] - a
    <3> HIDE DEF y
    <3>1. y \in 0..e - a /\ f \in 0..e - a /\ f <= y /\ \A j \in f + 1..y : q[j] = << >>
      BY <2>3, <2>6 DEF y
    <3>2. r[y] = r[f]
      BY <1>stay, <3>1
    <3> QED BY <3>2 DEF y
  <2> QED BY <2>1, <2>5, <2>7
<1>13. \A d \in 0..m - l : r[o[l + d] - a] = d
  <2>1. m - l \in Nat
    BY <1>0, <1>ends
  <2>2. \A d \in 0..m - l : d \in T
    <3> HIDE DEF T
    <3>1. \A d \in 0..m - l : d \in T /\ d < m - l => d + 1 \in T
      BY <1>12
    <3> QED BY <1>11, <2>1, <3>1, EditP!UpTo
  <2> QED BY <2>2
<1>14. r[e - a] = m - l
  <2>1. m - l \in 0..m - l /\ l + (m - l) = m
    BY <1>0, <1>ends
  <2>2. o[m] - a \in 0..e - a /\ e - a \in 0..e - a /\ o[m] - a <= e - a
    BY <1>ends
  <2>3. r[e - a] = r[o[m] - a]
    <3> DEFINE x == o[m] - a
               y == e - a
    <3> HIDE DEF x, y
    <3>1. x \in 0..e - a /\ y \in 0..e - a /\ x <= y /\ \A j \in x + 1..y : q[j] = << >>
      BY <1>8, <2>2 DEF x, y
    <3>2. r[y] = r[x]
      BY <1>stay, <3>1
    <3> QED BY <3>2 DEF x, y
  <2>4. r[o[m] - a] = m - l
    BY <1>13, <2>1
  <2> QED BY <2>3, <2>4
<1> DEFINE decoded == EditP!FlattenSeq(q)
<1>15. /\ decoded \in Seq(Chars) /\ Len(decoded) = r[e - a]
       /\ \A j \in 1..e - a : \A k \in 1..Len(q[j]) : decoded[r[j - 1] + k] = q[j][k]
  <2>1. /\ decoded \in Seq(Chars) /\ Len(decoded) = r[Len(q)]
        /\ \A j \in 1..Len(q) : \A k \in 1..Len(q[j]) :
              r[j - 1] + k \in 1..r[Len(q)] /\ decoded[r[j - 1] + k] = q[j][k]
    <3>1. q \in Seq(Seq(Chars))
      BY <1>5
    <3> QED BY <1>6, <3>1, EditP!FlattenLayout
  <2> HIDE DEF decoded
  <2> QED BY <1>5, <2>1
<1> HIDE DEF decoded
<1>16. ASSUME NEW x \in 1..m - l
       PROVE  decoded[x] = s[l + x]
  <2> DEFINE i == l + x
             f == (o[i - 1] - a) + 1
  <2>1. i \in l + 1..m /\ x - 1 \in 0..m - l /\ i - 1 = l + (x - 1) /\ x \in Nat
    BY <1>0
  <2>2. r[o[i - 1] - a] = x - 1
    BY <1>13, <2>1
  <2> HIDE DEF i
  <2>3. f \in 1..e - a /\ q[f] = <<s[i]>> /\ o[i - 1] \in Nat
    BY <1>9, <2>1
  <2>4. f - 1 = o[i - 1] - a
    BY <2>3
  <2> HIDE DEF f
  <2>5. Len(q[f]) = 1 /\ q[f][1] = s[i] /\ 1 \in 1..1
    BY <2>3
  <2>6. decoded[r[f - 1] + 1] = s[i]
    BY <1>15, <2>3, <2>5
  <2>7. r[f - 1] + 1 = x
    BY <2>1, <2>2, <2>4
  <2> QED BY <2>6, <2>7 DEF i
<1>17. SubSeq(s, l + 1, m) \in Seq(Chars) /\ Len(SubSeq(s, l + 1, m)) = m - l
       /\ \A x \in 1..m - l : SubSeq(s, l + 1, m)[x] = s[l + x]
  <2>1. CASE l + 1 <= m
    <3>1. /\ SubSeq(s, l + 1, m) \in Seq(Chars) /\ Len(SubSeq(s, l + 1, m)) = m - (l + 1) + 1
          /\ \A x \in 1..m - (l + 1) + 1 : SubSeq(s, l + 1, m)[x] = s[l + 1 + x - 1]
      BY <1>0, <2>1
    <3>2. m - (l + 1) + 1 = m - l /\ \A x \in 1..m - l : l + 1 + x - 1 = l + x
      BY <1>0
    <3> QED BY <3>1, <3>2
  <2>2. CASE ~(l + 1 <= m)
    <3>1. SubSeq(s, l + 1, m) = << >> /\ m - l = 0
      BY <1>0, <1>ends, <2>2
    <3> QED BY <3>1
  <2> QED BY <2>1, <2>2
<1>18. decoded = SubSeq(s, l + 1, m)
  BY <1>14, <1>15, <1>16, <1>17
<1>19. Run!Decode(b) = decoded
  BY SameFlatten DEF Run!Decode, decoded, q, Found, Whole
<1> QED BY <1>18, <1>19 DEF b, raw

\* The n characters of s behind the x-th are those of t behind the y-th.
Alike(s, x, t, y, n) ==
    /\ s \in Seq(Chars) /\ t \in Seq(Chars) /\ x \in Nat /\ y \in Nat /\ n \in Nat
    /\ x + n <= Len(s) /\ y + n <= Len(t) /\ \A i \in 1..n : s[x + i] = t[y + i]

\* The offsets advance alike over them.
LEMMA EncodeAlike ==
    ASSUME NEW s, NEW t, NEW x, NEW y, NEW n, Alike(s, x, t, y, n),
           NEW o, EditP!Offsets(o, Spelled(s)), NEW r, EditP!Offsets(r, Spelled(t))
    PROVE  o[x + n] + r[y] = r[y + n] + o[x]
<1> USE DEF Alike
<1>0. /\ Len(s) \in Nat /\ Len(t) \in Nat
      /\ \A i \in 0..Len(s) : o[i] \in Nat
      /\ \A i \in 0..Len(t) : r[i] \in Nat
      /\ \A i \in 1..Len(s) : o[i] = o[i - 1] + s[i][2] /\ s[i][2] \in Nat
      /\ \A i \in 1..Len(t) : r[i] = r[i - 1] + t[i][2]
  BY EncodeFacts, SpelledFacts
<1> DEFINE T == {d \in 0..n : o[x + d] + r[y] = r[y + d] + o[x]}
<1>1. 0 \in T
  <2>1. x + 0 = x /\ y + 0 = y /\ o[x] \in Nat /\ r[y] \in Nat
    BY <1>0
  <2> QED BY <2>1
<1>2. ASSUME NEW d \in 0..n, d \in T, d < n
      PROVE  d + 1 \in T
  <2>1. /\ x + d + 1 \in 1..Len(s) /\ (x + d + 1) - 1 = x + d /\ x + (d + 1) = x + d + 1
        /\ y + d + 1 \in 1..Len(t) /\ (y + d + 1) - 1 = y + d /\ y + (d + 1) = y + d + 1
        /\ d + 1 \in 1..n /\ x + d \in 0..Len(s) /\ y + d \in 0..Len(t)
        /\ x \in 0..Len(s) /\ y \in 0..Len(t)
    BY <1>0, <1>2
  <2>2. s[x + d + 1] = t[y + d + 1]
    <3>1. s[x + (d + 1)] = t[y + (d + 1)]
      BY <2>1
    <3> QED BY <2>1, <3>1
  <2> DEFINE w == s[x + d + 1][2]
             ox == o[x + d]
             rx == r[y + d]
             oo == o[x]
             rr == r[y]
  <2>3. o[x + d + 1] = ox + w /\ r[y + d + 1] = rx + w /\ w \in Nat
    BY <1>0, <2>1, <2>2
  <2>4. ox + rr = rx + oo /\ ox \in Nat /\ rx \in Nat /\ oo \in Nat /\ rr \in Nat
    BY <1>0, <1>2, <2>1
  <2>5. o[x + (d + 1)] + rr = r[y + (d + 1)] + oo
    <3> HIDE DEF w, ox, rx, oo, rr
    <3>1. (ox + w) + rr = (rx + w) + oo
      BY <2>3, <2>4
    <3> QED BY <2>1, <2>3, <3>1
  <2> QED BY <2>1, <2>5
<1>3. \A d \in 0..n : d \in T
  <2> HIDE DEF T
  <2>1. \A d \in 0..n : d \in T /\ d < n => d + 1 \in T
    BY <1>2
  <2> QED BY <1>1, <2>1, EditP!UpTo
<1>4. n \in 0..n
  OBVIOUS
<1> QED BY <1>3, <1>4

\* A beginning and an end of a text, with another character between them.
Middle(r, s, c, h, l) ==
    /\ s \in Seq(Chars) /\ c \in Chars /\ h \in 0..Len(s) /\ l \in 0..Len(s)
    /\ r = SubSeq(s, 1, h) \o <<c>> \o SubSeq(s, l + 1, Len(s))

Joints(r, s, c, h, l) ==
    /\ r \in Seq(Chars) /\ Len(r) = h + 1 + (Len(s) - l)
    /\ \A i \in 1..h : r[i] = s[i]
    /\ r[h + 1] = c
    /\ \A i \in 1..Len(s) - l : r[h + 1 + i] = s[l + i]

\* That text, character by character.
LEMMA Joint ==
    ASSUME NEW r, NEW s, NEW c, NEW h, NEW l, Middle(r, s, c, h, l)
    PROVE  Joints(r, s, c, h, l)
<1> USE DEF Middle, Joints
<1> DEFINE u == SubSeq(s, 1, h)
           v == SubSeq(s, l + 1, Len(s))
           uc == u \o <<c>>
<1>0. Len(s) \in Nat /\ h \in Nat /\ l \in Nat /\ h <= Len(s) /\ l <= Len(s) /\ Len(s) - l \in Nat
  OBVIOUS
<1>1. u \in Seq(Chars) /\ Len(u) = h /\ \A i \in 1..h : u[i] = s[i]
  <2>1. CASE h = 0
    BY <1>0, <2>1
  <2>2. CASE h > 0
    BY <1>0, <2>2
  <2> QED BY <1>0, <2>1, <2>2
<1>2. v \in Seq(Chars) /\ Len(v) = Len(s) - l /\ \A i \in 1..Len(s) - l : v[i] = s[l + i]
  <2>1. CASE l + 1 <= Len(s)
    <3>1. /\ v \in Seq(Chars) /\ Len(v) = Len(s) - (l + 1) + 1
          /\ \A i \in 1..Len(s) - (l + 1) + 1 : v[i] = s[l + 1 + i - 1]
      BY <1>0, <2>1
    <3>2. Len(s) - (l + 1) + 1 = Len(s) - l /\ \A i \in 1..Len(s) - l : l + 1 + i - 1 = l + i
      BY <1>0
    <3> HIDE DEF v
    <3> QED BY <3>1, <3>2
  <2>2. CASE ~(l + 1 <= Len(s))
    <3>1. v = << >> /\ Len(s) - l = 0
      BY <1>0, <2>2
    <3> HIDE DEF v
    <3> QED BY <3>1
  <2> QED BY <2>1, <2>2
<1> HIDE DEF u, v
<1>3. <<c>> \in Seq(Chars) /\ Len(<<c>>) = 1 /\ <<c>>[1] = c
  OBVIOUS
<1>4. /\ uc \in Seq(Chars) /\ Len(uc) = h + 1 /\ uc[h + 1] = c
      /\ \A i \in 1..h : uc[i] = s[i]
  <2> DEFINE one == <<c>>
  <2>1. one \in Seq(Chars) /\ Len(one) = 1 /\ one[1] = c
    OBVIOUS
  <2> HIDE DEF one
  <2>2. /\ u \o one \in Seq(Chars) /\ Len(u \o one) = Len(u) + Len(one)
        /\ \A i \in 1..Len(u) : (u \o one)[i] = u[i]
        /\ \A i \in 1..Len(one) : (u \o one)[Len(u) + i] = one[i]
    <3>1. u \in Seq(Chars) /\ one \in Seq(Chars)
      BY <1>1, <2>1
    <3> QED BY <3>1, EditP!Concatenated
  <2>3. (u \o one)[h + 1] = c /\ Len(u \o one) = h + 1 /\ \A i \in 1..h : (u \o one)[i] = s[i]
    BY <1>0, <1>1, <2>1, <2>2
  <2> QED BY <2>2, <2>3 DEF one
<1> HIDE DEF uc
<1>5. /\ uc \o v \in Seq(Chars) /\ Len(uc \o v) = Len(uc) + Len(v)
      /\ \A i \in 1..Len(uc) : (uc \o v)[i] = uc[i]
      /\ \A i \in 1..Len(v) : (uc \o v)[Len(uc) + i] = v[i]
  <2>1. uc \in Seq(Chars) /\ v \in Seq(Chars)
    BY <1>2, <1>4
  <2> QED BY <2>1, EditP!Concatenated
<1>6. r = uc \o v
  BY DEF uc, u, v
<1>7. /\ \A i \in 1..h : i \in 1..Len(uc)
      /\ h + 1 \in 1..Len(uc)
  BY <1>0, <1>4
<1> QED BY <1>2, <1>4, <1>5, <1>6, <1>7

\* What Truncate returns of a text that is too long.
LEMMA TruncateHonest ==
    ASSUME NEW s \in Seq(Chars), NEW max \in Nat, MarkerLen \in Nat \ {0}, MarkerLen <= max,
           Len(Run!Encode(s)) > max, NEW r, r = Run!Truncate(s, max)[1]
    PROVE  /\ Len(Run!Encode(r)) <= max
           /\ \E h, t \in 0..Len(s) :
                 /\ h + t < Len(s)
                 /\ r = SubSeq(s, 1, h) \o <<Run!Marker>>
                           \o SubSeq(s, Len(s) - t + 1, Len(s))
                 /\ max - Len(Run!Encode(r)) <= (s[h + 1][2] - 1) + (s[Len(s) - t][2] - 1)
<1> DEFINE raw == Run!Encode(s)
           n == Len(s)
           available == IF max > MarkerLen THEN max - MarkerLen ELSE 0
           head == available \div 2
           tail == available - head
<1>1. PICK o : EditP!Offsets(o, Spelled(s))
  BY SpelledFacts, EditP!OffsetsExist
<1>2. /\ n \in Nat /\ raw \in Seq(Token) /\ Len(raw) = o[n]
      /\ \A i \in 0..n : o[i] \in Nat
      /\ \A i \in 1..n : o[i] = o[i - 1] + s[i][2]
      /\ \A i \in 1..n : s[i][2] \in Nat /\ s[i][2] > 0
      /\ \A i, j \in 0..n : i <= j => o[i] <= o[j]
  BY <1>1, EncodeFacts, SpelledFacts
<1>3. \A p \in 1..o[n] : \E i \in 1..n : o[i - 1] < p /\ p <= o[i]
  BY <1>1, EncodeFacts
<1>4. o[0] = 0 /\ o[n] \in Nat /\ n \in 0..n /\ 0 \in 0..n
  BY <1>1, <1>2 DEF EditP!Offsets
<1>5. /\ available \in Nat /\ head \in Nat /\ tail \in Nat /\ head + tail = available
      /\ available + MarkerLen = max
  <2>1. available \in Nat /\ available + MarkerLen = max
    OBVIOUS
  <2> HIDE DEF available
  <2> QED BY <2>1
<1>6. max < o[n]
  BY <1>2, <1>4
<1>7. r = Run!HeadOf(raw, head) \o <<Run!Marker>> \o Run!TailOf(raw, tail)
  <2>1. ~(Len(raw) <= max)
    BY <1>2, <1>4, <1>6
  <2> QED BY <2>1 DEF Run!Truncate
<1> HIDE DEF raw, n, available, head, tail
\* The first cut goes through the character behind the h-th.
<1>8. PICK x \in 1..n : o[x - 1] < head + 1 /\ head + 1 <= o[x]
  <2>1. head + 1 \in 1..o[n]
    BY <1>4, <1>5, <1>6
  <2> QED BY <1>3, <2>1
<1> DEFINE h == x - 1
<1>9. h \in 0..n /\ h + 1 = x /\ x \in 0..n /\ o[h] \in Nat /\ o[x] \in Nat /\ o[h] <= head
      /\ o[x] = o[h] + s[x][2] /\ s[x][2] \in Nat
  <2>1. h \in 0..n /\ h + 1 = x /\ x \in 0..n
    BY <1>2
  <2>2. o[h] \in Nat /\ o[x] \in Nat /\ o[x] = o[h] + s[x][2] /\ s[x][2] \in Nat
    BY <1>2, <2>1
  <2>3. o[h] <= head
    <3> DEFINE u == o[h]
    <3>1. u \in Nat /\ u < head + 1
      BY <1>8, <2>2
    <3> HIDE DEF u
    <3>2. u <= head
      BY <1>5, <3>1
    <3> QED BY <3>2 DEF u
  <2> HIDE DEF h
  <2> QED BY <2>1, <2>2, <2>3
<1> HIDE DEF h
<1>10. Run!HeadOf(raw, head) = SubSeq(s, 1, h)
  <2>1. ASSUME NEW i \in 0..n, o[i] <= head
        PROVE  i <= h
    <3> SUFFICES ASSUME x <= i PROVE FALSE
      BY <1>9
    <3>1. o[x] <= o[i] /\ o[i] \in Nat
      BY <1>2, <1>9
    <3> DEFINE u == o[x]
               v == o[i]
    <3>2. u <= v /\ v <= head /\ head + 1 <= u /\ u \in Nat /\ v \in Nat
      BY <1>8, <1>9, <2>1, <3>1
    <3> HIDE DEF u, v
    <3> QED BY <1>5, <3>2
  <2>2. head <= o[n]
    BY <1>4, <1>5, <1>6
  <2>3. Holds(o, n, 0, head, 0, h)
    BY <1>4, <1>5, <1>9, <2>1, <2>2 DEF Holds
  <2>4. Run!Decode(SubSeq(raw, 0 + 1, head)) = SubSeq(s, 0 + 1, h)
    <3>1. 0 \in 0..Len(s) /\ h \in 0..Len(s) /\ Holds(o, Len(s), 0, head, 0, h) /\ 0 \in Nat
      BY <1>4, <1>9, <2>3 DEF n
    <3> QED BY <1>1, <1>5, <3>1, DecodeSlice DEF raw
  <2> QED BY <2>4 DEF Run!HeadOf
\* The second cut goes through the l-th character, or in front of it.
<1> DEFINE a == o[n] - tail
<1>11. a \in 1..o[n] /\ a \in Nat /\ a + tail = o[n] /\ head < a
  <2> DEFINE N == o[n]
  <2>1. N \in Nat /\ max < N
    BY <1>4, <1>6
  <2> HIDE DEF N
  <2>2. N - tail \in 1..N /\ N - tail \in Nat /\ (N - tail) + tail = N /\ head < N - tail
    BY <1>5, <2>1
  <2> QED BY <2>2 DEF N
<1> HIDE DEF a
<1>12. PICK l \in 1..n : o[l - 1] < a /\ a <= o[l]
  BY <1>3, <1>11
<1>13. l \in 0..n /\ l - 1 \in 0..n /\ o[l - 1] \in Nat /\ o[l] \in Nat
       /\ o[l] = o[l - 1] + s[l][2] /\ s[l][2] \in Nat /\ o[l] <= o[n] /\ l <= n
  <2>1. l \in 0..n /\ l - 1 \in 0..n /\ l <= n
    BY <1>2
  <2> QED BY <1>2, <1>4, <2>1
<1>14. Run!TailOf(raw, tail) = SubSeq(s, l + 1, n)
  <2>1. CASE tail = 0
    <3>1. l = n
      <4> SUFFICES ASSUME l < n PROVE FALSE
        BY <1>2, <1>13
      <4>1. n \in 1..n /\ n - 1 \in 0..n /\ l <= n - 1
        BY <1>2, <1>13
      <4>2. /\ o[l] <= o[n - 1] /\ o[n] = o[n - 1] + s[n][2] /\ s[n][2] \in Nat
            /\ s[n][2] > 0 /\ o[n - 1] \in Nat
        BY <1>2, <1>13, <4>1
      <4> DEFINE u == o[l]
                 v == o[n - 1]
                 w == s[n][2]
                 N == o[n]
      <4>3. /\ u <= v /\ N = v + w /\ w \in Nat /\ w > 0 /\ u \in Nat /\ v \in Nat /\ N <= u
        BY <1>11, <1>12, <1>13, <2>1, <4>2
      <4> HIDE DEF u, v, w, N
      <4> QED BY <4>3
    <3>2. SubSeq(s, l + 1, n) = << >>
      BY <1>2, <3>1 DEF n
    <3> QED BY <2>1, <3>2 DEF Run!TailOf
  <2>2. CASE tail # 0
    <3>1. ASSUME NEW i \in 0..n, a <= o[i]
          PROVE  l <= i
      <4> SUFFICES ASSUME i <= l - 1 PROVE FALSE
        BY <1>13
      <4>1. o[i] <= o[l - 1] /\ o[i] \in Nat
        BY <1>2, <1>13
      <4> DEFINE u == o[l - 1]
                 v == o[i]
      <4>2. v <= u /\ u < a /\ a <= v /\ u \in Nat /\ v \in Nat
        BY <1>12, <1>13, <3>1, <4>1
      <4> HIDE DEF u, v
      <4> QED BY <1>11, <4>2
    <3>2. Holds(o, n, a, o[n], l, n)
      BY <1>4, <1>11, <1>12, <1>13, <3>1 DEF Holds
    <3>3. Run!Decode(SubSeq(raw, a + 1, o[n])) = SubSeq(s, l + 1, n)
      <4>1. /\ l \in 0..Len(s) /\ Len(s) \in 0..Len(s) /\ o[Len(s)] \in Nat
            /\ Holds(o, Len(s), a, o[Len(s)], l, Len(s))
        BY <1>4, <1>13, <3>2 DEF n
      <4> QED BY <1>1, <1>11, <4>1, DecodeSlice DEF raw, n
    <3>4. Len(raw) - tail + 1 = a + 1
      BY <1>2 DEF a
    <3> QED BY <1>2, <2>2, <3>3, <3>4 DEF Run!TailOf
  <2> QED BY <2>1, <2>2
<1>15. h < l
  <2> SUFFICES ASSUME l <= h PROVE FALSE
    BY <1>9, <1>13
  <2>1. o[l] <= o[h]
    BY <1>2, <1>9, <1>13
  <2> DEFINE u == o[l]
             v == o[h]
  <2>2. u \in Nat /\ v \in Nat /\ u <= v /\ v <= head /\ a <= u
    BY <1>9, <1>12, <1>13, <2>1
  <2> HIDE DEF u, v
  <2> QED BY <1>5, <1>11, <2>2
<1> DEFINE t == n - l
<1>16. t \in 0..n /\ h + t < n /\ n - t = l /\ n - t + 1 = l + 1 /\ t \in Nat
  BY <1>2, <1>9, <1>13, <1>15
<1>17. r = SubSeq(s, 1, h) \o <<Run!Marker>> \o SubSeq(s, l + 1, n)
  BY <1>7, <1>10, <1>14
<1>18. /\ r \in Seq(Chars) /\ Len(r) = h + 1 + t
       /\ \A i \in 1..h : r[i] = s[i]
       /\ r[h + 1] = Run!Marker
       /\ \A i \in 1..t : r[h + 1 + i] = s[l + i]
  <2>1. Run!Marker \in Chars
    BY DEF Run!Marker, Chars
  <2>2. Middle(r, s, Run!Marker, h, l)
    BY <1>9, <1>13, <1>17, <2>1 DEF n, Middle
  <2>3. /\ r \in Seq(Chars) /\ Len(r) = h + 1 + (Len(s) - l)
        /\ \A i \in 1..h : r[i] = s[i]
        /\ r[h + 1] = Run!Marker
        /\ \A i \in 1..Len(s) - l : r[h + 1 + i] = s[l + i]
    <3>1. Joints(r, s, Run!Marker, h, l)
      BY <2>2, Joint
    <3> QED BY <3>1 DEF Joints
  <2> QED BY <2>3 DEF n
<1> HIDE DEF t
\* How many bytes it has.
<1>19. PICK R : EditP!Offsets(R, Spelled(r))
  BY <1>18, SpelledFacts, EditP!OffsetsExist
<1>20. /\ Len(Run!Encode(r)) = R[Len(r)] /\ R[0] = 0
       /\ \A i \in 0..Len(r) : R[i] \in Nat
       /\ \A i \in 1..Len(r) : R[i] = R[i - 1] + r[i][2]
  <2>1. r \in Seq(Chars) /\ EditP!Offsets(R, Spelled(r))
    BY <1>18, <1>19
  <2>2. R[0] = 0
    BY <1>19 DEF EditP!Offsets
  <2>3. /\ Len(Run!Encode(r)) = R[Len(r)]
        /\ \A i \in 0..Len(r) : R[i] \in Nat
        /\ \A i \in 1..Len(r) : R[i] = R[i - 1] + r[i][2]
    BY <2>1, EncodeFacts
  <2> QED BY <2>2, <2>3
<1>21. h \in Nat /\ h \in 0..Len(r) /\ h + 1 \in 1..Len(r) /\ Len(r) \in 0..Len(r)
       /\ (h + 1) - 1 = h /\ h + 1 \in 0..Len(r) /\ l + t = n /\ h + 1 + t = Len(r)
       /\ l \in Nat
  <2>1. h \in Nat /\ t \in Nat /\ l \in Nat /\ n \in Nat /\ n - t = l /\ Len(r) = h + 1 + t
    BY <1>2, <1>9, <1>13, <1>16, <1>18
  <2> QED BY <2>1
<1>22. R[h] = o[h]
  <2>1. \A i \in 1..h : s[0 + i] = r[0 + i]
    <3>1. \A i \in 1..h : 0 + i = i
      BY <1>21
    <3> QED BY <1>18, <3>1
  <2>2. 0 \in Nat /\ h \in Nat /\ 0 + h <= Len(s) /\ 0 + h <= Len(r) /\ 0 + h = h
    BY <1>9, <1>18, <1>21 DEF n
  <2>3. o[0 + h] + R[0] = R[0 + h] + o[0]
    <3>1. Alike(s, 0, r, 0, h)
      BY <1>18, <2>1, <2>2 DEF Alike
    <3> QED BY <1>1, <1>19, <3>1, EncodeAlike
  <2>4. o[h] \in Nat /\ R[h] \in Nat /\ R[0] = 0 /\ o[0] = 0 /\ o[h] + R[0] = R[h] + o[0]
    BY <1>4, <1>9, <1>20, <1>21, <2>2, <2>3
  <2> QED BY <2>4
<1>23. R[h + 1] = o[h] + MarkerLen
  <2>1. r[h + 1][2] = MarkerLen
    BY <1>18 DEF Run!Marker
  <2>2. R[h + 1] = R[h] + r[h + 1][2]
    BY <1>20, <1>21
  <2> QED BY <1>22, <2>1, <2>2
<1>24. R[Len(r)] + o[l] = o[n] + R[h + 1]
  <2>1. \A i \in 1..t : r[(h + 1) + i] = s[l + i]
    BY <1>18
  <2>2. h + 1 \in Nat /\ l \in Nat /\ t \in Nat /\ (h + 1) + t <= Len(r) /\ l + t <= Len(s)
        /\ (h + 1) + t = Len(r) /\ l + t = n
    BY <1>2, <1>16, <1>18, <1>21 DEF n
  <2>3. R[(h + 1) + t] + o[l] = o[l + t] + R[h + 1]
    <3>1. Alike(r, h + 1, s, l, t)
      BY <1>18, <2>1, <2>2 DEF Alike
    <3> QED BY <1>1, <1>19, <3>1, EncodeAlike
  <2> QED BY <2>2, <2>3
<1> DEFINE L == R[Len(r)]
           oh == o[h]
           ox == o[x]
           ol == o[l]
           ok == o[l - 1]
           N == o[n]
           wx == s[x][2]
           wl == s[l][2]
<1>25. /\ L \in Nat /\ oh \in Nat /\ ox \in Nat /\ ol \in Nat /\ ok \in Nat /\ N \in Nat
       /\ wx \in Nat /\ wl \in Nat
       /\ L + ol = N + (oh + MarkerLen) /\ oh <= head /\ head + 1 <= ox /\ ox = oh + wx
       /\ ok < a /\ a <= ol /\ ol = ok + wl /\ a + tail = N
  BY <1>4, <1>8, <1>9, <1>11, <1>12, <1>13, <1>20, <1>21, <1>23, <1>24
<1>26. L <= max /\ max - L <= (wx - 1) + (wl - 1)
  <2> HIDE DEF L, oh, ox, ol, ok, N, wx, wl
  <2> QED BY <1>5, <1>11, <1>25
<1>27. Len(Run!Encode(r)) <= max
  BY <1>20, <1>26
<1>28. max - Len(Run!Encode(r)) <= (s[h + 1][2] - 1) + (s[n - t][2] - 1)
  BY <1>9, <1>16, <1>20, <1>26
<1>29. r = SubSeq(s, 1, h) \o <<Run!Marker>> \o SubSeq(s, n - t + 1, n)
  BY <1>16, <1>17
<1> QED BY <1>9, <1>16, <1>27, <1>28, <1>29 DEF n

\* Of every command: its output is shown whole, or marked as truncated, a
\* beginning and an end of it, within the limit and using it up but for what
\* is left of two characters: for any text, any widths of its characters and
\* any limit that leaves room for the marker.
THEOREM OutputIsHonest == Spec => []OutputHonest
<1>1. Run!Parameters
  BY ParametersAssumption
<1>2. Init => Run!OutputHonest
  <2> SUFFICES ASSUME Init PROVE Run!OutputHonest
    OBVIOUS
  <2>1. text = << >> /\ shown = << >> /\ ~cut /\ limit = 0
    BY DEF Init, Run!Init
  <2>2. << >> \in Seq(Chars)
    OBVIOUS
  <2>3. PICK o : EditP!Offsets(o, Spelled(<< >>))
    BY <2>2, SpelledFacts, EditP!OffsetsExist
  <2>4. Len(Run!Encode(<< >>)) = o[Len(<< >>)] /\ Len(<< >>) = 0 /\ o[0] = 0
    BY <2>2, <2>3, EncodeFacts DEF EditP!Offsets
  <2> QED BY <2>1, <2>4 DEF Run!OutputHonest
<1>3. ASSUME Run!Respond
      PROVE  Run!OutputHonest'
  <2>1. PICK n \in 0..MaxChars : \E w \in [1..n -> Widths] : text' = [i \in 1..n |-> <<i, w[i]>>]
    BY <1>3 DEF Run!Respond
  <2>2. PICK w \in [1..n -> Widths] : text' = [i \in 1..n |-> <<i, w[i]>>]
    BY <2>1
  <2>3. text' \in Seq(Chars)
    <3>1. n \in Nat /\ \A i \in 1..n : <<i, w[i]>> \in Chars
      <4>1. n \in Nat /\ Widths \subseteq Nat \ {0}
        BY <1>1 DEF Run!Parameters
      <4>2. ASSUME NEW i \in 1..n
            PROVE  i \in Nat /\ w[i] \in Nat \ {0}
        <5>1. w[i] \in Widths /\ i \in Nat
          BY <4>1
        <5> QED BY <4>1, <5>1
      <4> QED BY <4>1, <4>2 DEF Chars
    <3> QED BY <2>2, <3>1
  <2>4. /\ limit' \in OutputLimits /\ limit' \in Nat /\ MarkerLen <= limit'
        /\ MarkerLen \in Nat \ {0}
        /\ shown' = Run!Truncate(text', limit')[1] /\ cut' = Run!Truncate(text', limit')[2]
    BY <1>1, <1>3 DEF Run!Respond, Run!Parameters
  <2>5. Len(Run!Encode(text')) \in Nat
    <3>1. PICK o : EditP!Offsets(o, Spelled(text'))
      BY <2>3, SpelledFacts, EditP!OffsetsExist
    <3>2. Run!Encode(text') \in Seq(Token)
      BY <2>3, <3>1, EncodeFacts
    <3> QED BY <3>2
  <2>6. CASE Len(Run!Encode(text')) <= limit'
    <3>1. Run!Truncate(text', limit') = <<text', FALSE>>
      BY <2>6 DEF Run!Truncate
    <3> QED BY <2>4, <2>6, <3>1 DEF Run!OutputHonest
  <2>7. CASE Len(Run!Encode(text')) > limit'
    <3>1. Run!Truncate(text', limit')[2] = TRUE
      BY <2>4, <2>5, <2>7 DEF Run!Truncate
    <3>2. /\ Len(Run!Encode(shown')) <= limit'
          /\ \E h, t \in 0..Len(text') :
                 /\ h + t < Len(text')
                 /\ shown' = SubSeq(text', 1, h) \o <<Run!Marker>>
                           \o SubSeq(text', Len(text') - t + 1, Len(text'))
                 /\ limit' - Len(Run!Encode(shown')) <=
                       (text'[h + 1][2] - 1) + (text'[Len(text') - t][2] - 1)
      BY <2>3, <2>4, <2>7, TruncateHonest
    <3> QED BY <2>4, <2>7, <3>1, <3>2 DEF Run!OutputHonest
  <2> QED BY <2>4, <2>5, <2>6, <2>7
<1>4. Run!OutputHonest /\ [Next]_vars => Run!OutputHonest'
  <2>1. ASSUME Run!OutputHonest, UNCHANGED running
        PROVE  Run!OutputHonest'
    BY <2>1 DEF Run!OutputHonest, running
  <2>2. ASSUME [Next]_vars, ~RunStep
        PROVE  UNCHANGED running
    BY <2>2 DEF Next, vars, Start, WriteStep, EditStep, SearchStep, ConnectStep
  <2>3. RunStep => Run!Respond
    BY DEF RunStep, Run!Next
  <2> QED BY <1>3, <2>1, <2>2, <2>3
<1> QED BY <1>2, <1>4, PTL DEF Spec, OutputHonest

(* The search                                                              *)

LEMMA SearchSteps == Search!Next => SearchP!Next
BY DEF Search!Next, SearchP!Next, Search!Death, SearchP!Death, Search!ChildDies,
       SearchP!ChildDies, Search!HelperStep, SearchP!HelperStep, Search!AnswerFails,
       SearchP!AnswerFails, Search!Answer, SearchP!Answer, Search!Success, SearchP!Success,
       Search!Failure, SearchP!Failure, Search!Reraise, SearchP!Reraise, Search!Unwind,
       SearchP!Unwind, Search!Interrupt, SearchP!Interrupt, Search!GlobFails,
       SearchP!GlobFails, Search!GlobStep, SearchP!GlobStep, Search!GlobStart,
       SearchP!GlobStart, Search!ChildKilled, SearchP!ChildKilled, Search!ChildExits,
       SearchP!ChildExits, Search!ChildPrints, SearchP!ChildPrints, Search!Reap, SearchP!Reap,
       Search!WaitTimeout, SearchP!WaitTimeout, Search!KillChild, SearchP!KillChild,
       Search!Poll, SearchP!Poll, Search!EndOfOutput, SearchP!EndOfOutput, Search!ReadLine,
       SearchP!ReadLine, Search!PopenFails, SearchP!PopenFails, Search!Popen, SearchP!Popen,
       Search!EnterTry, SearchP!EnterTry, Search!Exited, SearchP!Exited,
       Search!Exit, SearchP!Exit, Search!Limit, SearchP!Limit

LEMMA SearchBehaves == Spec => SearchP!Spec
<1>1. Init => SearchP!Init
  BY DEF Init, Search!Init, SearchP!Init
<1>2. [Next]_vars => [SearchP!Next]_(SearchP!vars)
  <2>1. SearchStep => SearchP!Next
    BY SearchSteps DEF SearchStep
  <2>2. ASSUME [Next]_vars, ~SearchStep
        PROVE  UNCHANGED SearchP!vars
    <3>1. UNCHANGED searching
      BY <2>2 DEF Next, vars, Start, WriteStep, EditStep, ConnectStep, RunStep
    <3> QED BY <3>1 DEF searching, SearchP!vars
  <2> QED BY <2>1, <2>2
<1> QED BY <1>1, <1>2, PTL DEF Spec, SearchP!Spec

LEMMA SearchParameters == SearchP!Parameters
BY ParametersAssumption DEF Search!Parameters, SearchP!Parameters

\* Of every remote_grep and remote_glob: its count and its mark are exact when
\* its matches have no line breaks within them, and without the mark it has
\* every match in any case.
THEOREM SearchesAreExact == Spec => []SearchIsExact
<1>1. SearchP!SearchIsExact => SearchIsExact
  BY DEF SearchIsExact, Search!SearchIsExact, SearchP!SearchIsExact
<1> QED BY <1>1, SearchBehaves, SearchParameters, SearchP!SearchesAreExact, PTL

(* The preflight                                                           *)

\* A child runs only while something waits for it or can stop it.
Attended ==
    /\ stage \in {"idle", "spawn"} => proc = "none"
    /\ stage = "communicate" => proc \in {"running", "exited"}
    /\ stage \in {"reap", "unwind", "end"} => proc \in {"none", "killed", "exited"}

\* What became of each child is what was noted about it, up to the present one.
Noted ==
    /\ ran \in [Checks -> {"not_run", "succeeded", "failed", "timed_out"}]
    /\ check \in {"add", "login", "agent"} /\ forwarding \in BOOLEAN
    /\ outcome # "none" <=> stage = "end"
    /\ stage = "idle" => check = "login" /\ ~forwarding
    /\ stage # "end" =>
          /\ check = "add" =>
                forwarding /\ ran["login"] = "not_run" /\ warnings = {}
          /\ check \in {"add", "login"} => ran["agent"] = "not_run" /\ "agent" \notin warnings
          /\ check = "agent" => forwarding /\ ran["login"] = "succeeded"
          /\ ~forwarding => ran["add"] = "not_run" /\ warnings = {}
          /\ "agent" \notin warnings /\ present = "unknown"
          /\ forwarding /\ check # "add" /\ ran["add"] # "succeeded" => "add" \in warnings
          /\ proc \in {"none", "running"} => ran[check] = "not_run"
          /\ proc = "exited" /\ stage = "communicate" =>
                (exitcode = 0 <=> ran[check] = "succeeded")

PInv == Connect!Parameters /\ Attended /\ Noted /\ Connect!AgentWarned

LEMMA PreflightStep == PInv /\ Connect!Next => PInv'
<1> SUFFICES ASSUME PInv, Connect!Next PROVE PInv'
  OBVIOUS
<1> USE DEF PInv, Connect!Parameters, Attended, Noted, Connect!AgentWarned, Connect!End
<1>1. CASE Connect!Begin
  BY <1>1 DEF Connect!Begin
<1>2. CASE Connect!Spawn
  BY <1>2 DEF Connect!Spawn
<1>3. CASE Connect!SpawnFails \/ Connect!SpawnCancelled
  BY <1>3 DEF Connect!SpawnFails, Connect!SpawnCancelled
<1>4. CASE Connect!ChildExits
  BY <1>4 DEF Connect!ChildExits
<1>5. CASE Connect!ChildDies
  BY <1>5 DEF Connect!ChildDies
<1>6. CASE Connect!Communicate
  <2> USE DEF Connect!Communicate, Connect!Continue, Connect!Finish, Connect!Following
  <2>1. CASE check = "add"
    BY <1>6, <2>1
  <2>2. CASE check = "login"
    BY <1>6, <2>2
  <2>3. CASE check = "agent"
    BY <1>6, <2>3
  <2> QED BY <2>1, <2>2, <2>3
<1>7. CASE Connect!Timeout
  BY <1>7 DEF Connect!Timeout, Connect!Kill
<1>8. CASE Connect!Reap
  <2> USE DEF Connect!Reap, Connect!Continue, Connect!Finish, Connect!Following,
              Connect!TimeoutWarning
  <2>1. CASE check = "add"
    BY <1>8, <2>1
  <2>2. CASE check # "add"
    BY <1>8, <2>2
  <2> QED BY <2>1, <2>2
<1>9. CASE Connect!Cancel
  BY <1>9 DEF Connect!Cancel, Connect!StopChild, Connect!Kill
<1>10. CASE Connect!Unwind \/ Connect!CancelWait
  BY <1>10 DEF Connect!Unwind, Connect!CancelWait, Connect!Finish
<1> QED BY <1>1, <1>2, <1>3, <1>4, <1>5, <1>6, <1>7, <1>8, <1>9, <1>10
        DEF Connect!Next, Connect!Progress

LEMMA PreflightInvariance == Spec => []PInv
<1>1. Init => PInv
  BY ParametersAssumption
  DEF Init, Connect!Init, PInv, Connect!Parameters, Attended, Noted, Connect!AgentWarned
<1>2. PInv /\ [Next]_vars => PInv'
  <2>1. ASSUME PInv, UNCHANGED connecting
        PROVE  PInv'
    BY <2>1 DEF PInv, Connect!Parameters, Attended, Noted, Connect!AgentWarned, connecting
  <2>2. ASSUME [Next]_vars, ~ConnectStep
        PROVE  UNCHANGED connecting
    BY <2>2 DEF Next, vars, Start, WriteStep, EditStep, SearchStep, RunStep
  <2>3. ConnectStep => Connect!Next
    BY DEF ConnectStep
  <2> QED BY <2>1, <2>2, <2>3, PreflightStep
<1> QED BY <1>1, <1>2, PTL DEF Spec

\* Of every preflight: the warnings are those there was reason for, however a
\* child's end, its timeout and a cancellation fall together.
THEOREM WarningsAreTrue == Spec => []AgentWarned
<1>1. PInv => AgentWarned
  BY DEF PInv, AgentWarned
<1> QED BY <1>1, PreflightInvariance, PTL

(* What a call leaves behind                                               *)

\* No search helper exits before its process has ended or was killed, unless a
\* C-c struck where nothing handles it, no preflight leaves a child running,
\* and no transfer a paste buffer unless its load-buffer was interrupted or two
\* things went wrong.
THEOREM CallsCleanUp == Spec => []NothingLeftBehind
<1>1. WriteP!BuffersGone => Write!BuffersGone
  BY DEF Write!BuffersGone, WriteP!BuffersGone, Write!Ended, WriteP!Ended
<1>2. SearchP!ChildGone => Search!ChildGone
  BY DEF Search!ChildGone, SearchP!ChildGone
<1>3. PInv => Connect!ChildStopped
  BY DEF PInv, Attended, Connect!ChildStopped
<1>4. Write!BuffersGone /\ Search!ChildGone /\ Connect!ChildStopped => NothingLeftBehind
  BY DEF NothingLeftBehind
<1> QED BY <1>1, <1>2, <1>3, <1>4, WriteBehaves, SearchBehaves, SearchParameters,
           WriteP!NoBufferLeft, SearchP!NoProcessLeft, PreflightInvariance, PTL

(* Types                                                                   *)

\* A letter of the output, or the marker.
Glyphs == (0..MaxChars) \X (Widths \cup {MarkerLen})

TextTyped == text \in Seq(Glyphs) /\ cut \in BOOLEAN /\ limit \in OutputLimits \cup {0}

LEMMA RespondTyped == ASSUME Run!Respond PROVE TextTyped'
<1>1. Run!Parameters
  BY ParametersAssumption
<1>2. PICK n \in 0..MaxChars : \E w \in [1..n -> Widths] : text' = [i \in 1..n |-> <<i, w[i]>>]
  BY DEF Run!Respond
<1>3. PICK w \in [1..n -> Widths] : text' = [i \in 1..n |-> <<i, w[i]>>]
  BY <1>2
<1>4. ASSUME NEW i \in 1..n
      PROVE  <<i, w[i]>> \in Glyphs
  <2>1. w[i] \in Widths
    OBVIOUS
  <2>2. i \in 0..MaxChars
    BY <1>1 DEF Run!Parameters
  <2> QED BY <2>1, <2>2 DEF Glyphs
<1>5. text' \in Seq(Glyphs)
  <2>1. n \in Nat
    BY <1>1 DEF Run!Parameters
  <2> QED BY <1>3, <1>4, <2>1
<1>6. limit' \in OutputLimits
  BY DEF Run!Respond
<1>7. cut' \in BOOLEAN
  <2>1. cut' = Run!Truncate(text', limit')[2]
    BY DEF Run!Respond
  <2>2. Run!Truncate(text', limit')[2] \in BOOLEAN
    BY DEF Run!Truncate
  <2> QED BY <2>1, <2>2
<1> QED BY <1>5, <1>6, <1>7 DEF TextTyped

\* A shortened output is made of the same letters.
LEMMA ShownTyped == ASSUME TextTyped, Run!OutputHonest PROVE shown \in Seq(Glyphs)
<1>1. text \in Seq(Glyphs) /\ Len(text) \in Nat
  BY DEF TextTyped
<1>2. CASE ~cut
  BY <1>1, <1>2 DEF Run!OutputHonest
<1>3. CASE cut
  <2>1. PICK h \in 0..Len(text) : \E t \in 0..Len(text) :
           shown = SubSeq(text, 1, h) \o <<Run!Marker>>
                     \o SubSeq(text, Len(text) - t + 1, Len(text))
    BY <1>3 DEF Run!OutputHonest
  <2>2. PICK t \in 0..Len(text) :
           shown = SubSeq(text, 1, h) \o <<Run!Marker>>
                     \o SubSeq(text, Len(text) - t + 1, Len(text))
    BY <2>1
  <2> DEFINE u == SubSeq(text, 1, h)
             m == <<Run!Marker>>
             v == SubSeq(text, Len(text) - t + 1, Len(text))
  <2>3. u \in Seq(Glyphs)
    <3>1. \A i \in 1..h : text[i] \in Glyphs
      BY <1>1
    <3> QED BY <1>1, <3>1
  <2>4. v \in Seq(Glyphs)
    BY <1>1
  <2>5. m \in Seq(Glyphs)
    <3>1. Run!Marker \in Glyphs
      BY ParametersAssumption DEF Run!Parameters, Run!Marker, Glyphs
    <3> QED BY <3>1
  <2>6. shown = (u \o m) \o v
    BY <2>2
  <2> HIDE DEF u, m, v
  <2>7. u \o m \in Seq(Glyphs)
    BY <2>3, <2>5
  <2>8. (u \o m) \o v \in Seq(Glyphs)
    BY <2>4, <2>7
  <2> QED BY <2>6, <2>8
<1> QED BY <1>2, <1>3

LEMMA OutputTyped == Spec => []Run!TypeOK
<1>1. Init => TextTyped
  <2> SUFFICES ASSUME Init PROVE TextTyped
    OBVIOUS
  <2>1. text = << >> /\ cut = FALSE /\ limit = 0
    BY DEF Init, Run!Init
  <2>2. << >> \in Seq(Glyphs)
    OBVIOUS
  <2> QED BY <2>1, <2>2 DEF TextTyped
<1>2. TextTyped /\ [Next]_vars => TextTyped'
  <2>1. ASSUME TextTyped, UNCHANGED running
        PROVE  TextTyped'
    BY <2>1 DEF TextTyped, running
  <2>2. ASSUME [Next]_vars, ~RunStep
        PROVE  UNCHANGED running
    BY <2>2 DEF Next, vars, Start, WriteStep, EditStep, SearchStep, ConnectStep
  <2>3. RunStep => Run!Respond
    BY DEF RunStep, Run!Next
  <2> QED BY <2>1, <2>2, <2>3, RespondTyped
<1>3. TextTyped /\ Run!OutputHonest => Run!TypeOK
  BY ShownTyped DEF TextTyped, Run!TypeOK, Glyphs
<1> QED BY <1>1, <1>2, <1>3, OutputIsHonest, PTL DEF Spec, OutputHonest

\* The preflight's variables, and what PInv knows of them.
LEMMA PreflightTyped == Spec => []Connect!TypeOK
<1>1. Init => Connect!TypeOK
  BY ParametersAssumption DEF Init, Connect!Init, Connect!Parameters, Connect!TypeOK
<1>2. PInv /\ Connect!TypeOK /\ Connect!Next => Connect!TypeOK'
  <2> SUFFICES ASSUME PInv, Connect!TypeOK, Connect!Next PROVE Connect!TypeOK'
    OBVIOUS
  <2>1. {"add", "login", "agent"} \subseteq Checks /\ check \in {"add", "login", "agent"}
    BY DEF PInv, Connect!Parameters, Noted
  <2> USE DEF Connect!TypeOK, Connect!End, Connect!Finish, Connect!Kill
  <2>2. CASE Connect!Begin \/ Connect!Spawn \/ Connect!SpawnFails \/ Connect!SpawnCancelled
    BY <2>1, <2>2
    DEF Connect!Begin, Connect!Spawn, Connect!SpawnFails, Connect!SpawnCancelled
  <2>3. CASE Connect!ChildExits \/ Connect!ChildDies
    BY <2>1, <2>3 DEF Connect!ChildExits, Connect!ChildDies
  <2>4. CASE Connect!Communicate
    BY <2>1, <2>4 DEF Connect!Communicate, Connect!Continue, Connect!Following
  <2>5. CASE Connect!Timeout \/ Connect!Cancel
    BY <2>1, <2>5 DEF Connect!Timeout, Connect!Cancel, Connect!StopChild
  <2>6. CASE Connect!Reap
    BY <2>1, <2>6
    DEF Connect!Reap, Connect!Continue, Connect!Following, Connect!TimeoutWarning
  <2>7. CASE Connect!Unwind \/ Connect!CancelWait
    BY <2>1, <2>7 DEF Connect!Unwind, Connect!CancelWait
  <2> QED BY <2>2, <2>3, <2>4, <2>5, <2>6, <2>7 DEF Connect!Next, Connect!Progress
<1>3. PInv /\ Connect!TypeOK /\ [Next]_vars => Connect!TypeOK'
  <2>1. ASSUME Connect!TypeOK, UNCHANGED connecting
        PROVE  Connect!TypeOK'
    BY <2>1 DEF Connect!TypeOK, connecting
  <2>2. ASSUME [Next]_vars, ~ConnectStep
        PROVE  UNCHANGED connecting
    BY <2>2 DEF Next, vars, Start, WriteStep, EditStep, SearchStep, RunStep
  <2>3. ConnectStep => Connect!Next
    BY DEF ConnectStep
  <2> QED BY <1>2, <2>1, <2>2, <2>3
<1> QED BY <1>1, <1>3, PreflightInvariance, PTL DEF Spec

\* Every variable of every tool keeps to its type: for any payload, file,
\* search, output and any numbers of faults.
THEOREM CallsTyped == Spec => []TypeOK
<1> DEFINE ToolOK == tool \in {"none", "write", "edit", "search", "connect", "run"}
<1>1. Init => ToolOK
  BY DEF Init
<1>2. ToolOK /\ [Next]_vars => ToolOK'
  BY DEF Next, vars, Start, WriteStep, EditStep, SearchStep, ConnectStep, RunStep
<1>3. WriteP!TypeOK => Write!TypeOK
  BY DEF WriteP!TypeOK, Write!TypeOK, WriteP!Chunks, Write!Chunks, WriteP!Symbols,
         Write!Symbols, WriteP!Payload, Write!Payload, WriteP!Dot, Write!Dot
<1>4. EditP!TypeOK => Edit!TypeOK
  BY DEF EditP!TypeOK, Edit!TypeOK, EditP!Bytes, Edit!Bytes
<1>5. SearchP!TypeOK => Search!TypeOK
  BY DEF SearchP!TypeOK, Search!TypeOK
<1>6. /\ ToolOK /\ Write!TypeOK /\ Edit!TypeOK /\ Search!TypeOK
      /\ Connect!TypeOK /\ Run!TypeOK
      => TypeOK
  BY DEF TypeOK
<1> QED BY <1>1, <1>2, <1>3, <1>4, <1>5, <1>6, WriteBehaves, WriteParameters,
           WriteP!TransferTyped, EditBehaves, EditParameters, EditP!EditTyped, SearchBehaves,
           SearchParameters, SearchP!SearchTyped, PreflightTyped, OutputTyped, PTL DEF Spec
=============================================================================
