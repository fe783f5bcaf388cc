------------------------ MODULE PayloadStreamProofs ------------------------
(***************************************************************************)
(* Proofs about PayloadStream: the delimiter is found wherever the reads   *)
(* cut the stream, and a payload that nobody disturbs arrives, for a       *)
(* content, chunks and reads of any size and any interference.             *)
(***************************************************************************)
EXTENDS PayloadStream, WellFoundedInduction, TLAPS

(* Sequences                                                               *)

\* A part of a sequence.
LEMMA CutFacts ==
    ASSUME NEW S, NEW s \in Seq(S), NEW a \in Nat, NEW b \in Nat, a <= b, b <= Len(s)
    PROVE  /\ SubSeq(s, a + 1, b) \in Seq(S)
           /\ Len(SubSeq(s, a + 1, b)) = b - a
           /\ \A i \in 1..b - a : SubSeq(s, a + 1, b)[i] = s[a + i]
<1>1. CASE a = b
  <2>1. SubSeq(s, a + 1, b) = << >>
    BY <1>1
  <2> QED BY <1>1, <2>1
<1>2. CASE a < b
  <2>1. /\ SubSeq(s, a + 1, b) \in Seq(S)
        /\ Len(SubSeq(s, a + 1, b)) = b - a
        /\ \A i \in 1..b - a : SubSeq(s, a + 1, b)[i] = s[a + 1 + i - 1]
    BY <1>2
  <2>2. \A i \in 1..b - a : a + 1 + i - 1 = a + i
    OBVIOUS
  <2> QED BY <2>1, <2>2
<1> QED BY <1>1, <1>2

\* Sequences with the same elements are the same.
LEMMA SameElements ==
    ASSUME NEW S, NEW s \in Seq(S), NEW t \in Seq(S), Len(s) = Len(t),
           \A i \in 1..Len(s) : s[i] = t[i]
    PROVE  s = t
OBVIOUS

\* What two sequences make when they are joined.
LEMMA JoinFacts ==
    ASSUME NEW S, NEW s \in Seq(S), NEW t \in Seq(S)
    PROVE  /\ s \o t \in Seq(S)
           /\ Len(s \o t) = Len(s) + Len(t)
           /\ \A i \in 1..Len(s) : (s \o t)[i] = s[i]
           /\ \A i \in 1..Len(t) : (s \o t)[Len(s) + i] = t[i]
OBVIOUS

\* It does not matter which two of three are joined first.
LEMMA JoinOrder ==
    ASSUME NEW S, NEW s \in Seq(S), NEW t \in Seq(S), NEW u \in Seq(S)
    PROVE  (s \o t) \o u = s \o (t \o u)
<1>1. /\ (s \o t) \o u \in Seq(S) /\ s \o (t \o u) \in Seq(S)
      /\ Len((s \o t) \o u) = Len(s) + Len(t) + Len(u)
      /\ Len(s \o (t \o u)) = Len(s) + Len(t) + Len(u)
  BY JoinFacts
<1>2. ASSUME NEW i \in 1..Len((s \o t) \o u)
      PROVE  ((s \o t) \o u)[i] = (s \o (t \o u))[i]
  BY <1>1
<1> QED BY <1>1, <1>2, SameElements

LEMMA SymbolsJoined ==
    \A s, t, u \in Seq(Symbols) : (s \o t) \o u = s \o (t \o u)
BY JoinOrder

\* A sequence consists of its beginning and the rest.
LEMMA Rejoined ==
    ASSUME NEW S, NEW s \in Seq(S), NEW a \in Nat, a <= Len(s)
    PROVE  SubSeq(s, 1, a) \o SubSeq(s, a + 1, Len(s)) = s
<1> DEFINE l == SubSeq(s, 1, a)
           r == SubSeq(s, a + 1, Len(s))
<1>1. l \in Seq(S) /\ Len(l) = a /\ \A i \in 1..a : l[i] = s[i]
  <2>1. SubSeq(s, 0 + 1, a) = l /\ a - 0 = a /\ \A i \in 1..a : 0 + i = i
    OBVIOUS
  <2>2. 0 <= a
    OBVIOUS
  <2>3. /\ SubSeq(s, 0 + 1, a) \in Seq(S)
        /\ Len(SubSeq(s, 0 + 1, a)) = a - 0
        /\ \A i \in 1..a - 0 : SubSeq(s, 0 + 1, a)[i] = s[0 + i]
    BY <2>2, CutFacts
  <2> QED BY <2>1, <2>3
<1>2. r \in Seq(S) /\ Len(r) = Len(s) - a /\ \A i \in 1..Len(s) - a : r[i] = s[a + i]
  BY CutFacts
<1> HIDE DEF l, r
<1> DEFINE u == l \o r
<1>3. /\ u \in Seq(S) /\ Len(u) = Len(s)
      /\ \A i \in 1..a : u[i] = l[i]
      /\ \A i \in 1..Len(s) - a : u[a + i] = r[i]
  BY <1>1, <1>2, JoinFacts
<1> HIDE DEF u
<1>4. ASSUME NEW i \in 1..Len(s)
      PROVE  u[i] = s[i]
  <2>1. i \in Nat /\ i >= 1 /\ i <= Len(s) /\ Len(s) \in Nat
    OBVIOUS
  <2>2. CASE i <= a
    BY <1>1, <1>3, <2>1, <2>2
  <2>3. CASE i > a
    <3>1. PICK k \in 1..Len(s) - a : i = a + k
      <4>1. i - a \in 1..Len(s) - a /\ i = a + (i - a)
        BY <2>1, <2>3
      <4> QED BY <4>1
    <3> QED BY <1>2, <1>3, <3>1
  <2> QED BY <2>1, <2>2, <2>3
<1>5. u = s
  BY <1>3, <1>4, SameElements
<1> QED BY <1>5 DEF u, l, r

(* The delimiter in a stream                                               *)

LEMMA DelimiterFacts ==
    /\ Delimiter \in Seq(Symbols) /\ Len(Delimiter) = 3 /\ DOMAIN Delimiter = 1..3
    /\ Delimiter[1] = Dot /\ Delimiter[2] = <<"end", 0>> /\ Delimiter[3] = Dot
    /\ <<"end", 0>> # Dot
BY DEF Delimiter, Symbols, Dot

\* Where the delimiter is.
LEMMA PlaceFacts ==
    ASSUME NEW s \in Seq(Symbols), NEW i
    PROVE  i \in Places(s) <=> /\ i \in Nat /\ i >= 1 /\ i + 2 <= Len(s)
                               /\ s[i] = Delimiter[1] /\ s[i + 1] = Delimiter[2]
                               /\ s[i + 2] = Delimiter[3]
<1>1. i \in Places(s) <=>
        i \in 1..Len(s) /\ i + 2 <= Len(s) /\ \A j \in 1..3 : s[i + j - 1] = Delimiter[j]
  BY DelimiterFacts DEF Places, OccursAt
<1>2. ASSUME i \in Nat
      PROVE  (\A j \in 1..3 : s[i + j - 1] = Delimiter[j]) <=>
               s[i] = Delimiter[1] /\ s[i + 1] = Delimiter[2] /\ s[i + 2] = Delimiter[3]
  <2>1. i + 1 - 1 = i /\ i + 2 - 1 = i + 1 /\ i + 3 - 1 = i + 2
    BY <1>2
  <2>2. \A j \in 1..3 : j = 1 \/ j = 2 \/ j = 3
    OBVIOUS
  <2> QED BY <2>1, <2>2
<1> QED BY <1>1, <1>2

\* Behind s, the delimiter is where it was in t alone.
LEMMA Shifted ==
    ASSUME NEW s \in Seq(Symbols), NEW t \in Seq(Symbols), NEW i \in Nat, i >= 1
    PROVE  Len(s) + i \in Places(s \o t) <=> i \in Places(t)
<1> DEFINE u == s \o t
           k == Len(s) + i
<1>1. u \in Seq(Symbols) /\ Len(u) = Len(s) + Len(t)
  BY JoinFacts
<1>2. i + 2 <= Len(t) => u[k] = t[i] /\ u[k + 1] = t[i + 1] /\ u[k + 2] = t[i + 2]
  OBVIOUS
<1>0. k \in Nat /\ k >= 1 /\ k = Len(s) + i
  OBVIOUS
<1> HIDE DEF u, k
<1>3. k \in Places(u) <=>
        /\ k + 2 <= Len(u)
        /\ u[k] = Delimiter[1] /\ u[k + 1] = Delimiter[2] /\ u[k + 2] = Delimiter[3]
  BY <1>1, <1>0, PlaceFacts
<1>4. i \in Places(t) <=>
        /\ i + 2 <= Len(t)
        /\ t[i] = Delimiter[1] /\ t[i + 1] = Delimiter[2] /\ t[i + 2] = Delimiter[3]
  BY PlaceFacts
<1>5. k \in Places(u) <=> i \in Places(t)
  BY <1>1, <1>2, <1>3, <1>4, <1>0
<1> QED BY <1>5 DEF u, k

\* Within s, the delimiter is where it was before t came.
LEMMA Kept ==
    ASSUME NEW s \in Seq(Symbols), NEW t \in Seq(Symbols), NEW i \in Nat, i + 2 <= Len(s)
    PROVE  i \in Places(s \o t) <=> i \in Places(s)
<1> DEFINE u == s \o t
<1>1. u \in Seq(Symbols) /\ Len(u) = Len(s) + Len(t)
  BY JoinFacts
<1>2. i >= 1 => u[i] = s[i] /\ u[i + 1] = s[i + 1] /\ u[i + 2] = s[i + 2]
  OBVIOUS
<1> HIDE DEF u
<1>3. i \in Places(u) <=>
        /\ i >= 1 /\ i + 2 <= Len(u)
        /\ u[i] = Delimiter[1] /\ u[i + 1] = Delimiter[2] /\ u[i + 2] = Delimiter[3]
  BY <1>1, PlaceFacts
<1>4. i \in Places(s) <=>
        /\ i >= 1 /\ i + 2 <= Len(s)
        /\ s[i] = Delimiter[1] /\ s[i + 1] = Delimiter[2] /\ s[i + 2] = Delimiter[3]
  BY PlaceFacts
<1>5. i \in Places(u) <=> i \in Places(s)
  BY <1>1, <1>2, <1>3, <1>4
<1> QED BY <1>5 DEF u

\* A set of numbers has a least one.
LEMMA LeastMember ==
    ASSUME NEW T, T \subseteq Nat, T # {}
    PROVE  \E x \in T : \A y \in T : x <= y
<1>1. IsWellFoundedOn(OpToRel(<, Nat), Nat)
  BY NatLessThanWellFounded
<1>2. PICK x \in T : \A y \in T : ~ (<<y, x>> \in OpToRel(<, Nat))
  BY <1>1, WFMin
<1>3. \A y \in T : ~(y < x)
  BY <1>2 DEF OpToRel
<1> QED BY <1>3

\* s.find returns the first place.
LEMMA FirstFacts ==
    ASSUME NEW s \in Seq(Symbols), Places(s) # {}
    PROVE  First(s) \in Places(s) /\ \A j \in Places(s) : First(s) <= j
<1>1. Places(s) \subseteq Nat
  BY PlaceFacts
<1>2. \E i \in Places(s) : \A j \in Places(s) : i <= j
  BY <1>1, LeastMember
<1> QED BY <1>2 DEF First

LEMMA FirstIs ==
    ASSUME NEW s \in Seq(Symbols), NEW f \in Places(s), \A j \in Places(s) : f <= j
    PROVE  First(s) = f
<1>1. First(s) \in Places(s) /\ First(s) <= f /\ f <= First(s)
  BY FirstFacts
<1>2. First(s) \in Nat /\ f \in Nat
  BY <1>1, PlaceFacts
<1> QED BY <1>1, <1>2

(* The receiver                                                            *)

Typed ==
    /\ \A s \in {input, stream, pending, spool} : s \in Seq(Symbols)
    /\ piece \in 1..(Chunks + 1)
    /\ receiver \in {"reading", "accepted", "rejected"}
    /\ typed \in Nat /\ faults \in Nat /\ cancels \in Nat

\* What is held back is shorter than a delimiter, and no shorter than it has
\* to be once something was spooled: no delimiter begins in the spool.
Holding ==
    receiver = "reading" =>
        /\ stream = spool \o pending
        /\ Places(stream) = {}
        /\ Len(stream) <= PayloadLen + Slack
        /\ spool = << >> \/ Len(pending) = 2

Accepting ==
    receiver = "accepted" =>
        /\ stream = spool \o Delimiter
        /\ First(stream) = Len(spool) + 1
        /\ Len(spool) = PayloadLen

RInv == Parameters /\ Typed /\ Holding /\ Accepting

\* What one read does, its variables aside: the delimiters in the stream are
\* those in what is held back and what came.
LEMMA PlacesRead ==
    ASSUME RInv, receiver = "reading", NEW part \in Seq(Symbols)
    PROVE  /\ pending \o part \in Seq(Symbols)
           /\ stream \o part = spool \o (pending \o part)
           /\ \A i : i \in Places(stream \o part) <=>
                  \E k \in Places(pending \o part) : i = Len(spool) + k
<1>1. /\ stream \in Seq(Symbols) /\ pending \in Seq(Symbols) /\ spool \in Seq(Symbols)
      /\ stream = spool \o pending /\ Places(stream) = {}
      /\ spool = << >> \/ Len(pending) = 2
  BY DEF RInv, Typed, Holding
<1>2. pending \o part \in Seq(Symbols)
  BY <1>1
<1>3. stream \o part = spool \o (pending \o part)
  BY <1>1, JoinOrder
<1>4. ASSUME NEW k \in Places(pending \o part)
      PROVE  Len(spool) + k \in Places(stream \o part)
  <2>1. k \in Nat /\ k >= 1
    BY <1>2, PlaceFacts
  <2> QED BY <1>1, <1>2, <1>3, <2>1, Shifted
<1>5. ASSUME NEW i \in Places(stream \o part)
      PROVE  \E k \in Places(pending \o part) : i = Len(spool) + k
  <2>1. i \in Nat /\ i >= 1
    BY <1>1, JoinFacts, PlaceFacts
  <2>2. Len(stream) = Len(spool) + Len(pending)
    BY <1>1, JoinFacts
  <2>3. CASE i <= Len(spool)
    <3>1. Len(pending) = 2
      BY <1>1, <2>1, <2>3
    <3>2. i + 2 <= Len(stream)
      BY <1>1, <2>1, <2>2, <2>3, <3>1
    <3>3. i \in Places(stream)
      BY <1>1, <2>1, <3>2, Kept
    <3> QED BY <1>1, <3>3
  <2>4. CASE i > Len(spool)
    <3> DEFINE k == i - Len(spool)
    <3>1. k \in Nat /\ k >= 1 /\ Len(spool) + k = i
      BY <1>1, <2>1, <2>4
    <3> HIDE DEF k
    <3>2. k \in Places(pending \o part)
      BY <1>1, <1>2, <1>3, <3>1, Shifted
    <3> QED BY <3>1, <3>2
  <2> QED BY <1>1, <2>1, <2>3, <2>4
<1> QED BY <1>2, <1>3, <1>4, <1>5

\* The delimiter has come: what is in front of it is spooled.
LEMMA FinishSteps ==
    ASSUME RInv, receiver = "reading", NEW part \in Seq(Symbols),
           stream' = stream \o part, Places(pending \o part) # {}, Finish(pending \o part)
    PROVE  /\ spool' \in Seq(Symbols)
           /\ receiver' = "accepted" =>
                 /\ stream' = spool' \o Delimiter
                 /\ First(stream') = Len(spool') + 1
                 /\ Len(spool') = PayloadLen
           /\ receiver' \in {"accepted", "rejected"}
           /\ receiver' = "accepted" <=>
                 /\ First(stream') + 2 = Len(stream')
                 /\ First(stream') - 1 = PayloadLen
<1> DEFINE all == pending \o part
           f == First(all)
<1>1. /\ all \in Seq(Symbols) /\ stream' = spool \o all
      /\ \A i : i \in Places(stream') <=> \E k \in Places(all) : i = Len(spool) + k
  BY PlacesRead
<1>2. stream \in Seq(Symbols) /\ pending \in Seq(Symbols) /\ spool \in Seq(Symbols)
  BY DEF RInv, Typed
<1>3. /\ spool' = spool \o SubSeq(all, 1, f - 1)
      /\ receiver' = IF Fits(all) THEN "accepted" ELSE "rejected"
  BY DEF Finish, Stop
<1>4. Fits(all) <=> f + 2 = Len(all) /\ f - 1 + Len(spool) = PayloadLen
  <2>1. Len(Delimiter) = 3
    BY DelimiterFacts
  <2>2. Fits(all) <=> f + 3 - 1 = Len(all) /\ f - 1 + Len(spool) = PayloadLen
    BY <2>1 DEF Fits
  <2>3. f \in Nat
    BY <1>1, FirstFacts, PlaceFacts
  <2> QED BY <2>2, <2>3
<1>5. Places(all) # {}
  OBVIOUS
<1> HIDE DEF all
<1>6. f \in Places(all) /\ \A j \in Places(all) : f <= j
  BY <1>1, <1>5, FirstFacts
<1> HIDE DEF f
<1>7. /\ f \in Nat /\ f >= 1 /\ f + 2 <= Len(all)
      /\ all[f] = Delimiter[1] /\ all[f + 1] = Delimiter[2] /\ all[f + 2] = Delimiter[3]
  BY <1>1, <1>6, PlaceFacts
<1>8. stream' \in Seq(Symbols) /\ Len(stream') = Len(spool) + Len(all)
  BY <1>1, <1>2, JoinFacts
<1>9. First(stream') = Len(spool) + f
  <2>1. Len(spool) + f \in Places(stream')
    BY <1>1, <1>6
  <2>2. \A j \in Places(stream') : Len(spool) + f <= j
    <3> SUFFICES ASSUME NEW k \in Places(all) PROVE Len(spool) + f <= Len(spool) + k
      BY <1>1
    <3>1. k \in Nat /\ f <= k
      BY <1>1, <1>6, PlaceFacts
    <3> QED BY <1>2, <1>7, <3>1
  <2> QED BY <1>8, <2>1, <2>2, FirstIs
<1> DEFINE front == SubSeq(all, 1, f - 1)
<1>10. front \in Seq(Symbols) /\ Len(front) = f - 1
  <2> DEFINE g == f - 1
  <2>1. g \in Nat /\ 0 <= g /\ g <= Len(all) /\ g - 0 = g /\ 0 + 1 = 1
    BY <1>1, <1>7
  <2> HIDE DEF g
  <2>2. SubSeq(all, 0 + 1, g) \in Seq(Symbols) /\ Len(SubSeq(all, 0 + 1, g)) = g - 0
    BY <1>1, <2>1, CutFacts
  <2>3. SubSeq(all, 1, g) \in Seq(Symbols) /\ Len(SubSeq(all, 1, g)) = g
    BY <2>1, <2>2
  <2> QED BY <2>3 DEF g
<1>11. f + 2 = Len(all) => all = front \o Delimiter
  <2> SUFFICES ASSUME f + 2 = Len(all) PROVE all = front \o Delimiter
    OBVIOUS
  <2> DEFINE g == f - 1
             rest == SubSeq(all, g + 1, Len(all))
  <2>1. g \in Nat /\ g <= Len(all) /\ g + 1 = f /\ g + 2 = f + 1 /\ g + 3 = f + 2
        /\ Len(all) - g = 3 /\ front = SubSeq(all, 1, g)
    BY <1>1, <1>7
  <2> HIDE DEF front, g
  <2>2. /\ rest \in Seq(Symbols) /\ Len(rest) = Len(all) - g
        /\ \A i \in 1..Len(all) - g : rest[i] = all[g + i]
    BY <1>1, <2>1, CutFacts
  <2>3. SubSeq(all, 1, g) \o rest = all
    BY <1>1, <2>1, Rejoined
  <2> HIDE DEF rest
  <2>4. rest[1] = Delimiter[1] /\ rest[2] = Delimiter[2] /\ rest[3] = Delimiter[3]
    <3>1. rest[1] = all[g + 1] /\ rest[2] = all[g + 2] /\ rest[3] = all[g + 3]
      BY <2>1, <2>2
    <3> QED BY <1>7, <2>1, <3>1
  <2>5. Len(rest) = 3 /\ \A i \in 1..Len(rest) : rest[i] = Delimiter[i]
    <3>1. \A i \in 1..3 : i = 1 \/ i = 2 \/ i = 3
      OBVIOUS
    <3> QED BY <2>1, <2>2, <2>4, <3>1
  <2>6. rest = Delimiter
    BY <2>2, <2>5, DelimiterFacts, SameElements
  <2> QED BY <2>1, <2>3, <2>6
<1> HIDE DEF front
<1>12. spool' \in Seq(Symbols) /\ Len(spool') = Len(spool) + f - 1
  BY <1>2, <1>3, <1>7, <1>10, JoinFacts DEF front
<1>13. f + 2 = Len(all) => stream' = spool' \o Delimiter
  <2>1. spool' = spool \o front
    BY <1>3 DEF front
  <2>2. (spool \o front) \o Delimiter = spool \o (front \o Delimiter)
    <3>1. spool \in Seq(Symbols) /\ front \in Seq(Symbols) /\ Delimiter \in Seq(Symbols)
      BY <1>2, <1>10, DelimiterFacts
    <3> QED BY <3>1, JoinOrder, SMTT(20)
  <2> QED BY <1>1, <1>11, <2>1, <2>2
<1>14. receiver' = "accepted" <=> f + 2 = Len(all) /\ f - 1 + Len(spool) = PayloadLen
  BY <1>3, <1>4
<1>15. Len(spool) \in Nat /\ Len(all) \in Nat /\ PayloadLen \in Nat
  BY <1>1, <1>2 DEF RInv, Parameters
<1>16. receiver' = "accepted" =>
          /\ stream' = spool' \o Delimiter
          /\ First(stream') = Len(spool') + 1
          /\ Len(spool') = PayloadLen
  <2>1. f + 2 = Len(all) /\ f - 1 + Len(spool) = PayloadLen =>
          First(stream') = Len(spool') + 1 /\ Len(spool') = PayloadLen
    BY <1>7, <1>9, <1>12, <1>15
  <2> QED BY <1>13, <1>14, <2>1
<1>17. receiver' = "accepted" <=>
          First(stream') + 2 = Len(stream') /\ First(stream') - 1 = PayloadLen
  <2>1. f + 2 = Len(all) <=> Len(spool) + f + 2 = Len(spool) + Len(all)
    <3> DEFINE x == Len(all)
               y == Len(spool)
    <3>1. f \in Nat /\ x \in Nat /\ y \in Nat
      BY <1>7, <1>15
    <3> HIDE DEF x, y
    <3>2. f + 2 = x <=> y + f + 2 = y + x
      BY <3>1
    <3> QED BY <3>2 DEF x, y
  <2>2. f - 1 + Len(spool) = (Len(spool) + f) - 1
    <3>1. f \in Nat /\ Len(spool) \in Nat
      BY <1>7, <1>15
    <3> QED BY <3>1
  <2>3. First(stream') + 2 = Len(stream') <=> f + 2 = Len(all)
    BY <1>8, <1>9, <2>1
  <2>4. First(stream') - 1 = f - 1 + Len(spool)
    BY <1>9, <2>2
  <2> QED BY <1>14, <2>3, <2>4, Zenon
<1> QED BY <1>3, <1>12, <1>16, <1>17

\* No delimiter yet: all but what can be the beginning of one is spooled.
LEMMA HoldSteps ==
    ASSUME RInv, receiver = "reading", NEW part \in Seq(Symbols), part # << >>,
           stream' = stream \o part, Places(pending \o part) = {}, Hold(pending \o part)
    PROVE  /\ spool' \in Seq(Symbols) /\ pending' \in Seq(Symbols)
           /\ Places(stream') = {}
           /\ receiver' \in {"reading", "rejected"}
           /\ receiver' = "rejected" => input' = << >>
           /\ receiver' = "reading" =>
                 /\ stream' = spool' \o pending'
                 /\ Len(stream') <= PayloadLen + Slack
                 /\ spool' = << >> \/ Len(pending') = 2
           /\ Len(stream') <= PayloadLen + Slack => receiver' = "reading"
<1> DEFINE all == pending \o part
           n == Flushed(all)
<1>1. /\ all \in Seq(Symbols) /\ stream' = spool \o all
      /\ \A i : i \in Places(stream') <=> \E k \in Places(all) : i = Len(spool) + k
  BY PlacesRead
<1>2. /\ stream \in Seq(Symbols) /\ pending \in Seq(Symbols) /\ spool \in Seq(Symbols)
      /\ spool = << >> \/ Len(pending) = 2
  BY DEF RInv, Typed, Holding
<1>3. /\ Len(pending) \in Nat /\ Len(part) \in Nat
      /\ Len(all) = Len(pending) + Len(part) /\ Len(part) >= 1
  BY <1>2
<1>4. Places(stream') = {}
  BY <1>1
<1>5. /\ spool' = spool \o SubSeq(all, 1, n)
      /\ IF Len(spool) + Len(all) > PayloadLen + Slack
         THEN receiver' = "rejected" /\ input' = << >> /\ pending' = << >>
         ELSE pending' = SubSeq(all, n + 1, Len(all)) /\ receiver' = receiver
  BY DEF Hold, Stop, Ceiling
<1> HIDE DEF all
<1>6. n = IF Len(all) >= 3 THEN Len(all) - 2 ELSE 0
  <2>1. n = IF Len(all) >= 3 THEN Len(all) - 3 + 1 ELSE 0
    BY DelimiterFacts DEF Flushed
  <2> QED BY <1>1, <2>1
<1> HIDE DEF n
<1>7. n \in Nat /\ n <= Len(all) /\ Len(all) \in Nat /\ Len(spool) \in Nat
  BY <1>1, <1>2, <1>6
<1> DEFINE l == SubSeq(all, 1, n)
           r == SubSeq(all, n + 1, Len(all))
<1>8. l \in Seq(Symbols) /\ Len(l) = n
  <2>1. 0 <= n /\ 0 + 1 = 1 /\ n - 0 = n
    BY <1>7
  <2>2. SubSeq(all, 0 + 1, n) \in Seq(Symbols) /\ Len(SubSeq(all, 0 + 1, n)) = n - 0
    BY <1>1, <1>7, <2>1, CutFacts
  <2> QED BY <2>1, <2>2
<1>9. r \in Seq(Symbols) /\ Len(r) = Len(all) - n
  BY <1>1, <1>7, CutFacts
<1>10. l \o r = all
  BY <1>1, <1>7, Rejoined
<1> HIDE DEF l, r
<1>11. spool' = spool \o l /\ spool' \in Seq(Symbols) /\ spool \o all = spool' \o r
  <2>1. spool' = spool \o l
    BY <1>5 DEF l
  <2>2. (spool \o l) \o r = spool \o (l \o r)
    <3>1. spool \in Seq(Symbols) /\ l \in Seq(Symbols) /\ r \in Seq(Symbols)
      BY <1>2, <1>8, <1>9
    <3> QED BY <3>1, JoinOrder, SMTT(20)
  <2>3. spool \o l \in Seq(Symbols)
    BY <1>2, <1>8, JoinFacts
  <2> QED BY <1>10, <2>1, <2>2, <2>3
<1>12. spool' = << >> \/ Len(r) = 2
  <2>1. CASE Len(all) >= 3
    BY <1>6, <1>7, <1>9, <2>1
  <2>2. CASE Len(all) < 3
    <3>1. n = 0
      BY <1>6, <1>7, <2>2
    <3>2. ASSUME Len(pending) = 2 PROVE FALSE
      BY <1>3, <2>2, <3>2
    <3>3. l = << >> /\ spool = << >>
      BY <1>2, <1>8, <3>1, <3>2
    <3> QED BY <1>11, <3>3
  <2> QED BY <1>7, <2>1, <2>2
<1>13. Len(stream') = Len(spool) + Len(all)
  BY <1>1, <1>2, JoinFacts
<1>14. /\ PayloadLen + Slack \in Nat /\ << >> \in Seq(Symbols)
       /\ r = SubSeq(all, n + 1, Len(all))
  BY DEF r, RInv, Parameters
<1>15. CASE Len(spool) + Len(all) > PayloadLen + Slack
  <2>1. receiver' = "rejected" /\ input' = << >> /\ pending' = << >>
    BY <1>5, <1>15
  <2>2. ~ (Len(stream') <= PayloadLen + Slack)
    BY <1>7, <1>13, <1>14, <1>15
  <2> QED BY <1>4, <1>11, <1>14, <2>1, <2>2
<1>16. CASE Len(spool) + Len(all) <= PayloadLen + Slack
  <2>1. receiver' = "reading" /\ pending' = r
    BY <1>5, <1>7, <1>14, <1>16
  <2>2. stream' = spool' \o pending'
    BY <1>1, <1>11, <2>1
  <2>3. spool' = << >> \/ Len(pending') = 2
    BY <1>12, <2>1
  <2> QED BY <1>4, <1>9, <1>11, <1>13, <1>16, <2>1, <2>2, <2>3
<1>17. \/ Len(spool) + Len(all) > PayloadLen + Slack
       \/ Len(spool) + Len(all) <= PayloadLen + Slack
  BY <1>7, <1>14
<1> QED BY <1>15, <1>16, <1>17, Zenon

(* The sender                                                              *)

Whole == Payload \o Delimiter

\* How far the stream has come when piece k is to be pasted, and after it.
Done(k) == IF k > Chunks THEN PayloadLen ELSE (k - 1) * ChunkLen
After(k) == IF k > Chunks THEN PayloadLen + 3 ELSE Done(k + 1)

\* A longer beginning consists of a shorter one and what is between.
LEMMA Extended ==
    ASSUME NEW S, NEW s \in Seq(S), NEW a \in Nat, NEW b \in Nat, a <= b, b <= Len(s)
    PROVE  SubSeq(s, 1, a) \o SubSeq(s, a + 1, b) = SubSeq(s, 1, b)
<1> DEFINE t == SubSeq(s, 1, b)
<1>1. t \in Seq(S) /\ Len(t) = b /\ \A i \in 1..b : t[i] = s[i]
  <2>1. 0 <= b /\ 0 + 1 = 1 /\ b - 0 = b /\ \A i \in 1..b : 0 + i = i
    OBVIOUS
  <2>2. /\ SubSeq(s, 0 + 1, b) \in Seq(S) /\ Len(SubSeq(s, 0 + 1, b)) = b - 0
        /\ \A i \in 1..b - 0 : SubSeq(s, 0 + 1, b)[i] = s[0 + i]
    BY <2>1, CutFacts
  <2> QED BY <2>1, <2>2
<1>2. SubSeq(t, 1, a) = SubSeq(s, 1, a)
  OBVIOUS
<1>3. SubSeq(t, a + 1, b) = SubSeq(s, a + 1, b)
  OBVIOUS
<1> HIDE DEF t
<1>4. SubSeq(t, 1, a) \o SubSeq(t, a + 1, b) = t
  BY <1>1, Rejoined
<1> QED BY <1>2, <1>3, <1>4 DEF t

LEMMA DivFacts ==
    ASSUME NEW a \in Nat, NEW b \in Nat \ {0}
    PROVE  a \div b \in Nat /\ (a \div b) * b <= a /\ a < (a \div b) * b + b
OBVIOUS

LEMMA TimesGrows ==
    ASSUME NEW k \in Nat, NEW c \in Nat, NEW b \in Nat, k <= c
    PROVE  k * b \in Nat /\ k * b <= c * b
<1>1. PICK d \in Nat : c = k + d
  OBVIOUS
<1>2. (k + d) * b = k * b + d * b
  OBVIOUS
<1>3. d * b \in Nat /\ k * b \in Nat
  OBVIOUS
<1> QED BY <1>1, <1>2, <1>3

\* The chunks cover the payload.
LEMMA ChunkBounds ==
    ASSUME Parameters
    PROVE  /\ Chunks \in Nat
           /\ Done(1) = 0
           /\ \A k \in 1..Chunks :
                 /\ Done(k) \in Nat /\ Done(k + 1) \in Nat
                 /\ Done(k) <= Done(k + 1) /\ Done(k + 1) <= PayloadLen
                 /\ Done(k) = (k - 1) * ChunkLen
                 /\ Done(k + 1) = IF k = Chunks THEN PayloadLen ELSE k * ChunkLen
<1>1. PayloadLen \in Nat /\ ChunkLen \in Nat \ {0} /\ PayloadLen + ChunkLen - 1 \in Nat
  BY DEF Parameters
<1>2. /\ Chunks \in Nat
      /\ Chunks * ChunkLen <= PayloadLen + ChunkLen - 1
      /\ PayloadLen + ChunkLen - 1 < Chunks * ChunkLen + ChunkLen
  BY <1>1, DivFacts DEF Chunks
<1>3. Done(1) = 0
  <2>1. CASE 1 > Chunks
    <3>1. Chunks = 0 /\ 0 * ChunkLen = 0
      BY <1>1, <1>2, <2>1
    <3>2. PayloadLen = 0
      BY <1>1, <1>2, <3>1
    <3> QED BY <2>1, <3>2 DEF Done
  <2>2. CASE ~(1 > Chunks)
    BY <1>1, <2>2 DEF Done
  <2> QED BY <2>1, <2>2
<1>4. ASSUME NEW k \in 1..Chunks
      PROVE  /\ Done(k) \in Nat /\ Done(k + 1) \in Nat
             /\ Done(k) <= Done(k + 1) /\ Done(k + 1) <= PayloadLen
             /\ Done(k) = (k - 1) * ChunkLen
             /\ Done(k + 1) = IF k = Chunks THEN PayloadLen ELSE k * ChunkLen
  <2>1. /\ k \in Nat /\ k >= 1 /\ k <= Chunks /\ k - 1 \in Nat /\ Chunks - 1 \in Nat
        /\ k + 1 - 1 = k
    BY <1>2
  <2>2. (Chunks - 1) * ChunkLen <= PayloadLen
    <3>1. PICK d \in Nat : Chunks = d + 1 /\ Chunks - 1 = d
      BY <2>1, <1>2
    <3>2. (d + 1) * ChunkLen = d * ChunkLen + ChunkLen /\ d * ChunkLen \in Nat
      BY <1>1
    <3>3. d * ChunkLen + ChunkLen <= PayloadLen + ChunkLen - 1
      BY <1>2, <3>1, <3>2
    <3>4. d * ChunkLen <= PayloadLen
      BY <1>1, <3>2, <3>3
    <3> QED BY <3>1, <3>4
  <2>3. Done(k) = (k - 1) * ChunkLen
    BY <1>2, <2>1 DEF Done
  <2>4. Done(k + 1) = IF k = Chunks THEN PayloadLen ELSE k * ChunkLen
    <3>1. k + 1 > Chunks <=> k = Chunks
      BY <1>2, <2>1
    <3> QED BY <2>1, <3>1 DEF Done
  <2>5. CASE k = Chunks
    <3>1. (k - 1) * ChunkLen \in Nat
      BY <1>1, <2>1
    <3> QED BY <1>1, <2>2, <2>3, <2>4, <2>5, <3>1
  <2>6. CASE k # Chunks
    <3>1. (k - 1) * ChunkLen \in Nat /\ (k - 1) * ChunkLen <= k * ChunkLen
      BY <1>1, <2>1, TimesGrows
    <3>2. k <= Chunks - 1
      BY <1>2, <2>1, <2>6
    <3>3. k * ChunkLen \in Nat /\ k * ChunkLen <= (Chunks - 1) * ChunkLen
      BY <1>1, <2>1, <3>2, TimesGrows
    <3>4. (Chunks - 1) * ChunkLen \in Nat
      BY <1>1, <2>1
    <3>5. k * ChunkLen <= PayloadLen
      BY <1>1, <2>2, <3>3, <3>4
    <3> QED BY <2>3, <2>4, <2>6, <3>1, <3>3, <3>5
  <2> QED BY <2>5, <2>6
<1> QED BY <1>2, <1>3, <1>4

LEMMA WholeFacts ==
    ASSUME Parameters
    PROVE  /\ Payload \in Seq(Symbols) /\ Len(Payload) = PayloadLen
           /\ \A i \in 1..PayloadLen : Payload[i] # Dot
           /\ Whole \in Seq(Symbols) /\ Len(Whole) = PayloadLen + 3
           /\ \A i \in 1..PayloadLen : Whole[i] = Payload[i]
           /\ \A i \in 1..3 : Whole[PayloadLen + i] = Delimiter[i]
<1>1. PayloadLen \in Nat
  BY DEF Parameters
<1>2. /\ Payload \in Seq(Symbols) /\ Len(Payload) = PayloadLen
      /\ \A i \in 1..PayloadLen : Payload[i] = <<"payload", i>>
  <2>1. \A i \in 1..PayloadLen : Payload[i] \in Symbols /\ Payload[i] = <<"payload", i>>
    BY DEF Payload, Symbols
  <2>2. DOMAIN Payload = 1..PayloadLen /\ Payload = [i \in 1..PayloadLen |-> Payload[i]]
    BY DEF Payload
  <2> QED BY <1>1, <2>1, <2>2
<1>3. \A i \in 1..PayloadLen : Payload[i] # Dot
  BY <1>2 DEF Dot
<1>4. /\ Whole \in Seq(Symbols) /\ Len(Whole) = Len(Payload) + Len(Delimiter)
      /\ \A i \in 1..Len(Payload) : Whole[i] = Payload[i]
      /\ \A i \in 1..Len(Delimiter) : Whole[Len(Payload) + i] = Delimiter[i]
  <2>1. Payload \in Seq(Symbols) /\ Delimiter \in Seq(Symbols)
    BY <1>2, DelimiterFacts
  <2> QED BY <2>1, JoinFacts DEF Whole
<1> QED BY <1>2, <1>3, <1>4, DelimiterFacts

\* Piece by piece, the whole is pasted.
LEMMA PieceFacts ==
    ASSUME Parameters, NEW k \in 1..(Chunks + 1)
    PROVE  /\ Piece(k) \in Seq(Symbols)
           /\ Done(k) \in 0..PayloadLen /\ After(k) \in 0..(PayloadLen + 3)
           /\ SubSeq(Whole, 1, Done(k)) \o Piece(k) = SubSeq(Whole, 1, After(k))
<1>1. PayloadLen \in Nat /\ Chunks \in Nat
  BY ChunkBounds DEF Parameters
<1>2. CASE k > Chunks
  <2>1. Piece(k) = Delimiter /\ Done(k) = PayloadLen /\ After(k) = PayloadLen + 3
    BY <1>2 DEF Piece, Done, After
  <2> DEFINE rest == SubSeq(Whole, PayloadLen + 1, PayloadLen + 3)
  <2>2. /\ rest \in Seq(Symbols) /\ Len(rest) = PayloadLen + 3 - PayloadLen
        /\ \A i \in 1..(PayloadLen + 3 - PayloadLen) : rest[i] = Whole[PayloadLen + i]
    BY <1>1, WholeFacts, CutFacts
  <2>3. PayloadLen + 3 - PayloadLen = 3
    BY <1>1
  <2>4. SubSeq(Whole, 1, PayloadLen) \o rest = SubSeq(Whole, 1, PayloadLen + 3)
    BY <1>1, WholeFacts, Extended
  <2> HIDE DEF rest
  <2>5. rest = Delimiter
    <3>1. Len(rest) = 3 /\ \A i \in 1..Len(rest) : rest[i] = Delimiter[i]
      BY <2>2, <2>3, WholeFacts
    <3> QED BY <2>2, <3>1, DelimiterFacts, SameElements
  <2> QED BY <1>1, <2>1, <2>4, <2>5, DelimiterFacts
<1>3. CASE k <= Chunks
  <2> DEFINE a == Done(k)
             b == Done(k + 1)
  <2>1. /\ a \in Nat /\ b \in Nat /\ a <= b /\ b <= PayloadLen
        /\ Piece(k) = SubSeq(Payload, a + 1, b)
        /\ After(k) = b
    <3>1. k \in 1..Chunks /\ ~(k > Chunks)
      BY <1>1, <1>3
    <3> QED BY <3>1, ChunkBounds DEF Piece, After
  <2> HIDE DEF a, b
  <2>2. /\ SubSeq(Payload, a + 1, b) \in Seq(Symbols)
        /\ Len(SubSeq(Payload, a + 1, b)) = b - a
        /\ \A i \in 1..b - a : SubSeq(Payload, a + 1, b)[i] = Payload[a + i]
    BY <2>1, WholeFacts, CutFacts
  <2>3. b <= Len(Whole)
    BY <1>1, <2>1, WholeFacts
  <2>4. /\ SubSeq(Whole, a + 1, b) \in Seq(Symbols)
        /\ Len(SubSeq(Whole, a + 1, b)) = b - a
        /\ \A i \in 1..b - a : SubSeq(Whole, a + 1, b)[i] = Whole[a + i]
    BY <2>1, <2>3, WholeFacts, CutFacts
  <2>5. \A i \in 1..b - a : Whole[a + i] = Payload[a + i]
    BY <1>1, <2>1, WholeFacts
  <2>6. SubSeq(Whole, a + 1, b) = SubSeq(Payload, a + 1, b)
    BY <2>2, <2>4, <2>5, SameElements
  <2>7. SubSeq(Whole, 1, a) \o SubSeq(Whole, a + 1, b) = SubSeq(Whole, 1, b)
    BY <2>1, <2>3, WholeFacts, Extended
  <2>8. a \in 0..PayloadLen /\ b \in 0..(PayloadLen + 3)
    BY <1>1, <2>1
  <2> QED BY <2>1, <2>2, <2>6, <2>7, <2>8 DEF a
<1> QED BY <1>1, <1>2, <1>3

(* A transfer that nobody disturbs                                         *)

\* What was read and what waits make a beginning of the whole, as far as the
\* sender has come.
Underway ==
    \E n \in 0..(PayloadLen + 3) :
        /\ stream \o input = SubSeq(Whole, 1, n)
        /\ sender \in {"load", "paste"} => n = Done(piece)
        /\ sender = "sent" => n = PayloadLen + 3

Clean ==
    typed = 0 /\ faults = 0 =>
        /\ receiver # "rejected"
        /\ receiver = "reading" => Underway
        /\ receiver = "accepted" =>
              stream = Whole /\ input = << >> /\ sender \notin {"load", "paste"}

IInv == RInv /\ Clean

\* A beginning of the whole has a delimiter only if it is the whole.
LEMMA WholePlaces ==
    ASSUME Parameters, NEW n \in 0..(PayloadLen + 3),
           NEW s \in Seq(Symbols), NEW t \in Seq(Symbols), s \o t = SubSeq(Whole, 1, n)
    PROVE  /\ Len(s) \in Nat /\ Len(s) <= n
           /\ \A i \in Places(s) :
                 i = PayloadLen + 1 /\ n = PayloadLen + 3 /\ t = << >> /\ s = Whole
           /\ Len(s) = PayloadLen + 3 => PayloadLen + 1 \in Places(s)
<1>1. PayloadLen \in Nat /\ n \in Nat /\ n <= PayloadLen + 3
  BY DEF Parameters
<1> DEFINE w == SubSeq(Whole, 1, n)
<1>2. w \in Seq(Symbols) /\ Len(w) = n /\ \A i \in 1..n : w[i] = Whole[i]
  <2>1. 0 <= n /\ 0 + 1 = 1 /\ n - 0 = n /\ \A i \in 1..n : 0 + i = i
    BY <1>1
  <2>2. n <= Len(Whole)
    BY <1>1, WholeFacts
  <2>3. /\ SubSeq(Whole, 0 + 1, n) \in Seq(Symbols) /\ Len(SubSeq(Whole, 0 + 1, n)) = n - 0
        /\ \A i \in 1..n - 0 : SubSeq(Whole, 0 + 1, n)[i] = Whole[0 + i]
    BY <1>1, <2>1, <2>2, WholeFacts, CutFacts
  <2> QED BY <2>1, <2>3
<1>3. s \o t = w
  OBVIOUS
<1> HIDE DEF w
<1>4. /\ Len(s) \in Nat /\ Len(t) \in Nat /\ n = Len(s) + Len(t)
      /\ \A i \in 1..Len(s) : s[i] = w[i]
  BY <1>2, <1>3, JoinFacts
<1>5. \A i \in 1..Len(s) : s[i] = Whole[i]
  BY <1>1, <1>2, <1>4
<1>6. ASSUME NEW i \in Places(s)
      PROVE  i = PayloadLen + 1 /\ n = PayloadLen + 3 /\ t = << >> /\ s = Whole
  <2>1. i \in Nat /\ i >= 1 /\ i + 2 <= Len(s) /\ s[i] = Dot
    BY PlaceFacts, DelimiterFacts
  <2>2. Whole[i] = Dot
    BY <1>4, <1>5, <2>1
  <2>3. ~(i <= PayloadLen)
    BY <1>1, <2>1, <2>2, WholeFacts
  <2>4. i = PayloadLen + 1 /\ n = PayloadLen + 3 /\ Len(t) = 0 /\ Len(s) = PayloadLen + 3
    BY <1>1, <1>4, <2>1, <2>3
  <2>5. s = Whole
    BY <1>5, <2>4, WholeFacts, SameElements
  <2> QED BY <2>4, <2>5
<1>7. ASSUME Len(s) = PayloadLen + 3
      PROVE  PayloadLen + 1 \in Places(s)
  <2>1. /\ Whole[PayloadLen + 1] = Delimiter[1] /\ Whole[PayloadLen + 2] = Delimiter[2]
        /\ Whole[PayloadLen + 3] = Delimiter[3]
    BY WholeFacts
  <2> DEFINE i == PayloadLen + 1
  <2>2. /\ i \in Nat /\ i >= 1 /\ i + 2 <= Len(s)
        /\ s[i] = Delimiter[1] /\ s[i + 1] = Delimiter[2] /\ s[i + 2] = Delimiter[3]
    <3>1. i + 1 = PayloadLen + 2 /\ i + 2 = PayloadLen + 3 /\ i \in Nat /\ i >= 1
      BY <1>1
    <3> HIDE DEF i
    <3>2. i \in 1..Len(s) /\ i + 1 \in 1..Len(s) /\ i + 2 \in 1..Len(s)
      BY <1>1, <1>7, <3>1
    <3>3. Whole[i] = Delimiter[1]
      BY <2>1 DEF i
    <3> QED BY <1>5, <1>7, <2>1, <3>1, <3>2, <3>3
  <2> HIDE DEF i
  <2>3. i \in Places(s)
    BY <2>2, PlaceFacts
  <2> QED BY <2>3 DEF i
<1> QED BY <1>1, <1>4, <1>6, <1>7

\* Steps that leave the terminal and the receiver alone.
LEMMA QuietStep ==
    ASSUME IInv, UNCHANGED <<input, remote, piece>>,
           typed' = typed, faults' \in {faults, faults + 1}, cancels' \in {cancels, cancels + 1},
           sender' \in {"load", "paste"} => sender \in {"load", "paste"},
           sender' = "sent" => sender = "sent"
    PROVE  IInv'
<1>1. UNCHANGED <<input, stream, pending, spool, receiver, piece>>
  BY DEF remote
<1>2. RInv'
  BY <1>1 DEF IInv, RInv, Typed, Holding, Accepting
<1>3. ASSUME typed' = 0, faults' = 0
      PROVE  typed = 0 /\ faults = 0
  BY <1>3 DEF IInv, RInv, Typed
<1>4. Underway => Underway'
  BY <1>1 DEF Underway
<1>5. Clean'
  BY <1>1, <1>3, <1>4 DEF IInv, Clean
<1> QED BY <1>2, <1>5 DEF IInv

\* Something more waits in the terminal.
LEMMA ArrivalStep ==
    ASSUME IInv, NEW s \in Seq(Symbols), input' = input \o s, UNCHANGED remote,
           piece' \in 1..(Chunks + 1),
           typed' \in Nat, faults' \in Nat, cancels' \in Nat,
           typed' = 0 /\ faults' = 0 =>
               /\ typed = 0 /\ faults = 0 /\ sender = "paste" /\ s = Piece(piece)
               /\ sender' \in {"load", "paste"} =>
                     piece' = piece + 1 /\ ~(piece > Chunks)
               /\ sender' = "sent" => piece > Chunks
    PROVE  IInv'
<1>1. UNCHANGED <<stream, pending, spool, receiver>>
  BY DEF remote
<1>2. Parameters /\ input \in Seq(Symbols) /\ stream \in Seq(Symbols) /\ piece \in 1..(Chunks + 1)
  BY DEF IInv, RInv, Typed
<1>3. input' \in Seq(Symbols)
  BY <1>2
<1>4. RInv'
  BY <1>1, <1>3 DEF IInv, RInv, Typed, Holding, Accepting
<1>5. ASSUME typed' = 0, faults' = 0
      PROVE  receiver = "reading" /\ Underway'
  <2>1. receiver = "reading" /\ Underway
    BY <1>5 DEF IInv, RInv, Typed, Clean
  <2>2. stream \o input = SubSeq(Whole, 1, Done(piece))
    BY <1>5, <2>1 DEF Underway
  <2>3. (stream \o input) \o s = stream \o (input \o s)
    <3>1. stream \in Seq(Symbols) /\ input \in Seq(Symbols) /\ s \in Seq(Symbols)
      BY <1>2
    <3> QED BY <3>1, SymbolsJoined, Zenon
  <2>4. /\ SubSeq(Whole, 1, Done(piece)) \o s = SubSeq(Whole, 1, After(piece))
        /\ After(piece) \in 0..(PayloadLen + 3)
    BY <1>2, <1>5, PieceFacts
  <2>5. stream' \o input' = SubSeq(Whole, 1, After(piece))
    BY <1>1, <2>2, <2>3, <2>4
  <2>6. sender' \in {"load", "paste"} => After(piece) = Done(piece')
    BY <1>5 DEF After
  <2>7. sender' = "sent" => After(piece) = PayloadLen + 3
    BY <1>5 DEF After
  <2> QED BY <2>1, <2>4, <2>5, <2>6, <2>7 DEF Underway
<1>6. Clean'
  BY <1>1, <1>5 DEF Clean
<1> QED BY <1>4, <1>6 DEF IInv

\* What a paste brings to the terminal.
LEMMA ArrivalsTyped ==
    ASSUME NEW s \in Seq(Symbols), NEW t \in Arrivals(s) PROVE t \in Seq(Symbols)
<1>1. CASE t = s
  BY <1>1
<1>2. CASE \E i \in DOMAIN s : t = SubSeq(s, 1, i - 1) \o SubSeq(s, i + 1, Len(s))
  <2>1. PICK i \in DOMAIN s : t = SubSeq(s, 1, i - 1) \o SubSeq(s, i + 1, Len(s))
    BY <1>2
  <2>0. i \in 1..Len(s)
    OBVIOUS
  <2>2. SubSeq(s, 1, i - 1) \in Seq(Symbols)
    <3> DEFINE g == i - 1
    <3>1. g \in Nat /\ 0 <= g /\ g <= Len(s) /\ 0 + 1 = 1
      BY <2>0
    <3> HIDE DEF g
    <3>2. SubSeq(s, 0 + 1, g) \in Seq(Symbols)
      BY <3>1, CutFacts
    <3>3. SubSeq(s, 1, g) \in Seq(Symbols)
      BY <3>1, <3>2
    <3> QED BY <3>3 DEF g
  <2>3. SubSeq(s, i + 1, Len(s)) \in Seq(Symbols)
    BY <2>0, CutFacts
  <2> QED BY <2>1, <2>2, <2>3
<1> QED BY <1>1, <1>2 DEF Arrivals

LEMMA PasteStep == ASSUME IInv, Paste PROVE IInv'
<1>1. /\ Parameters /\ Chunks \in Nat /\ piece \in 1..(Chunks + 1)
      /\ typed \in Nat /\ faults \in Nat /\ cancels \in Nat
  BY ChunkBounds DEF IInv, RInv, Typed
<1>2. PICK s \in Arrivals(Piece(piece)) :
        /\ input' = input \o s
        /\ IF s = Piece(piece) THEN UNCHANGED bounds ELSE Fault
  BY DEF Paste, Pasted
<1>3. s \in Seq(Symbols)
  BY <1>1, PieceFacts, ArrivalsTyped
<1>4. /\ sender = "paste" /\ UNCHANGED remote
      /\ IF piece > Chunks THEN sender' = "sent" /\ piece' = piece
                           ELSE sender' = "load" /\ piece' = piece + 1
  BY DEF Paste
<1>5. piece' \in 1..(Chunks + 1)
  BY <1>1, <1>4
<1>6. CASE s = Piece(piece)
  <2>1. typed' = typed /\ faults' = faults /\ cancels' = cancels
    BY <1>2, <1>6 DEF bounds
  <2> QED BY <1>1, <1>2, <1>3, <1>4, <1>5, <1>6, <2>1, ArrivalStep
<1>7. CASE s # Piece(piece)
  <2>1. typed' = typed /\ faults' = faults + 1 /\ cancels' = cancels
    BY <1>2, <1>7 DEF Fault
  <2>2. faults' \in Nat /\ faults' # 0
    BY <1>1, <2>1
  <2> QED BY <1>1, <1>2, <1>3, <1>4, <1>5, <2>1, <2>2, ArrivalStep
<1> QED BY <1>6, <1>7

LEMMA PasteBreaksStep == ASSUME IInv, PasteBreaks PROVE IInv'
<1>1. /\ Parameters /\ piece \in 1..(Chunks + 1)
      /\ typed \in Nat /\ faults \in Nat /\ cancels \in Nat
  BY DEF IInv, RInv, Typed
<1>2. /\ sender = "paste" /\ sender' \in {"delete", "shielded"}
      /\ UNCHANGED <<piece, remote>> /\ typed' = typed
      /\ \/ faults' = faults + 1 /\ cancels' = cancels
         \/ faults' = faults /\ cancels' = cancels + 1
      /\ Pasted(Piece(piece)) \/ input' = input
  BY DEF PasteBreaks, DropBuffer, Fault, Cancelled
<1>3. CASE Pasted(Piece(piece))
  <2>1. Piece(piece) \in Seq(Symbols) /\ input' = input \o Piece(piece)
    BY <1>1, <1>3, PieceFacts DEF Pasted
  <2>2. faults' = 0 => faults = 0
    BY <1>1, <1>2
  <2>3. faults' \in Nat /\ cancels' \in Nat
    BY <1>1, <1>2
  <2> QED BY <1>1, <1>2, <2>1, <2>2, <2>3, ArrivalStep
<1>4. CASE input' = input
  BY <1>2, <1>4, QuietStep
<1> QED BY <1>2, <1>3, <1>4

LEMMA TypingStep == ASSUME IInv, PersonTypes PROVE IInv'
<1>1. PICK c \in {Dot, <<"end", 0>>, <<"stray", 0>>} : input' = Append(input, c)
  BY DEF PersonTypes
<1>2. /\ typed' = typed + 1 /\ UNCHANGED <<piece, remote, faults, cancels>>
      /\ typed \in Nat /\ faults \in Nat /\ cancels \in Nat
      /\ piece \in 1..(Chunks + 1) /\ input \in Seq(Symbols)
  BY DEF PersonTypes, client, IInv, RInv, Typed
<1>3. c \in Symbols
  BY DEF Symbols
<1>4. <<c>> \in Seq(Symbols) /\ input' = input \o <<c>>
  BY <1>1, <1>2, <1>3
<1>5. typed' \in Nat /\ typed' # 0
  BY <1>2
<1> QED BY <1>2, <1>4, <1>5, ArrivalStep

\* What Read takes out of the terminal.
LEMMA ReadParts ==
    ASSUME IInv, NEW n \in 1..ReadLen, n <= Len(input)
    PROVE  /\ SubSeq(input, 1, n) \in Seq(Symbols) /\ SubSeq(input, 1, n) # << >>
           /\ SubSeq(input, n + 1, Len(input)) \in Seq(Symbols)
           /\ (stream \o SubSeq(input, 1, n)) \o SubSeq(input, n + 1, Len(input))
                 = stream \o input
<1>1. /\ input \in Seq(Symbols) /\ stream \in Seq(Symbols) /\ n \in Nat /\ n >= 1
      /\ Len(input) \in Nat
  BY DEF IInv, RInv, Typed, Parameters
<1> DEFINE part == SubSeq(input, 1, n)
           rest == SubSeq(input, n + 1, Len(input))
<1>2. part \in Seq(Symbols) /\ Len(part) = n
  <2>1. 0 <= n /\ 0 + 1 = 1 /\ n - 0 = n
    BY <1>1
  <2>2. SubSeq(input, 0 + 1, n) \in Seq(Symbols) /\ Len(SubSeq(input, 0 + 1, n)) = n - 0
    BY <1>1, <2>1, CutFacts
  <2> QED BY <2>1, <2>2
<1>3. rest \in Seq(Symbols)
  BY <1>1, CutFacts
<1>4. part \o rest = input
  BY <1>1, Rejoined
<1> HIDE DEF part, rest
<1>5. part # << >>
  BY <1>1, <1>2
<1>6. (stream \o part) \o rest = stream \o (part \o rest)
  BY <1>1, <1>2, <1>3, SymbolsJoined, Zenon
<1>7. part \in Seq(Symbols) /\ part # << >> /\ rest \in Seq(Symbols)
      /\ (stream \o part) \o rest = stream \o input
  BY <1>2, <1>3, <1>4, <1>5, <1>6
<1> QED BY <1>7 DEF part, rest

LEMMA ReadStep == ASSUME IInv, Read PROVE IInv'
<1>1. PICK n \in 1..ReadLen :
        LET part == SubSeq(input, 1, n)
            all == pending \o part
        IN /\ n <= Len(input)
           /\ stream' = stream \o part
           /\ IF Places(all) # {} THEN Finish(all)
              ELSE /\ Hold(all)
                   /\ receiver' = "reading" => input' = SubSeq(input, n + 1, Len(input))
  BY DEF Read
<1> DEFINE part == SubSeq(input, 1, n)
           rest == SubSeq(input, n + 1, Len(input))
           all == pending \o part
<1>2. /\ stream' = stream \o part
      /\ IF Places(all) # {} THEN Finish(all)
         ELSE Hold(all) /\ (receiver' = "reading" => input' = rest)
  BY <1>1
<1>3. part \in Seq(Symbols) /\ part # << >> /\ rest \in Seq(Symbols)
      /\ (stream \o part) \o rest = stream \o input
  BY <1>1, ReadParts
<1> HIDE DEF part, rest
<1>4. /\ receiver = "reading" /\ UNCHANGED <<sender, piece, typed, faults, cancels>>
      /\ RInv /\ Parameters
      /\ typed \in Nat /\ faults \in Nat /\ cancels \in Nat /\ piece \in 1..(Chunks + 1)
      /\ stream \in Seq(Symbols) /\ pending \in Seq(Symbols) /\ spool \in Seq(Symbols)
      /\ PayloadLen \in Nat /\ << >> \in Seq(Symbols)
  BY DEF Read, client, bounds, IInv, RInv, Typed, Parameters
<1>5. stream' \in Seq(Symbols)
  BY <1>2, <1>3, <1>4
\* Undisturbed, the stream is still a beginning of the whole.
<1>6. ASSUME typed' = 0, faults' = 0
      PROVE  /\ Underway
             /\ \A i \in Places(stream') :
                   i = PayloadLen + 1 /\ stream' = Whole /\ sender \notin {"load", "paste"}
             /\ Len(stream') = PayloadLen + 3 => PayloadLen + 1 \in Places(stream')
             /\ Len(stream') \in Nat /\ Len(stream') <= PayloadLen + 3
  <2>1. Underway
    BY <1>4, <1>6 DEF IInv, Clean
  <2>2. PICK m \in 0..(PayloadLen + 3) :
          /\ stream \o input = SubSeq(Whole, 1, m)
          /\ sender \in {"load", "paste"} => m = Done(piece)
    BY <2>1 DEF Underway
  <2>3. stream' \o rest = SubSeq(Whole, 1, m)
    BY <1>2, <1>3, <2>2
  <2>4. Done(piece) \in 0..PayloadLen
    BY <1>4, PieceFacts
  <2>5. /\ Len(stream') \in Nat /\ Len(stream') <= m
        /\ \A i \in Places(stream') :
              i = PayloadLen + 1 /\ m = PayloadLen + 3 /\ rest = << >> /\ stream' = Whole
        /\ Len(stream') = PayloadLen + 3 => PayloadLen + 1 \in Places(stream')
    BY <1>3, <1>4, <1>5, <2>3, WholePlaces
  <2>6. m = PayloadLen + 3 => sender \notin {"load", "paste"}
    BY <1>4, <2>2, <2>4
  <2> QED BY <1>4, <2>1, <2>5, <2>6
<1>7. CASE Places(all) # {}
  <2>1. Finish(all) /\ input' = << >> /\ pending' = << >>
    BY <1>2, <1>7 DEF Finish, Stop
  <2>2. /\ spool' \in Seq(Symbols)
        /\ receiver' = "accepted" =>
              /\ stream' = spool' \o Delimiter
              /\ First(stream') = Len(spool') + 1
              /\ Len(spool') = PayloadLen
        /\ receiver' \in {"accepted", "rejected"}
        /\ receiver' = "accepted" <=>
              First(stream') + 2 = Len(stream') /\ First(stream') - 1 = PayloadLen
    BY <1>2, <1>3, <1>4, <1>7, <2>1, FinishSteps
  <2>3. Typed'
    BY <1>4, <1>5, <2>1, <2>2 DEF Typed, Chunks
  <2>4. Holding' /\ Accepting'
    BY <2>2 DEF Holding, Accepting
  <2>5. Clean'
    <3>1. ASSUME typed' = 0, faults' = 0
          PROVE  receiver' = "accepted" /\ stream' = Whole /\ sender \notin {"load", "paste"}
      <4>1. Places(stream') # {}
        BY <1>2, <1>3, <1>4, <1>7, PlacesRead
      <4>2. First(stream') \in Places(stream')
        BY <1>5, <4>1, FirstFacts
      <4>3. First(stream') = PayloadLen + 1 /\ stream' = Whole
            /\ sender \notin {"load", "paste"}
        BY <1>6, <3>1, <4>2
      <4>4. Len(stream') = PayloadLen + 3
        BY <1>4, <4>3, WholeFacts
      <4>5. First(stream') + 2 = Len(stream') /\ First(stream') - 1 = PayloadLen
        BY <1>4, <4>3, <4>4
      <4> QED BY <2>2, <4>3, <4>5
    <3> QED BY <1>4, <2>1, <3>1 DEF Clean
  <2> QED BY <1>4, <2>3, <2>4, <2>5 DEF IInv, RInv, Parameters
<1>8. CASE Places(all) = {}
  <2>1. Hold(all) /\ (receiver' = "reading" => input' = rest)
    BY <1>2, <1>8
  <2>2. /\ spool' \in Seq(Symbols) /\ pending' \in Seq(Symbols)
        /\ Places(stream') = {}
        /\ receiver' \in {"reading", "rejected"}
        /\ receiver' = "rejected" => input' = << >>
        /\ receiver' = "reading" =>
              /\ stream' = spool' \o pending'
              /\ Len(stream') <= PayloadLen + Slack
              /\ spool' = << >> \/ Len(pending') = 2
        /\ Len(stream') <= PayloadLen + Slack => receiver' = "reading"
    BY <1>2, <1>3, <1>4, <1>8, <2>1, HoldSteps
  <2>3. input' \in Seq(Symbols)
    BY <1>3, <1>4, <2>1, <2>2
  <2>4. Typed'
    BY <1>4, <1>5, <2>2, <2>3 DEF Typed, Chunks
  <2>5. Holding' /\ Accepting'
    BY <2>2 DEF Holding, Accepting
  <2>6. Clean'
    <3>1. ASSUME typed' = 0, faults' = 0
          PROVE  receiver' = "reading" /\ Underway'
      <4>1. Len(stream') <= PayloadLen + 2
        BY <1>4, <1>6, <2>2, <3>1
      <4>2. Slack \in Nat /\ Slack >= 2
        BY <1>4, DelimiterFacts DEF Parameters
      <4>3. receiver' = "reading"
        BY <1>4, <1>5, <2>2, <4>1, <4>2
      <4>4. stream' \o input' = stream \o input
        BY <1>2, <1>3, <2>1, <4>3
      <4>5. Underway'
        <5>1. Underway
          BY <1>6, <3>1
        <5>2. PICK m \in 0..(PayloadLen + 3) :
                /\ stream \o input = SubSeq(Whole, 1, m)
                /\ sender \in {"load", "paste"} => m = Done(piece)
                /\ sender = "sent" => m = PayloadLen + 3
          BY <5>1 DEF Underway
        <5> QED BY <1>4, <4>4, <5>2 DEF Underway
      <4> QED BY <4>3, <4>5
    <3> QED BY <3>1 DEF Clean
  <2> QED BY <1>4, <2>4, <2>5, <2>6 DEF IInv, RInv, Parameters
<1> QED BY <1>7, <1>8

LEMMA HangUpStep == ASSUME IInv, HangUp PROVE IInv'
<1>1. /\ receiver' = "rejected" /\ input' = << >> /\ pending' = << >>
      /\ UNCHANGED <<stream, spool, piece>>
      /\ typed' = typed /\ cancels' = cancels /\ faults' = faults + 1
  BY DEF HangUp, Stop, Fault, client
<1>2. RInv /\ faults \in Nat /\ << >> \in Seq(Symbols)
  BY DEF IInv, RInv, Typed
<1>3. faults' \in Nat /\ faults' # 0
  BY <1>1, <1>2
<1>4. RInv'
  BY <1>1, <1>2, <1>3 DEF RInv, Typed, Holding, Accepting
<1>5. Clean'
  BY <1>3 DEF Clean
<1> QED BY <1>4, <1>5 DEF IInv

\* The invariant is inductive.
LEMMA Invariance == Parameters /\ Spec => []IInv
<1>1. Parameters /\ Init => IInv
  <2> SUFFICES ASSUME Parameters, Init PROVE IInv
    OBVIOUS
  <2>1. /\ sender = "load" /\ piece = 1 /\ receiver = "reading"
        /\ input = << >> /\ stream = << >> /\ pending = << >> /\ spool = << >>
        /\ typed = 0 /\ faults = 0 /\ cancels = 0
    BY DEF Init
  <2>2. << >> \in Seq(Symbols) /\ Len(<< >>) = 0 /\ << >> \o << >> = << >>
    OBVIOUS
  <2>3. Places(<< >>) = {}
    BY <2>2 DEF Places
  <2>4. Chunks \in Nat /\ PayloadLen \in Nat /\ Slack \in Nat /\ Done(1) = 0
    BY ChunkBounds DEF Parameters
  <2>5. RInv
    BY <2>1, <2>2, <2>3, <2>4 DEF RInv, Typed, Holding, Accepting
  <2>6. SubSeq(Whole, 1, 0) = << >>
    BY WholeFacts
  <2>7. Underway
    <3>1. 0 \in 0..(PayloadLen + 3) /\ stream \o input = SubSeq(Whole, 1, 0)
      BY <2>1, <2>2, <2>4, <2>6
    <3> QED BY <2>1, <2>4, <3>1 DEF Underway
  <2>8. Clean
    BY <2>1, <2>7 DEF Clean
  <2> QED BY <2>5, <2>8 DEF IInv
<1>2. IInv /\ [Next]_vars => IInv'
  <2> SUFFICES ASSUME IInv, [Next]_vars PROVE IInv'
    OBVIOUS
  <2>1. CASE Load \/ LoadBreaks \/ Delete \/ DeleteBreaks \/ UNCHANGED vars
    <3>1. /\ UNCHANGED <<input, remote, piece>> /\ typed' = typed
          /\ faults' \in {faults, faults + 1} /\ cancels' \in {cancels, cancels + 1}
          /\ sender' \in {"load", "paste"} => sender \in {"load", "paste"}
          /\ sender' = "sent" => sender = "sent"
      BY <2>1 DEF Load, LoadBreaks, Delete, DeleteBreaks, Fault, Cancelled,
                  vars, client, bounds, remote
    <3> QED BY <3>1, QuietStep
  <2> QED BY <2>1, PasteStep, PasteBreaksStep, TypingStep, ReadStep, HangUpStep
          DEF Next, SenderStep
<1> QED BY <1>1, <1>2, PTL DEF Spec

\* However the stream is cut into reads, what is spooled and held back is all
\* that was read, no delimiter is missed, and what is accepted is exactly
\* what came before the first one: for a payload and reads of any size,
\* whatever gets lost or is typed.
THEOREM DelimiterFound == Parameters /\ Spec => []DelimiterEndsPayload
<1>1. IInv => DelimiterEndsPayload
  BY DEF IInv, RInv, Holding, Accepting, DelimiterEndsPayload
<1> QED BY <1>1, Invariance, PTL

\* A payload that nobody disturbed is not rejected, and what was spooled at
\* its end is what was sent; cancelled transfers included.
THEOREM CleanTransferArrives == Parameters /\ Spec => []CleanTransferAccepted
<1>1. IInv => CleanTransferAccepted
  <2> SUFFICES ASSUME IInv, typed = 0, faults = 0
               PROVE  /\ receiver # "rejected"
                      /\ sender = "sent" /\ input = << >> =>
                            receiver = "accepted" /\ spool = Payload
    BY DEF CleanTransferAccepted
  <2>1. receiver # "rejected"
    BY DEF IInv, Clean
  <2>2. ASSUME sender = "sent", input = << >>
        PROVE  receiver = "accepted" /\ spool = Payload
    <3>1. /\ Parameters /\ stream \in Seq(Symbols) /\ spool \in Seq(Symbols)
          /\ receiver \in {"reading", "accepted", "rejected"} /\ PayloadLen \in Nat
      BY DEF IInv, RInv, Typed, Parameters
    <3>2. receiver # "reading"
      <4> SUFFICES ASSUME receiver = "reading" PROVE FALSE
        OBVIOUS
      <4>1. Underway /\ Places(stream) = {}
        BY DEF IInv, Clean, RInv, Holding
      <4>2. stream \o << >> = SubSeq(Whole, 1, PayloadLen + 3)
        BY <2>2, <4>1 DEF Underway
      <4>3. Whole \in Seq(Symbols) /\ Len(Whole) = PayloadLen + 3
        BY <3>1, WholeFacts
      <4>4. SubSeq(Whole, 1, PayloadLen + 3) = Whole
        BY <4>3
      <4>5. stream \o << >> = stream
        BY <3>1
      <4>6. stream = Whole
        BY <4>2, <4>4, <4>5
      <4>7. PayloadLen + 3 \in 0..(PayloadLen + 3) /\ << >> \in Seq(Symbols)
        BY <3>1
      <4>8. PayloadLen + 1 \in Places(stream)
        BY <3>1, <4>2, <4>3, <4>6, <4>7, WholePlaces
      <4> QED BY <4>1, <4>8
    <3>3. receiver = "accepted"
      BY <2>1, <3>1, <3>2
    <3>4. stream = Whole /\ stream = spool \o Delimiter /\ Len(spool) = PayloadLen
      BY <3>3 DEF IInv, Clean, RInv, Accepting
    <3>5. \A i \in 1..Len(spool) : (spool \o Delimiter)[i] = spool[i]
      BY <3>1, DelimiterFacts, JoinFacts
    <3>6. \A i \in 1..Len(spool) : spool[i] = Payload[i]
      BY <3>1, <3>4, <3>5, WholeFacts
    <3>7. spool = Payload
      BY <3>1, <3>4, <3>6, WholeFacts, SameElements
    <3> QED BY <3>3, <3>7
  <2> QED BY <2>1, <2>2
<1> QED BY <1>1, Invariance, PTL

(* The paste buffers                                                       *)

\* Where a buffer can be, unless a load-buffer command was interrupted.
Dropped ==
    /\ sender \in {"load", "sent"} => buffers = {}
    /\ sender \in {"paste", "delete", "shielded"} => buffers \subseteq {piece}
    /\ sender \in {"delete", "shielded"} => faults + cancels >= 1
    /\ sender \in {"failed", "cancelled"} /\ buffers # {} => faults + cancels > 1

BInv == faults \in Nat /\ cancels \in Nat /\ (unloaded \/ Dropped)

\* A step that loads nothing in vain keeps to it.
LEMMA DroppedStep ==
    ASSUME faults \in Nat, cancels \in Nat, Dropped,
           Load \/ Paste \/ PasteBreaks \/ Delete \/ DeleteBreaks
    PROVE  Dropped'
<1> USE DEF Dropped
<1>1. CASE Load
  BY <1>1 DEF Load
<1>2. CASE Paste
  <2>1. sender = "paste" /\ sender' \in {"load", "sent"} /\ buffers' = buffers \ {piece}
    BY <1>2 DEF Paste, Pasted
  <2> QED BY <2>1
<1>3. CASE PasteBreaks
  <2>1. /\ \/ faults' = faults + 1 /\ cancels' = cancels
           \/ faults' = faults /\ cancels' = cancels + 1
        /\ piece' = piece /\ buffers' \subseteq buffers
        /\ sender = "paste" /\ sender' \in {"delete", "shielded"}
    BY <1>3 DEF PasteBreaks, DropBuffer, Pasted, Fault, Cancelled
  <2>2. faults' + cancels' >= 1
    BY <2>1
  <2> QED BY <2>1, <2>2
<1>4. CASE Delete
  <2>1. /\ sender \in {"delete", "shielded"} /\ sender' \in {"failed", "cancelled"}
        /\ buffers' = buffers \ {piece}
    BY <1>4 DEF Delete
  <2> QED BY <2>1
<1>5. CASE DeleteBreaks
  <2>1. /\ \/ faults' = faults + 1 /\ cancels' = cancels
           \/ faults' = faults /\ cancels' = cancels + 1
        /\ sender \in {"delete", "shielded"} /\ sender' \in {"failed", "cancelled"}
    BY <1>5 DEF DeleteBreaks, Fault, Cancelled
  <2>2. faults' + cancels' > 1
    BY <2>1
  <2> QED BY <2>1, <2>2
<1> QED BY <1>1, <1>2, <1>3, <1>4, <1>5

\* Only one thing going wrong, no paste buffer stays behind in the tmux
\* server, unless load-buffer itself was interrupted: for any number of
\* chunks.
THEOREM NoBufferLeft == Spec => []BuffersGone
<1>1. Init => BInv
  BY DEF Init, BInv, Dropped
<1>2. BInv /\ [Next]_vars => BInv'
  <2> SUFFICES ASSUME BInv, [Next]_vars PROVE BInv'
    OBVIOUS
  <2>1. faults \in Nat /\ cancels \in Nat
    BY DEF BInv
  <2>2. CASE Load \/ Paste \/ PasteBreaks \/ Delete \/ DeleteBreaks
    <3>1. faults' \in {faults, faults + 1} /\ cancels' \in {cancels, cancels + 1}
      BY <2>2 DEF Load, Paste, PasteBreaks, Delete, DeleteBreaks, Fault, Cancelled, bounds
    <3>2. faults' \in Nat /\ cancels' \in Nat
      BY <2>1, <3>1
    <3>3. unloaded' = unloaded
      BY <2>2 DEF Load, Paste, PasteBreaks, Delete, DeleteBreaks
    <3>4. Dropped => Dropped'
      BY <2>1, <2>2, DroppedStep
    <3> QED BY <3>2, <3>3, <3>4, Zenon DEF BInv
  <2>3. CASE LoadBreaks
    <3>1. faults' \in {faults, faults + 1} /\ cancels' \in {cancels, cancels + 1}
      BY <2>3 DEF LoadBreaks, Fault, Cancelled
    <3>2. faults' \in Nat /\ cancels' \in Nat
      BY <2>1, <3>1
    <3>3. unloaded'
      BY <2>3, Zenon DEF LoadBreaks
    <3> QED BY <3>2, <3>3, Zenon DEF BInv
  <2>4. CASE PersonTypes \/ Read \/ HangUp \/ UNCHANGED vars
    <3>1. /\ sender' = sender /\ piece' = piece /\ buffers' = buffers
          /\ faults' \in {faults, faults + 1} /\ cancels' = cancels
      BY <2>4 DEF PersonTypes, Read, HangUp, Fault, vars, client, bounds
    <3>2. faults' \in Nat /\ cancels' \in Nat
      BY <2>1, <3>1
    <3>3. /\ faults + cancels >= 1 => faults' + cancels' >= 1
          /\ faults + cancels > 1 => faults' + cancels' > 1
      <4>1. CASE faults' = faults
        BY <3>1, <4>1
      <4>2. CASE faults' = faults + 1
        BY <2>1, <3>1, <4>2
      <4> QED BY <3>1, <4>1, <4>2
    <3>4. Dropped => Dropped'
      BY <3>1, <3>3 DEF Dropped
    <3>5. unloaded' = unloaded
      BY <2>4, Zenon DEF PersonTypes, Read, HangUp, vars, client
    <3> QED BY <3>2, <3>4, <3>5, Zenon DEF BInv
  <2> QED BY <2>2, <2>3, <2>4 DEF Next, SenderStep
<1>3. BInv => BuffersGone
  BY DEF BInv, Dropped, BuffersGone, Ended
<1> QED BY <1>1, <1>2, <1>3, PTL DEF Spec

(* Types                                                                   *)

\* What Typed leaves out of TypeOK.
Bounded ==
    /\ sender \in {"load", "paste", "delete", "shielded", "sent", "failed", "cancelled"}
    /\ buffers \subseteq 1..(Chunks + 1) /\ unloaded \in BOOLEAN
    /\ typed \in 0..MaxTyped /\ faults \in 0..MaxFaults /\ cancels \in 0..MaxCancels

\* A step that counts one of the bounds keeps within it.
LEMMA BoundsStep ==
    ASSUME Parameters, Bounded, Fault \/ Cancelled \/ UNCHANGED bounds
    PROVE  typed' \in 0..MaxTyped /\ faults' \in 0..MaxFaults /\ cancels' \in 0..MaxCancels
<1>1. CASE Fault
  BY <1>1 DEF Fault, Bounded, Parameters
<1>2. CASE Cancelled
  BY <1>2 DEF Cancelled, Bounded, Parameters
<1>3. CASE UNCHANGED bounds
  BY <1>3 DEF bounds, Bounded
<1> QED BY <1>1, <1>2, <1>3

LEMMA BoundedStep == IInv /\ Bounded /\ [Next]_vars => Bounded'
<1> SUFFICES ASSUME IInv, Bounded, [Next]_vars
             PROVE  Bounded'
  OBVIOUS
<1>1. Parameters /\ piece \in 1..(Chunks + 1)
  BY DEF IInv, RInv, Typed
<1>2. CASE Load \/ Delete \/ DeleteBreaks \/ LoadBreaks \/ PasteBreaks \/ Paste
  <2>1. Fault \/ Cancelled \/ UNCHANGED bounds
    BY <1>2 DEF Load, Delete, DeleteBreaks, LoadBreaks, PasteBreaks, Paste
  <2>2. sender' \in {"load", "paste", "delete", "shielded", "sent", "failed", "cancelled"}
    BY <1>2 DEF Load, Delete, DeleteBreaks, LoadBreaks, PasteBreaks, Paste, DropBuffer
  <2>3. buffers' \subseteq buffers \cup {piece}
    BY <1>2 DEF Load, Delete, DeleteBreaks, LoadBreaks, PasteBreaks, Paste, Pasted
  <2>4. unloaded' = unloaded \/ unloaded' = TRUE
    BY <1>2 DEF Load, Delete, DeleteBreaks, LoadBreaks, PasteBreaks, Paste
  <2>5. typed' \in 0..MaxTyped /\ faults' \in 0..MaxFaults /\ cancels' \in 0..MaxCancels
    BY <1>1, <2>1, BoundsStep
  <2> QED BY <1>1, <2>2, <2>3, <2>4, <2>5 DEF Bounded
<1>3. CASE PersonTypes
  <2>1. UNCHANGED <<sender, unloaded, buffers, faults, cancels>>
        /\ typed < MaxTyped /\ typed' = typed + 1
    BY <1>3 DEF PersonTypes, client
  <2> QED BY <1>1, <2>1 DEF Bounded, Parameters
<1>4. CASE Read \/ HangUp \/ UNCHANGED vars
  <2>1. UNCHANGED <<sender, unloaded, buffers>> /\ (Fault \/ UNCHANGED bounds)
    BY <1>4 DEF Read, HangUp, vars, client
  <2>2. typed' \in 0..MaxTyped /\ faults' \in 0..MaxFaults /\ cancels' \in 0..MaxCancels
    BY <1>1, <2>1, BoundsStep
  <2> QED BY <2>1, <2>2 DEF Bounded
<1> QED BY <1>2, <1>3, <1>4 DEF Next, SenderStep

\* Every variable of a transfer keeps to its type, whatever breaks.
THEOREM TransferTyped == Parameters /\ Spec => []TypeOK
<1>1. Parameters /\ Init => Bounded
  <2> SUFFICES ASSUME Parameters, Init PROVE Bounded
    OBVIOUS
  <2>1. sender = "load" /\ unloaded = FALSE /\ buffers = {}
    BY DEF Init
  <2>2. typed \in 0..MaxTyped /\ faults \in 0..MaxFaults /\ cancels \in 0..MaxCancels
    BY DEF Init, Parameters
  <2> QED BY <2>1, <2>2 DEF Bounded
<1>2. IInv /\ Bounded => TypeOK
  BY DEF IInv, RInv, Typed, Bounded, TypeOK
<1> QED BY <1>1, <1>2, BoundedStep, Invariance, PTL DEF Spec
=============================================================================
