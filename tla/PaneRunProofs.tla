---------------------------- MODULE PaneRunProofs ----------------------------
(***************************************************************************)
(* Proofs about PaneRun, for any limits, and any number of lines, clears   *)
(* and faults.                                                             *)
(***************************************************************************)
EXTENDS PaneRun, TLAPS

\* The markers come in the order in which the wrapper prints them, once
\* each, and what is still to come is not there yet.
InOrder ==
    /\ \A b \in At(pane, "BEGIN"), e \in At(pane, "END") : b < e
    /\ \A e \in At(pane, "END"), w \in At(pane, "CWD") : e < w
    /\ pc = "paste" => shell = "prompt" /\ At(pane, "BEGIN") = {}
    /\ pc = "paste" \/ shell # "prompt" => At(pane, "CWD") = {}
    /\ pc = "paste" \/ shell \in {"typed", "running"} => At(pane, "END") = {}
    /\ shell = "typed" => At(pane, "BEGIN") = {}
    /\ shell \in {"ended", "prompt"} /\ At(pane, "BEGIN") # {} => At(pane, "END") # {}
    /\ shell = "prompt" /\ At(pane, "END") # {} => At(pane, "CWD") # {}

\* The end of the wrapper was seen: nobody prints markers any more.
SeenComplete ==
    /\ pc = "final" => shell = "prompt"
    /\ result.kind = "error" => pc = "end"
    /\ result.kind = "error" /\ faults = 0 => shell = "prompt"
    /\ result.kind \in {"done", "timed_out"} => pc = "end"
    /\ result.kind = "done" => shell = "prompt"

\* No screen shows a marker twice.
Single(screen) ==
    \A kind \in Markers : \A i, j \in At(screen, kind) : i = j

\* What a screen shows of the command: its first n lines, all of them if the
\* BEGIN marker is on the screen, between that marker and the END marker.
Faithful(screen, n) ==
    /\ \A i \in At(screen, "output") : screen[i][2] \in 1..n
    /\ \A i, j \in At(screen, "output") : i < j => screen[i][2] < screen[j][2]
    /\ \A b \in At(screen, "BEGIN"), i \in At(screen, "output") : b < i
    /\ \A e \in At(screen, "END"), i \in At(screen, "output") : i < e
    /\ \A b \in At(screen, "BEGIN"), w \in At(screen, "CWD") :
          \E e \in At(screen, "END") : b < e /\ e < w
    /\ At(screen, "BEGIN") # {} =>
          \A n1 \in 1..n : \E i \in At(screen, "output") : screen[i][2] = n1

\* The pane shows what was printed, the last poll what had been.
Shown ==
    /\ Faithful(pane, printed)
    /\ \E n \in 0..printed : Faithful(last, n)
    /\ pc = "paste" \/ shell = "typed" => printed = 0

IInv ==
    /\ TypeOK /\ Single(pane) /\ Single(last) /\ InOrder /\ SeenComplete /\ Shown
    /\ NoSpuriousError /\ CompleteOrError /\ PartialIsPrefix

(* Screens                                                                 *)

\* The limits are numbers, and the history keeps at least one line.
LEMMA Limits ==
    /\ PollLines \in Nat /\ TimeoutLines \in Nat /\ HistoryLimit \in Nat /\ HistoryLimit > 0
    /\ PollLines <= HistoryLimit /\ TimeoutLines <= HistoryLimit
BY LinesAssumption

\* The last n lines of a screen are its lines, in their order.
LEMMA LastLinesFacts ==
    ASSUME NEW S, NEW s \in Seq(S), NEW n \in Nat
    PROVE  /\ LastLines(s, n) \in Seq(S) /\ Len(LastLines(s, n)) <= n
           /\ Len(s) <= n => LastLines(s, n) = s
           /\ Len(s) > n => Len(LastLines(s, n)) = n
           /\ \A i \in 1..Len(LastLines(s, n)) :
                 LastLines(s, n)[i] = s[i + Len(s) - Len(LastLines(s, n))]
<1>1. CASE Len(s) > n
  <2>1. LastLines(s, n) = SubSeq(s, Len(s) - n + 1, Len(s))
    BY <1>1 DEF LastLines
  <2>2. LastLines(s, n) \in Seq(S) /\ Len(LastLines(s, n)) = n
    BY <1>1, <2>1
  <2>3. \A i \in 1..n : LastLines(s, n)[i] = s[i + Len(s) - n]
    BY <1>1, <2>1
  <2> QED BY <1>1, <2>2, <2>3
<1>2. CASE Len(s) <= n
  <2>1. ~(Len(s) > n) /\ Len(s) \in Nat
    BY <1>2
  <2>2. LastLines(s, n) = SubSeq(s, 1, Len(s))
    BY <2>1 DEF LastLines
  <2>3. LastLines(s, n) = s
    BY <2>2
  <2> QED BY <2>1, <2>3
<1> QED BY <1>1, <1>2

\* A marker in a part of the history is in the history.
LEMMA Captured ==
    ASSUME TypeOK, NEW n \in Nat, NEW kind, At(Capture(n), kind) # {}
    PROVE  At(pane, kind) # {}
<1>1. PICK i \in DOMAIN Capture(n) : Capture(n)[i][1] = kind
  BY DEF At
<1>2. /\ Capture(n) \in Seq(Lines) /\ Len(Capture(n)) <= Len(pane)
      /\ Capture(n)[i] = pane[i + Len(pane) - Len(Capture(n))]
  <2>1. pane \in Seq(Lines) BY DEF TypeOK
  <2>2. /\ LastLines(pane, n) \in Seq(Lines)
        /\ Len(pane) <= n => LastLines(pane, n) = pane
        /\ Len(pane) > n => Len(LastLines(pane, n)) = n
        /\ \A j \in 1..Len(LastLines(pane, n)) :
              LastLines(pane, n)[j] = pane[j + Len(pane) - Len(LastLines(pane, n))]
    BY <2>1, LastLinesFacts
  <2>3. i \in 1..Len(LastLines(pane, n)) BY <1>1, <2>2 DEF Capture
  <2>4. Len(LastLines(pane, n)) <= Len(pane)
    BY <2>1, <2>2
  <2> QED BY <2>2, <2>3, <2>4 DEF Capture
<1>3. i + Len(pane) - Len(Capture(n)) \in DOMAIN pane
  BY <1>1, <1>2 DEF TypeOK
<1> QED BY <1>1, <1>2, <1>3 DEF At

\* One line more: the new line is the last, and the others keep their order.
LEMMA Printed ==
    ASSUME TypeOK, NEW line \in Lines, PrintLine(line)
    PROVE  /\ pane' \in Seq(Lines) /\ Len(pane') <= HistoryLimit /\ Len(pane') > 0
           /\ Len(pane') <= Len(pane) + 1
           /\ pane'[Len(pane')] = line
           /\ \A i \in 1..Len(pane') - 1 :
                 /\ i + (Len(pane) + 1 - Len(pane')) \in DOMAIN pane
                 /\ pane'[i] = pane[i + (Len(pane) + 1 - Len(pane'))]
<1> DEFINE s == Append(pane, line)
<1>1. s \in Seq(Lines) /\ Len(s) = Len(pane) + 1 /\ s[Len(s)] = line
      /\ \A i \in 1..Len(pane) : s[i] = pane[i]
  BY DEF TypeOK
<1>2. pane' = LastLines(s, HistoryLimit)
  BY DEF PrintLine
<1>3. /\ pane' \in Seq(Lines) /\ Len(pane') <= HistoryLimit
      /\ Len(s) <= HistoryLimit => pane' = s
      /\ Len(s) > HistoryLimit => Len(pane') = HistoryLimit
      /\ \A i \in 1..Len(pane') : pane'[i] = s[i + Len(s) - Len(pane')]
  <2> HIDE DEF s
  <2>1. s \in Seq(Lines) /\ HistoryLimit \in Nat
    BY <1>1, Limits
  <2> DEFINE t == LastLines(s, HistoryLimit)
  <2>2. /\ t \in Seq(Lines) /\ Len(t) <= HistoryLimit
        /\ Len(s) <= HistoryLimit => t = s
        /\ Len(s) > HistoryLimit => Len(t) = HistoryLimit
        /\ \A i \in 1..Len(t) : t[i] = s[i + Len(s) - Len(t)]
    BY <2>1, LastLinesFacts
  <2>3. pane' = t
    BY <1>2
  <2> HIDE DEF t
  <2> QED BY <2>2, <2>3
<1> HIDE DEF s
<1>4. Len(pane) \in Nat /\ Len(pane') \in Nat
  BY <1>3 DEF TypeOK
<1>5. Len(pane') > 0 /\ Len(pane') <= Len(pane) + 1
  BY <1>1, <1>3, <1>4, Limits
<1>6. pane'[Len(pane')] = line
  BY <1>1, <1>3, <1>4, <1>5
<1>7. ASSUME NEW i \in 1..Len(pane') - 1
      PROVE  /\ i + (Len(pane) + 1 - Len(pane')) \in DOMAIN pane
             /\ pane'[i] = pane[i + (Len(pane) + 1 - Len(pane'))]
  <2>1. i + (Len(pane) + 1 - Len(pane')) \in 1..Len(pane)
    BY <1>4, <1>5
  <2>2. pane'[i] = s[i + Len(s) - Len(pane')]
    BY <1>3, <1>4
  <2>3. i + Len(s) - Len(pane') = i + (Len(pane) + 1 - Len(pane'))
    BY <1>1, <1>4
  <2>4. s[i + (Len(pane) + 1 - Len(pane'))] = pane[i + (Len(pane) + 1 - Len(pane'))]
    BY <1>1, <2>1
  <2>5. DOMAIN pane = 1..Len(pane)
    BY DEF TypeOK
  <2>6. pane'[i] = s[i + (Len(pane) + 1 - Len(pane'))]
    BY <2>2, <2>3
  <2> QED BY <2>1, <2>4, <2>5, <2>6
<1> QED BY <1>3, <1>5, <1>6, <1>7

\* Markers of a kind other than the new line's move together or get lost.
LEMMA Shifted ==
    ASSUME TypeOK, NEW line \in Lines, PrintLine(line), NEW kind, NEW i \in At(pane', kind)
    PROVE  \/ i = Len(pane') /\ line[1] = kind
           \/ i < Len(pane') /\ i + (Len(pane) + 1 - Len(pane')) \in At(pane, kind)
BY Printed DEF At

\* A screen that has an END and a CWD marker behind it has both.
LEMMA CompleteFacts ==
    ASSUME NEW screen, Complete(screen)
    PROVE  At(screen, "END") # {} /\ At(screen, "CWD") # {}
BY DEF Complete

\* A line that the history keeps is still in front of the lines it was in
\* front of.
LEMMA Kept ==
    ASSUME TypeOK, NEW line \in Lines, PrintLine(line), NEW kind, NEW j \in At(pane, kind),
           j > Len(pane) + 1 - Len(pane')
    PROVE  j - (Len(pane) + 1 - Len(pane')) \in At(pane', kind)
<1>1. /\ pane' \in Seq(Lines) /\ Len(pane') <= Len(pane) + 1
      /\ \A i \in 1..Len(pane') - 1 : pane'[i] = pane[i + (Len(pane) + 1 - Len(pane'))]
  BY Printed
<1>2. j \in 1..Len(pane) /\ pane[j][1] = kind /\ Len(pane) \in Nat /\ Len(pane') \in Nat
  BY <1>1 DEF At, TypeOK
<1> DEFINE i == j - (Len(pane) + 1 - Len(pane'))
<1>3. i \in 1..Len(pane') - 1 /\ i + (Len(pane) + 1 - Len(pane')) = j
  BY <1>1, <1>2
<1>4. pane'[i] = pane[j]
  BY <1>1, <1>3
<1>5. i \in DOMAIN pane'
  BY <1>1, <1>3
<1> QED BY <1>2, <1>4, <1>5 DEF At

\* A capture shows no marker twice if the history does not.
LEMMA CaptureSingle ==
    ASSUME TypeOK, Single(pane), NEW n \in Nat
    PROVE  Single(Capture(n))
<1> SUFFICES ASSUME NEW kind \in Markers, NEW i \in At(Capture(n), kind),
                    NEW j \in At(Capture(n), kind)
             PROVE  i = j
  BY DEF Single
<1> DEFINE d == Len(pane) - Len(Capture(n))
<1>1. pane \in Seq(Lines) BY DEF TypeOK
<1>2. /\ Capture(n) \in Seq(Lines)
      /\ Len(pane) <= n => Capture(n) = pane
      /\ Len(pane) > n => Len(Capture(n)) = n
      /\ \A l \in 1..Len(Capture(n)) :
            Capture(n)[l] = pane[l + Len(pane) - Len(Capture(n))]
  BY <1>1, LastLinesFacts DEF Capture
<1>3. i \in 1..Len(Capture(n)) /\ j \in 1..Len(Capture(n))
  BY <1>2 DEF At
<1>4. Len(Capture(n)) <= Len(pane) /\ Len(pane) \in Nat /\ Len(Capture(n)) \in Nat
  BY <1>1, <1>2
<1>5. i + d \in 1..Len(pane) /\ j + d \in 1..Len(pane)
  BY <1>3, <1>4
<1>6. Capture(n)[i] = pane[i + d] /\ Capture(n)[j] = pane[j + d]
  BY <1>2, <1>3, <1>4
<1>7. i + d \in At(pane, kind) /\ j + d \in At(pane, kind)
  BY <1>1, <1>5, <1>6 DEF At
<1>8. i + d = j + d
  BY <1>7 DEF Single
<1> QED BY <1>3, <1>4, <1>8

\* The output is a part of the screen.
LEMMA Extracted ==
    ASSUME NEW screen \in Seq(Lines), Single(screen), Begins(screen) # {}
    PROVE  Extract(screen) \in Seq(Lines)
<1>1. PICK b \in DOMAIN screen : Begins(screen) = {b}
  BY DEF Begins, At, Single, Markers
<1>2. Latest(Begins(screen)) = b
  BY <1>1 DEF Latest
<1>3. b \in 1..Len(screen) /\ b \in Begins(screen)
  BY <1>1
<1>4. CASE At(screen, "END") = {}
  <2>1. Extract(screen) = SubSeq(screen, b + 1, Len(screen))
    BY <1>2, <1>4 DEF Extract
  <2> QED BY <1>3, <2>1
<1>5. CASE At(screen, "END") # {}
  <2>1. PICK e \in DOMAIN screen : At(screen, "END") = {e}
    BY <1>5 DEF At, Single, Markers
  <2>2. Earliest(At(screen, "END")) = e
    BY <2>1 DEF Earliest
  <2>3. e \in 1..Len(screen) /\ b < e
    BY <1>3, <2>1 DEF Begins
  <2>4. Extract(screen) = SubSeq(screen, b + 1, e - 1)
    BY <1>2, <1>5, <2>2 DEF Extract
  <2> QED BY <1>3, <2>3, <2>4
<1> QED BY <1>4, <1>5

(* The induction                                                           *)

\* Every step keeps the types.
LEMMA TypeStep == TypeOK /\ Single(pane) /\ Single(last) /\ [Next]_vars => TypeOK'
<1> SUFFICES ASSUME TypeOK, Single(pane), Single(last), [Next]_vars PROVE TypeOK' OBVIOUS
<1>1. ASSUME NEW line \in Lines, PrintLine(line)
      PROVE  pane' \in Seq(Lines) /\ Len(pane') <= HistoryLimit
  BY <1>1, Printed
<1>2. ASSUME NEW n \in Nat
      PROVE  Capture(n) \in Seq(Lines) /\ Len(Capture(n)) <= n
  BY LastLinesFacts DEF Capture, TypeOK
<1>3. \A kind \in Markers \cup {"other"} : Mark(kind) \in Lines
  BY DEF Lines
<1>4. << >> \in Seq(Lines)
  OBVIOUS
<1> USE BoundsAssumption DEF TypeOK
<1>5. CASE Begin BY <1>1, <1>3, <1>5 DEF Begin, client, Markers
<1>6. CASE Output
  <2>1. printed + 1 \in 1..MaxOutput BY <1>6 DEF Output
  <2>2. Own(printed + 1) \in Lines BY <2>1 DEF Lines
  <2> QED BY <1>1, <1>6, <2>1, <2>2 DEF Output, client
<1>7. CASE End BY <1>1, <1>3, <1>7 DEF End, client, Markers
<1>8. CASE Cwd BY <1>1, <1>3, <1>8 DEF Cwd, client, Markers
<1>9. CASE OtherOutput BY <1>1, <1>3, <1>9 DEF OtherOutput, program, client
<1>10. CASE Clear
  BY <1>4, <1>10, Limits DEF Clear, program, client
<1>11. CASE Paste BY <1>11 DEF Paste
<1>12. CASE PasteFails BY <1>4, <1>12 DEF PasteFails, Fault, Return
<1>13. CASE Poll BY <1>2, <1>13, Limits DEF Poll, program
<1>14. CASE FinalCapture
  <2>1. Single(WholeHistory) /\ WholeHistory \in Seq(Lines)
    BY <1>2, CaptureSingle, Limits DEF WholeHistory
  <2>2. Begins(WholeHistory) # {} => Extract(WholeHistory) \in Seq(Lines)
    BY <2>1, Extracted
  <2>3. CASE Complete(WholeHistory) /\ Begins(WholeHistory) # {}
    BY <1>14, <2>2, <2>3 DEF FinalCapture, Return, program
  <2>4. CASE ~(Complete(WholeHistory) /\ Begins(WholeHistory) # {})
    <3>1. result'.kind = "error" /\ result'.stdout = << >> /\ pc' = "end"
      BY <1>14, <2>4 DEF FinalCapture, Return
    <3> QED BY <1>4, <1>14, <3>1 DEF FinalCapture, program
  <2> QED BY <2>3, <2>4
<1>15. CASE CaptureFails BY <1>4, <1>15 DEF CaptureFails, Fault, Return, program
<1>16. CASE Timeout
  <2>1. \A screen \in Seq(Lines) : Single(screen) => Partial(screen) \in Seq(Lines)
    BY <1>4, Extracted DEF Partial
  <2>2. Partial(Capture(TimeoutLines)) \in Seq(Lines) /\ Partial(last) \in Seq(Lines)
    BY <1>2, <2>1, CaptureSingle, Limits
  <2> QED BY <1>16, <2>2 DEF Timeout, Return, Fault, program
<1>17. CASE UNCHANGED vars BY <1>17 DEF vars, program, client
<1> QED BY <1>5, <1>6, <1>7, <1>8, <1>9, <1>10, <1>11, <1>12, <1>13, <1>14, <1>15, <1>16,
           <1>17 DEF Next, RunStep

\* A line of the wrapper comes behind those that were printed before it.
LEMMA PrintStep ==
    ASSUME TypeOK, Single(pane), InOrder, NEW line \in Lines, PrintLine(line),
           line[1] \in Markers => At(pane, line[1]) = {},
           line[1] = "BEGIN" => At(pane, "END") = {},
           line[1] = "END" => At(pane, "CWD") = {}
    PROVE  /\ Single(pane')
           /\ \A b \in At(pane', "BEGIN"), e \in At(pane', "END") : b < e
           /\ \A e \in At(pane', "END"), w \in At(pane', "CWD") : e < w
           /\ \A kind : kind # line[1] /\ At(pane, kind) = {} => At(pane', kind) = {}
           /\ line[1] = "END" => At(pane', "END") # {}
           /\ line[1] = "CWD" => At(pane', "CWD") # {}
           /\ At(pane, "END") # {} /\ At(pane', "BEGIN") # {} => At(pane', "END") # {}
           /\ At(pane, "CWD") # {} /\ At(pane', "END") # {} => At(pane', "CWD") # {}
<1> DEFINE d == Len(pane) + 1 - Len(pane')
<1>1. pane' \in Seq(Lines) /\ Len(pane') \in Nat /\ Len(pane) \in Nat /\ Len(pane') > 0
      /\ pane'[Len(pane')] = line
  BY Printed DEF TypeOK
<1>2. \A kind : \A i \in At(pane', kind) :
         \/ i = Len(pane') /\ line[1] = kind
         \/ i < Len(pane') /\ i + d \in At(pane, kind)
  BY Shifted
<1>3. \A kind : \A i \in At(pane', kind) : i \in Nat /\ i > 0
  BY <1>1 DEF At
<1>4. Single(pane')
  <2> SUFFICES ASSUME NEW kind \in Markers, NEW i \in At(pane', kind),
                      NEW j \in At(pane', kind)
               PROVE  i = j
    BY DEF Single
  <2>1. CASE line[1] = kind
    BY <1>2, <2>1
  <2>2. CASE line[1] # kind
    <3>1. i + d = j + d BY <1>2, <2>2 DEF Single
    <3> QED BY <1>1, <1>3, <3>1
  <2> QED BY <2>1, <2>2
<1>5. ASSUME NEW b \in At(pane', "BEGIN"), NEW e \in At(pane', "END") PROVE b < e
  <2>1. line[1] # "BEGIN"
    BY <1>2
  <2>2. b < Len(pane') /\ b + d \in At(pane, "BEGIN")
    BY <1>2, <2>1
  <2>3. CASE e = Len(pane') BY <2>2, <2>3
  <2>4. CASE e + d \in At(pane, "END")
    <3>1. b + d < e + d BY <2>2, <2>4 DEF InOrder
    <3> QED BY <1>1, <1>3, <3>1
  <2> QED BY <1>2, <2>3, <2>4
<1>6. ASSUME NEW e \in At(pane', "END"), NEW w \in At(pane', "CWD") PROVE e < w
  <2>1. line[1] # "END"
    BY <1>2
  <2>2. e < Len(pane') /\ e + d \in At(pane, "END")
    BY <1>2, <2>1
  <2>3. CASE w = Len(pane') BY <2>2, <2>3
  <2>4. CASE w + d \in At(pane, "CWD")
    <3>1. e + d < w + d BY <2>2, <2>4 DEF InOrder
    <3> QED BY <1>1, <1>3, <3>1
  <2> QED BY <1>2, <2>3, <2>4
<1>7. ASSUME NEW kind, kind # line[1], At(pane, kind) = {} PROVE At(pane', kind) = {}
  BY <1>2, <1>7
<1>8. Len(pane') \in At(pane', line[1])
  BY <1>1 DEF At
<1>9. ASSUME At(pane, "END") # {}, NEW b \in At(pane', "BEGIN") PROVE At(pane', "END") # {}
  <2>1. PICK e \in At(pane, "END") : TRUE BY <1>9
  <2>2. b + d \in At(pane, "BEGIN") BY <1>2, <1>9
  <2>3. b + d < e /\ e \in Nat BY <2>1, <2>2 DEF InOrder, At, TypeOK
  <2>4. e > d BY <1>1, <1>3, <2>3
  <2> QED BY <2>1, <2>4, Kept
<1>10. ASSUME At(pane, "CWD") # {}, NEW e \in At(pane', "END") PROVE At(pane', "CWD") # {}
  <2>1. PICK w \in At(pane, "CWD") : TRUE BY <1>10
  <2>2. e + d \in At(pane, "END") BY <1>2, <1>10
  <2>3. e + d < w /\ w \in Nat BY <2>1, <2>2 DEF InOrder, At, TypeOK
  <2>4. w > d BY <1>1, <1>3, <2>3
  <2> QED BY <2>1, <2>4, Kept
<1> QED BY <1>4, <1>5, <1>6, <1>7, <1>8, <1>9, <1>10

\* The kinds of the lines, and what never is one.
LEMMA Kinds ==
    /\ \A kind : Mark(kind)[1] = kind
    /\ \A n : Own(n)[1] = "output"
BY DEF Mark, Own

\* The markers stay in order.
LEMMA OrderStep == IInv /\ [Next]_vars => (Single(pane) /\ InOrder)'
<1> SUFFICES ASSUME IInv, [Next]_vars PROVE Single(pane') /\ InOrder' OBVIOUS
<1>1. \A kind \in Markers \cup {"other"} : Mark(kind) \in Lines
  BY DEF Lines
<1> USE DEF IInv
<1>2. CASE Begin
  <2>1. PrintLine(Mark("BEGIN")) /\ Mark("BEGIN") \in Lines /\ Mark("BEGIN")[1] = "BEGIN"
    BY <1>1, <1>2, Kinds DEF Begin, Markers
  <2>2. shell = "typed" /\ shell' = "running" /\ pc' = pc
    BY <1>2 DEF Begin, client
  <2>3. pc # "paste" /\ At(pane, "BEGIN") = {} /\ At(pane, "END") = {} /\ At(pane, "CWD") = {}
    BY <2>2 DEF InOrder
  <2>4. /\ Single(pane')
        /\ \A b \in At(pane', "BEGIN"), e \in At(pane', "END") : b < e
        /\ \A e \in At(pane', "END"), w \in At(pane', "CWD") : e < w
        /\ At(pane', "END") = {} /\ At(pane', "CWD") = {}
    BY <2>1, <2>3, PrintStep
  <2> QED BY <2>2, <2>3, <2>4 DEF InOrder
<1>3. CASE Output
  <2>1. PrintLine(Own(printed + 1)) /\ Own(printed + 1)[1] = "output"
    BY <1>3, Kinds DEF Output
  <2>2. Own(printed + 1) \in Lines
    BY <1>3, BoundsAssumption DEF Output, Lines, TypeOK
  <2>3. shell = "running" /\ shell' = "running" /\ pc' = pc
    BY <1>3 DEF Output, client
  <2>4. /\ Single(pane')
        /\ \A b \in At(pane', "BEGIN"), e \in At(pane', "END") : b < e
        /\ \A e \in At(pane', "END"), w \in At(pane', "CWD") : e < w
        /\ At(pane', "END") = {} /\ At(pane', "CWD") = {}
    BY <2>1, <2>2, <2>3, PrintStep DEF Markers, InOrder
  <2>5. pc # "paste"
    BY <2>3 DEF InOrder
  <2> QED BY <2>3, <2>4, <2>5 DEF InOrder
<1>4. CASE End
  <2>1. PrintLine(Mark("END")) /\ Mark("END") \in Lines /\ Mark("END")[1] = "END"
    BY <1>1, <1>4, Kinds DEF End, Markers
  <2>2. shell = "running" /\ shell' = "ended" /\ pc' = pc
    BY <1>4 DEF End, client
  <2>3. pc # "paste" /\ At(pane, "END") = {} /\ At(pane, "CWD") = {}
    BY <2>2 DEF InOrder
  <2>4. /\ Single(pane')
        /\ \A b \in At(pane', "BEGIN"), e \in At(pane', "END") : b < e
        /\ \A e \in At(pane', "END"), w \in At(pane', "CWD") : e < w
        /\ At(pane', "END") # {} /\ At(pane', "CWD") = {}
    BY <2>1, <2>3, PrintStep
  <2> QED BY <2>2, <2>3, <2>4 DEF InOrder
<1>5. CASE Cwd
  <2>1. PrintLine(Mark("CWD")) /\ Mark("CWD") \in Lines /\ Mark("CWD")[1] = "CWD"
    BY <1>1, <1>5, Kinds DEF Cwd, Markers
  <2>2. shell = "ended" /\ shell' = "prompt" /\ pc' = pc
    BY <1>5 DEF Cwd, client
  <2>3. pc # "paste" /\ At(pane, "CWD") = {}
    BY <2>2 DEF InOrder
  <2>4. /\ Single(pane')
        /\ \A b \in At(pane', "BEGIN"), e \in At(pane', "END") : b < e
        /\ \A e \in At(pane', "END"), w \in At(pane', "CWD") : e < w
        /\ At(pane', "CWD") # {}
        /\ At(pane, "BEGIN") = {} => At(pane', "BEGIN") = {}
        /\ At(pane, "END") # {} /\ At(pane', "BEGIN") # {} => At(pane', "END") # {}
    BY <2>1, <2>3, PrintStep
  <2>5. At(pane', "BEGIN") # {} => At(pane', "END") # {}
    BY <2>2, <2>4 DEF InOrder
  <2> QED BY <2>2, <2>3, <2>4, <2>5 DEF InOrder
<1>6. CASE OtherOutput
  <2>1. PrintLine(Mark("other")) /\ Mark("other") \in Lines /\ Mark("other")[1] = "other"
    BY <1>1, <1>6, Kinds DEF OtherOutput
  <2>2. shell' = shell /\ pc' = pc
    BY <1>6 DEF OtherOutput, client, program
  <2>3. /\ Single(pane')
        /\ \A b \in At(pane', "BEGIN"), e \in At(pane', "END") : b < e
        /\ \A e \in At(pane', "END"), w \in At(pane', "CWD") : e < w
        /\ \A kind \in Markers : At(pane, kind) = {} => At(pane', kind) = {}
        /\ At(pane, "END") # {} /\ At(pane', "BEGIN") # {} => At(pane', "END") # {}
        /\ At(pane, "CWD") # {} /\ At(pane', "END") # {} => At(pane', "CWD") # {}
    BY <2>1, PrintStep DEF Markers
  <2> QED BY <2>2, <2>3 DEF InOrder, Markers
<1>7. CASE Clear
  <2>1. \A kind : At(pane', kind) = {}
    BY <1>7 DEF Clear, At
  <2>2. shell' = shell /\ pc' = pc
    BY <1>7 DEF Clear, client, program
  <2> QED BY <2>1, <2>2 DEF InOrder, Single
<1>8. CASE RunStep \/ Poll \/ PasteFails \/ CaptureFails \/ UNCHANGED vars
  <2>1. pane' = pane
    BY <1>8 DEF RunStep, Paste, FinalCapture, Timeout, Poll, PasteFails, CaptureFails, vars
  <2>2. CASE Paste \/ PasteFails
    <3>1. pc = "paste" /\ pc' # "paste" /\ shell' \in {"prompt", "typed"}
      BY <2>2 DEF Paste, PasteFails, Return
    <3> QED BY <2>1, <3>1 DEF InOrder
  <2>3. CASE FinalCapture \/ Timeout \/ Poll \/ CaptureFails
    <3>1. pc # "paste" /\ pc' # "paste" /\ shell' = shell
      <4>1. CASE Poll BY <4>1 DEF Poll, program
      <4>2. CASE FinalCapture BY <4>2 DEF FinalCapture, Return, program
      <4>3. CASE Timeout BY <4>3 DEF Timeout, Deadline, Return, program
      <4>4. CASE CaptureFails BY <4>4 DEF CaptureFails, Return, program
      <4> QED BY <2>3, <4>1, <4>2, <4>3, <4>4
    <3> QED BY <2>1, <3>1 DEF InOrder
  <2>4. CASE UNCHANGED vars
    BY <2>1, <2>4 DEF vars, client, program, InOrder
  <2>5. Single(pane') BY <2>1
  <2> QED BY <1>8, <2>5, <2>2, <2>3, <2>4 DEF RunStep
<1> QED BY <1>2, <1>3, <1>4, <1>5, <1>6, <1>7, <1>8 DEF Next

\* The capture that ends the polling saw the wrapper's last line, and the
\* history that is then cut has what the history still has.
LEMMA SeenStep ==
    IInv /\ [Next]_vars => (Single(last) /\ SeenComplete /\ NoSpuriousError)'
<1> SUFFICES ASSUME IInv, [Next]_vars
             PROVE  Single(last') /\ SeenComplete' /\ NoSpuriousError'
  OBVIOUS
<1> USE DEF IInv
<1>1. CASE Begin \/ Output \/ End \/ Cwd \/ OtherOutput
  <2>1. last' = last /\ pc' = pc /\ result' = result /\ faults' = faults
    BY <1>1 DEF Begin, Output, End, Cwd, OtherOutput, client
  <2>2. shell = "prompt" => OtherOutput /\ shell' = shell
    BY <1>1 DEF Begin, Output, End, Cwd, OtherOutput, program
  <2>3. At(pane, "BEGIN") = {} /\ OtherOutput => At(pane', "BEGIN") = {}
    <3> SUFFICES ASSUME At(pane, "BEGIN") = {}, OtherOutput, NEW i \in At(pane', "BEGIN")
                 PROVE  FALSE
      OBVIOUS
    <3>1. PrintLine(Mark("other")) /\ Mark("other") \in Lines /\ Mark("other")[1] = "other"
      BY Kinds DEF OtherOutput, Lines
    <3> QED BY <3>1, Shifted
  <2> QED BY <2>1, <2>2, <2>3 DEF SeenComplete, NoSpuriousError
<1>2. CASE Clear
  <2>1. At(pane', "BEGIN") = {}
    BY <1>2 DEF Clear, At
  <2> QED BY <1>2, <2>1 DEF Clear, client, program, SeenComplete, NoSpuriousError
<1>3. CASE Paste
  BY <1>3 DEF Paste, SeenComplete, NoSpuriousError
<1>4. CASE PasteFails \/ CaptureFails
  <2>1. faults' # 0
    <3>1. faults \in Nat BY BoundsAssumption DEF TypeOK
    <3> QED BY <1>4, <3>1 DEF PasteFails, CaptureFails, Fault
  <2> QED BY <1>4, <2>1 DEF PasteFails, CaptureFails, Return, SeenComplete, NoSpuriousError
<1>5. CASE Poll
  <2>1. last' = Capture(PollLines) /\ pane' = pane /\ shell' = shell /\ faults' = faults
        /\ result' = result /\ pc = "poll" /\ pc' = IF Complete(last') THEN "final" ELSE "poll"
    BY <1>5 DEF Poll, program
  <2>2. Single(last')
    BY <2>1, CaptureSingle, Limits
  <2>3. ASSUME Complete(last') PROVE shell = "prompt"
    <3>1. At(Capture(PollLines), "CWD") # {}
      BY <2>1, <2>3, CompleteFacts
    <3>2. At(pane, "CWD") # {}
      BY <3>1, Captured, Limits
    <3> QED BY <3>2 DEF InOrder
  <2> QED BY <2>1, <2>2, <2>3 DEF SeenComplete, NoSpuriousError
<1>6. CASE FinalCapture
  <2>1. WholeHistory = pane
    BY LastLinesFacts, Limits DEF WholeHistory, Capture, TypeOK
  <2>2. shell = "prompt" /\ shell' = shell /\ pane' = pane /\ last' = last /\ faults' = faults
        /\ pc' = "end"
    BY <1>6 DEF FinalCapture, program, SeenComplete, Return
  <2>3. ASSUME result'.kind = "error", NEW b \in At(pane, "BEGIN") PROVE FALSE
    <3>1. ~(Complete(pane) /\ Begins(pane) # {})
      BY <1>6, <2>1, <2>3 DEF FinalCapture, Return
    <3>2. b \in Begins(pane)
      BY <2>3 DEF Begins, InOrder
    <3>3. Complete(pane)
      BY <2>2, <2>3 DEF Complete, InOrder
    <3> QED BY <3>1, <3>2, <3>3
  <2> QED BY <2>2, <2>3 DEF SeenComplete, NoSpuriousError
<1>7. CASE Timeout
  <2>1. result'.kind = "timed_out" /\ pc' = "end" /\ last' = last
    BY <1>7 DEF Timeout, Return
  <2> QED BY <2>1 DEF SeenComplete, NoSpuriousError
<1>8. CASE UNCHANGED vars
  BY <1>8 DEF vars, client, program, SeenComplete, NoSpuriousError
<1> QED BY <1>1, <1>2, <1>3, <1>4, <1>5, <1>6, <1>7, <1>8 DEF Next, RunStep

(* What was printed and what is returned                                   *)

\* A part of the history is as faithful as the history, up to the number of
\* lines it shows.
LEMMA FaithfulCapture ==
    ASSUME TypeOK, Faithful(pane, printed), NEW n \in Nat
    PROVE  Faithful(Capture(n), printed)
<1> DEFINE s == Capture(n)
           d == Len(pane) - Len(s)
<1>1. pane \in Seq(Lines) /\ Len(pane) \in Nat BY DEF TypeOK
<1>2. /\ s \in Seq(Lines)
      /\ Len(pane) <= n => s = pane
      /\ Len(pane) > n => Len(s) = n
      /\ \A l \in 1..Len(s) : s[l] = pane[l + Len(pane) - Len(s)]
  BY <1>1, LastLinesFacts DEF Capture
<1> HIDE DEF s
<1>3. Len(s) <= Len(pane) /\ Len(s) \in Nat
  BY <1>1, <1>2
<1>4. \A kind : \A i \in At(s, kind) :
         i \in Nat /\ i > 0 /\ i + d \in At(pane, kind) /\ s[i] = pane[i + d]
  <2> SUFFICES ASSUME NEW kind, NEW i \in At(s, kind)
               PROVE  i \in Nat /\ i > 0 /\ i + d \in At(pane, kind) /\ s[i] = pane[i + d]
    OBVIOUS
  <2>1. i \in 1..Len(s) /\ s[i][1] = kind BY <1>2 DEF At
  <2>2. i + d \in 1..Len(pane) /\ i + d = i + Len(pane) - Len(s) BY <1>1, <1>3, <2>1
  <2>3. s[i] = pane[i + d] BY <1>2, <2>1, <2>2
  <2> QED BY <1>1, <2>1, <2>2, <2>3 DEF At
<1>5. \A kind : \A j \in At(pane, kind) : j > d => j - d \in At(s, kind) /\ s[j - d] = pane[j]
  <2> SUFFICES ASSUME NEW kind, NEW j \in At(pane, kind), j > d
               PROVE  j - d \in At(s, kind) /\ s[j - d] = pane[j]
    OBVIOUS
  <2>1. j \in 1..Len(pane) /\ pane[j][1] = kind BY <1>1 DEF At
  <2>2. j - d \in 1..Len(s) /\ (j - d) + Len(pane) - Len(s) = j BY <1>1, <1>3, <2>1
  <2>3. s[j - d] = pane[j] BY <1>2, <2>2
  <2> QED BY <1>2, <2>1, <2>2, <2>3 DEF At
<1>6. d \in Nat BY <1>1, <1>3
<1>7. \A kind : \A j \in At(pane, kind) : j \in Nat BY <1>1 DEF At
<1> HIDE DEF d
<1>8. \A i \in At(s, "output") : s[i][2] \in 1..printed
  BY <1>4 DEF Faithful
<1>9. ASSUME NEW i \in At(s, "output"), NEW j \in At(s, "output"), i < j
      PROVE  s[i][2] < s[j][2]
  <2>1. i + d < j + d BY <1>4, <1>6, <1>9
  <2> QED BY <1>4, <2>1 DEF Faithful
<1>10. ASSUME NEW b \in At(s, "BEGIN"), NEW i \in At(s, "output") PROVE b < i
  <2>1. b + d < i + d BY <1>4 DEF Faithful
  <2> QED BY <1>4, <1>6, <2>1
<1>11. ASSUME NEW e \in At(s, "END"), NEW i \in At(s, "output") PROVE i < e
  <2>1. i + d < e + d BY <1>4 DEF Faithful
  <2> QED BY <1>4, <1>6, <2>1
<1>12. ASSUME NEW b \in At(s, "BEGIN"), NEW w \in At(s, "CWD")
       PROVE  \E e \in At(s, "END") : b < e /\ e < w
  <2>1. PICK e \in At(pane, "END") : b + d < e /\ e < w + d
    BY <1>4 DEF Faithful
  <2>2. e - d \in At(s, "END") /\ b < e - d /\ e - d < w
    BY <1>4, <1>5, <1>6, <1>7, <2>1
  <2> QED BY <2>2
<1>13. ASSUME NEW b \in At(s, "BEGIN"), NEW n1 \in 1..printed
       PROVE  \E i \in At(s, "output") : s[i][2] = n1
  <2>1. b + d \in At(pane, "BEGIN") BY <1>4
  <2>2. PICK j \in At(pane, "output") : pane[j][2] = n1
    BY <2>1 DEF Faithful
  <2>3. b + d < j BY <2>1, <2>2 DEF Faithful
  <2>4. j > d BY <1>4, <1>6, <1>7, <2>2, <2>3
  <2> QED BY <1>5, <2>2, <2>4
<1>14. Faithful(s, printed)
  BY <1>8, <1>9, <1>10, <1>11, <1>12, <1>13 DEF Faithful
<1> QED BY <1>14 DEF s

\* Where the elements of a part of a sequence come from.
LEMMA PartFacts ==
    ASSUME NEW S, NEW s \in Seq(S), NEW b \in Nat, NEW z \in Nat, b <= z, z <= Len(s)
    PROVE  /\ Len(SubSeq(s, b + 1, z)) = z - b /\ DOMAIN SubSeq(s, b + 1, z) = 1..(z - b)
           /\ \A i \in 1..(z - b) : SubSeq(s, b + 1, z)[i] = s[i + b]
<1>1. CASE b = z
  <2>1. SubSeq(s, b + 1, z) = << >>
    BY <1>1
  <2> QED BY <1>1, <2>1
<1>2. CASE b < z
  <2>1. /\ Len(SubSeq(s, b + 1, z)) = z - b /\ DOMAIN SubSeq(s, b + 1, z) = 1..(z - b)
        /\ \A i \in 1..(z - b) : SubSeq(s, b + 1, z)[i] = s[b + 1 + i - 1]
    BY <1>2
  <2>2. \A i \in 1..(z - b) : b + 1 + i - 1 = i + b
    OBVIOUS
  <2> QED BY <2>1, <2>2
<1> QED BY <1>1, <1>2

\* What is cut out of a faithful screen are the command's lines, and no
\* marker.
LEMMA Cut ==
    ASSUME NEW s \in Seq(Lines), Single(s), NEW n \in Nat, Faithful(s, n), Begins(s) # {}
    PROVE  Prints(Extract(s), n) /\ \A kind \in Markers : At(Extract(s), kind) = {}
<1>1. PICK b \in DOMAIN s : Begins(s) = {b}
  BY DEF Begins, At, Single, Markers
<1>2. Latest(Begins(s)) = b
  BY <1>1 DEF Latest
<1>3. b \in 1..Len(s) /\ b \in At(s, "BEGIN") /\ Len(s) \in Nat
      /\ \A e \in At(s, "END") : b < e
  BY <1>1 DEF Begins
<1>4. PICK z \in Nat :
         /\ b <= z /\ z <= Len(s) /\ Extract(s) = SubSeq(s, b + 1, z)
         /\ \A e \in At(s, "END") : z < e
         /\ \A i \in At(s, "output") : i <= z
         /\ \A w \in At(s, "CWD") : z < w
  <2>1. CASE At(s, "END") = {}
    <3>1. Extract(s) = SubSeq(s, b + 1, Len(s))
      BY <1>2, <2>1 DEF Extract
    <3>2. At(s, "CWD") = {}
      BY <1>3, <2>1 DEF Faithful
    <3>3. \A i \in At(s, "output") : i <= Len(s)
      BY DEF At
    <3>4. b <= Len(s) /\ Len(s) <= Len(s)
      BY <1>3
    <3> QED BY <1>3, <2>1, <3>1, <3>2, <3>3, <3>4
  <2>2. CASE At(s, "END") # {}
    <3>1. PICK e \in DOMAIN s : At(s, "END") = {e}
      BY <2>2 DEF At, Single, Markers
    <3>2. Earliest(At(s, "END")) = e
      BY <3>1 DEF Earliest
    <3>3. Extract(s) = SubSeq(s, b + 1, e - 1)
      BY <1>2, <2>2, <3>2 DEF Extract
    <3>4. e \in 1..Len(s) /\ b < e
      BY <1>3, <3>1
    <3>5. \A i \in At(s, "output") : i \in Nat /\ i < e
      BY <3>1 DEF Faithful, At
    <3>6. \A w \in At(s, "CWD") : w \in Nat /\ e < w
      BY <1>3, <3>1 DEF Faithful, At
    <3>7. e - 1 \in Nat /\ b <= e - 1 /\ e - 1 <= Len(s) /\ e - 1 < e
      BY <1>3, <3>4
    <3>8. \A i \in At(s, "output") : i <= e - 1
      BY <3>4, <3>5
    <3>9. \A w \in At(s, "CWD") : e - 1 < w
      BY <3>4, <3>6
    <3> QED BY <3>1, <3>3, <3>7, <3>8, <3>9
  <2> QED BY <2>1, <2>2
<1> DEFINE x == Extract(s)
<1>5. /\ Len(x) = z - b /\ DOMAIN x = 1..(z - b)
      /\ \A i \in 1..(z - b) : x[i] = s[i + b]
  <2>1. x = SubSeq(s, b + 1, z) BY <1>4
  <2>2. b \in Nat /\ z \in Nat /\ b <= z /\ z <= Len(s) BY <1>3, <1>4
  <2>3. /\ Len(SubSeq(s, b + 1, z)) = z - b /\ DOMAIN SubSeq(s, b + 1, z) = 1..(z - b)
        /\ \A i \in 1..(z - b) : SubSeq(s, b + 1, z)[i] = s[i + b]
    BY <2>2, PartFacts
  <2> HIDE DEF x
  <2> QED BY <2>1, <2>3
<1> HIDE DEF x
<1>6. \A kind : \A i \in At(x, kind) :
         i \in Nat /\ i > 0 /\ i <= z - b /\ i + b \in At(s, kind) /\ x[i] = s[i + b]
  <2> SUFFICES ASSUME NEW kind, NEW i \in At(x, kind)
               PROVE  /\ i \in Nat /\ i > 0 /\ i <= z - b
                      /\ i + b \in At(s, kind) /\ x[i] = s[i + b]
    OBVIOUS
  <2>1. i \in 1..(z - b) /\ x[i][1] = kind BY <1>5 DEF At
  <2>2. x[i] = s[i + b] BY <1>5, <2>1
  <2>3. i + b \in 1..Len(s) BY <1>3, <1>4, <2>1
  <2> QED BY <1>3, <1>4, <2>1, <2>2, <2>3 DEF At
<1>7. \A j \in At(s, "output") : j - b \in At(x, "output") /\ x[j - b] = s[j]
  <2> SUFFICES ASSUME NEW j \in At(s, "output")
               PROVE  j - b \in At(x, "output") /\ x[j - b] = s[j]
    OBVIOUS
  <2>1. j \in 1..Len(s) /\ s[j][1] = "output" BY DEF At
  <2>2. b < j BY <1>3 DEF Faithful
  <2>3. j - b \in 1..(z - b) /\ (j - b) + b = j BY <1>3, <1>4, <2>1, <2>2
  <2>4. x[j - b] = s[j] BY <1>5, <2>3
  <2> QED BY <1>5, <2>1, <2>3, <2>4 DEF At
<1>8. {x[i][2] : i \in At(x, "output")} = 1..n
  <2>1. \A i \in At(x, "output") : x[i][2] \in 1..n
    BY <1>6 DEF Faithful
  <2>2. ASSUME NEW n1 \in 1..n PROVE \E i \in At(x, "output") : x[i][2] = n1
    <3>1. PICK j \in At(s, "output") : s[j][2] = n1 BY <1>3 DEF Faithful
    <3> QED BY <1>7, <3>1
  <2> QED BY <2>1, <2>2
<1>9. ASSUME NEW i \in At(x, "output"), NEW j \in At(x, "output"), i < j
      PROVE  x[i][2] < x[j][2]
  <2>1. i + b < j + b BY <1>3, <1>6, <1>9
  <2>2. i + b \in At(s, "output") /\ j + b \in At(s, "output") BY <1>6
  <2>3. s[i + b][2] < s[j + b][2] BY <2>1, <2>2 DEF Faithful
  <2> QED BY <1>6, <2>3
<1>10. ASSUME NEW kind \in Markers, NEW i \in At(x, kind) PROVE FALSE
  <2>1. i \in Nat /\ i > 0 /\ i + b <= z /\ i + b \in At(s, kind)
    BY <1>3, <1>4, <1>6
  <2>2. kind = "BEGIN" => i + b = b
    BY <1>3, <2>1 DEF Single, Markers
  <2>3. kind = "END" => z < i + b
    BY <1>4, <2>1
  <2>4. kind = "CWD" => z < i + b
    BY <1>4, <2>1
  <2>5. b \in Nat /\ z \in Nat BY <1>3, <1>4
  <2> QED BY <2>1, <2>2, <2>3, <2>4, <2>5 DEF Markers
<1> QED BY <1>8, <1>9, <1>10 DEF Prints, x

\* A line that is not the command's does not change what is shown of it.
LEMMA OtherLine ==
    ASSUME TypeOK, InOrder, Faithful(pane, printed), NEW line \in Lines, PrintLine(line),
           line[1] # "output", InOrder', Single(pane'),
           line[1] = "BEGIN" => printed = 0 /\ At(pane, "BEGIN") = {},
           line[1] = "CWD" => At(pane, "END") # {} \/ At(pane, "BEGIN") = {}
    PROVE  Faithful(pane', printed)
<1> DEFINE d == Len(pane) + 1 - Len(pane')
<1>1. /\ pane' \in Seq(Lines) /\ Len(pane') \in Nat /\ Len(pane) \in Nat /\ Len(pane') > 0
      /\ Len(pane') <= Len(pane) + 1 /\ pane'[Len(pane')] = line
      /\ \A i \in 1..Len(pane') - 1 : pane'[i] = pane[i + d]
  BY Printed DEF TypeOK
<1>2. \A kind : \A i \in At(pane', kind) :
         \/ i = Len(pane') /\ line[1] = kind
         \/ i < Len(pane') /\ i + d \in At(pane, kind)
  BY Shifted
<1>3. \A kind : \A i \in At(pane', kind) : i \in Nat /\ i > 0 /\ i \in 1..Len(pane')
  BY <1>1 DEF At
<1>4. \A i \in At(pane', "output") :
         i < Len(pane') /\ i + d \in At(pane, "output") /\ pane'[i] = pane[i + d]
  BY <1>1, <1>2, <1>3
<1>5. \A kind : \A j \in At(pane, kind) :
         j > d => /\ j - d \in At(pane', kind) /\ j \in Nat
                  /\ kind = "output" => pane'[j - d] = pane[j]
  <2> SUFFICES ASSUME NEW kind, NEW j \in At(pane, kind), j > d
               PROVE  /\ j - d \in At(pane', kind) /\ j \in Nat
                      /\ kind = "output" => pane'[j - d] = pane[j]
    OBVIOUS
  <2>1. j \in 1..Len(pane) BY <1>1 DEF At, TypeOK
  <2>2. j - d \in 1..Len(pane') - 1 /\ (j - d) + d = j BY <1>1, <2>1
  <2> QED BY <1>1, <2>1, <2>2, Kept
<1>6. d \in Nat BY <1>1
<1>7. \A kind : \A j \in At(pane, kind) : j \in Nat BY DEF At, TypeOK
<1> HIDE DEF d
<1>8. \A i \in At(pane', "output") : pane'[i][2] \in 1..printed
  BY <1>4 DEF Faithful
<1>9. ASSUME NEW i \in At(pane', "output"), NEW j \in At(pane', "output"), i < j
      PROVE  pane'[i][2] < pane'[j][2]
  <2>1. i + d < j + d BY <1>3, <1>6, <1>9
  <2> QED BY <1>4, <2>1 DEF Faithful
<1>10. \A i \in At(pane', "output") : printed # 0
  BY <1>8
<1>11. ASSUME NEW b \in At(pane', "BEGIN"), NEW i \in At(pane', "output") PROVE b < i
  <2>1. b + d \in At(pane, "BEGIN") BY <1>2, <1>10
  <2>2. b + d < i + d BY <1>4, <2>1 DEF Faithful
  <2> QED BY <1>3, <1>6, <2>2
<1>12. ASSUME NEW e \in At(pane', "END"), NEW i \in At(pane', "output") PROVE i < e
  <2>1. CASE e = Len(pane') BY <1>4, <2>1
  <2>2. CASE e + d \in At(pane, "END")
    <3>1. i + d < e + d BY <1>4, <2>2 DEF Faithful
    <3> QED BY <1>3, <1>6, <3>1
  <2> QED BY <1>2, <2>1, <2>2
<1>13. ASSUME NEW b \in At(pane', "BEGIN"), NEW w \in At(pane', "CWD")
       PROVE  \E e \in At(pane', "END") : b < e /\ e < w
  <2>1. PICK e \in At(pane', "END") : TRUE
    BY <1>13 DEF InOrder
  <2> QED BY <2>1 DEF InOrder
<1>14. ASSUME NEW b \in At(pane', "BEGIN"), NEW n1 \in 1..printed
       PROVE  \E i \in At(pane', "output") : pane'[i][2] = n1
  <2>1. b + d \in At(pane, "BEGIN") BY <1>2, <1>14
  <2>2. PICK j \in At(pane, "output") : pane[j][2] = n1
    BY <2>1 DEF Faithful
  <2>3. b + d < j BY <2>1, <2>2 DEF Faithful
  <2>4. j > d BY <1>3, <1>6, <1>7, <2>2, <2>3
  <2> QED BY <1>5, <2>2, <2>4
<1> QED BY <1>8, <1>9, <1>11, <1>12, <1>13, <1>14 DEF Faithful

\* The command's next line.
LEMMA OwnLine ==
    ASSUME TypeOK, InOrder, Faithful(pane, printed), At(pane, "END") = {},
           At(pane, "CWD") = {}, PrintLine(Own(printed + 1)), Own(printed + 1) \in Lines
    PROVE  Faithful(pane', printed + 1)
<1> DEFINE d == Len(pane) + 1 - Len(pane')
           line == Own(printed + 1)
<1>0. line[1] = "output" /\ line[2] = printed + 1 /\ line \in Lines /\ printed \in Nat
  BY BoundsAssumption DEF Own, TypeOK
<1>1. /\ pane' \in Seq(Lines) /\ Len(pane') \in Nat /\ Len(pane) \in Nat /\ Len(pane') > 0
      /\ Len(pane') <= Len(pane) + 1 /\ pane'[Len(pane')] = line
      /\ \A i \in 1..Len(pane') - 1 : pane'[i] = pane[i + d]
  BY Printed DEF TypeOK
<1>2. \A kind : \A i \in At(pane', kind) :
         \/ i = Len(pane') /\ line[1] = kind
         \/ i < Len(pane') /\ i + d \in At(pane, kind)
  BY Shifted
<1> HIDE DEF line
<1>3. \A kind : \A i \in At(pane', kind) : i \in Nat /\ i > 0 /\ i \in 1..Len(pane')
  BY <1>1 DEF At
<1>4. \A i \in At(pane', "output") :
         \/ i = Len(pane') /\ pane'[i][2] = printed + 1
         \/ i < Len(pane') /\ i + d \in At(pane, "output") /\ pane'[i] = pane[i + d]
  <2> SUFFICES ASSUME NEW i \in At(pane', "output"), i # Len(pane')
               PROVE  i < Len(pane') /\ i + d \in At(pane, "output") /\ pane'[i] = pane[i + d]
    BY <1>0, <1>1
  <2>1. i < Len(pane') /\ i + d \in At(pane, "output") BY <1>2
  <2>2. i \in 1..Len(pane') - 1 BY <1>1, <1>3, <2>1
  <2> QED BY <1>1, <2>1, <2>2
<1>5. \A j \in At(pane, "output") :
         j > d => j - d \in At(pane', "output") /\ pane'[j - d] = pane[j]
  <2> SUFFICES ASSUME NEW j \in At(pane, "output"), j > d
               PROVE  j - d \in At(pane', "output") /\ pane'[j - d] = pane[j]
    OBVIOUS
  <2>1. j \in 1..Len(pane) BY <1>1 DEF At, TypeOK
  <2>2. j - d \in 1..Len(pane') - 1 /\ (j - d) + d = j BY <1>1, <2>1
  <2> QED BY <1>1, <2>1, <2>2, Kept
<1>6. d \in Nat BY <1>1
<1>7. \A kind : \A j \in At(pane, kind) : j \in Nat BY DEF At, TypeOK
<1>8. \A kind : kind # "output" =>
         \A i \in At(pane', kind) : i < Len(pane') /\ i + d \in At(pane, kind)
  BY <1>0, <1>2
<1>9. Len(pane') \in At(pane', "output")
  BY <1>0, <1>1 DEF At
<1> HIDE DEF d
<1>10. \A i \in At(pane', "output") : pane'[i][2] \in 1..printed + 1
  BY <1>0, <1>4 DEF Faithful
<1>11. ASSUME NEW i \in At(pane', "output"), NEW j \in At(pane', "output"), i < j
       PROVE  pane'[i][2] < pane'[j][2]
  <2>1. i < Len(pane') /\ i + d \in At(pane, "output") /\ pane'[i] = pane[i + d]
    <3>1. j <= Len(pane') /\ i \in Nat /\ j \in Nat BY <1>1, <1>3
    <3>2. i # Len(pane') BY <1>1, <1>11, <3>1
    <3> QED BY <1>4, <3>2
  <2>2. CASE j = Len(pane')
    <3>1. pane'[i][2] \in 1..printed BY <2>1 DEF Faithful
    <3>2. pane'[j][2] = printed + 1 BY <1>0, <1>1, <2>2
    <3> QED BY <1>0, <3>1, <3>2
  <2>3. CASE j + d \in At(pane, "output") /\ pane'[j] = pane[j + d]
    <3>1. i + d < j + d BY <1>3, <1>6, <1>11
    <3> QED BY <2>1, <2>3, <3>1 DEF Faithful
  <2> QED BY <1>4, <2>2, <2>3
<1>12. ASSUME NEW b \in At(pane', "BEGIN"), NEW i \in At(pane', "output") PROVE b < i
  <2>1. b < Len(pane') /\ b + d \in At(pane, "BEGIN") BY <1>8
  <2>2. CASE i = Len(pane') BY <2>1, <2>2
  <2>3. CASE i + d \in At(pane, "output")
    <3>1. b + d < i + d BY <2>1, <2>3 DEF Faithful
    <3> QED BY <1>3, <1>6, <3>1
  <2> QED BY <1>4, <2>2, <2>3
<1>13. At(pane', "END") = {} /\ At(pane', "CWD") = {}
  BY <1>8
<1>14. ASSUME NEW b \in At(pane', "BEGIN"), NEW n1 \in 1..printed + 1
       PROVE  \E i \in At(pane', "output") : pane'[i][2] = n1
  <2>1. CASE n1 = printed + 1
    BY <1>0, <1>1, <1>9, <2>1
  <2>2. CASE n1 # printed + 1
    <3>1. b + d \in At(pane, "BEGIN") BY <1>8
    <3>2. n1 \in 1..printed BY <1>0, <2>2
    <3>3. PICK j \in At(pane, "output") : pane[j][2] = n1
      BY <3>1, <3>2 DEF Faithful
    <3>4. b + d < j BY <3>1, <3>3 DEF Faithful
    <3>5. j > d BY <1>3, <1>6, <1>7, <3>3, <3>4
    <3> QED BY <1>5, <3>3, <3>5
  <2> QED BY <2>1, <2>2
<1> QED BY <1>10, <1>11, <1>12, <1>13, <1>14 DEF Faithful

\* What the pane shows stays true of what was printed.
LEMMA ShownStep == IInv /\ [Next]_vars => Shown'
<1> SUFFICES ASSUME IInv, [Next]_vars PROVE Shown' OBVIOUS
<1>1. InOrder' /\ Single(pane')
  BY OrderStep
<1>2. printed \in Nat
  BY BoundsAssumption DEF IInv, TypeOK
<1> USE DEF IInv
<1>3. CASE Begin \/ End \/ Cwd \/ OtherOutput
  <2>1. PICK kind \in Markers \cup {"other"} :
          /\ PrintLine(Mark(kind))
          /\ kind = "BEGIN" => Begin
          /\ kind = "CWD" => Cwd
    BY <1>3 DEF Begin, End, Cwd, OtherOutput, Markers
  <2>2. Mark(kind) \in Lines /\ Mark(kind)[1] = kind /\ kind # "output"
    BY Kinds DEF Lines, Markers
  <2>3. kind = "BEGIN" => printed = 0 /\ At(pane, "BEGIN") = {}
    BY <2>1 DEF Begin, Shown, InOrder
  <2>4. kind = "CWD" => At(pane, "END") # {} \/ At(pane, "BEGIN") = {}
    BY <2>1 DEF Cwd, InOrder
  <2>5. Faithful(pane', printed)
    BY <1>1, <2>1, <2>2, <2>3, <2>4, OtherLine DEF Shown
  <2>6. printed' = printed /\ last' = last /\ pc' = pc
        /\ (shell' = "typed" => shell = "typed")
    BY <1>3 DEF Begin, End, Cwd, OtherOutput, client, program
  <2> QED BY <2>5, <2>6 DEF Shown
<1>4. CASE Output
  <2>1. /\ PrintLine(Own(printed + 1)) /\ printed' = printed + 1 /\ last' = last /\ pc' = pc
        /\ shell = "running" /\ shell' = "running"
    BY <1>4 DEF Output, client
  <2>2. Own(printed + 1) \in Lines
    BY <1>4, BoundsAssumption DEF Output, Lines, TypeOK
  <2>3. pc # "paste" /\ At(pane, "END") = {} /\ At(pane, "CWD") = {}
    BY <2>1 DEF InOrder
  <2>4. Faithful(pane', printed + 1)
    BY <2>1, <2>2, <2>3, OwnLine DEF Shown
  <2>5. \E n \in 0..printed' : Faithful(last, n)
    BY <1>2, <2>1 DEF Shown
  <2> QED BY <2>1, <2>3, <2>4, <2>5 DEF Shown
<1>5. CASE Clear
  <2>1. \A kind : At(pane', kind) = {}
    BY <1>5 DEF Clear, At
  <2>2. Faithful(pane', printed)
    BY <2>1 DEF Faithful
  <2> QED BY <1>5, <2>2 DEF Clear, client, program, Shown
<1>6. CASE Poll
  <2>1. last' = Capture(PollLines) /\ pane' = pane /\ printed' = printed /\ shell' = shell
        /\ pc # "paste" /\ pc' # "paste"
    BY <1>6 DEF Poll, program
  <2>2. Faithful(last', printed)
    BY <2>1, FaithfulCapture, Limits DEF Shown
  <2>3. printed \in 0..printed BY <1>2
  <2> QED BY <2>1, <2>2, <2>3 DEF Shown
<1>7. CASE RunStep \/ PasteFails \/ CaptureFails \/ UNCHANGED vars
  <2>1. pane' = pane /\ printed' = printed /\ last' = last
    BY <1>7 DEF RunStep, Paste, FinalCapture, Timeout, PasteFails, CaptureFails, vars,
       program, client
  <2>2. pc' = "paste" \/ shell' = "typed" => pc = "paste" \/ shell = "typed"
    <3>1. CASE Paste \/ PasteFails BY <3>1 DEF Paste, PasteFails
    <3>2. CASE FinalCapture BY <3>2 DEF FinalCapture, Return, program
    <3>3. CASE Timeout BY <3>3 DEF Timeout, Return, program
    <3>4. CASE CaptureFails BY <3>4 DEF CaptureFails, Return, program
    <3>5. CASE UNCHANGED vars BY <3>5 DEF vars, client, program
    <3> QED BY <1>7, <3>1, <3>2, <3>3, <3>4, <3>5 DEF RunStep
  <2> QED BY <2>1, <2>2 DEF Shown
<1> QED BY <1>3, <1>4, <1>5, <1>6, <1>7 DEF Next

\* What run_in_pane returns was cut out of a faithful screen.
LEMMA ResultStep == IInv /\ [Next]_vars => (CompleteOrError /\ PartialIsPrefix)'
<1> SUFFICES ASSUME IInv, [Next]_vars PROVE CompleteOrError' /\ PartialIsPrefix' OBVIOUS
<1>1. printed \in Nat
  BY BoundsAssumption DEF IInv, TypeOK
<1> USE DEF IInv
<1>2. CASE FinalCapture
  <2>1. WholeHistory = pane
    BY LastLinesFacts, Limits DEF WholeHistory, Capture, TypeOK
  <2>2. printed' = printed
    BY <1>2 DEF FinalCapture, program
  <2>3. CASE Complete(pane) /\ Begins(pane) # {}
    <3>1. result' = [kind |-> "done", stdout |-> Extract(pane)]
      BY <1>2, <2>1, <2>3 DEF FinalCapture, Return
    <3>2. Prints(Extract(pane), printed)
      BY <1>1, <2>3, Cut DEF Shown, TypeOK
    <3> QED BY <2>2, <3>1, <3>2 DEF CompleteOrError, PartialIsPrefix
  <2>4. CASE ~(Complete(pane) /\ Begins(pane) # {})
    <3>1. result'.kind = "error"
      BY <1>2, <2>1, <2>4 DEF FinalCapture, Return
    <3> QED BY <3>1 DEF CompleteOrError, PartialIsPrefix
  <2> QED BY <2>3, <2>4
<1>3. CASE Timeout
  <2>1. PICK screen \in {last, Capture(TimeoutLines)} :
           result' = [kind |-> "timed_out", stdout |-> Partial(screen)]
    BY <1>3 DEF Timeout, Return
  <2>2. printed' = printed
    BY <1>3 DEF Timeout, program
  <2>3. Capture(TimeoutLines) \in Seq(Lines) /\ Single(Capture(TimeoutLines))
        /\ Faithful(Capture(TimeoutLines), printed)
    BY LastLinesFacts, CaptureSingle, FaithfulCapture, Limits DEF Capture, TypeOK, Shown
  <2>4. PICK n \in 0..printed : Faithful(last, n)
    BY DEF Shown
  <2>5. screen \in Seq(Lines) /\ Single(screen) /\ \E n1 \in 0..printed : Faithful(screen, n1)
    <3>1. printed \in 0..printed BY <1>1
    <3> QED BY <2>1, <2>3, <2>4, <3>1 DEF TypeOK
  <2>6. Partial(screen) \in {Extract(screen), Extract(last), << >>}
        /\ (Partial(screen) # << >> =>
              \/ Begins(screen) # {} /\ Partial(screen) = Extract(screen)
              \/ Begins(last) # {} /\ Partial(screen) = Extract(last))
    BY DEF Partial
  <2>7. ASSUME NEW s \in Seq(Lines), Single(s), NEW n1 \in 0..printed, Faithful(s, n1),
               Begins(s) # {}, Partial(screen) = Extract(s)
        PROVE  /\ \E n2 \in 0..printed : Prints(Partial(screen), n2)
               /\ \A kind \in Markers : At(Partial(screen), kind) = {}
    <3>1. n1 \in Nat BY <1>1
    <3> QED BY <2>7, <3>1, Cut
  <2>8. CASE Partial(screen) = << >>
    <3>1. \A kind : At(Partial(screen), kind) = {}
      BY <2>8 DEF At
    <3>2. Prints(Partial(screen), 0) /\ 0 \in 0..printed
      BY <1>1, <3>1 DEF Prints
    <3> QED BY <2>1, <2>2, <3>1, <3>2 DEF CompleteOrError, PartialIsPrefix
  <2>9. CASE Partial(screen) # << >>
    <3>1. /\ \E n2 \in 0..printed : Prints(Partial(screen), n2)
          /\ \A kind \in Markers : At(Partial(screen), kind) = {}
      <4>1. CASE Begins(screen) # {} /\ Partial(screen) = Extract(screen)
        BY <2>5, <2>7, <4>1
      <4>2. CASE Begins(last) # {} /\ Partial(screen) = Extract(last)
        BY <2>4, <2>7, <4>2 DEF TypeOK
      <4> QED BY <2>6, <2>9, <4>1, <4>2
    <3> QED BY <2>1, <2>2, <3>1 DEF CompleteOrError, PartialIsPrefix
  <2> QED BY <2>8, <2>9
<1>4. CASE PasteFails \/ CaptureFails
  <2>1. result'.kind = "error"
    BY <1>4 DEF PasteFails, CaptureFails, Return
  <2> QED BY <2>1 DEF CompleteOrError, PartialIsPrefix
<1>5. CASE Begin \/ Output \/ End \/ Cwd \/ OtherOutput \/ Clear \/ Paste \/ Poll
          \/ UNCHANGED vars
  <2>1. result' = result
    BY <1>5 DEF Begin, Output, End, Cwd, OtherOutput, Clear, Paste, Poll, client, vars
  <2>2. result.kind = "done" => printed' = printed
    BY <1>5 DEF Begin, Output, End, Cwd, OtherOutput, Clear, Paste, Poll, program, vars,
       SeenComplete
  <2>3. printed' = printed \/ printed' = printed + 1
    BY <1>5 DEF Begin, Output, End, Cwd, OtherOutput, Clear, Paste, Poll, program, vars
  <2>4. \A n \in 0..printed : n \in 0..printed'
    BY <1>1, <2>3
  <2> QED BY <2>1, <2>2, <2>4 DEF CompleteOrError, PartialIsPrefix
<1> QED BY <1>2, <1>3, <1>4, <1>5 DEF Next, RunStep

\* The invariant is inductive.
LEMMA Invariance == Spec => []IInv
<1>1. Init => IInv
  <2> SUFFICES ASSUME Init PROVE IInv OBVIOUS
  <2>1. TypeOK BY BoundsAssumption, Limits DEF Init, TypeOK
  <2>2. Single(pane) /\ Single(last) /\ InOrder /\ SeenComplete /\ NoSpuriousError
    BY DEF Init, Single, InOrder, SeenComplete, NoSpuriousError, At
  <2>3. \A kind : At(pane, kind) = {}
    BY DEF Init, At
  <2>4. Shown
    <3>1. \A kind : At(last, kind) = {} BY DEF Init, At
    <3>2. 0 \in 0..printed /\ printed = 0 BY DEF Init
    <3>3. Faithful(pane, printed) /\ Faithful(last, 0)
      BY <2>3, <3>1, <3>2 DEF Faithful
    <3> QED BY <3>2, <3>3 DEF Shown
  <2>5. CompleteOrError /\ PartialIsPrefix
    BY DEF Init, CompleteOrError, PartialIsPrefix
  <2> QED BY <2>1, <2>2, <2>4, <2>5 DEF IInv
<1>2. IInv /\ [Next]_vars => IInv'
  BY TypeStep, OrderStep, SeenStep, ShownStep, ResultStep DEF IInv
<1> QED BY <1>1, <1>2, PTL DEF Spec

(* The theorems                                                            *)

\* Type correctness: in particular every output is a part of one screen, and
\* no screen is longer than what was asked of tmux.
THEOREM TypeCorrect == Spec => []TypeOK
BY Invariance, PTL DEF IInv

\* A command that is reported as completed comes with every line that it
\* printed, in order, however long the output and wherever the polls fell.
THEOREM OutputIsComplete == Spec => []CompleteOrError
BY Invariance, PTL DEF IInv

\* What a command that timed out comes with is the beginning of its own
\* output, without any other program's lines before it.
THEOREM PartialOutputIsPrefix == Spec => []PartialIsPrefix
BY Invariance, PTL DEF IInv

\* run_in_pane does not fail while tmux answers and still has the beginning
\* of the output.
THEOREM ErrorsHaveACause == Spec => []NoSpuriousError
BY Invariance, PTL DEF IInv
=============================================================================
