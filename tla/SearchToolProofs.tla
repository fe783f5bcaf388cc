-------------------------- MODULE SearchToolProofs --------------------------
(***************************************************************************)
(* Proofs about SearchTool, for any limit, any number of lines to find and *)
(* any line breaks within them.                                            *)
(***************************************************************************)
EXTENDS SearchTool, TLAPS

\* The helper counts what there is, up to the limit.
Counted ==
    /\ lines \in Nat /\ printed \in Nat /\ lines <= printed /\ lines <= Limit
    /\ printed <= MaxPrinted

\* Which process belongs to which stage of the helper.
Staged ==
    /\ search \in {"none", "grep", "glob"}
    /\ search = "none" <=> helper = "idle"
    /\ helper = "idle" =>
          /\ child = "none" /\ status = "none" /\ answer.kind = "none"
          /\ lines = 0 /\ printed = 0 /\ ~stopped
    /\ helper \in {"starting", "reading", "polling", "waiting", "killing", "interrupted",
                   "unwinding", "aborted"} =>
          search = "grep" /\ child # "none"
    /\ helper = "walking" => search = "glob"
    /\ search = "glob" => child = "none"
    /\ child = "running" => helper \in {"starting", "reading", "polling"}
    /\ child = "exited" => status # "none"
    /\ helper = "unwinding" => child \in {"killed", "exited"}
    /\ helper = "gone" => child \in {"none", "killed", "exited"}

\* Nobody dies of a signal without a reason: the limit, or trouble.
Blamed ==
    /\ child \in {"signalled", "killed"} \/ status = "signal" => stopped \/ trouble
    /\ status = "trouble" => trouble
    /\ helper \in {"interrupted", "unwinding", "aborted"} => trouble
    /\ status \in {"none", "success", "trouble", "signal"}

\* A helper that stopped reading has all there is, or what it was asked for.
Enough ==
    /\ helper \in {"starting", "reading"} => lines < Limit /\ ~stopped
    /\ helper = "polling" => lines = Limit /\ ~stopped
    /\ helper \in {"waiting", "killing"} =>
          /\ lines = Limit \/ (child = "exited" /\ lines = printed)
          /\ child = "exited" \/ stopped
    /\ stopped => lines = Limit
    /\ helper = "gone" /\ code = 0 =>
          /\ child \in {"none", "exited"}
          /\ lines = Limit \/ lines = printed
          /\ search = "grep" => stopped \/ status = "success"
    /\ helper \in Exited /\ code # 0 => trouble
    /\ helper = "aborted" => code # 0
    /\ answer.kind = "ok" => helper = "gone" /\ code = 0

\* The parts of SearchIsExact; the number of splits is one.
WholeLines ==
    answer.kind = "ok" /\ answer.splits = 0 =>
        /\ answer.truncated <=> printed > MaxResults
        /\ answer.count = IF printed < MaxResults THEN printed ELSE MaxResults
Unmarked ==
    answer.kind = "ok" /\ ~answer.truncated =>
        /\ lines = printed
        /\ answer.count = lines + answer.splits
        /\ search = "grep" => status = "success"
ErrorsHaveCauses == answer.kind = "error" => trouble

IInv ==
    /\ Parameters /\ Counted /\ Staged /\ Blamed /\ Enough
    /\ WholeLines /\ Unmarked /\ ErrorsHaveCauses

\* The invariant holds before the call and says what the properties say.
LEMMA Base ==
    /\ Parameters /\ Init => IInv
    /\ IInv => SearchIsExact /\ ChildGone
BY DEF Parameters, Init, IInv, Counted, Staged, Blamed, Enough, WholeLines, Unmarked,
   ErrorsHaveCauses, Limit, Exited, SearchIsExact, ChildGone

\* An answer that reports matches is made of what the helper had.
LEMMA AnswerStep == ASSUME IInv, Answer PROVE IInv'
<1> USE DEF IInv, Parameters, Counted, Staged, Blamed, Enough, Limit, Exited
<1>1. CASE code # 0
  BY <1>1 DEF Answer, Failure, WholeLines, Unmarked, ErrorsHaveCauses
<1>2. CASE code = 0
  <2>1. PICK m \in lines..(IF lines = 0 THEN 0 ELSE lines + MaxSplits) : answer' = Success(m)
    BY <1>2 DEF Answer
  <2>2. m \in Nat /\ m >= lines
    BY <2>1
  <2>3. /\ answer'.kind = "ok" /\ answer'.splits = m - lines
        /\ answer'.count = IF m < MaxResults THEN m ELSE MaxResults
    BY <2>1 DEF Success
  <2>4. answer'.truncated <=> m > MaxResults
    BY <2>1, Zenon DEF Success
  <2>5. UNCHANGED <<search, helper, child, printed, lines, stopped, status, code, trouble>>
        /\ helper = "gone"
    BY <1>2 DEF Answer
  <2>6. Unmarked'
    BY <1>2, <2>2, <2>3, <2>4, <2>5 DEF Unmarked
  <2>7. WholeLines'
    <3>1. answer'.splits = 0 => m = lines
      BY <2>2, <2>3
    <3>2. lines = Limit \/ lines = printed
      BY <1>2, <2>5
    <3> QED BY <2>2, <2>3, <2>4, <2>5, <3>1, <3>2 DEF WholeLines
  <2>8. ErrorsHaveCauses'
    BY <2>3 DEF ErrorsHaveCauses
  <2> QED BY <1>2, <2>3, <2>5, <2>6, <2>7, <2>8
<1> QED BY <1>1, <1>2

\* The other steps of the helper, of the process and of the rest of the world.
LEMMA Step == IInv /\ [Next]_vars => IInv'
<1> SUFFICES ASSUME IInv, [Next]_vars PROVE IInv' OBVIOUS
<1> USE DEF IInv, Parameters, Counted, Staged, Blamed, Enough, Limit, Exited,
        WholeLines, Unmarked, ErrorsHaveCauses
<1>1. CASE Popen BY <1>1 DEF Popen
<1>2. CASE PopenFails BY <1>2 DEF PopenFails, Exit
<1>3. CASE ReadLine BY <1>3 DEF ReadLine
<1>4. CASE EndOfOutput BY <1>4 DEF EndOfOutput
<1>5. CASE Poll BY <1>5 DEF Poll
<1>6. CASE WaitTimeout BY <1>6 DEF WaitTimeout, KillChild
<1>7. CASE Reap BY <1>7 DEF Reap, Exit
<1>8. CASE ChildPrints BY <1>8 DEF ChildPrints
<1>9. CASE ChildExits BY <1>9 DEF ChildExits
<1>10. CASE ChildDies BY <1>10 DEF ChildDies
<1>11. CASE ChildKilled BY <1>11 DEF ChildKilled
<1>12. CASE GlobStart BY <1>12 DEF GlobStart
<1>13. CASE GlobStep BY <1>13 DEF GlobStep, Exit
<1>14. CASE GlobFails BY <1>14 DEF GlobFails, Exit
<1>15. CASE Interrupt
  <2>1. /\ trouble' = TRUE /\ child' = (IF child = "running" THEN "signalled" ELSE child)
        /\ helper \notin {"idle", "gone", "aborted"}
        /\ UNCHANGED <<search, printed, lines, stopped, status, answer>>
    BY <1>15 DEF Interrupt
  <2>2. answer.kind # "ok"
    BY <2>1
  <2>3. /\ helper' \in {"gone", "aborted"} => code' = 130
        /\ helper' \in {"gone", "aborted", "interrupted"}
        /\ helper' = "gone" => child = "none" \/ helper = "unwinding"
        /\ helper' # "gone" => helper \notin {"walking", "unwinding"} /\ child # "none"
    BY <1>15 DEF Interrupt, Exit
  <2>4. Counted' /\ WholeLines' /\ Unmarked' /\ ErrorsHaveCauses'
    BY <2>1, <2>2
  <2>5. Staged'
    BY <2>1, <2>2, <2>3
  <2>6. Blamed'
    BY <2>1, <2>3
  <2>7. Enough'
    BY <2>1, <2>2, <2>3
  <2> QED BY <2>4, <2>5, <2>6, <2>7
<1>16. CASE Unwind BY <1>16 DEF Unwind
<1>17. CASE Reraise BY <1>17 DEF Reraise, Exit
<1>18. CASE Answer BY <1>18, AnswerStep
<1>19. CASE AnswerFails BY <1>19 DEF AnswerFails, Failure
<1>20. CASE EnterTry BY <1>20 DEF EnterTry
<1>21. CASE UNCHANGED vars BY <1>21 DEF vars
<1> QED
  BY <1>1, <1>2, <1>3, <1>4, <1>5, <1>6, <1>7, <1>8, <1>9, <1>10, <1>11, <1>12, <1>13,
     <1>14, <1>15, <1>16, <1>17, <1>18, <1>19, <1>20, <1>21 DEF Next, HelperStep

\* What the theorems have in common.
LEMMA Invariance == Parameters /\ Spec => [](IInv /\ SearchIsExact /\ ChildGone)
<1>1. Parameters /\ Init => IInv BY Base
<1>2. IInv /\ [Next]_vars => IInv' BY Step
<1>3. IInv => SearchIsExact /\ ChildGone BY Base
<1> QED BY <1>1, <1>2, <1>3, PTL DEF Spec

\* A search without line breaks in its matches says how many there are, up to
\* max_results, and whether there are more, however the end of the process
\* falls around the limit; one that says there are no more has them all; it
\* fails only for a reason, and being stopped at the limit is none.
THEOREM SearchesAreExact == Parameters /\ Spec => []SearchIsExact
BY Invariance, PTL

\* When the helper has exited, the process it started has ended or got a
\* SIGKILL, except where a C-c struck before the try or the handler's kill.
THEOREM NoProcessLeft == Parameters /\ Spec => []ChildGone
BY Invariance, PTL

\* Every variable of a search keeps to its type.
THEOREM SearchTyped == Parameters /\ Spec => []TypeOK
<1> DEFINE Rest ==
      /\ helper \in {"idle", "starting", "reading", "polling", "waiting", "killing",
                     "walking", "interrupted", "unwinding", "gone", "aborted"}
      /\ child \in {"none", "running", "signalled", "killed", "exited"}
      /\ stopped \in BOOLEAN /\ trouble \in BOOLEAN /\ code \in {0, 2, 130}
      /\ answer.kind \in {"none", "ok", "error"}
<1>1. Init => Rest
  <2> SUFFICES ASSUME Init PROVE Rest
    OBVIOUS
  <2>1. answer.kind = "none" /\ helper = "idle" /\ child = "none" /\ code = 0
    BY DEF Init
  <2>2. stopped = FALSE /\ trouble = FALSE
    BY DEF Init
  <2> QED BY <2>1, <2>2
<1>2. IInv /\ Rest /\ [Next]_vars => Rest'
  <2> SUFFICES ASSUME IInv, Rest, [Next]_vars PROVE Rest'
    OBVIOUS
  <2> USE DEF Exit
  <2>1. CASE Popen \/ PopenFails \/ GlobStart \/ GlobStep \/ GlobFails
    BY <2>1 DEF Popen, PopenFails, GlobStart, GlobStep, GlobFails
  <2>2. CASE EnterTry \/ ReadLine \/ EndOfOutput \/ Poll \/ WaitTimeout \/ Reap
    <3>1. CASE EnterTry \/ ReadLine \/ EndOfOutput
      BY <3>1 DEF EnterTry, ReadLine, EndOfOutput
    <3>2. CASE Poll
      BY <3>2 DEF Poll
    <3>3. CASE WaitTimeout
      BY <3>3 DEF WaitTimeout, KillChild
    <3>4. CASE Reap
      BY <3>4 DEF Reap
    <3> QED BY <2>2, <3>1, <3>2, <3>3, <3>4
  <2>3. CASE ChildPrints \/ ChildExits \/ ChildDies \/ ChildKilled
    <3>1. CASE ChildPrints
      BY <3>1 DEF ChildPrints
    <3>2. CASE ChildExits
      BY <3>2 DEF ChildExits
    <3>3. CASE ChildDies
      BY <3>3 DEF IInv, Blamed, ChildDies
    <3>4. CASE ChildKilled
      BY <3>4 DEF IInv, Blamed, ChildKilled
    <3> QED BY <2>3, <3>1, <3>2, <3>3, <3>4
  <2>4. CASE Interrupt \/ Unwind \/ Reraise
    <3>1. CASE Interrupt
      BY <3>1 DEF Interrupt
    <3>2. CASE Unwind
      BY <3>2 DEF Unwind
    <3>3. CASE Reraise
      BY <3>3 DEF Reraise
    <3> QED BY <2>4, <3>1, <3>2, <3>3
  <2>5. CASE Answer \/ AnswerFails
    <3>1. answer'.kind \in {"ok", "error"}
      BY <2>5 DEF Answer, AnswerFails, Success, Failure
    <3>2. helper' = helper /\ child' = child /\ code' = code
      BY <2>5 DEF Answer, AnswerFails
    <3>3. stopped' \in BOOLEAN /\ trouble' \in BOOLEAN
      BY <2>5, Zenon DEF Answer, AnswerFails
    <3> QED BY <3>1, <3>2, <3>3
  <2>6. CASE UNCHANGED vars
    BY <2>6 DEF vars
  <2> QED BY <2>1, <2>2, <2>3, <2>4, <2>5, <2>6 DEF Next, HelperStep
<1>3. IInv /\ Rest => TypeOK
  BY DEF IInv, Counted, Staged, Blamed, TypeOK
<1> QED BY <1>1, <1>2, <1>3, Invariance, PTL DEF Spec
=============================================================================
