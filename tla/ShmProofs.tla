----------------------------- MODULE ShmProofs -----------------------------
(***************************************************************************)
(* Theorems about lab3 (ShmDivision), for any number of lines and          *)
(* sessions: the type invariant, what a session that found no old          *)
(* semaphores promises, and that the exit line heals.                      *)
(***************************************************************************)
EXTENDS ShmDivision, TLAPS

(* Every line is posted to the child once, taken once and posted back once, *)
(* in all sessions together.                                                *)
InHand == IF child \in {"woken", "dividing", "posting"} THEN 1 ELSE 0
ToPost == IF parent = "posting" THEN 1 ELSE 0

PostsAreLines == semParent + semChild + InHand + ToPost <= typed

(* A session that is over left no process, and one that came to its own end *)
(* no semaphore.                                                            *)
OverIsOver ==
  /\ parent \in {"ended", "killed"} => child = "exited"
  /\ parent = "ended" => semParent = 0 /\ semChild = 0

(* The memory holds the answer to the line sent last.                       *)
Answered == mem.n = sent.n /\ mem.kind \in {"quotient", "error"}

(* In a clean session the line is with the parent, or on its way to the     *)
(* child, or with the child, or on its way back.                            *)
WithParent ==
  /\ child \in {"starting", "waiting", "exited"}
  /\ semParent = 0 /\ semChild = 0

OnItsWay ==
  \/ /\ child \in {"starting", "waiting", "exited"}
     /\ semParent = 1 /\ semChild = 0 /\ mem = sent
  \/ child \in {"woken", "dividing"} /\ semParent = 0 /\ semChild = 0 /\ mem = sent
  \/ child = "posting" /\ semParent = 0 /\ semChild = 0 /\ Answered
  \/ child = "waiting" /\ semParent = 0 /\ semChild = 1 /\ Answered
  \/ child = "exited" /\ semParent = 0 /\ semChild = 0

CleanTurns ==
  clean =>
    /\ parent \in {"command", "posting", "printing"} => WithParent
    /\ parent \in {"posting", "waiting", "printing"} => sent.n = typed
    /\ parent = "posting" => mem = sent
    /\ parent = "waiting" => OnItsWay
    /\ parent = "printing" => Answered
    /\ AnswerShown

IInv == TypeOK /\ PostsAreLines /\ OverIsOver /\ CleanTurns
-----------------------------------------------------------------------------
LEMMA InitInv == Init => IInv
BY ShmAssumption
DEF Init, IInv, TypeOK, PostsAreLines, InHand, ToPost, OverIsOver, CleanTurns, WithParent,
    AnswerShown, Words, Nothing, ParentStates, ChildStates

LEMMA TypeStep ==
  ASSUME IInv, [Next]_vars
  PROVE  TypeOK' /\ PostsAreLines' /\ OverIsOver'
<1> USE ShmAssumption DEF TypeOK, PostsAreLines, InHand, ToPost, OverIsOver, Words, Nothing,
        ParentStates, ChildStates, LineKinds
<1>1. TypeOK /\ PostsAreLines /\ OverIsOver
  BY DEF IInv
<1>2. ASSUME NEW k \in LineKinds, CopyLine(k) PROVE TypeOK' /\ PostsAreLines' /\ OverIsOver'
  BY <1>1, <1>2 DEF CopyLine
<1>3. CASE PostLine
  BY <1>1, <1>3 DEF PostLine
<1>4. CASE WaitAnswer
  BY <1>1, <1>4 DEF WaitAnswer, Posted, Taken
<1>5. CASE PrintAnswer
  BY <1>1, <1>5 DEF PrintAnswer
<1>6. CASE CleanUp
  BY <1>1, <1>6 DEF CleanUp, Removed
<1>7. CASE StartChild
  BY <1>1, <1>7 DEF StartChild
<1>8. CASE WaitLine
  BY <1>1, <1>8 DEF WaitLine, Posted, Taken
<1>9. CASE LookAtLine
  BY <1>1, <1>9 DEF LookAtLine
<1>10. CASE Divide
  BY <1>1, <1>10 DEF Divide
<1>11. CASE PostAnswer
  BY <1>1, <1>11 DEF PostAnswer, Posts
<1>12. CASE ChildFails
  BY <1>1, <1>12 DEF ChildFails
<1>13. CASE Interrupt
  BY <1>1, <1>13 DEF Interrupt
<1>14. CASE Restart
  BY <1>1, <1>14 DEF Restart
<1>15. CASE UNCHANGED vars
  BY <1>1, <1>15 DEF vars
<1> QED BY <1>2, <1>3, <1>4, <1>5, <1>6, <1>7, <1>8, <1>9, <1>10, <1>11, <1>12, <1>13, <1>14,
           <1>15 DEF Next, ParentWork, ChildWork

LEMMA TurnStep ==
  ASSUME IInv, [Next]_vars
  PROVE  CleanTurns'
<1> USE DEF CleanTurns, WithParent, OnItsWay, Answered, AnswerShown
<1>1. /\ TypeOK /\ OverIsOver /\ CleanTurns
  BY DEF IInv
<1>2. ASSUME NEW k \in LineKinds, CopyLine(k) PROVE CleanTurns'
  BY <1>1, <1>2 DEF CopyLine, LineKinds
<1>3. CASE PostLine
  BY <1>1, <1>3 DEF PostLine
<1>4. CASE WaitAnswer
  BY <1>1, <1>4 DEF WaitAnswer, Posted, Taken
<1>5. CASE PrintAnswer
  BY <1>1, <1>5 DEF PrintAnswer
<1>6. CASE CleanUp
  BY <1>1, <1>6 DEF CleanUp
<1>7. CASE StartChild
  BY <1>1, <1>7 DEF StartChild
<1>8. CASE WaitLine
  BY <1>1, <1>8 DEF WaitLine, Posted, Taken
<1>9. CASE LookAtLine
  BY <1>1, <1>9 DEF LookAtLine
<1>10. CASE Divide
  BY <1>1, <1>10 DEF Divide
<1>11. CASE PostAnswer
  BY <1>1, <1>11 DEF PostAnswer, Posts
<1>12. CASE ChildFails
  BY <1>1, <1>12 DEF ChildFails
<1>13. CASE Interrupt
  BY <1>1, <1>13 DEF Interrupt
<1>14. CASE Restart
  BY <1>1, <1>14 DEF Restart, Nothing
<1>15. CASE UNCHANGED vars
  BY <1>1, <1>15 DEF vars
<1> QED BY <1>2, <1>3, <1>4, <1>5, <1>6, <1>7, <1>8, <1>9, <1>10, <1>11, <1>12, <1>13, <1>14,
           <1>15 DEF Next, ParentWork, ChildWork

(* The inductive invariant holds throughout all sessions.                   *)
THEOREM Invariance == Spec => []IInv
<1>1. IInv /\ [Next]_vars => IInv'
  BY TypeStep, TurnStep DEF IInv
<1> QED BY InitInv, <1>1, PTL DEF Spec

(* Types; in particular a semaphore never exceeds the number of lines.      *)
THEOREM TypeCorrect == Spec => []TypeOK
<1>1. IInv => TypeOK
  BY DEF IInv
<1> QED BY Invariance, <1>1, PTL

(* In a session that found no old semaphore the parent shows the child's    *)
(* answer to the line just typed (main.c and child.c of lab3).              *)
THEOREM CleanSessionIsRight == Spec => []CleanSessionAnswers
<1>1. IInv => CleanSessionAnswers
  BY DEF IInv, CleanTurns, CleanSessionAnswers
<1> QED BY Invariance, <1>1, PTL

(* And in such a session the two processes are never in the shared memory   *)
(* at once.                                                                 *)
THEOREM CleanSessionIsExclusive == Spec => []CleanSessionExcludes
<1>1. IInv => CleanSessionExcludes
  BY DEF IInv, CleanTurns, WithParent, CleanSessionExcludes
<1> QED BY Invariance, <1>1, PTL

(* Whatever earlier sessions left, the one after the exit line is clean.    *)
THEOREM Healing == Spec => ExitLineHeals
<1>1. IInv /\ [Next]_vars => [parent = "ended" /\ parent' # "ended" => clean']_vars
  <2> SUFFICES ASSUME IInv, Next, parent = "ended", parent' # "ended"
               PROVE  clean'
    OBVIOUS
  <2>1. semParent = 0 /\ semChild = 0
    BY DEF IInv, OverIsOver
  <2>2. Restart
    BY DEF Next, CopyLine, ParentWork, PostLine, WaitAnswer, PrintAnswer, CleanUp, ChildWork,
           StartChild, WaitLine, LookAtLine, Divide, PostAnswer, ChildFails, Interrupt
  <2> QED BY <2>1, <2>2 DEF Restart
<1> QED BY Invariance, <1>1, PTL DEF Spec, ExitLineHeals
=============================================================================
