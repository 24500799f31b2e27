--------------------------- MODULE ManagerProofs ---------------------------
(***************************************************************************)
(* Theorems about Manager, for every set of ids, every number of requests  *)
(* and every timeout: the types, the list of outstanding requests, what    *)
(* waitpid is asked about, and that the manager implements ExecService.    *)
(*                                                                         *)
(* None of the proofs looks into the recursive functions of TreeOps: they  *)
(* hold whatever the searches and walks of tree.c compute.                 *)
(***************************************************************************)
EXTENDS Manager, TLAPS

(* The inductive invariant.                                                *)

Pass == {"cleanup", "responses", "closing"}

\* Inside one of the two passes, the wait in zmq_ctx_destroy included.
Within(here) == pc = here \/ (pc = "closing" /\ resume = here)

\* Where the pointers of a pass stand: prev at a request that is listed, current
\* at the one after it or at the one that was unlinked there.
PassPosition ==
  /\ pc \notin Pass \cup {"terminated"} => current = NoOp /\ prev = NoOp
  /\ pc \in Pass => prev \in Open \cup {NoOp}
  /\ pc \in {"cleanup", "responses"} => current = Following
  /\ pc = "closing" => heap = Open \cup {current} /\ current \in heap \ Open

\* What a pass has walked over, down to prev, it had no reason to end.
PassedAreKept ==
  prev # NoOp =>
    /\ Within("cleanup") => \A o \in Open : o >= prev => o \notin due
    /\ Within("responses") => \A o \in Open : o >= prev => avail[opNode[o]]

\* Whatever cleanup_operations has still to unlink outlived the timeout.
DueIsLate == \A o \in due : age[o] > OpTimeout

\* Nothing happened yet to a request that was not sent.
UnsentIsBlank ==
  \A o \in Ops : o > issued => outcome[o] = "none" /\ req[o] = "none"

ListInv ==
  /\ ListIsOpenRequests
  /\ PointersAreLive
  /\ PassPosition
  /\ PassedAreKept
  /\ DueIsLate
  /\ UnsentIsBlank

\* Between fork and insert_node the child can still be waited for.
ForkedIsWaitable ==
  pc = "inserting" => arg \in Ids /\ proc[arg] \notin {"none", "reaped"}

IInv ==
  /\ TypeOK
  /\ ListInv
  /\ AvailableIsWaitable
  /\ ForkedIsWaitable
-----------------------------------------------------------------------------
USE IdsAssumption, MaxOpsAssumption, OpTimeoutAssumption
USE DEF Unlink, HandedOver, Freed, Prepended, Expired, Older, Answered, Listed,
        KillTree, Remains, HangsLeft, Left

\* insert_node gives a well-formed tree again.
LEMMA InsertNodeType ==
  ASSUME NEW t \in Trees, NEW id \in Ptr
  PROVE  InsertNode(t, id) \in Trees
<1> DEFINE p == AttachPoint(t, id)
<1>1. [t EXCEPT !.root = id] \in Trees
  BY DEF Trees, Ptr
<1>2. [t EXCEPT !.left = [@ EXCEPT ![p] = id]] \in Trees
  <2> HIDE DEF p
  <2> QED BY DEF Trees, Ptr
<1>3. [t EXCEPT !.right = [@ EXCEPT ![p] = id]] \in Trees
  <2> HIDE DEF p
  <2> QED BY DEF Trees, Ptr
<1> QED BY <1>1, <1>2, <1>3 DEF InsertNode


\* Ids and request numbers that actions are applied to.
LEMMA PingSlotIsNoOp == PingSlot \notin Ops /\ Ops \subseteq Requests
BY DEF PingSlot, Ops, Requests

\* The null pointer is no request, and requests are numbers.
LEMMA NoOpIsNoRequest == NoOp \notin Ops /\ Ops \subseteq Nat
BY DEF NoOp, Ops

(* Type correctness.                                                       *)

LEMMA InitType == Init => TypeOK
<1> SUFFICES ASSUME Init PROVE TypeOK
  OBVIOUS
<1>1. NodeTypeOK
  BY DEF Init, NodeInit, NodeTypeOK, ProcStates, ReqStates, Ptr
<1>2. tree \in Trees
  BY DEF Init, EmptyTree, Trees, Ptr
<1>3. /\ avail \in [Ids -> BOOLEAN]
      /\ head \in OpPtr /\ next \in [Ops -> OpPtr] /\ heap \in SUBSET Ops
      /\ issued \in 0..MaxOps /\ sentToDead \in SUBSET Ops
      /\ age \in [Ops -> Ages] /\ outcome \in [Ops -> Outcomes]
  BY DEF Init, Ops, OpPtr, NoOp, Ages, Outcomes
<1>4. /\ pc \in PcStates /\ current \in OpPtr /\ prev \in OpPtr /\ due \in SUBSET Ops
      /\ resume \in {"cleanup", "responses"} /\ arg \in Ptr
      /\ pingTodo \in SUBSET Ids /\ report \in SUBSET Ids /\ deadBefore \in SUBSET Ids
  BY DEF Init, PcStates, Ptr, OpPtr
<1> QED BY <1>1, <1>2, <1>3, <1>4 DEF TypeOK

\* Taking the current request off the list, in either of the two loops.
LEMMA RemoveOperationType ==
  ASSUME TypeOK, current # NoOp,
         NEW result \in Outcomes, NEW here \in {"cleanup", "responses"},
         RemoveOperation(result, here)
  PROVE  TypeOK'
<1>0. current \in Ops
  BY DEF TypeOK, OpPtr
<1>1. head' \in OpPtr /\ next' \in [Ops -> OpPtr]
  BY <1>0 DEF RemoveOperation, TypeOK
<1>2. NodeTypeOK' /\ outcome' \in [Ops -> Outcomes]
  BY <1>0, PingSlotIsNoOp DEF RemoveOperation, TypeOK, NodeTypeOK, ReqStates
<1>3. pc' \in PcStates /\ resume' \in {"cleanup", "responses"}
  BY DEF RemoveOperation, PcStates
<1> QED BY <1>1, <1>2, <1>3 DEF RemoveOperation, TypeOK, pingVars

\* Leaving it where it is.
LEMMA KeepOperationType ==
  ASSUME TypeOK, current # NoOp, KeepOperation
  PROVE  TypeOK'
<1>1. current \in Ops
  BY DEF TypeOK, OpPtr
<1>2. current' \in OpPtr /\ prev' \in OpPtr
  BY <1>1 DEF KeepOperation, TypeOK, OpPtr
<1> QED BY <1>2
        DEF KeepOperation, TypeOK, NodeTypeOK, nodeVars, opVars, listVars, pingVars

LEMMA UnavailableAfterType ==
  ASSUME NEW S, TypeOK
  PROVE  UnavailableAfter(S) \in [Ids -> BOOLEAN]
<1>1. \A m \in Ids :
        (avail[m] /\ m \notin S /\ \A n \in S : m \notin Below(tree, n)) \in BOOLEAN
  OBVIOUS
<1> QED BY <1>1, Zenon DEF UnavailableAfter

LEMMA ManagerStepType == TypeOK /\ ManagerStep => TypeOK'
<1> SUFFICES ASSUME TypeOK, ManagerStep PROVE TypeOK'
  OBVIOUS
<1> USE DEF TypeOK, opVars, passVars, listVars, pingVars, nodeVars
<1>1. CASE CloseReturns
  <2>1. current' \in OpPtr
    BY <1>1 DEF CloseReturns, Following, OpPtr
  <2> QED BY <1>1, <2>1 DEF CloseReturns, NodeTypeOK, PcStates
<1>2. CASE Poll
  BY <1>2 DEF Poll, NodeTypeOK, PcStates
<1>3. CASE CleanupDone
  BY <1>3 DEF CleanupDone, NodeTypeOK, PcStates
<1>4. CASE ResponsesDone
  BY <1>4 DEF ResponsesDone, NodeTypeOK, PcStates
<1>5. CASE CheckProcessStatus
  <2>1. avail' \in [Ids -> BOOLEAN]
    BY <1>5, UnavailableAfterType DEF CheckProcessStatus
  <2>2. proc' \in [Ids -> ProcStates]
    BY <1>5 DEF CheckProcessStatus, NodeTypeOK, ProcStates
  <2> QED BY <1>5, <2>1, <2>2 DEF CheckProcessStatus, NodeTypeOK, PcStates
<1>6. CASE CleanupOperation
  BY <1>6, RemoveOperationType, KeepOperationType DEF CleanupOperation, Outcomes
<1>7. CASE CheckResponse
  BY <1>7, RemoveOperationType, KeepOperationType DEF CheckResponse, Outcomes
<1>8. CASE OtherCommand
  BY <1>8 DEF OtherCommand, NodeTypeOK, PcStates
<1>9. CASE InsertForked
  <2>1. tree' \in Trees
    BY <1>9, InsertNodeType DEF InsertForked
  <2>2. avail' \in [Ids -> BOOLEAN]
    BY <1>9, Zenon DEF InsertForked
  <2> QED BY <1>9, <2>1, <2>2 DEF InsertForked, NodeTypeOK, PcStates, Ptr
<1>10. CASE PingAll
  BY <1>10 DEF PingAll, InTree, NodeTypeOK, PcStates
<1>11. ASSUME NEW id \in Ids, NEW parent \in Ptr, ForkNode(id, parent) PROVE TypeOK'
  <2>1. kin' \in [Ids -> SUBSET Ids]
    <3>1. InTree \in SUBSET Ids
      BY DEF InTree
    <3> QED BY <1>11, <3>1 DEF ForkNode, NodeTypeOK
  <2> QED BY <1>11, <2>1 DEF ForkNode, NodeTypeOK, ProcStates, PcStates, Ptr
<1>12. ASSUME NEW n \in Ids, KillNode(n) PROVE TypeOK'
  <2>1. avail' \in [Ids -> BOOLEAN]
    BY <1>12, UnavailableAfterType DEF KillNode
  <2> QED BY <1>12, <2>1 DEF KillNode, NodeTypeOK, PcStates
<1>13. ASSUME NEW n \in Ids, ExecCommand(n) PROVE TypeOK'
  BY <1>13 DEF ExecCommand, NodeTypeOK, PcStates, Ptr
<1>14. ASSUME NEW n \in Ids, PingNode(n) PROVE TypeOK'
  <2>1. CASE UNCHANGED <<req, opNode, arg>> /\ report' = report \cup {n}
    BY <2>1, <1>14 DEF PingNode, NodeTypeOK
  <2>2. CASE /\ req' = [req EXCEPT ![PingSlot] = "queued"]
             /\ opNode' = [opNode EXCEPT ![PingSlot] = n]
             /\ arg' = n /\ UNCHANGED report
    <3>1. /\ req' \in [Requests -> ReqStates] /\ opNode' \in [Requests -> Ptr]
          /\ arg' \in Ptr
      BY <2>2 DEF NodeTypeOK, ReqStates, Ptr
    <3> QED BY <2>2, <3>1, <1>14 DEF PingNode, NodeTypeOK
  <2> QED BY <2>1, <2>2, <1>14 DEF PingNode
<1>15. CASE PingAnswered
  BY <1>15 DEF PingAnswered, NodeTypeOK, ReqStates, Ptr, Requests, PingSlot
<1>16. CASE PingTimeout
  BY <1>16 DEF PingTimeout, NodeTypeOK, ReqStates, Ptr, Requests, PingSlot
<1>17. CASE PingAllDone
  BY <1>17 DEF PingAllDone, NodeTypeOK, PcStates
<1> QED BY <1>1, <1>2, <1>3, <1>4, <1>5, <1>6, <1>7, <1>8, <1>9, <1>10, <1>11,
           <1>12, <1>13, <1>14, <1>15, <1>16, <1>17 DEF ManagerStep

LEMMA OtherStepType ==
  TypeOK /\ (UserStep \/ NodeStep \/ HandleSignal \/ Tick) => TypeOK'
<1> SUFFICES ASSUME TypeOK, UserStep \/ NodeStep \/ HandleSignal \/ Tick
             PROVE  TypeOK'
  OBVIOUS
<1> USE DEF TypeOK, NodeTypeOK, opVars, passVars, listVars, pingVars, nodeVars, managerVars
<1>1. CASE ExecSend
  <2>1. issued + 1 \in Ops /\ issued' \in 0..MaxOps
    BY <1>1 DEF ExecSend, Ops
  <2>2. /\ head' \in OpPtr /\ next' \in [Ops -> OpPtr] /\ heap' \in SUBSET Ops
        /\ sentToDead' \in SUBSET Ops
    BY <1>1, <2>1 DEF ExecSend, OpPtr
  <2>3. opNode' \in [Requests -> Ptr] /\ req' \in [Requests -> ReqStates]
    BY <1>1, <2>1, PingSlotIsNoOp DEF ExecSend, ReqStates, Ptr
  <2> QED BY <1>1, <2>1, <2>2, <2>3 DEF ExecSend, PcStates, Ptr
<1>2. CASE ExecRefused
  BY <1>2 DEF ExecRefused, PcStates, Ptr
<1>3. CASE Exit
  BY <1>3 DEF Exit, PcStates
<1>4. ASSUME NEW n \in Ids, NodeStarts(n) \/ NodeEnds(n) \/ ChildHandles(n) \/ LeftoverEnds(n)
      PROVE  TypeOK'
  <2>1. CASE NodeStarts(n)
    BY <2>1 DEF NodeStarts, StartCalcNode, ProcStates
  <2>2. CASE NodeEnds(n)
    BY <2>2 DEF NodeEnds, NodeDies, Lost, ProcStates, ReqStates
  <2>3. CASE ChildHandles(n)
    <3>1. signalled' \in SUBSET Ids
      BY <2>3 DEF ChildHandles, ChildRunsHandler
    <3>2. proc' \in [Ids -> ProcStates] /\ kin' \in [Ids -> SUBSET Ids]
      BY <2>3 DEF ChildHandles, ChildRunsHandler, ProcStates
    <3> QED BY <2>3, <3>1, <3>2 DEF ChildHandles, ChildRunsHandler
  <2>4. CASE LeftoverEnds(n)
    BY <2>4 DEF LeftoverEnds, LeftoverDies, Lost, ReqStates
  <2> QED BY <1>4, <2>1, <2>2, <2>3, <2>4
<1>5. ASSUME NEW r \in Requests, NodeGets(r) \/ NodeAnswers(r)
      PROVE  TypeOK'
  BY <1>5 DEF NodeGets, NodeAnswers, Deliver, ServeRequest, ReqStates
<1>6. CASE HandleSignal
  BY <1>6 DEF HandleSignal, InTree, PcStates
<1>7. CASE Tick
  <2>1. age' \in [Ops -> Ages]
    BY <1>7 DEF Tick, Ages
  <2> QED BY <1>7, <2>1 DEF Tick
<1> QED BY <1>1, <1>2, <1>3, <1>4, <1>5, <1>6, <1>7 DEF UserStep, NodeStep

\* Every variable keeps its type; in particular every pointer of the list that
\* is followed is the null pointer or a request that was once allocated.
THEOREM TypeCorrect == Spec => []TypeOK
<1>1. TypeOK /\ UNCHANGED vars => TypeOK'
  BY DEF TypeOK, NodeTypeOK, vars, nodeVars, opVars, passVars, listVars, pingVars
<1>2. TypeOK /\ [Next]_vars => TypeOK'
  BY <1>1, ManagerStepType, OtherStepType DEF Next
<1> QED BY InitType, <1>2, PTL DEF Spec
-----------------------------------------------------------------------------
(* The list of outstanding requests.                                       *)

\* A pointer to the newest of some requests is null or one of them.
LEMMA NewestIsIn ==
  ASSUME NEW S \in SUBSET Ops, NEW q, IsNewest(q, S)
  PROVE  /\ q = NoOp <=> S = {}
         /\ q # NoOp => q \in S
         /\ \A o \in S : o <= q
BY NoOpIsNoRequest DEF IsNewest

\* In a pass, current is the newest of the listed requests not walked over yet.
LEMMA AtCurrent ==
  ASSUME TypeOK, ListInv, pc \in {"cleanup", "responses"}
  PROVE  IsNewest(current, {o \in Open : prev # NoOp => o < prev})
<1>1. CASE prev = NoOp
  BY <1>1 DEF ListInv, PassPosition, Following, ListIsOpenRequests
<1>2. CASE prev # NoOp
  BY <1>2 DEF ListInv, PassPosition, Following, ListIsOpenRequests, Pass
<1> QED BY <1>1, <1>2

\* What the rest of the proofs needs of it.
LEMMA AheadOfPass ==
  ASSUME TypeOK, ListInv, pc \in {"cleanup", "responses"}
  PROVE  /\ current # NoOp => /\ current \in Open
                              /\ prev # NoOp => prev \in Open /\ current < prev
         /\ \A o \in Open : (prev # NoOp => o < prev) => current # NoOp /\ o <= current
<1> DEFINE ahead == {o \in Open : prev # NoOp => o < prev}
<1>1. ahead \in SUBSET Ops
  BY DEF Open
<1>2. IsNewest(current, ahead)
  BY AtCurrent
<1>3. /\ current # NoOp => current \in ahead
      /\ \A o \in ahead : current # NoOp /\ o <= current
  <2> HIDE DEF ahead
  <2> QED BY <1>1, <1>2, NewestIsIn
<1>4. prev \in Open \cup {NoOp}
  BY DEF ListInv, PassPosition, Pass
<1> QED BY <1>3, <1>4

\* Unlinking the current request leaves a list of the others.
LEMMA UnlinkKeepsList ==
  ASSUME TypeOK, ListInv, pc \in {"cleanup", "responses"}, current # NoOp, Unlink,
         Open' = Open \ {current}
  PROVE  /\ IsNewest(head', Open')
         /\ \A o \in Open' : IsNewest(next'[o], {q \in Open' : q < o})
<1>1. /\ IsNewest(head, Open)
      /\ \A o \in Open : IsNewest(next[o], {q \in Open : q < o})
  BY DEF ListInv, ListIsOpenRequests
<1>2. /\ current \in Open /\ Open \subseteq Nat /\ Open \subseteq Ops
      /\ prev # NoOp => prev \in Open /\ current < prev
      /\ \A o \in Open : (prev # NoOp => o < prev) => o <= current
  BY AheadOfPass, NoOpIsNoRequest DEF Open
<1>3. IsNewest(next[current], {q \in Open : q < current})
  BY <1>1, <1>2
<1>4. next \in [Ops -> OpPtr]
  BY DEF TypeOK
<1>5. CASE prev = NoOp
  <2>1. {q \in Open : q < current} = Open'
    BY <1>2, <1>5
  <2>2. ASSUME NEW o \in Open'
        PROVE  IsNewest(next'[o], {q \in Open' : q < o})
    <3>1. {q \in Open' : q < o} = {q \in Open : q < o}
      BY <1>2, <1>5
    <3>2. next'[o] = next[o]
      BY <1>5 DEF Unlink
    <3> QED BY <1>1, <3>1, <3>2
  <2> QED BY <1>3, <1>5, <2>1, <2>2 DEF Unlink
<1>6. CASE prev # NoOp
  <2>1. /\ head' = head /\ next'[prev] = next[current]
        /\ \A o \in Ops : o # prev => next'[o] = next[o]
    BY <1>2, <1>4, <1>6 DEF Unlink
  <2>2. IsNewest(head, Open')
    <3>1. head \in Open /\ head >= prev /\ \A q \in Open : q <= head
      BY <1>1, <1>2, <1>6, NewestIsIn
    <3> QED BY <1>2, <1>6, <3>1 DEF IsNewest
  <2>3. ASSUME NEW o \in Open'
        PROVE  IsNewest(next'[o], {q \in Open' : q < o})
    <3>1. CASE o = prev
      <4>1. {q \in Open : q < current} = {q \in Open' : q < o}
        BY <1>2, <1>6, <3>1
      <4> QED BY <1>3, <2>1, <3>1, <4>1
    <3>2. CASE o < prev
      <4>1. {q \in Open' : q < o} = {q \in Open : q < o}
        BY <1>2, <1>6, <3>2
      <4> QED BY <1>1, <1>2, <1>6, <2>1, <3>2, <4>1
    <3>3. CASE o > prev
      <4>1. IsNewest(next[o], {q \in Open : q < o}) /\ next'[o] = next[o]
        BY <1>1, <1>2, <1>6, <2>1, <3>3
      <4>2. prev \in {q \in Open : q < o}
        BY <1>2, <1>6, <3>3
      <4>3. /\ next[o] \in {q \in Open : q < o} /\ next[o] >= prev
            /\ \A q \in {q \in Open : q < o} : q <= next[o]
        BY <1>2, <4>1, <4>2 DEF IsNewest
      <4>4. next[o] # current
        BY <1>2, <1>6, <4>3
      <4> QED BY <4>1, <4>3, <4>4 DEF IsNewest
    <3> QED BY <1>2, <1>6, <3>1, <3>2, <3>3
  <2> QED BY <2>1, <2>2, <2>3
<1> QED BY <1>5, <1>6

\* A request a pass comes to is taken off the list once, and closed.
LEMMA RemoveOperationInv ==
  ASSUME IInv, current # NoOp, NEW result \in Outcomes \ {"none"},
         NEW here \in {"cleanup", "responses"}, pc = here,
         RemoveOperation(result, here)
  PROVE  ListInv'
<1> USE DEF IInv, RemoveOperation
<1>1. /\ current \in Open /\ current \in Ops /\ Open \subseteq Ops
      /\ prev # NoOp => prev \in Open /\ current < prev
  BY AheadOfPass DEF Open
<1>2. Open' = Open \ {current}
  BY <1>1 DEF Open, TypeOK
<1>3. heap = Open /\ PointersAreLive /\ prev \in Open \cup {NoOp}
  BY DEF ListInv, ListIsOpenRequests, PassPosition, Pass
<1>4. ListIsOpenRequests'
  BY <1>2, <1>3, UnlinkKeepsList DEF ListIsOpenRequests
<1>5. PointersAreLive'
  <2>1. next \in [Ops -> OpPtr]
    BY DEF TypeOK
  <2>2. head' \in heap \cup {NoOp} /\ \A o \in heap : next'[o] \in heap \cup {NoOp}
    BY <1>1, <1>3, <2>1 DEF Unlink, PointersAreLive
  <2> QED BY <1>3, <2>2 DEF PointersAreLive
<1>6. PassPosition'
  <2>1. prev # current
    BY <1>1, NoOpIsNoRequest
  <2> QED BY <1>1, <1>2, <1>3, <2>1 DEF PassPosition, Pass
<1>7. PassedAreKept'
  BY <1>2 DEF ListInv, PassedAreKept, Within
<1>8. DueIsLate'
  BY DEF ListInv, DueIsLate
<1>9. UnsentIsBlank'
  BY <1>1, PingSlotIsNoOp DEF ListInv, UnsentIsBlank, TypeOK, NodeTypeOK, Ops, Open
<1> QED BY <1>4, <1>5, <1>6, <1>7, <1>8, <1>9 DEF ListInv

\* A pass that keeps a request has walked over it and stands at the next one.
LEMMA KeepOperationInv ==
  ASSUME IInv, current # NoOp, pc \in {"cleanup", "responses"}, KeepOperation,
         pc = "cleanup" => current \notin due,
         pc = "responses" => avail[opNode[current]]
  PROVE  ListInv'
<1> USE DEF IInv, KeepOperation, opVars, listVars, nodeVars
<1>1. /\ current \in Open /\ current \in Ops /\ Open \subseteq Nat
      /\ prev # NoOp => prev \in Open /\ current < prev
      /\ \A o \in Open : (prev # NoOp => o < prev) => o <= current
  BY AheadOfPass, NoOpIsNoRequest DEF Open
<1>2. Open' = Open
  BY DEF Open
<1>3. ListIsOpenRequests' /\ DueIsLate' /\ UnsentIsBlank'
  BY <1>2 DEF ListInv, ListIsOpenRequests, DueIsLate, UnsentIsBlank
<1>4. PointersAreLive'
  BY <1>1 DEF ListInv, PointersAreLive, ListIsOpenRequests
<1>5. PassPosition'
  BY <1>1, <1>2 DEF ListInv, PassPosition, Following, Pass
<1>6. PassedAreKept'
  <2>1. ASSUME NEW o \in Open, o >= current
        PROVE  o = current \/ (prev # NoOp /\ o >= prev)
    BY <1>1, <2>1
  <2> QED BY <1>2, <2>1 DEF ListInv, PassedAreKept, Within
<1> QED BY <1>3, <1>4, <1>5, <1>6 DEF ListInv

\* When the request is freed the pass stands where it was taken from.
LEMMA CloseReturnsInv ==
  ASSUME IInv, CloseReturns
  PROVE  ListInv'
<1> USE DEF IInv, CloseReturns, nodeVars
<1>1. Open' = Open /\ Open \subseteq Ops /\ resume \in {"cleanup", "responses"}
  BY DEF Open, TypeOK
<1>2. heap' = Open /\ current \notin Open /\ prev \in Open \cup {NoOp}
  BY DEF ListInv, PassPosition, Pass
<1>3. ListIsOpenRequests'
  BY <1>1, <1>2 DEF ListInv, ListIsOpenRequests
<1>4. head \in Open \cup {NoOp} /\ \A o \in Open : next[o] \in Open \cup {NoOp}
  BY DEF ListInv, ListIsOpenRequests, IsNewest
<1>5. PointersAreLive'
  BY <1>1, <1>2, <1>4 DEF PointersAreLive, Following
<1>6. PassPosition'
  BY <1>1, <1>2 DEF PassPosition, Following, Pass
<1>7. PassedAreKept' /\ DueIsLate' /\ UnsentIsBlank'
  BY <1>1 DEF ListInv, PassedAreKept, Within, DueIsLate, UnsentIsBlank
<1> QED BY <1>3, <1>5, <1>6, <1>7 DEF ListInv

\* The start of each pass, at the head of the list, and the end of the second.
LEMMA PassBounds ==
  ASSUME IInv, Poll \/ CleanupDone \/ ResponsesDone
  PROVE  ListInv'
<1> USE DEF IInv, Poll, CleanupDone, ResponsesDone, opVars, listVars, nodeVars
<1>1. Open' = Open /\ heap = Open
  BY DEF Open, ListInv, ListIsOpenRequests
<1>2. prev' = NoOp /\ (current' = head \/ (pc' = "status" /\ current' = NoOp))
  BY DEF ListInv, PassPosition, Pass
<1>3. ListIsOpenRequests' /\ UnsentIsBlank'
  BY <1>1 DEF ListInv, ListIsOpenRequests, UnsentIsBlank
<1>4. PointersAreLive'
  BY <1>2 DEF ListInv, PointersAreLive
<1>5. PassPosition'
  BY <1>2 DEF PassPosition, Following, Pass
<1>6. PassedAreKept' /\ DueIsLate'
  BY <1>2 DEF ListInv, PassedAreKept, DueIsLate
<1> QED BY <1>3, <1>4, <1>5, <1>6 DEF ListInv

\* A new request is the head of the list of itself and the others.
LEMMA ExecSendInv ==
  ASSUME IInv, ExecSend
  PROVE  ListInv'
<1> DEFINE new == issued + 1
<1>1. /\ new \in Ops /\ new > issued /\ new \in Requests
      /\ \A o \in Ops : o <= new <=> o <= issued \/ o = new
  BY PingSlotIsNoOp DEF ExecSend, Ops, IInv, TypeOK
<1>2. /\ issued' = new /\ head' = new /\ heap' = heap \cup {new} /\ outcome' = outcome
      /\ next'[new] = head /\ \A o \in Ops \ {new} : next'[o] = next[o] /\ req'[o] = req[o]
      /\ UNCHANGED <<current, prev, due, age>> /\ pc' = "poll" /\ pc = "typing"
  BY <1>1, PingSlotIsNoOp DEF ExecSend, IInv, TypeOK, NodeTypeOK, passVars
<1>3. outcome[new] = "none" /\ UnsentIsBlank
  BY <1>1 DEF IInv, ListInv, UnsentIsBlank
<1>4. Open' = Open \cup {new} /\ Open \subseteq Ops /\ \A o \in Open : o < new
  <2> HIDE DEF new
  <2>1. Open' = Open \cup {new}
    BY <1>1, <1>2, <1>3 DEF Open
  <2>2. \A o \in Open : o < new
    BY DEF Open, new, IInv, TypeOK, Ops
  <2> QED BY <2>1, <2>2 DEF Open
<1>5. issued \in Nat
  BY DEF IInv, TypeOK
<1>6. new \in Nat
  BY <1>5
<1> HIDE DEF new
<1>7. /\ IsNewest(head, Open) /\ heap = Open /\ current = NoOp /\ prev = NoOp
      /\ \A o \in Open : IsNewest(next[o], {q \in Open : q < o})
      /\ PointersAreLive /\ DueIsLate
  BY <1>2 DEF IInv, ListInv, ListIsOpenRequests, PassPosition, Pass
<1>8. ListIsOpenRequests'
  <2>1. IsNewest(head', Open')
    BY <1>2, <1>4, <1>6, NoOpIsNoRequest DEF IsNewest
  <2>2. IsNewest(next'[new], {q \in Open' : q < new})
    <3>1. {q \in Open' : q < new} = Open
      BY <1>4, <1>6
    <3> QED BY <1>2, <1>7, <3>1
  <2>3. ASSUME NEW o \in Open
        PROVE  IsNewest(next'[o], {q \in Open' : q < o})
    <3>1. o < new /\ o \in Nat /\ o \in Ops \ {new}
      BY <1>4, <1>6, NoOpIsNoRequest
    <3>2. {q \in Open' : q < o} = {q \in Open : q < o}
      BY <1>4, <1>6, <3>1
    <3> QED BY <1>2, <1>7, <3>1, <3>2
  <2> QED BY <1>2, <1>4, <1>7, <2>1, <2>2, <2>3 DEF ListIsOpenRequests
<1>9. PointersAreLive'
  BY <1>2, <1>4, <1>7 DEF PointersAreLive
<1>10. PassPosition' /\ PassedAreKept' /\ DueIsLate'
  BY <1>2, <1>7 DEF PassPosition, PassedAreKept, DueIsLate, Pass
<1>11. UnsentIsBlank'
  <2> SUFFICES ASSUME NEW o \in Ops, o > new
               PROVE  outcome[o] = "none" /\ req'[o] = "none"
    BY <1>2 DEF UnsentIsBlank
  <2>1. o > issued /\ o # new
    BY <1>1, <1>5, <1>6, NoOpIsNoRequest
  <2> QED BY <2>1, <1>2, <1>3 DEF UnsentIsBlank
<1> QED BY <1>8, <1>9, <1>10, <1>11 DEF ListInv

\* Every other step leaves the list and the pointers of the pass alone.  It goes
\* on in the same place, leaves the program or happens outside of the passes.
LEMMA ListFrame ==
  ASSUME IInv, UNCHANGED <<listVars, issued, outcome, current, prev, due>>,
         \A o \in Ops : req[o] = "none" => req'[o] = "none",
         \A o \in Ops : age[o] > OpTimeout => age'[o] > OpTimeout,
         \/ UNCHANGED <<pc, resume, avail>> /\ \A o \in Ops : opNode'[o] = opNode[o]
         \/ pc' = "terminated"
         \/ pc \notin Pass \cup {"terminated"} /\ pc' \notin Pass
  PROVE  ListInv'
<1> USE DEF IInv, ListInv, listVars
<1>1. Open' = Open /\ Open \subseteq Ops
  BY DEF Open
<1>2. ListIsOpenRequests'
  BY <1>1 DEF ListIsOpenRequests, Pass
<1>3. PointersAreLive'
  BY DEF PointersAreLive
<1>4. PassPosition'
  BY <1>1 DEF PassPosition, Following, Pass
<1>5. PassedAreKept'
  BY <1>1 DEF PassedAreKept, Within, PassPosition, Pass
<1>6. DueIsLate' /\ UnsentIsBlank'
  BY DEF DueIsLate, UnsentIsBlank, TypeOK
<1> QED BY <1>2, <1>3, <1>4, <1>5, <1>6

\* A step that leaves the tree and the processes alone, but for a node that
\* it marks, keeps the available nodes waitable.
LEMMA ProcessFrame ==
  ASSUME IInv, TypeOK',
         \A n \in Ids : avail'[n] => avail[n],
         \A n \in Ids : proc[n] \notin {"none", "reaped"} =>
                          proc'[n] \notin {"none", "reaped"},
         pc' = "inserting" => pc = "inserting" /\ arg' = arg
  PROVE  AvailableIsWaitable' /\ ForkedIsWaitable'
BY DEF IInv, AvailableIsWaitable, ForkedIsWaitable

LEMMA ManagerStepInv == IInv /\ ManagerStep => IInv'
<1> SUFFICES ASSUME IInv, ManagerStep PROVE IInv'
  OBVIOUS
<1>0. TypeOK'
  BY ManagerStepType DEF IInv
<1> USE <1>0 DEF opVars, passVars, listVars, pingVars, nodeVars
<1>1. CASE CloseReturns
  <2>1. ListInv'
    BY <1>1, CloseReturnsInv
  <2>2. AvailableIsWaitable' /\ ForkedIsWaitable'
    BY <1>1, ProcessFrame DEF CloseReturns, IInv, TypeOK
  <2> QED BY <2>1, <2>2 DEF IInv
<1>2. CASE Poll
  <2>1. ListInv'
    BY <1>2, PassBounds
  <2>2. AvailableIsWaitable' /\ ForkedIsWaitable'
    BY <1>2, ProcessFrame DEF Poll
  <2> QED BY <2>1, <2>2 DEF IInv
<1>3. CASE CleanupDone
  <2>1. ListInv'
    BY <1>3, PassBounds
  <2>2. AvailableIsWaitable' /\ ForkedIsWaitable'
    BY <1>3, ProcessFrame DEF CleanupDone
  <2> QED BY <2>1, <2>2 DEF IInv
<1>4. CASE ResponsesDone
  <2>1. ListInv'
    BY <1>4, PassBounds
  <2>2. AvailableIsWaitable' /\ ForkedIsWaitable'
    BY <1>4, ProcessFrame DEF ResponsesDone
  <2> QED BY <2>1, <2>2 DEF IInv
<1>5. CASE CheckProcessStatus
  <2>1. ListInv'
    BY <1>5, ListFrame DEF CheckProcessStatus, Pass
  <2>2. \A n \in Ids : avail'[n] => avail[n] /\ n \notin Ended
    BY <1>5 DEF CheckProcessStatus, UnavailableAfter
  <2>3. \A n \in Ids \ Ended : proc'[n] = proc[n]
    BY <1>5 DEF CheckProcessStatus
  <2>4. AvailableIsWaitable'
    BY <2>2, <2>3 DEF AvailableIsWaitable, IInv
  <2>5. ForkedIsWaitable'
    BY <1>5 DEF CheckProcessStatus, ForkedIsWaitable
  <2> QED BY <2>1, <2>4, <2>5 DEF IInv
<1>6. CASE CleanupOperation
  <2>1. ListInv'
    BY <1>6, RemoveOperationInv, KeepOperationInv DEF CleanupOperation, Outcomes
  <2>2. AvailableIsWaitable' /\ ForkedIsWaitable'
    BY <1>6, ProcessFrame DEF CleanupOperation, RemoveOperation, KeepOperation
  <2> QED BY <2>1, <2>2 DEF IInv
<1>7. CASE CheckResponse
  <2>1. ASSUME NEW result \in {"ok", "unavailable"}, RemoveOperation(result, "responses")
        PROVE  ListInv'
    BY <1>7, <2>1, RemoveOperationInv DEF CheckResponse, Outcomes
  <2>2. ASSUME avail[opNode[current]], KeepOperation
        PROVE  ListInv'
    BY <1>7, <2>2, KeepOperationInv DEF CheckResponse
  <2>3. ListInv'
    BY <1>7, <2>1, <2>2 DEF CheckResponse
  <2>4. AvailableIsWaitable' /\ ForkedIsWaitable'
    BY <1>7, ProcessFrame DEF CheckResponse, RemoveOperation, KeepOperation
  <2> QED BY <2>3, <2>4 DEF IInv
<1>8. CASE OtherCommand \/ PingAll \/ PingAnswered \/ PingTimeout \/ PingAllDone
  <2>1. ListInv'
    BY <1>8, ListFrame, PingSlotIsNoOp
    DEF OtherCommand, PingAll, PingAnswered, PingTimeout, PingAllDone, IInv,
        TypeOK, NodeTypeOK, Pass
  <2>2. AvailableIsWaitable' /\ ForkedIsWaitable'
    BY <1>8, ProcessFrame
    DEF OtherCommand, PingAll, PingAnswered, PingTimeout, PingAllDone
  <2> QED BY <2>1, <2>2 DEF IInv
<1>9. CASE InsertForked
  <2>1. ListInv'
    BY <1>9, ListFrame DEF InsertForked, Pass
  <2>2. AvailableIsWaitable' /\ ForkedIsWaitable'
    BY <1>9 DEF InsertForked, IInv, TypeOK, AvailableIsWaitable, ForkedIsWaitable
  <2> QED BY <2>1, <2>2 DEF IInv
<1>10. ASSUME NEW id \in Ids, NEW parent \in Ptr, ForkNode(id, parent) PROVE IInv'
  <2>1. ListInv'
    BY <1>10, ListFrame DEF ForkNode, Pass
  <2>2. AvailableIsWaitable' /\ ForkedIsWaitable'
    BY <1>10
    DEF ForkNode, IInv, TypeOK, NodeTypeOK, AvailableIsWaitable, ForkedIsWaitable
  <2> QED BY <2>1, <2>2 DEF IInv
<1>11. ASSUME NEW n \in Ids, KillNode(n) PROVE IInv'
  <2>1. ListInv'
    BY <1>11, ListFrame DEF KillNode, Pass
  <2>2. AvailableIsWaitable' /\ ForkedIsWaitable'
    BY <1>11, ProcessFrame DEF KillNode, UnavailableAfter
  <2> QED BY <2>1, <2>2 DEF IInv
<1>12. ASSUME NEW n \in Ids, ExecCommand(n) \/ PingNode(n) PROVE IInv'
  <2>1. ListInv'
    BY <1>12, ListFrame, PingSlotIsNoOp
    DEF ExecCommand, PingNode, IInv, TypeOK, NodeTypeOK, Pass
  <2>2. AvailableIsWaitable' /\ ForkedIsWaitable'
    BY <1>12, ProcessFrame DEF ExecCommand, PingNode
  <2> QED BY <2>1, <2>2 DEF IInv
<1> QED BY <1>1, <1>2, <1>3, <1>4, <1>5, <1>6, <1>7, <1>8, <1>9, <1>10, <1>11,
           <1>12 DEF ManagerStep

LEMMA OtherStepInv ==
  IInv /\ (UserStep \/ NodeStep \/ HandleSignal \/ Tick) => IInv'
<1> SUFFICES ASSUME IInv, UserStep \/ NodeStep \/ HandleSignal \/ Tick
             PROVE  IInv'
  OBVIOUS
<1>0. TypeOK'
  BY OtherStepType DEF IInv
<1> USE <1>0 DEF opVars, passVars, listVars, pingVars, nodeVars, managerVars
<1>1. CASE ExecSend
  <2>1. ListInv'
    BY <1>1, ExecSendInv
  <2>2. AvailableIsWaitable' /\ ForkedIsWaitable'
    BY <1>1, ProcessFrame DEF ExecSend
  <2> QED BY <2>1, <2>2 DEF IInv
<1>2. CASE ExecRefused \/ Exit \/ HandleSignal
  <2>1. ListInv'
    BY <1>2, ListFrame
    DEF ExecRefused, Exit, HandleSignal, Pass
  <2>2. AvailableIsWaitable' /\ ForkedIsWaitable'
    BY <1>2, ProcessFrame DEF ExecRefused, Exit, HandleSignal
  <2> QED BY <2>1, <2>2 DEF IInv
<1>3. ASSUME NEW n \in Ids, NodeStarts(n) \/ NodeEnds(n) \/ ChildHandles(n) \/ LeftoverEnds(n)
      PROVE  IInv'
  <2>1. \A r \in Requests : req[r] = "none" => req'[r] = "none"
    BY <1>3 DEF NodeStarts, NodeEnds, ChildHandles, LeftoverEnds, LeftoverDies, Lost,
                StartCalcNode, NodeDies,
                ChildRunsHandler
  <2>2. UNCHANGED <<managerVars, opNode>>
    BY <1>3 DEF NodeStarts, NodeEnds, ChildHandles, LeftoverEnds, StartCalcNode, NodeDies,
                ChildRunsHandler, LeftoverDies
  <2>3. \A m \in Ids : proc[m] \notin {"none", "reaped"} =>
                       proc'[m] \notin {"none", "reaped"}
    BY <1>3 DEF NodeStarts, NodeEnds, ChildHandles, LeftoverEnds, LeftoverDies, Lost,
                StartCalcNode, NodeDies,
                ChildRunsHandler, IInv, TypeOK, NodeTypeOK
  <2>4. ListInv'
    BY <2>1, <2>2, ListFrame, PingSlotIsNoOp
    DEF IInv, Pass
  <2>5. AvailableIsWaitable' /\ ForkedIsWaitable'
    BY <2>2, <2>3, ProcessFrame
  <2> QED BY <2>4, <2>5 DEF IInv
<1>4. ASSUME NEW r \in Requests, NodeGets(r) \/ NodeAnswers(r) PROVE IInv'
  <2>1. \A q \in Requests : req[q] = "none" => req'[q] = "none"
    BY <1>4 DEF NodeGets, NodeAnswers, Deliver, ServeRequest, IInv, TypeOK, NodeTypeOK
  <2>2. UNCHANGED <<managerVars, opNode, proc>>
    BY <1>4 DEF NodeGets, NodeAnswers, Deliver, ServeRequest
  <2>3. ListInv'
    BY <2>1, <2>2, ListFrame, PingSlotIsNoOp
    DEF IInv, Pass
  <2>4. AvailableIsWaitable' /\ ForkedIsWaitable'
    BY <2>2, ProcessFrame
  <2> QED BY <2>3, <2>4 DEF IInv
<1>5. CASE Tick
  <2>1. \A o \in Ops : age[o] > OpTimeout => age'[o] > OpTimeout
    BY <1>5 DEF Tick, IInv, TypeOK, Ages
  <2>2. UNCHANGED <<listVars, issued, outcome, current, prev, due, pc, resume, avail, arg, nodeVars>>
    BY <1>5 DEF Tick
  <2>4. ListInv'
    BY <2>1, <2>2, ListFrame
  <2>5. AvailableIsWaitable' /\ ForkedIsWaitable'
    BY <2>2, ProcessFrame
  <2> QED BY <2>4, <2>5 DEF IInv
<1> QED BY <1>1, <1>2, <1>3, <1>4, <1>5 DEF UserStep, NodeStep

LEMMA InitInv == Init => IInv
<1> SUFFICES ASSUME Init PROVE IInv
  OBVIOUS
<1>1. Open = {} /\ Ops \subseteq Nat
  BY NoOpIsNoRequest DEF Open, Init, Ops
<1>4. ListIsOpenRequests /\ PointersAreLive /\ PassPosition /\ PassedAreKept /\ DueIsLate
  BY <1>1
  DEF Init, ListIsOpenRequests, IsNewest, PointersAreLive, PassPosition, PassedAreKept,
      DueIsLate, Pass
<1>2. UnsentIsBlank
  BY PingSlotIsNoOp DEF Init, NodeInit, UnsentIsBlank
<1>3. AvailableIsWaitable /\ ForkedIsWaitable
  BY DEF Init, AvailableIsWaitable, ForkedIsWaitable
<1> QED BY <1>2, <1>3, <1>4, InitType DEF IInv, ListInv

LEMMA StutterInv == IInv /\ UNCHANGED vars => IInv'
<1> SUFFICES ASSUME IInv, UNCHANGED vars PROVE IInv'
  OBVIOUS
<1> USE DEF vars, nodeVars, opVars, passVars, pingVars
<1>1. TypeOK' /\ AvailableIsWaitable' /\ ForkedIsWaitable'
  BY DEF IInv, TypeOK, NodeTypeOK, AvailableIsWaitable, ForkedIsWaitable, listVars
<1>2. ListInv'
  BY ListFrame
<1> QED BY <1>1, <1>2 DEF IInv

\* The inductive invariant holds in every reachable state.
THEOREM Invariance == Spec => []IInv
<1>1. IInv /\ [Next]_vars => IInv'
  BY ManagerStepInv, OtherStepInv, StutterInv DEF Next
<1> QED BY InitInv, <1>1, PTL DEF Spec

\* upcoming_operations links exactly the requests that were sent and have not
\* ended, newest first, wherever the passes unlink and however sendings,
\* signals and node failures interleave; no other memory is held.
THEOREM ListCorrect == Spec => []ListIsOpenRequests
<1>1. IInv => ListIsOpenRequests
  BY DEF IInv, ListInv
<1> QED BY Invariance, <1>1, PTL

\* No pointer the manager follows leads to a request that was freed.
THEOREM PointersCorrect == Spec => []PointersAreLive
<1>1. IInv => PointersAreLive
  BY DEF IInv, ListInv
<1> QED BY Invariance, <1>1, PTL

\* A pass leaves nothing behind that it should have ended.
THEOREM PassesCorrect == Spec => []PassesMissNothing
<1>1. ASSUME IInv PROVE PassesMissNothing
  <2>1. CASE current = NoOp /\ pc \in {"cleanup", "responses"}
    <3>1. \A o \in Open : prev # NoOp /\ ~(o < prev)
      BY <1>1, <2>1, AheadOfPass DEF IInv
    <3>2. \A o \in Open : o \in Nat /\ (prev # NoOp => prev \in Nat)
      BY <1>1, NoOpIsNoRequest DEF Open, IInv, TypeOK, OpPtr, NoOp
    <3>3. \A o \in Open : prev # NoOp /\ o >= prev
      BY <3>1, <3>2
    <3> QED BY <1>1, <2>1, <3>3
            DEF IInv, ListInv, PassedAreKept, Within, PassesMissNothing
  <2> QED BY <2>1 DEF PassesMissNothing
<1> QED BY Invariance, <1>1, PTL

\* check_process_status never asks waitpid about a process that was already
\* reaped or never forked.
THEOREM WaitableCorrect == Spec => []AvailableIsWaitable
<1>1. IInv => AvailableIsWaitable
  BY DEF IInv
<1> QED BY Invariance, <1>1, PTL
-----------------------------------------------------------------------------
(* The manager implements ExecService.                                     *)

ExecVars == <<[o \in Ops |-> StatusOf(o)], [o \in Ops |-> age[o] > OpTimeout]>>

LEMMA OpsAgree == Exec!Ops = Ops /\ Exec!vars = ExecVars
BY DEF Exec!Ops, Ops, Exec!vars, ExecVars

LEMMA InitImplements == Init => Exec!Init
<1> SUFFICES ASSUME Init PROVE Exec!Init
  OBVIOUS
<1>1. \A o \in Ops : StatusOf(o) = "unused"
  BY DEF Init, StatusOf, Ops
<1>2. \A o \in Ops : (age[o] > OpTimeout) = FALSE
  BY DEF Init
<1>3. [o \in Ops |-> age[o] > OpTimeout] = [o \in Ops |-> FALSE]
  BY <1>2, Zenon
<1> QED BY <1>1, <1>3, OpsAgree, Zenon DEF Exec!Init

\* A step that changes neither a status nor a lateness is a stuttering step.
LEMMA StutterImplements ==
  ASSUME \A o \in Ops : StatusOf(o)' = StatusOf(o),
         \A o \in Ops : age'[o] = age[o]
  PROVE  UNCHANGED ExecVars
BY DEF ExecVars

\* The status of a request is decided by its own three entries.
LEMMA SameStatus ==
  ASSUME TypeOK, NEW o \in Ops, UNCHANGED issued, outcome'[o] = outcome[o],
         outcome[o] = "none" /\ o <= issued =>
           (req'[o] = "arrived" <=> req[o] = "arrived")
  PROVE  StatusOf(o)' = StatusOf(o)
BY DEF StatusOf, TypeOK, Ops

\* Ending a listed request is the Report step of the service.
LEMMA RemoveOperationImplements ==
  ASSUME IInv, current # NoOp, pc \in {"cleanup", "responses"},
         NEW result \in {"ok", "unavailable", "dropped"},
         NEW here, RemoveOperation(result, here),
         result = "ok" => req[current] = "arrived",
         result = "dropped" => age[current] > OpTimeout
  PROVE  current \in Ops /\ Exec!Report(current)
<1> DEFINE old == [p \in Ops |-> StatusOf(p)]
           o == current
<1>1. o \in Ops /\ o <= issued /\ outcome[o] = "none"
  BY AheadOfPass DEF IInv, Open
<1>2. UNCHANGED <<issued, age>>
  BY DEF RemoveOperation
<1>3. \A p \in Ops : StatusOf(p)' = IF p = o THEN result ELSE StatusOf(p)
  <2> TAKE p \in Ops
  <2>1. CASE p = o
    BY <1>1, <2>1 DEF RemoveOperation, StatusOf, IInv, TypeOK, Outcomes
  <2>2. CASE p # o
    <3>1. outcome'[p] = outcome[p] /\ req'[p] = req[p]
      BY <2>2, <1>1, PingSlotIsNoOp DEF RemoveOperation, IInv, TypeOK, NodeTypeOK
    <3> QED BY <3>1, <2>2, <1>2 DEF StatusOf
  <2> QED BY <2>1, <2>2
<1>4. [p \in Ops |-> StatusOf(p)]' = [old EXCEPT ![o] = result]
  BY <1>3
<1>5. UNCHANGED [p \in Ops |-> age[p] > OpTimeout]
  BY <1>2
<1>6. old[o] \in {"waiting", "answered"} /\ (old[o] = "answered" <=> req[o] = "arrived")
  BY <1>1 DEF StatusOf, Ops, IInv, TypeOK
<1>7. /\ result = "ok" => req[o] = "arrived"
      /\ result = "dropped" => [p \in Ops |-> age[p] > OpTimeout][o]
  BY <1>1
<1> HIDE DEF old, o
<1>8. \/ old[o] = "answered" /\ result = "ok"
      \/ old[o] \in Exec!Open /\ result = "unavailable"
      \/ old[o] \in Exec!Open /\ [p \in Ops |-> age[p] > OpTimeout][o] /\ result = "dropped"
  BY <1>6, <1>7 DEF Exec!Open
<1>9. o \in Ops /\ Exec!Report(o)
  BY <1>1, <1>4, <1>5, <1>8 DEF Exec!Report, old
<1> QED BY <1>9 DEF o

LEMMA ManagerStepImplements ==
  IInv /\ ManagerStep => Exec!Next \/ UNCHANGED ExecVars
<1> SUFFICES ASSUME IInv, ManagerStep PROVE Exec!Next \/ UNCHANGED ExecVars
  OBVIOUS
<1> USE DEF opVars, listVars, nodeVars
<1>1. ASSUME UNCHANGED <<issued, outcome, age>>,
             \A o \in Ops : req'[o] = req[o]
      PROVE  UNCHANGED ExecVars
  BY <1>1, SameStatus, StutterImplements DEF IInv
<1>2. CASE \/ CloseReturns \/ Poll \/ CleanupDone \/ ResponsesDone
           \/ CheckProcessStatus \/ OtherCommand \/ InsertForked \/ PingAll \/ PingAllDone
  BY <1>1, <1>2
  DEF CloseReturns, Poll, CleanupDone, ResponsesDone, CheckProcessStatus, OtherCommand,
      InsertForked, PingAll, PingAllDone
<1>3. CASE PingAnswered \/ PingTimeout
  BY <1>1, <1>3, PingSlotIsNoOp
  DEF PingAnswered, PingTimeout, IInv, TypeOK, NodeTypeOK
<1>4. ASSUME NEW id \in Ids, NEW parent \in Ptr, ForkNode(id, parent)
      PROVE  UNCHANGED ExecVars
  BY <1>1, <1>4 DEF ForkNode
<1>5. ASSUME NEW n \in Ids, KillNode(n) \/ ExecCommand(n) \/ PingNode(n)
      PROVE  UNCHANGED ExecVars
  BY <1>1, <1>5, PingSlotIsNoOp
  DEF KillNode, ExecCommand, PingNode, IInv, TypeOK, NodeTypeOK
<1>6. CASE CleanupOperation
  <2>1. CASE current \in due /\ RemoveOperation("dropped", "cleanup")
    <3>1. current # NoOp /\ pc = "cleanup" /\ age[current] > OpTimeout
      BY <1>6, <2>1 DEF CleanupOperation, IInv, ListInv, DueIsLate
    <3>2. current \in Ops /\ Exec!Report(current)
      BY <2>1, <3>1, RemoveOperationImplements
    <3> QED BY <3>2, OpsAgree DEF Exec!Next
  <2>2. CASE KeepOperation
    BY <2>2, <1>1 DEF KeepOperation
  <2> QED BY <1>6, <2>1, <2>2 DEF CleanupOperation
<1>7. CASE CheckResponse
  <2>1. current # NoOp /\ pc = "responses"
    BY <1>7 DEF CheckResponse
  <2>2. ASSUME NEW result \in {"ok", "unavailable"},
               RemoveOperation(result, "responses"),
               result = "ok" => req[current] = "arrived"
        PROVE  Exec!Next
    <3>1. current \in Ops /\ Exec!Report(current)
      BY <2>1, <2>2, RemoveOperationImplements
    <3> QED BY <3>1, OpsAgree DEF Exec!Next
  <2>3. CASE KeepOperation
    BY <2>3, <1>1 DEF KeepOperation
  <2> QED BY <1>7, <2>2, <2>3 DEF CheckResponse
<1> QED BY <1>2, <1>3, <1>4, <1>5, <1>6, <1>7 DEF ManagerStep

\* A request that is listed and sent is the Send step of the service.
LEMMA ExecSendImplements == IInv /\ ExecSend => Exec!Next
<1> SUFFICES ASSUME IInv, ExecSend PROVE Exec!Next
  OBVIOUS
<1> DEFINE new == issued + 1
           old == [p \in Ops |-> StatusOf(p)]
<1>1. /\ new \in Ops /\ issued' = new /\ outcome[new] = "none" /\ req'[new] = "queued"
      /\ outcome' = outcome /\ age' = age /\ \A p \in Ops \ {new} : req'[p] = req[p]
  <2>1. new \in Ops /\ new \in Requests
    BY PingSlotIsNoOp DEF ExecSend, IInv, TypeOK, Ops
  <2> QED BY <2>1, PingSlotIsNoOp
          DEF ExecSend, IInv, ListInv, TypeOK, NodeTypeOK, UnsentIsBlank, Ops
<1>2. \A p \in Ops : StatusOf(p)' = IF p = new THEN "waiting" ELSE StatusOf(p)
  BY <1>1 DEF StatusOf, IInv, TypeOK, Ops
<1>3. old[new] = "unused" /\ \A p \in Ops : p < new => old[p] # "unused"
  BY <1>1 DEF StatusOf, IInv, TypeOK, Ops, Outcomes
<1>4. [p \in Ops |-> StatusOf(p)]' = [old EXCEPT ![new] = "waiting"]
  BY <1>2
<1>5. UNCHANGED [p \in Ops |-> age[p] > OpTimeout]
  BY <1>1
<1> HIDE DEF new
<1>6. Exec!Send(new)
  BY <1>3, <1>4, <1>5, OpsAgree DEF Exec!Send
<1> QED BY <1>1, <1>6, OpsAgree DEF Exec!Next

\* The answer of a node to a request that is still open is the Answer step.
LEMMA NodeStepImplements ==
  IInv /\ NodeStep => Exec!Next \/ UNCHANGED ExecVars
<1> SUFFICES ASSUME IInv, NodeStep PROVE Exec!Next \/ UNCHANGED ExecVars
  OBVIOUS
<1>1. ASSUME UNCHANGED <<issued, outcome, age>>,
             \A o \in Ops : outcome[o] = "none" /\ o <= issued =>
                (req'[o] = "arrived" <=> req[o] = "arrived")
      PROVE  UNCHANGED ExecVars
  BY <1>1, SameStatus, StutterImplements DEF IInv
<1> USE DEF managerVars, opVars
<1>2. ASSUME NEW n \in Ids, NodeStarts(n) \/ NodeEnds(n) \/ ChildHandles(n) \/ LeftoverEnds(n)
      PROVE  UNCHANGED ExecVars
  BY <1>1, <1>2, PingSlotIsNoOp
  DEF NodeStarts, NodeEnds, ChildHandles, LeftoverEnds, LeftoverDies, Lost,
                StartCalcNode, NodeDies, ChildRunsHandler
<1>3. ASSUME NEW r \in Requests, NodeGets(r) PROVE UNCHANGED ExecVars
  BY <1>1, <1>3, PingSlotIsNoOp
  DEF NodeGets, Deliver, IInv, TypeOK, NodeTypeOK
<1>4. ASSUME NEW r \in Requests, NodeAnswers(r)
      PROVE  Exec!Next \/ UNCHANGED ExecVars
  <2>1. /\ UNCHANGED <<issued, outcome, age>> /\ req[r] = "inbox"
        /\ req' = [req EXCEPT ![r] = "arrived"]
    BY <1>4 DEF NodeAnswers, ServeRequest
  <2>2. CASE r \notin Ops \/ outcome[r] # "none"
    BY <1>1, <2>1, <2>2, PingSlotIsNoOp DEF IInv, TypeOK, NodeTypeOK
  <2>3. CASE r \in Ops /\ outcome[r] = "none"
    <3> DEFINE old == [p \in Ops |-> StatusOf(p)]
    <3>1. ~(r > issued)
      BY <2>1, <2>3 DEF IInv, ListInv, UnsentIsBlank
    <3>2. \A p \in Ops : StatusOf(p)' = IF p = r THEN "answered" ELSE StatusOf(p)
      BY <2>1, <2>3, <3>1, PingSlotIsNoOp DEF StatusOf, IInv, TypeOK, NodeTypeOK
    <3>3. old[r] = "waiting"
      BY <2>1, <2>3, <3>1 DEF StatusOf
    <3>4. [p \in Ops |-> StatusOf(p)]' = [old EXCEPT ![r] = "answered"]
      BY <3>2
    <3>5. UNCHANGED [p \in Ops |-> age[p] > OpTimeout]
      BY <2>1
    <3>6. Exec!Answer(r)
      BY <3>3, <3>4, <3>5 DEF Exec!Answer
    <3> QED BY <2>3, <3>6, OpsAgree DEF Exec!Next
  <2> QED BY <2>2, <2>3
<1> QED BY <1>2, <1>3, <1>4 DEF NodeStep

\* A second that passes makes open requests late: the Expire step.
LEMMA TickImplements == IInv /\ Tick => Exec!Next
<1> SUFFICES ASSUME IInv, Tick PROVE Exec!Next
  OBVIOUS
<1> DEFINE late == [o \in Ops |-> age[o] > OpTimeout]
           S == {o \in Open : age'[o] > OpTimeout}
<1>1. \A o \in Ops : StatusOf(o)' = StatusOf(o)
  BY DEF Tick, StatusOf, nodeVars
<1>2. \A o \in Open : o \in Ops /\ StatusOf(o) \in Exec!Open
  BY DEF IInv, TypeOK, Open, StatusOf, Exec!Open, Ops
<1>3. \A o \in Ops : (age'[o] > OpTimeout) <=> (age[o] > OpTimeout) \/ o \in S
  BY DEF Tick, IInv, TypeOK, Ages
<1>4. S \in SUBSET {o \in Ops : [p \in Ops |-> StatusOf(p)][o] \in Exec!Open}
  BY <1>2
<1>5. late' = [o \in Ops |-> late[o] \/ o \in S]
  <2>1. \A o \in Ops : late[o] = (age[o] > OpTimeout)
    OBVIOUS
  <2> HIDE DEF S
  <2>2. \A o \in Ops : (age'[o] > OpTimeout) = ((age[o] > OpTimeout) \/ o \in S)
    BY <1>3
  <2>3. [o \in Ops |-> age'[o] > OpTimeout] = [o \in Ops |-> (age[o] > OpTimeout) \/ o \in S]
    BY <2>2, Zenon
  <2>4. [o \in Ops |-> late[o] \/ o \in S] = [o \in Ops |-> (age[o] > OpTimeout) \/ o \in S]
    BY <2>1, Zenon
  <2> QED BY <2>3, <2>4
<1>6. UNCHANGED [o \in Ops |-> StatusOf(o)]
  BY <1>1
<1> HIDE DEF S
<1>7. Exec!Expire
  BY <1>4, <1>5, <1>6, OpsAgree DEF Exec!Expire
<1> QED BY <1>7 DEF Exec!Next

\* Every behaviour of the manager and its nodes is a behaviour of the exec
\* service: each request ends at most once, "ok" is said only of an answered
\* one, and only a late one is dropped without a word.
THEOREM Refinement == Spec => ImplementsExecService
<1>1. IInv /\ [Next]_vars => [Exec!Next]_(Exec!vars)
  <2> SUFFICES ASSUME IInv, [Next]_vars PROVE Exec!Next \/ UNCHANGED ExecVars
    BY DEF Exec!vars, ExecVars, Exec!Ops, Ops
  <2>1. CASE UserStep
    <3>1. CASE ExecSend
      BY <3>1, ExecSendImplements
    <3>2. CASE ExecRefused \/ Exit
      BY <3>2, StutterImplements
      DEF ExecRefused, Exit, nodeVars, opVars, StatusOf
    <3> QED BY <2>1, <3>1, <3>2 DEF UserStep
  <2>2. CASE HandleSignal \/ UNCHANGED vars
    BY <2>2, StutterImplements DEF HandleSignal, vars, nodeVars, opVars, StatusOf
  <2> QED BY <2>1, <2>2, ManagerStepImplements, NodeStepImplements, TickImplements
          DEF Next
<1> QED BY Invariance, InitImplements, <1>1, PTL
        DEF Spec, ImplementsExecService, Exec!Spec
=============================================================================
