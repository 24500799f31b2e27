----------------------------- MODULE NodeProofs -----------------------------
(***************************************************************************)
(* Theorems about the tree, the processes and the requests of Manager, for *)
(* every set of ids: why a node is marked, which processes the tree knows, *)
(* where an answer comes from and what pingall lists.  Unlike              *)
(* ManagerProofs they need the tree to be a search tree (TreeProofs), and  *)
(* with it that a node once in the tree never leaves it.                   *)
(***************************************************************************)
EXTENDS ManagerProofs, TreeProofs

(* The inductive invariant, in parts.                                       *)

\* The tree is a search tree, the node being created is not in it yet, and
\* only nodes of the tree are available.
TreeInv ==
  /\ WellFormed(tree)
  /\ pc = "inserting" => arg \in Ids \ Nodes(tree)
  /\ \A n \in Ids : avail[n] => n \in Nodes(tree)

Busy == {"inserting", "typing", "pinging", "exited", "terminated"}

\* arg holds an id only while a command is in progress, or was when it ended.
ArgInv ==
  /\ pc = "typing" => arg \in Ids
  /\ arg # NULL => pc \in Busy

\* A process that was ever forked is in the tree or about to be; the signal
\* handler signalled every one that was in it.
ProcessInv ==
  /\ \A n \in Ids : proc[n] # "none" =>
       n \in Nodes(tree) \/ (pc \in {"inserting", "terminated"} /\ arg = n)
  /\ pc = "terminated" => \A n \in Nodes(tree) : Running(n) => n \in signalled

\* What may have made a node unavailable.
Cause(a) == a \in signalled \/ proc[a] = "reaped"

\* MarkedForACause, told with the descendants instead of the walk.
CauseInv ==
  \A n \in Nodes(tree) : ~avail[n] =>
    \E a \in Nodes(tree) : n \in Desc(tree, a) /\ Cause(a)

\* The program of node n came up on its port, or some other did before it.
CameUp(n) == proc[n] \notin {"none", "forked", "deaf"} \/ leftover[n] # "none"

\* Request o was taken by its node, which had not ended when it was sent, or by
\* some other process on the port.
Taken(o) ==
  /\ CameUp(opNode[o])
  /\ o \in sentToDead => leftover[opNode[o]] # "none"

\* A request goes to a node of the tree, what was dead then is still dead, and
\* only a request that was taken is read or answered.
RequestInv ==
  \A o \in Ops :
    /\ o <= issued => opNode[o] \in Nodes(tree)
    /\ o \in sentToDead => o <= issued /\ ~Running(opNode[o])
    /\ req[o] \in {"inbox", "arrived"} \/ outcome[o] = "ok" => Taken(o)

\* While pingall runs, the dead stay dead, a node already visited is listed
\* if it is marked or dead, and the ping under way is not answered by a dead
\* node.
PingInv ==
  pc = "pinging" =>
    /\ \A n \in deadBefore : n \in Nodes(tree) /\ ~Running(n)
    /\ \A n \in Nodes(tree) \ pingTodo : n # arg =>
         /\ avail[n] \/ n \in report
         /\ n \in deadBefore => n \in report \/ leftover[n] # "none"
    /\ arg # NULL =>
         /\ opNode[PingSlot] = arg /\ avail[arg]
         /\ arg \in deadBefore /\ req[PingSlot] \in {"inbox", "arrived"}
              => leftover[arg] # "none"

NInv ==
  /\ TreeInv
  /\ ArgInv
  /\ ProcessInv
  /\ CauseInv
  /\ RequestInv
  /\ ErrorHasACause
  /\ PingInv
-----------------------------------------------------------------------------
(* What the steps do, one kind of variable after the other.                 *)

\* Only the end of a create changes the tree or makes a node available.
LEMMA TreeStep ==
  ASSUME [Next]_vars
  PROVE  \/ InsertForked
         \/ UNCHANGED tree /\ \A n \in Ids : avail'[n] => avail[n]
<1> USE DEF nodeVars, opVars, passVars, listVars, pingVars, managerVars
<1>1. CASE ManagerStep
  <2>1. ASSUME CleanupOperation \/ CheckResponse
        PROVE  UNCHANGED <<tree, avail>>
    BY <2>1 DEF CleanupOperation, CheckResponse, RemoveOperation, KeepOperation
  <2>2. ASSUME NEW n \in Ids, KillNode(n) \/ ExecCommand(n) \/ PingNode(n)
        PROVE  UNCHANGED tree /\ \A m \in Ids : avail'[m] => avail[m]
    BY <2>2 DEF KillNode, ExecCommand, PingNode, UnavailableAfter
  <2> QED BY <1>1, <2>1, <2>2
          DEF ManagerStep, CloseReturns, Poll, CleanupDone, ResponsesDone,
              CheckProcessStatus, OtherCommand, PingAll, ForkNode, PingAnswered,
              PingTimeout, PingAllDone, UnavailableAfter
<1>2. CASE UserStep \/ HandleSignal \/ Tick \/ UNCHANGED vars
  BY <1>2 DEF UserStep, ExecSend, ExecRefused, Exit, HandleSignal, Tick, vars
<1>3. CASE NodeStep
  BY <1>3 DEF NodeStep, NodeStarts, NodeEnds, ChildHandles, LeftoverEnds,
              NodeGets, NodeAnswers
<1> QED BY <1>1, <1>2, <1>3 DEF Next

\* How the position of the manager and the id it works on change: only a fork
\* leads to "inserting", only the insertion or the signal handler away from it,
\* and nothing goes on after the handler.
ControlRule ==
  /\ pc' = "inserting" =>
       \/ pc = "inserting" /\ UNCHANGED <<arg, tree>>
       \/ pc = "command" /\ arg' \in Ids /\ \E parent \in Ptr : ForkNode(arg', parent)
  /\ pc = "inserting" =>
       InsertForked \/ (pc' \in {"inserting", "terminated"} /\ UNCHANGED arg)
  /\ pc = "terminated" => pc' = "terminated" /\ UNCHANGED <<arg, tree>>
  /\ pc' = "terminated" => pc = "terminated" \/ HandleSignal
  /\ pc' = "typing" => (pc = "typing" /\ UNCHANGED arg) \/ arg' \in Ids
  /\ arg' # NULL => pc' \in Busy \/ (UNCHANGED arg /\ pc \notin Busy)
  /\ pc' = "pinging" => pc = "pinging" \/ PingAll

\* Every step of the specification follows the rule.
LEMMA ControlStep ==
  ASSUME IInv, [Next]_vars
  PROVE  ControlRule
<1>0. resume \in {"cleanup", "responses"}
  BY DEF IInv, TypeOK
<1> USE DEF nodeVars, opVars, passVars, listVars, pingVars, managerVars, Busy
<1>1. CASE ManagerStep
  <2>1. CASE CleanupOperation \/ CheckResponse
    <3>1. /\ UNCHANGED <<arg, tree>>
          /\ pc \in {"cleanup", "responses"}
          /\ pc' \in {"cleanup", "responses", "closing"}
      BY <2>1 DEF CleanupOperation, CheckResponse, RemoveOperation, KeepOperation
    <3> QED BY <3>1 DEF ControlRule
  <2>2. ASSUME NEW id \in Ids, NEW parent \in Ptr, ForkNode(id, parent)
        PROVE  ControlRule
    <3>1. pc = "command" /\ pc' = "inserting" /\ arg' = id
      BY <2>2 DEF ForkNode
    <3> QED BY <2>2, <3>1 DEF ControlRule
  <2>3. ASSUME NEW n \in Ids, KillNode(n) \/ ExecCommand(n) \/ PingNode(n)
        PROVE  ControlRule
    BY <2>3 DEF ControlRule, KillNode, ExecCommand, PingNode
  <2>4. CASE InsertForked \/ PingAll \/ PingAnswered \/ PingTimeout \/ PingAllDone
    BY <2>4 DEF ControlRule, InsertForked, PingAll, PingAnswered, PingTimeout, PingAllDone
  <2>5. CASE \/ CloseReturns \/ Poll \/ CleanupDone \/ ResponsesDone
             \/ CheckProcessStatus \/ OtherCommand
    BY <1>0, <2>5
    DEF ControlRule, CloseReturns, Poll, CleanupDone, ResponsesDone,
        CheckProcessStatus, OtherCommand
  <2> QED BY <1>1, <2>1, <2>2, <2>3, <2>4, <2>5 DEF ManagerStep
<1>2. CASE UserStep \/ HandleSignal \/ Tick \/ UNCHANGED vars
  BY <1>2 DEF ControlRule, UserStep, ExecSend, ExecRefused, Exit, HandleSignal, Tick, vars
<1>3. CASE NodeStep
  BY <1>3 DEF ControlRule, NodeStep, NodeStarts, NodeEnds, ChildHandles, LeftoverEnds,
              NodeGets, NodeAnswers
<1> QED BY <1>1, <1>2, <1>3 DEF Next

\* How the processes change: but for a fork each only goes forwards, and neither
\* a signal nor a process of an earlier session is forgotten.
ProcessRule ==
  /\ signalled \subseteq signalled'
  /\ \A n \in Ids :
       /\ proc'[n] = "none" <=> proc[n] = "none"
       /\ proc[n] = "reaped" => proc'[n] = "reaped"
       /\ leftover[n] # "none" => leftover'[n] # "none"
       /\ CameUp(n) => CameUp(n)'
       /\ Running(n)' => Running(n)

\* A step that changes no process and no port follows the rule.
LEMMA SameProcesses ==
  ASSUME UNCHANGED <<proc, leftover>>, signalled \subseteq signalled'
  PROVE  ProcessRule
BY DEF ProcessRule, CameUp, Running

\* Every step follows the rule, or forks a node.
LEMMA ProcessStep ==
  ASSUME IInv, [Next]_vars
  PROVE  ProcessRule \/ \E id \in Ids, parent \in Ptr : ForkNode(id, parent)
<1>0. proc \in [Ids -> ProcStates] /\ leftover \in [Ids -> Left]
  BY DEF IInv, TypeOK, NodeTypeOK
<1> USE DEF nodeVars, opVars, passVars, listVars, pingVars, managerVars
<1>1. CASE ManagerStep
  <2>1. ASSUME CleanupOperation \/ CheckResponse
        PROVE  ProcessRule
    <3>1. UNCHANGED <<proc, leftover, signalled>>
      BY <2>1 DEF CleanupOperation, CheckResponse, RemoveOperation, KeepOperation
    <3> QED BY <3>1, SameProcesses
  <2>2. ASSUME NEW n \in Ids, KillNode(n) \/ ExecCommand(n) \/ PingNode(n)
        PROVE  ProcessRule
    BY <2>2, SameProcesses DEF KillNode, ExecCommand, PingNode
  <2>3. CASE InsertForked \/ PingAll \/ PingAnswered \/ PingTimeout \/ PingAllDone
    BY <2>3, SameProcesses DEF InsertForked, PingAll, PingAnswered, PingTimeout, PingAllDone
  <2>4. CASE CloseReturns \/ Poll \/ CleanupDone \/ ResponsesDone \/ OtherCommand
    BY <2>4, SameProcesses
    DEF CloseReturns, Poll, CleanupDone, ResponsesDone, OtherCommand
  <2>5. CASE CheckProcessStatus
    <3>1. /\ UNCHANGED <<signalled, leftover>>
          /\ \A n \in Ids : proc'[n] = proc[n] \/ (proc[n] = "zombie" /\ proc'[n] = "reaped")
      BY <2>5 DEF CheckProcessStatus, Ended
    <3> QED BY <3>1 DEF ProcessRule, CameUp, Running
  <2> QED BY <1>1, <2>1, <2>2, <2>3, <2>4, <2>5 DEF ManagerStep
<1>2. CASE UserStep \/ HandleSignal \/ Tick \/ UNCHANGED vars
  BY <1>2, SameProcesses DEF UserStep, ExecSend, ExecRefused, Exit, HandleSignal, Tick, vars
<1>3. ASSUME NEW n \in Ids,
             NodeStarts(n) \/ NodeEnds(n) \/ ChildHandles(n) \/ LeftoverEnds(n)
      PROVE  ProcessRule
  <2>1. CASE NodeStarts(n)
    <3>1. /\ UNCHANGED <<signalled, leftover>> /\ proc[n] = "forked"
          /\ \A m \in Ids : proc'[m] = proc[m] \/ (m = n /\ proc'[m] \in {"deaf", "serving"})
      BY <1>0, <2>1 DEF NodeStarts, StartCalcNode
    <3> QED BY <3>1 DEF ProcessRule, CameUp, Running
  <2>2. CASE NodeEnds(n) \/ ChildHandles(n)
    <3>1. /\ UNCHANGED leftover /\ signalled \subseteq signalled' /\ Running(n)
          /\ \A m \in Ids : proc'[m] = proc[m] \/ (m = n /\ proc'[m] = "zombie")
      <4>1. CASE NodeEnds(n)
        BY <1>0, <4>1 DEF NodeEnds, NodeDies, Remains
      <4>2. CASE ChildHandles(n)
        <5>1. proc[n] = "forked"
          BY <4>2 DEF ChildHandles, ChildRunsHandler
        <5> QED BY <1>0, <4>2, <5>1 DEF ChildHandles, ChildRunsHandler, Running, Remains
      <4> QED BY <2>2, <4>1, <4>2
    <3> QED BY <3>1 DEF ProcessRule, CameUp, Running
  <2>3. CASE LeftoverEnds(n)
    <3>1. /\ UNCHANGED <<proc, signalled>>
          /\ \A m \in Ids : leftover'[m] = leftover[m] \/ leftover'[m] = "gone"
      BY <1>0, <2>3 DEF LeftoverEnds, LeftoverDies
    <3> QED BY <3>1 DEF ProcessRule, CameUp, Running
  <2> QED BY <1>3, <2>1, <2>2, <2>3
<1>4. ASSUME NEW r \in Requests, NodeGets(r) \/ NodeAnswers(r)
      PROVE  ProcessRule
  BY <1>4, SameProcesses DEF NodeGets, NodeAnswers, Deliver, ServeRequest
<1> QED BY <1>1, <1>2, <1>3, <1>4 DEF Next, NodeStep
-----------------------------------------------------------------------------
(* The tree.                                                                *)

\* The walks of the model, told with the descendants.
LEMMA TreeFacts ==
  ASSUME TreeInv
  PROVE  /\ tree \in Trees /\ Nodes(tree) \in SUBSET Ids /\ InTree = Nodes(tree)
         /\ \A n \in Ids : /\ n \in Desc(tree, n)
                           /\ Subtree(tree, n) = Desc(tree, n)
                           /\ Below(tree, n) \subseteq Desc(tree, n)
                           /\ Desc(tree, n) = {n} \cup Below(tree, n)
                           /\ \A m \in Below(tree, n) :
                                Below(tree, m) \subseteq Below(tree, n)
<1>1. WellFormed(tree) /\ tree \in Trees
  BY DEF TreeInv, WellFormed
<1>2. PICK h : Graded(tree, h)
  BY <1>1 DEF WellFormed
<1>3. \A p \in Ptr : Subtree(tree, p) = Desc(tree, p)
  BY <1>1, <1>2, SubtreeIsDesc
<1>4. InTree = Nodes(tree) /\ Nodes(tree) \in SUBSET Ids
  BY <1>1, <1>3, DescType DEF InTree, Nodes, Trees
<1>5. ASSUME NEW n \in Ids
      PROVE  /\ n \in Desc(tree, n)
             /\ Subtree(tree, n) = Desc(tree, n)
             /\ Below(tree, n) = Desc(tree, tree.left[n]) \cup Desc(tree, tree.right[n])
             /\ Desc(tree, n) = {n} \cup Below(tree, n)
  BY <1>1, <1>3, DescSelf, DescUnfold, KidsType DEF Below, Ptr
<1>6. ASSUME NEW n \in Ids, NEW m \in Below(tree, n)
      PROVE  Below(tree, m) \subseteq Below(tree, n)
  <2>1. m \in Ids
    BY <1>5, <1>6, DescType
  <2>2. /\ m \in Desc(tree, tree.left[n]) => Desc(tree, m) \subseteq Desc(tree, tree.left[n])
        /\ m \in Desc(tree, tree.right[n]) => Desc(tree, m) \subseteq Desc(tree, tree.right[n])
    BY <1>1, DescTransitive
  <2> QED BY <1>5, <1>6, <2>1, <2>2
<1> QED BY <1>1, <1>4, <1>5, <1>6

\* What the end of a create does.
LEMMA InsertStep ==
  ASSUME IInv, TreeInv, InsertForked
  PROVE  /\ WellFormed(tree') /\ arg \in Ids /\ arg \notin Nodes(tree)
         /\ Nodes(tree') = Nodes(tree) \cup {arg}
         /\ \A x \in Ids : Desc(tree, x) \subseteq Desc(tree', x)
         /\ \A n \in Ids : avail'[n] = (avail[n] \/ n = arg)
<1>1. WellFormed(tree) /\ arg \in Ids /\ arg \notin Nodes(tree)
  BY DEF TreeInv, InsertForked
<1>2. tree' = InsertNode(tree, arg)
  BY DEF InsertForked
<1>3. /\ WellFormed(tree') /\ Nodes(tree') = Nodes(tree) \cup {arg}
      /\ \A x \in Ptr : Desc(tree, x) \subseteq Desc(tree', x)
  BY <1>1, <1>2, InsertKeeps
<1>4. \A n \in Ids : avail'[n] = (avail[n] \/ n = arg)
  <2>1. avail \in [Ids -> BOOLEAN] /\ avail' = [avail EXCEPT ![arg] = TRUE]
    BY DEF IInv, TypeOK, InsertForked
  <2> QED BY <2>1, Zenon
<1> QED BY <1>1, <1>3, <1>4 DEF Ptr

\* A node in the tree stays in it, below the nodes it is below, and once
\* marked stays marked.
LEMMA NodesStay ==
  ASSUME IInv, TreeInv, [Next]_vars
  PROVE  /\ Nodes(tree) \subseteq Nodes(tree')
         /\ \A x \in Ids : Desc(tree, x) \subseteq Desc(tree', x)
         /\ \A n \in Nodes(tree) : avail'[n] => avail[n]
<1>1. CASE InsertForked
  BY <1>1, InsertStep, TreeFacts
<1>2. CASE UNCHANGED tree /\ \A n \in Ids : avail'[n] => avail[n]
  BY <1>2, TreeFacts
<1> QED BY <1>1, <1>2, TreeStep

\* TreeInv is kept: the create in progress inserts an id that is new.
LEMMA TreeKept ==
  ASSUME IInv, TreeInv, [Next]_vars
  PROVE  TreeInv'
<1>1. ControlRule
  BY ControlStep
<1>2. CASE InsertForked
  <2>1. pc' = "poll"
    BY <1>2 DEF InsertForked
  <2> QED BY <1>2, <2>1, InsertStep DEF TreeInv
<1>3. CASE UNCHANGED tree /\ \A n \in Ids : avail'[n] => avail[n]
  <2>1. ASSUME pc' = "inserting" PROVE arg' \in Ids \ Nodes(tree)
    <3>1. CASE pc = "inserting" /\ UNCHANGED arg
      BY <3>1 DEF TreeInv
    <3>2. CASE arg' \in Ids /\ \E parent \in Ptr : ForkNode(arg', parent)
      <4>1. PICK parent : CreateAccepted(tree, arg', parent)
        BY <3>2 DEF ForkNode
      <4> QED BY <3>2, <4>1, CreateIsNew DEF TreeInv
    <3> QED BY <1>1, <2>1, <3>1, <3>2 DEF ControlRule
  <2> QED BY <1>3, <2>1 DEF TreeInv
<1> QED BY <1>2, <1>3, TreeStep

\* ArgInv is kept: a command sets arg and its last step clears it.
LEMMA ArgKept ==
  ASSUME IInv, ArgInv, [Next]_vars
  PROVE  ArgInv'
BY ControlStep DEF ArgInv, ControlRule
-----------------------------------------------------------------------------
(* The processes and the marks.                                             *)

\* A fork is the first for its id.
LEMMA ForkFacts ==
  ASSUME IInv, TreeInv, ProcessInv, NEW id \in Ids, NEW parent \in Ptr,
         ForkNode(id, parent)
  PROVE  /\ id \notin Nodes(tree) /\ proc[id] = "none"
         /\ pc = "command" /\ pc' = "inserting" /\ arg' = id
         /\ UNCHANGED <<tree, avail, signalled, leftover, req, opNode, opVars>>
         /\ \A n \in Ids : proc'[n] = IF n = id THEN "forked" ELSE proc[n]
<1>1. /\ pc = "command" /\ pc' = "inserting" /\ arg' = id
      /\ UNCHANGED <<tree, avail, signalled, leftover, req, opNode, opVars>>
      /\ CreateAccepted(tree, id, parent)
      /\ proc' = [proc EXCEPT ![id] = "forked"]
  BY DEF ForkNode
<1>2. id \notin Nodes(tree)
  BY <1>1, CreateIsNew DEF TreeInv
<1>3. proc[id] = "none"
  BY <1>1, <1>2 DEF ProcessInv
<1>4. proc \in [Ids -> ProcStates]
  BY DEF IInv, TypeOK, NodeTypeOK
<1> QED BY <1>1, <1>2, <1>3, <1>4

\* ProcessInv is kept: who is forked is inserted next, or the handler runs first.
LEMMA ProcessKept ==
  ASSUME IInv, TreeInv, ProcessInv, [Next]_vars
  PROVE  ProcessInv'
<1>1. ControlRule /\ Nodes(tree) \subseteq Nodes(tree') /\ Nodes(tree) \in SUBSET Ids
  BY ControlStep, NodesStay, TreeFacts
<1>2. ASSUME NEW id \in Ids, NEW parent \in Ptr, ForkNode(id, parent)
      PROVE  ProcessInv'
  BY <1>2, ForkFacts DEF ProcessInv
<1>3. CASE ProcessRule
  <2>1. ASSUME NEW n \in Ids, proc'[n] # "none"
        PROVE  n \in Nodes(tree') \/ (pc' \in {"inserting", "terminated"} /\ arg' = n)
    <3>1. proc[n] # "none"
      BY <1>3, <2>1 DEF ProcessRule
    <3>2. CASE n \in Nodes(tree)
      BY <1>1, <3>2
    <3>3. CASE pc = "inserting" /\ arg = n
      <4>1. CASE InsertForked
        BY <3>3, <4>1, InsertStep
      <4> QED BY <1>1, <3>3, <4>1 DEF ControlRule
    <3>4. CASE pc = "terminated" /\ arg = n
      BY <1>1, <3>4 DEF ControlRule
    <3> QED BY <3>1, <3>2, <3>3, <3>4 DEF ProcessInv
  <2>2. ASSUME pc' = "terminated", NEW n \in Nodes(tree'), Running(n)'
        PROVE  n \in signalled'
    <3>1. CASE pc = "terminated"
      BY <1>1, <1>3, <2>2, <3>1 DEF ControlRule, ProcessRule, ProcessInv
    <3>2. CASE HandleSignal
      BY <2>2, <3>2, TreeFacts DEF HandleSignal, KillTree, Running
    <3> QED BY <1>1, <2>2, <3>1, <3>2 DEF ControlRule
  <2> QED BY <2>1, <2>2 DEF ProcessInv
<1> QED BY <1>2, <1>3, ProcessStep

\* Marks come from the two walks only, which start at nodes with a cause.
LEMMA MarkStep ==
  ASSUME IInv, TreeInv, ProcessInv, [Next]_vars
  PROVE  \/ InsertForked
         \/ UNCHANGED <<tree, avail>>
         \/ /\ UNCHANGED tree
            /\ \E S \in SUBSET Nodes(tree) :
                 avail' = UnavailableAfter(S) /\ \A s \in S : Cause(s)'
<1> USE DEF nodeVars, opVars, passVars, listVars, pingVars, managerVars
<1>1. CASE ManagerStep
  <2>1. ASSUME CleanupOperation \/ CheckResponse
        PROVE  UNCHANGED <<tree, avail>>
    BY <2>1 DEF CleanupOperation, CheckResponse, RemoveOperation, KeepOperation
  <2>2. ASSUME NEW n \in Ids, KillNode(n)
        PROVE  /\ UNCHANGED tree
               /\ \E S \in SUBSET Nodes(tree) :
                    avail' = UnavailableAfter(S) /\ \A s \in S : Cause(s)'
    <3>1. n \in Nodes(tree)
      BY <2>2 DEF KillNode, ProcessInv
    <3>2. avail' = UnavailableAfter({n}) /\ n \in signalled' /\ UNCHANGED tree
      BY <2>2 DEF KillNode
    <3> QED BY <3>1, <3>2 DEF Cause
  <2>3. ASSUME CheckProcessStatus
        PROVE  /\ UNCHANGED tree
               /\ \E S \in SUBSET Nodes(tree) :
                    avail' = UnavailableAfter(S) /\ \A s \in S : Cause(s)'
    <3>1. \A n \in Ended : n \in Ids /\ avail[n]
      BY DEF Ended
    <3>2. Ended \in SUBSET Nodes(tree)
      BY <3>1 DEF TreeInv
    <3>3. UNCHANGED tree /\ avail' = UnavailableAfter(Ended) /\ \A n \in Ended : proc'[n] = "reaped"
      BY <2>3, <3>1 DEF CheckProcessStatus
    <3> QED BY <3>2, <3>3 DEF Cause
  <2>4. ASSUME NEW n \in Ids, ExecCommand(n) \/ PingNode(n)
        PROVE  UNCHANGED <<tree, avail>>
    BY <2>4 DEF ExecCommand, PingNode
  <2>5. CASE \/ CloseReturns \/ Poll \/ CleanupDone \/ ResponsesDone \/ OtherCommand
             \/ PingAll \/ PingAnswered \/ PingTimeout \/ PingAllDone
             \/ \E id \in Ids, parent \in Ptr : ForkNode(id, parent)
    BY <2>5 DEF CloseReturns, Poll, CleanupDone, ResponsesDone, OtherCommand, PingAll,
                PingAnswered, PingTimeout, PingAllDone, ForkNode
  <2> QED BY <1>1, <2>1, <2>2, <2>3, <2>4, <2>5 DEF ManagerStep
<1>2. CASE UserStep \/ HandleSignal \/ Tick \/ UNCHANGED vars
  BY <1>2 DEF UserStep, ExecSend, ExecRefused, Exit, HandleSignal, Tick, vars
<1>3. CASE NodeStep
  BY <1>3 DEF NodeStep, NodeStarts, NodeEnds, ChildHandles, LeftoverEnds,
              NodeGets, NodeAnswers
<1> QED BY <1>1, <1>2, <1>3 DEF Next

\* A node that a walk marks is at or below one the walk started at.
LEMMA MarkedBelow ==
  ASSUME IInv, TreeInv, NEW S \in SUBSET Nodes(tree), avail' = UnavailableAfter(S),
         NEW n \in Ids, avail[n], ~avail'[n]
  PROVE  \E s \in S : n \in Desc(tree, s)
<1>1. ~(avail[n] /\ n \notin S /\ \A s \in S : n \notin Below(tree, s))
  <2>1. avail'[n] = (avail[n] /\ n \notin S /\ \A s \in S : n \notin Below(tree, s))
    BY Zenon DEF UnavailableAfter
  <2> QED BY <2>1
<1> QED BY <1>1, TreeFacts

\* CauseInv is kept: a mark has its cause at the node itself or above it, and
\* an insertion takes no node from below another.
LEMMA CauseKept ==
  ASSUME IInv, TreeInv, ProcessInv, CauseInv, [Next]_vars
  PROVE  CauseInv'
<1>1. \A n \in Nodes(tree) : Cause(n) => Cause(n)'
  <2>1. ASSUME NEW id \in Ids, NEW parent \in Ptr, ForkNode(id, parent)
        PROVE  \A n \in Nodes(tree) : Cause(n) => Cause(n)'
    BY <2>1, ForkFacts, TreeFacts DEF Cause
  <2>2. ProcessRule => \A n \in Nodes(tree) : Cause(n) => Cause(n)'
    BY TreeFacts DEF ProcessRule, Cause
  <2> QED BY <2>1, <2>2, ProcessStep
<1>2. /\ Nodes(tree) \subseteq Nodes(tree') /\ Nodes(tree) \in SUBSET Ids
      /\ \A x \in Ids : Desc(tree, x) \subseteq Desc(tree', x)
  BY NodesStay, TreeFacts
<1>3. ASSUME NEW n \in Nodes(tree), ~avail[n]
      PROVE  \E a \in Nodes(tree') : n \in Desc(tree', a) /\ Cause(a)'
  <2>1. PICK a \in Nodes(tree) : n \in Desc(tree, a) /\ Cause(a)
    BY <1>3 DEF CauseInv
  <2> QED BY <1>1, <1>2, <2>1
<1>4. CASE InsertForked
  <2>1. \A n \in Nodes(tree') : ~avail'[n] => n \in Nodes(tree) /\ ~avail[n]
    BY <1>2, <1>4, InsertStep
  <2> QED BY <1>3, <2>1 DEF CauseInv
<1>5. CASE UNCHANGED <<tree, avail>>
  BY <1>3, <1>5 DEF CauseInv
<1>6. ASSUME UNCHANGED tree, NEW S \in SUBSET Nodes(tree), avail' = UnavailableAfter(S),
             \A s \in S : Cause(s)'
      PROVE  CauseInv'
  <2>1. ASSUME NEW n \in Nodes(tree'), ~avail'[n]
        PROVE  \E a \in Nodes(tree') : n \in Desc(tree', a) /\ Cause(a)'
    <3>1. CASE avail[n]
      <4>1. PICK s \in S : n \in Desc(tree, s)
        BY <1>2, <1>6, <2>1, <3>1, MarkedBelow
      <4> QED BY <1>6, <4>1
    <3>2. CASE ~avail[n]
      BY <1>3, <1>6, <2>1, <3>2
    <3> QED BY <3>1, <3>2
  <2> QED BY <2>1 DEF CauseInv
<1> QED BY <1>4, <1>5, <1>6, MarkStep
-----------------------------------------------------------------------------
(* The requests.                                                            *)

\* How the requests change once they are sent: they are only read on a node
\* that came up, only answered ones end with "ok", and an error has a cause.
RequestRule ==
  /\ UNCHANGED <<issued, sentToDead>>
  /\ \A o \in Ops :
       /\ opNode'[o] = opNode[o]
       /\ req'[o] \in {"inbox", "arrived"} =>
            req[o] \in {"inbox", "arrived"} \/ Listens(opNode[o])
       /\ outcome'[o] = "ok" => outcome[o] = "ok" \/ req[o] = "arrived"
       /\ age[o] > OpTimeout => age'[o] > OpTimeout
       /\ outcome'[o] = "unavailable" =>
            \/ outcome[o] = "unavailable" \/ age'[o] > OpTimeout
            \/ ~avail[opNode[o]] /\ UNCHANGED avail

\* A step that changes no request follows the rule.
LEMMA SameRequests ==
  ASSUME UNCHANGED <<issued, outcome, age, sentToDead>>,
         \A o \in Ops : opNode'[o] = opNode[o] /\ req'[o] = req[o]
  PROVE  RequestRule
BY DEF RequestRule

\* A request that leaves the list ends with what the loop found.
LEMMA RemovalRule ==
  ASSUME IInv, current # NoOp, NEW result, NEW here, RemoveOperation(result, here),
         result = "ok" => req[current] = "arrived",
         result = "unavailable" => ~avail[opNode[current]] \/ age[current] > OpTimeout
  PROVE  RequestRule
<1>1. /\ outcome \in [Ops -> Outcomes] /\ req \in [Requests -> ReqStates]
      /\ Ops \subseteq Requests
  BY PingSlotIsNoOp DEF IInv, TypeOK, NodeTypeOK
<1>2. /\ UNCHANGED <<issued, opNode, age, avail, sentToDead>>
      /\ outcome' = [outcome EXCEPT ![current] = result]
      /\ req' = [req EXCEPT ![current] = IF @ \in {"queued", "arrived"} THEN @ ELSE "none"]
  BY DEF RemoveOperation
<1>3. ASSUME NEW p \in Ops
      PROVE  /\ outcome'[p] = outcome[p] \/ (p = current /\ outcome'[p] = result)
             /\ req'[p] = req[p] \/ req'[p] = "none"
  BY <1>1, <1>2
<1> QED BY <1>2, <1>3 DEF RequestRule

\* Every step follows the rule, or sends an exec request.
LEMMA RequestStep ==
  ASSUME IInv, [Next]_vars
  PROVE  ExecSend \/ RequestRule
<1>0. /\ req \in [Requests -> ReqStates] /\ opNode \in [Requests -> Ptr]
      /\ Ops \subseteq Requests /\ PingSlot \notin Ops /\ age \in [Ops -> Ages]
  BY PingSlotIsNoOp DEF IInv, TypeOK, NodeTypeOK
<1> USE DEF nodeVars, opVars, passVars, listVars, pingVars, managerVars
<1>1. CASE ManagerStep
  <2>0. ASSUME KeepOperation
        PROVE  RequestRule
    BY <2>0, SameRequests DEF KeepOperation
  <2>1. ASSUME CleanupOperation
        PROVE  RequestRule
    <3>1. CASE current # NoOp /\ RemoveOperation("dropped", "cleanup")
      BY <3>1, RemovalRule
    <3> QED BY <2>0, <2>1, <3>1 DEF CleanupOperation
  <2>2. ASSUME CheckResponse
        PROVE  RequestRule
    <3>0. current # NoOp
      BY <2>2 DEF CheckResponse
    <3>1. CASE ~avail[opNode[current]] /\ RemoveOperation("unavailable", "responses")
      BY <3>0, <3>1, RemovalRule
    <3>2. CASE req[current] = "arrived" /\ RemoveOperation("ok", "responses")
      BY <3>0, <3>2, RemovalRule
    <3>3. CASE Expired(current) /\ RemoveOperation("unavailable", "responses")
      BY <3>0, <3>3, RemovalRule DEF Expired
    <3> QED BY <2>0, <2>2, <3>1, <3>2, <3>3 DEF CheckResponse, Answered
  <2>3. ASSUME NEW n \in Ids, KillNode(n) \/ ExecCommand(n)
        PROVE  RequestRule
    BY <2>3, SameRequests DEF KillNode, ExecCommand
  <2>4. ASSUME NEW n \in Ids, PingNode(n)
        PROVE  RequestRule
    BY <1>0, <2>4, SameRequests DEF PingNode
  <2>5. CASE PingAnswered \/ PingTimeout
    BY <1>0, <2>5, SameRequests DEF PingAnswered, PingTimeout
  <2>6. CASE \/ CloseReturns \/ Poll \/ CleanupDone \/ ResponsesDone \/ OtherCommand
             \/ CheckProcessStatus \/ InsertForked \/ PingAll \/ PingAllDone
             \/ \E id \in Ids, parent \in Ptr : ForkNode(id, parent)
    <3>1. UNCHANGED <<issued, outcome, age, sentToDead, opNode, req>>
      BY <2>6 DEF CloseReturns, Poll, CleanupDone, ResponsesDone, OtherCommand,
                  CheckProcessStatus, InsertForked, PingAll, PingAllDone, ForkNode
    <3> QED BY <3>1, SameRequests
  <2> QED BY <1>1, <2>1, <2>2, <2>3, <2>4, <2>5, <2>6 DEF ManagerStep
<1>2. CASE ExecRefused \/ Exit \/ HandleSignal \/ UNCHANGED vars
  <2>1. UNCHANGED <<issued, outcome, age, sentToDead, opNode, req>>
    BY <1>2 DEF ExecRefused, Exit, HandleSignal, vars
  <2> QED BY <2>1, SameRequests
<1>3. CASE Tick
  <2>1. UNCHANGED <<issued, outcome, sentToDead, opNode, req>>
    BY <1>3 DEF Tick
  <2>2. \A o \in Ops : age[o] > OpTimeout => age'[o] > OpTimeout
    BY <1>0, <1>3 DEF Tick, Older, Expired, Ages
  <2> QED BY <2>1, <2>2 DEF RequestRule
<1>4. ASSUME NEW n \in Ids,
             NodeStarts(n) \/ NodeEnds(n) \/ ChildHandles(n) \/ LeftoverEnds(n)
      PROVE  RequestRule
  <2>1. /\ UNCHANGED <<issued, outcome, age, sentToDead, opNode>>
        /\ \A o \in Ops : req'[o] = req[o] \/ req'[o] = "lost"
    BY <1>0, <1>4
    DEF NodeStarts, NodeEnds, ChildHandles, LeftoverEnds, StartCalcNode, NodeDies,
        ChildRunsHandler, LeftoverDies, Lost
  <2> QED BY <2>1 DEF RequestRule
<1>5. ASSUME NEW r \in Requests, NodeGets(r) \/ NodeAnswers(r)
      PROVE  RequestRule
  <2>1. UNCHANGED <<issued, outcome, age, sentToDead, opNode>>
    BY <1>5 DEF NodeGets, NodeAnswers, Deliver, ServeRequest
  <2>2. ASSUME NEW o \in Ops, req'[o] \in {"inbox", "arrived"}
        PROVE  req[o] \in {"inbox", "arrived"} \/ Listens(opNode[o])
    <3>1. CASE NodeGets(r)
      BY <1>0, <2>2, <3>1 DEF NodeGets, Deliver
    <3>2. CASE NodeAnswers(r)
      BY <1>0, <2>2, <3>2 DEF NodeAnswers, ServeRequest
    <3> QED BY <1>5, <3>1, <3>2
  <2> QED BY <2>1, <2>2 DEF RequestRule
<1> QED BY <1>1, <1>2, <1>3, <1>4, <1>5 DEF Next, UserStep, NodeStep

\* The invariant of ManagerProofs is kept too.
LEMMA InvKept ==
  ASSUME IInv, [Next]_vars
  PROVE  IInv'
BY ManagerStepInv, OtherStepInv, StutterInv DEF Next

\* Sending a request: it is new, and goes to an available node.
LEMMA SendFacts ==
  ASSUME IInv, TreeInv, ArgInv, ExecSend
  PROVE  /\ issued + 1 \in Ops /\ issued' = issued + 1 /\ arg \in Nodes(tree)
         /\ UNCHANGED <<tree, avail, proc, leftover, outcome, age>>
         /\ opNode'[issued + 1] = arg /\ req'[issued + 1] = "queued"
         /\ outcome[issued + 1] = "none"
         /\ sentToDead' = IF Running(arg) THEN sentToDead ELSE sentToDead \cup {issued + 1}
         /\ \A o \in Ops \ {issued + 1} : opNode'[o] = opNode[o] /\ req'[o] = req[o]
<1>1. issued \in Nat /\ issued + 1 \in Ops /\ issued + 1 \in Requests /\ issued' = issued + 1
  BY PingSlotIsNoOp, MaxOpsAssumption DEF IInv, TypeOK, ExecSend, Ops
<1>2. arg \in Nodes(tree)
  BY DEF ExecSend, ArgInv, TreeInv
<1>3. outcome[issued + 1] = "none"
  BY <1>1 DEF IInv, ListInv, UnsentIsBlank
<1>4. /\ UNCHANGED <<tree, avail, proc, leftover, outcome, age>>
      /\ opNode' = [opNode EXCEPT ![issued + 1] = arg]
      /\ req' = [req EXCEPT ![issued + 1] = "queued"]
      /\ sentToDead' = IF Running(arg) THEN sentToDead ELSE sentToDead \cup {issued + 1}
  BY DEF ExecSend
<1>5. req \in [Requests -> ReqStates] /\ opNode \in [Requests -> Ptr] /\ Ops \subseteq Requests
  BY PingSlotIsNoOp DEF IInv, TypeOK, NodeTypeOK
<1> QED BY <1>1, <1>2, <1>3, <1>4, <1>5

\* RequestInv is kept: exec finds its target in the tree, and only a node that
\* listens reads a request.
LEMMA RequestKept ==
  ASSUME IInv, TreeInv, ArgInv, ProcessInv, RequestInv, [Next]_vars
  PROVE  RequestInv'
<1>1. Nodes(tree) \subseteq Nodes(tree') /\ Nodes(tree) \in SUBSET Ids
  BY NodesStay, TreeFacts
<1>2. CASE ExecSend
  <2> SUFFICES ASSUME NEW o \in Ops
               PROVE  /\ o <= issued' => opNode'[o] \in Nodes(tree')
                      /\ o \in sentToDead' => o <= issued' /\ ~Running(opNode'[o])
                      /\ req'[o] \in {"inbox", "arrived"} \/ outcome'[o] = "ok"
                           => Taken(o) /\ opNode'[o] = opNode[o] /\ o \notin sentToDead' \ sentToDead
    BY <1>2, SendFacts DEF RequestInv, Taken, CameUp, Running
  <2>1. /\ o <= issued' => o <= issued \/ o = issued + 1
        /\ ~(issued + 1 <= issued)
    BY <1>2, SendFacts DEF IInv, TypeOK, Ops
  <2>2. CASE o = issued + 1
    <3>1. o \notin sentToDead /\ o <= issued'
      BY <1>2, <2>1, <2>2, SendFacts DEF RequestInv, IInv, TypeOK
    <3> QED BY <1>1, <1>2, <2>2, <3>1, SendFacts
  <2>3. CASE o # issued + 1
    <3>1. /\ opNode'[o] = opNode[o] /\ req'[o] = req[o] /\ outcome'[o] = outcome[o]
          /\ o \in sentToDead' <=> o \in sentToDead
      BY <1>2, <2>3, SendFacts
    <3>2. o <= issued => o <= issued'
      BY <1>2, SendFacts DEF IInv, TypeOK, Ops
    <3> QED BY <1>1, <2>1, <2>3, <3>1, <3>2 DEF RequestInv
  <2> QED BY <2>2, <2>3
<1>3. CASE RequestRule
  <2>1. \A n \in Nodes(tree) : /\ CameUp(n) => CameUp(n)'
                               /\ leftover[n] # "none" => leftover'[n] # "none"
                               /\ ~Running(n) => ~Running(n)'
    <3>1. ASSUME NEW id \in Ids, NEW parent \in Ptr, ForkNode(id, parent),
                 NEW n \in Nodes(tree)
          PROVE  proc'[n] = proc[n] /\ leftover'[n] = leftover[n]
      BY <1>1, <3>1, ForkFacts
    <3>2. ASSUME ProcessRule, NEW n \in Nodes(tree)
          PROVE  /\ CameUp(n) => CameUp(n)'
                 /\ leftover[n] # "none" => leftover'[n] # "none"
                 /\ ~Running(n) => ~Running(n)'
      BY <1>1, <3>2 DEF ProcessRule
    <3> QED BY <3>1, <3>2, ProcessStep DEF CameUp, Running
  <2>2. ASSUME NEW o \in Ops
        PROVE  /\ o <= issued' => opNode'[o] \in Nodes(tree')
               /\ o \in sentToDead' => o <= issued' /\ ~Running(opNode[o])'
               /\ req'[o] \in {"inbox", "arrived"} \/ outcome'[o] = "ok" => Taken(o)'
    <3>1. opNode'[o] = opNode[o] /\ issued' = issued /\ sentToDead' = sentToDead
      BY <1>3 DEF RequestRule
    <3>2. CASE o <= issued
      <4>1. /\ opNode[o] \in Nodes(tree)
            /\ o \in sentToDead => ~Running(opNode[o])
        BY <3>2 DEF RequestInv
      <4>2. ASSUME req'[o] \in {"inbox", "arrived"} \/ outcome'[o] = "ok"
            PROVE  Taken(o)
        <5>1. CASE req[o] \in {"inbox", "arrived"} \/ outcome[o] = "ok"
          BY <5>1 DEF RequestInv
        <5>2. CASE Listens(opNode[o])
          BY <4>1, <5>2 DEF Listens, Taken, CameUp, Running
        <5> QED BY <1>3, <4>2, <5>1, <5>2 DEF RequestRule
      <4>3. Taken(o) => Taken(o)'
        BY <2>1, <3>1, <4>1 DEF Taken, CameUp
      <4>4. o \in sentToDead' => ~Running(opNode[o])'
        BY <2>1, <3>1, <4>1 DEF Running
      <4> QED BY <1>1, <3>1, <3>2, <4>1, <4>2, <4>3, <4>4
    <3>3. CASE ~(o <= issued)
      <4>1. o > issued'
        BY <3>1, <3>3 DEF IInv, TypeOK, Ops
      <4>2. outcome'[o] = "none" /\ req'[o] = "none"
        BY <4>1, InvKept DEF IInv, ListInv, UnsentIsBlank
      <4>3. o \notin sentToDead
        BY <3>3 DEF RequestInv
      <4> QED BY <3>1, <3>3, <4>2, <4>3
    <3> QED BY <3>2, <3>3
  <2> QED BY <2>2 DEF RequestInv, Running
<1> QED BY <1>2, <1>3, RequestStep

\* ErrorHasACause is kept: the mark or the age that explains the message stays.
LEMMA ErrorKept ==
  ASSUME IInv, TreeInv, ArgInv, RequestInv, ErrorHasACause, [Next]_vars
  PROVE  ErrorHasACause'
<1>1. CASE ExecSend
  <2>1. ASSUME NEW o \in Ops, outcome'[o] = "unavailable"
        PROVE  ~avail'[opNode'[o]] \/ age'[o] > OpTimeout
    <3>1. o # issued + 1
      BY <1>1, <2>1, SendFacts
    <3> QED BY <1>1, <2>1, <3>1, SendFacts DEF ErrorHasACause
  <2> QED BY <2>1 DEF ErrorHasACause
<1>2. CASE RequestRule
  <2>1. ASSUME NEW o \in Ops, outcome'[o] = "unavailable"
        PROVE  ~avail'[opNode'[o]] \/ age'[o] > OpTimeout
    <3>1. opNode'[o] = opNode[o]
      BY <1>2 DEF RequestRule
    <3>2. CASE outcome[o] = "unavailable"
      <4>1. o <= issued
        BY <3>2 DEF IInv, ListInv, UnsentIsBlank, TypeOK, Ops
      <4>2. opNode[o] \in Nodes(tree)
        BY <4>1 DEF RequestInv
      <4>3. ~avail[opNode[o]] => ~avail'[opNode[o]]
        BY <4>2, NodesStay
      <4>4. age[o] > OpTimeout => age'[o] > OpTimeout
        BY <1>2 DEF RequestRule
      <4> QED BY <3>1, <3>2, <4>3, <4>4 DEF ErrorHasACause
    <3> QED BY <1>2, <2>1, <3>1, <3>2 DEF RequestRule
  <2> QED BY <2>1 DEF ErrorHasACause
<1> QED BY <1>1, <1>2, RequestStep
-----------------------------------------------------------------------------
(* The pings.                                                               *)

\* What goes on between the start and the end of pingall.
LEMMA PingSteps ==
  ASSUME [Next]_vars, pc = "pinging", pc' = "pinging"
  PROVE  \/ \E n \in Ids : PingNode(n)
         \/ PingAnswered \/ PingTimeout \/ NodeStep \/ Tick \/ UNCHANGED vars
<1>1. CASE ManagerStep
  <2>1. ~CleanupOperation /\ ~CheckResponse
    BY DEF CleanupOperation, CheckResponse
  <2>2. ~ \E id \in Ids, parent \in Ptr : ForkNode(id, parent)
    BY DEF ForkNode
  <2>3. ~ \E n \in Ids : KillNode(n) \/ ExecCommand(n)
    BY DEF KillNode, ExecCommand
  <2>4. ~(\/ CloseReturns \/ Poll \/ CleanupDone \/ ResponsesDone \/ CheckProcessStatus
          \/ OtherCommand \/ InsertForked \/ PingAll \/ PingAllDone)
    BY DEF CloseReturns, Poll, CleanupDone, ResponsesDone, CheckProcessStatus,
           OtherCommand, InsertForked, PingAll, PingAllDone
  <2> QED BY <1>1, <2>1, <2>2, <2>3, <2>4 DEF ManagerStep
<1>2. ~UserStep /\ ~HandleSignal
  BY DEF UserStep, ExecSend, ExecRefused, Exit, HandleSignal
<1> QED BY <1>1, <1>2 DEF Next

\* A ping is only read, and only answered, where somebody listens.
LEMMA PingRead ==
  ASSUME IInv, NodeStep, req'[PingSlot] \in {"inbox", "arrived"}
  PROVE  req[PingSlot] \in {"inbox", "arrived"} \/ Listens(opNode[PingSlot])
<1>0. req \in [Requests -> ReqStates] /\ PingSlot \in Requests
  BY DEF IInv, TypeOK, NodeTypeOK, Requests
<1>1. ASSUME NEW n \in Ids,
             NodeStarts(n) \/ NodeEnds(n) \/ ChildHandles(n) \/ LeftoverEnds(n)
      PROVE  req'[PingSlot] = req[PingSlot] \/ req'[PingSlot] = "lost"
  BY <1>0, <1>1
  DEF NodeStarts, NodeEnds, ChildHandles, LeftoverEnds, StartCalcNode, NodeDies,
      ChildRunsHandler, LeftoverDies, Lost
<1>2. ASSUME NEW r \in Requests, NodeGets(r)
      PROVE  req'[PingSlot] = req[PingSlot] \/ Listens(opNode[PingSlot])
  BY <1>0, <1>2 DEF NodeGets, Deliver
<1>3. ASSUME NEW r \in Requests, NodeAnswers(r)
      PROVE  req'[PingSlot] = req[PingSlot] \/ req[PingSlot] = "inbox"
  BY <1>0, <1>3 DEF NodeAnswers, ServeRequest
<1> QED BY <1>1, <1>2, <1>3 DEF NodeStep

\* PingInv is kept, by every step that can come between two pings.
LEMMA PingKept ==
  ASSUME IInv, TreeInv, ArgInv, ProcessInv, PingInv, [Next]_vars
  PROVE  PingInv'
<1> SUFFICES ASSUME pc' = "pinging" PROVE PingInv'
  BY DEF PingInv
<1>1. /\ Nodes(tree) \in SUBSET Ids /\ InTree = Nodes(tree) /\ deadBefore \in SUBSET Ids
      /\ arg \in Ptr /\ opNode \in [Requests -> Ptr] /\ req \in [Requests -> ReqStates]
      /\ PingSlot \in Requests
  BY TreeFacts DEF IInv, TypeOK, NodeTypeOK, Requests
<1>2. CASE PingAll
  <2>1. arg = NULL
    BY <1>2 DEF PingAll, ArgInv, Busy
  <2>2. /\ arg' = NULL /\ UNCHANGED <<tree, proc>> /\ pingTodo' = Nodes(tree)
        /\ deadBefore' = {n \in Nodes(tree) : ~Running(n)}
    BY <1>1, <1>2, <2>1 DEF PingAll, passVars, listVars, nodeVars
  <2> QED BY <2>2 DEF PingInv, Running
<1>3. CASE pc = "pinging"
  <2>1. ~ \E id \in Ids, parent \in Ptr : ForkNode(id, parent)
    BY <1>3 DEF ForkNode
  <2>2. ProcessRule
    BY <2>1, ProcessStep
  <2>3. \A n \in Ids : /\ ~Running(n) => ~Running(n)'
                       /\ leftover[n] # "none" => leftover'[n] # "none"
    BY <2>2 DEF ProcessRule
  <2>4. ASSUME NEW n \in Ids, PingNode(n)
        PROVE  PingInv'
    <3>1. /\ arg = NULL /\ UNCHANGED <<proc, leftover, tree, avail, deadBefore>>
          /\ pingTodo' = pingTodo \ {n} /\ report \subseteq report'
          /\ \/ n \in report' /\ arg' = NULL
             \/ /\ avail[n] /\ arg' = n
                /\ opNode'[PingSlot] = n /\ req'[PingSlot] = "queued"
      BY <1>1, <2>4 DEF PingNode, Listed
    <3>2. \A m \in Nodes(tree') \ pingTodo' : m # arg' =>
            m \in report' \/ (m \in Nodes(tree) \ pingTodo /\ m # arg)
      BY <1>1, <3>1, IdsAssumption
    <3>3. /\ \A m \in deadBefore : m \in Nodes(tree) /\ ~Running(m)
          /\ \A m \in Nodes(tree) \ pingTodo : m # arg =>
               /\ avail[m] \/ m \in report
               /\ m \in deadBefore => m \in report \/ leftover[m] # "none"
      BY <1>3 DEF PingInv
    <3>4. \A m \in Nodes(tree') \ pingTodo' : m # arg' =>
               /\ avail'[m] \/ m \in report'
               /\ m \in deadBefore' => m \in report' \/ leftover'[m] # "none"
      BY <3>1, <3>2, <3>3
    <3>5. arg' # NULL =>
            /\ opNode'[PingSlot] = arg' /\ avail'[arg'] /\ req'[PingSlot] = "queued"
      BY <3>1
    <3>6. \A m \in deadBefore' : m \in Nodes(tree') /\ ~Running(m)'
      BY <3>1, <3>3 DEF Running
    <3> QED BY <3>4, <3>5, <3>6 DEF PingInv
  <2>5. CASE PingAnswered \/ PingTimeout
    <3>1. /\ arg # NULL /\ arg' = NULL
          /\ UNCHANGED <<proc, leftover, tree, avail, deadBefore, pingTodo>>
          /\ \/ req[PingSlot] = "arrived" /\ UNCHANGED report
             \/ report' = report \cup {arg}
      BY <2>5 DEF PingAnswered, PingTimeout, pingVars, Listed
    <3>2. \A m \in Nodes(tree) \ pingTodo :
            /\ avail[m] \/ m \in report'
            /\ m \in deadBefore => m \in report' \/ leftover[m] # "none"
      BY <1>3, <3>1 DEF PingInv
    <3> QED BY <1>3, <3>1, <3>2 DEF PingInv, Running
  <2>6. CASE NodeStep
    <3>1. UNCHANGED <<tree, avail, arg, pingTodo, report, deadBefore, opNode>>
      BY <2>6 DEF NodeStep, NodeStarts, NodeEnds, ChildHandles, LeftoverEnds, NodeGets,
                  NodeAnswers, managerVars, passVars, listVars, pingVars, StartCalcNode, NodeDies,
                  ChildRunsHandler, LeftoverDies, Deliver, ServeRequest
    <3>2. \A m \in deadBefore' : m \in Nodes(tree') /\ ~Running(m)'
      BY <1>1, <1>3, <2>3, <3>1 DEF PingInv
    <3>3. \A m \in Nodes(tree') \ pingTodo' : m # arg' =>
               /\ avail'[m] \/ m \in report'
               /\ m \in deadBefore' => m \in report' \/ leftover'[m] # "none"
      BY <1>1, <1>3, <2>3, <3>1 DEF PingInv
    <3>4. ASSUME arg \in deadBefore, arg # NULL, req'[PingSlot] \in {"inbox", "arrived"}
          PROVE  leftover'[arg] # "none"
      <4>1. opNode[PingSlot] = arg /\ arg \in Ids /\ ~Running(arg)
        BY <1>1, <1>3, <3>4 DEF PingInv
      <4>2. req[PingSlot] \in {"inbox", "arrived"} \/ Listens(arg)
        BY <2>6, <3>4, <4>1, PingRead
      <4>3. Listens(arg) => leftover[arg] # "none"
        BY <4>1 DEF Listens, Running
      <4>4. leftover[arg] # "none"
        BY <1>3, <3>4, <4>2, <4>3 DEF PingInv
      <4> QED BY <2>3, <4>1, <4>4
    <3>5. arg' # NULL => opNode'[PingSlot] = arg' /\ avail'[arg']
      BY <1>3, <3>1 DEF PingInv
    <3> QED BY <3>1, <3>2, <3>3, <3>4, <3>5 DEF PingInv
  <2>7. CASE Tick \/ UNCHANGED vars
    <3>1. /\ UNCHANGED <<tree, avail, arg, pingTodo, report, deadBefore, opNode>>
          /\ UNCHANGED <<proc, leftover, req>>
      BY <2>7 DEF Tick, vars, nodeVars, passVars, listVars, pingVars
    <3> QED BY <1>3, <3>1 DEF PingInv, Running
  <2> QED BY <1>3, <2>4, <2>5, <2>6, <2>7, PingSteps
<1> QED BY <1>2, <1>3, ControlStep DEF ControlRule
-----------------------------------------------------------------------------
(* The theorems.                                                            *)

\* The invariant holds when main starts.
LEMMA InitNInv == Init => NInv
<1> SUFFICES ASSUME Init PROVE NInv
  OBVIOUS
<1>1. TreeInv /\ Nodes(tree) = {}
  BY EmptyTreeWellFormed DEF Init, TreeInv
<1>2. ArgInv /\ PingInv
  BY DEF Init, ArgInv, PingInv
<1>3. ProcessInv
  BY <1>1 DEF Init, NodeInit, ProcessInv
<1>4. CauseInv
  BY <1>1 DEF CauseInv
<1>5. RequestInv
  BY PingSlotIsNoOp DEF Init, NodeInit, RequestInv, Ops
<1>6. ErrorHasACause
  BY DEF Init, ErrorHasACause
<1> QED BY <1>1, <1>2, <1>3, <1>4, <1>5, <1>6 DEF NInv

\* The second inductive invariant holds in every reachable state.
THEOREM NodeInvariance == Spec => [](IInv /\ NInv)
<1>1. IInv /\ NInv /\ [Next]_vars => NInv'
  BY TreeKept, ArgKept, ProcessKept, CauseKept, RequestKept, ErrorKept, PingKept DEF NInv
<1> QED BY Invariance, InitNInv, <1>1, PTL DEF Spec

\* A node is believed lost only because it or a node above it was sent a
\* SIGTERM or was waited for, whatever was inserted since.
THEOREM MarksHaveACause == Spec => []MarkedForACause
<1>1. ASSUME NInv PROVE MarkedForACause
  <2>1. CauseInv /\ InTree = Nodes(tree) /\ Nodes(tree) \subseteq Ids
        /\ \A a \in Ids : Subtree(tree, a) = Desc(tree, a)
    BY <1>1, TreeFacts DEF NInv
  <2> QED BY <2>1 DEF CauseInv, Cause, MarkedForACause
<1> QED BY <1>1, NodeInvariance, PTL

\* Every process that runs is in the tree, but for the one just forked, and
\* once the signal handler ran each in the tree was signalled.
THEOREM ProcessesAreKnown == Spec => []NoStrayProcess
<1>1. ASSUME IInv, NInv PROVE NoStrayProcess
  <2>1. ProcessInv /\ InTree = Nodes(tree)
    BY <1>1, TreeFacts DEF NInv
  <2>2. \A n \in Ids : Running(n) => proc[n] # "none"
    BY DEF Running
  <2> QED BY <2>1, <2>2 DEF ProcessInv, NoStrayProcess
<1> QED BY <1>1, NodeInvariance, PTL

\* "Ok" is never said for a node that had not come up or had ended when the
\* request was sent, unless an earlier session's process held the port.
THEOREM OkIsFromANode == Spec => []OkFromLivingNode
<1>1. NInv => OkFromLivingNode
  BY DEF NInv, RequestInv, Taken, CameUp, OkFromLivingNode
<1> QED BY <1>1, NodeInvariance, PTL

\* "Node is unavailable" is only said of a marked node or a late request, and
\* stays true: no mark is ever taken back.
THEOREM ErrorsHaveACause == Spec => []ErrorHasACause
<1>1. NInv => ErrorHasACause
  BY DEF NInv
<1> QED BY <1>1, NodeInvariance, PTL

\* pingall lists every marked node and every node that was dead when it began.
THEOREM PingAllIsComplete == Spec => []PingAllListsTheDead
<1>1. ASSUME IInv, NInv PROVE PingAllListsTheDead
  <2> SUFFICES ASSUME pc = "pinging", pingTodo = {}, arg = NULL
               PROVE  /\ \A n \in deadBefore \ report : leftover[n] # "none"
                      /\ {n \in InTree : ~avail[n]} \subseteq report
    BY DEF PingAllListsTheDead
  <2>1. /\ InTree = Nodes(tree) /\ Nodes(tree) \subseteq Ids
        /\ \A n \in deadBefore : n \in Nodes(tree)
        /\ \A n \in Nodes(tree) : /\ avail[n] \/ n \in report
                                  /\ n \in deadBefore => n \in report \/ leftover[n] # "none"
    BY <1>1, TreeFacts, IdsAssumption DEF NInv, PingInv
  <2> QED BY <2>1
<1> QED BY <1>1, NodeInvariance, PTL

\* No step makes a marked node available again.
THEOREM MarksStay == Spec => MarkedForGood
<1>1. IInv /\ NInv /\ [Next]_vars => [\A n \in InTree : ~avail[n] => ~avail'[n]]_vars
  BY NodesStay, TreeFacts DEF NInv
<1> QED BY <1>1, NodeInvariance, PTL DEF Spec, MarkedForGood

\* A step that marks a node marks everything below it.
THEOREM MarksCoverSubtrees == Spec => MarkedWithSubtree
<1>1. ASSUME IInv, NInv, [Next]_vars, NEW n \in Ids, avail[n], ~avail'[n],
             NEW m \in Below(tree, n)
      PROVE  ~avail'[m]
  <2>1. TreeInv /\ ProcessInv
    BY <1>1 DEF NInv
  <2>2. m \in Ids
    BY <2>1, TreeFacts, DescType
  <2>3. CASE InsertForked
    BY <1>1, <2>1, <2>3, InsertStep
  <2>4. ASSUME NEW S \in SUBSET Nodes(tree), avail' = UnavailableAfter(S)
        PROVE  ~avail'[m]
    <3>1. \A k \in Ids : avail'[k] = (avail[k] /\ k \notin S /\ \A s \in S : k \notin Below(tree, s))
      BY <2>4, Zenon DEF UnavailableAfter
    <3>2. PICK s \in S : n = s \/ n \in Below(tree, s)
      BY <1>1, <3>1
    <3>3. s \in Ids
      BY <2>1, TreeFacts
    <3>4. m \in Below(tree, s)
      BY <1>1, <2>1, <3>2, <3>3, TreeFacts
    <3> QED BY <2>2, <3>1, <3>4
  <2> QED BY <1>1, <2>1, <2>3, <2>4, MarkStep
<1>2. IInv /\ NInv /\ [Next]_vars =>
        [\A n \in Ids : avail[n] /\ ~avail'[n] =>
           \A m \in Below(tree, n) : ~avail'[m]]_vars
  BY <1>1
<1> QED BY <1>2, NodeInvariance, PTL DEF Spec, MarkedWithSubtree
=============================================================================
