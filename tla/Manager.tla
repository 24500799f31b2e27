------------------------------ MODULE Manager ------------------------------
(***************************************************************************)
(* The controlling program of lab57: the command loop of main.c, the       *)
(* handlers of src/manage_node.c, the list of outstanding exec requests of *)
(* src/n_op.c and the signal handler, composed with the calculation nodes  *)
(* of CalcNode and the tree of TreeOps.                                    *)
(*                                                                         *)
(* The manager is one thread.  Its position is pc:                         *)
(*   "poll"       in zmq_poll on standard input                            *)
(*   "cleanup"    in cleanup_operations                                    *)
(*   "responses"  in check_responses                                       *)
(*   "status"     in check_process_status                                  *)
(*   "command"    a command line was read                                  *)
(*   "inserting"  between fork and insert_node of a create                 *)
(*   "typing"     in the fgets for the text and the pattern of an exec     *)
(*   "pinging"    in ping_all                                              *)
(*   "closing"    a request was unlinked: in zmq_close, zmq_ctx_destroy    *)
(*                and free                                                 *)
(*   "exited"     main returned;  "terminated"  the signal handler ran     *)
(*                                                                         *)
(* The list is the program's own: a request o is its node in memory, head  *)
(* is upcoming_operations, next[o] is op->next, and current and prev are   *)
(* the pointers of the pass under way.  One turn of a pass is one step.    *)
(***************************************************************************)
EXTENDS CalcNode, FiniteSets

CONSTANT
  OpTimeout   (* the age above which a request is given up: 5 in n_op.c *)

ASSUME OpTimeoutAssumption == OpTimeout \in Nat

VARIABLES
  tree,       (* the global root                                        *)
  avail,      (* TreeNode.available of each node; FALSE outside the tree*)
  head,       (* upcoming_operations                                    *)
  next,       (* op->next of each request                               *)
  heap,       (* the requests malloc returned and free did not get      *)
  issued,     (* how many exec requests were sent                       *)
  age,        (* now - op->timestamp, in ticks, up to OpTimeout + 1     *)
  outcome,    (* history: what the user was told about each request     *)
  sentToDead, (* history: requests whose node had ended when they were sent *)
  pc,         (* where the manager is                                   *)
  current,    (* the request the pass is at, or is closing              *)
  prev,       (* the last request the pass has kept                     *)
  due,        (* what had expired at now, the clock cleanup has read    *)
  resume,     (* the pass that goes on when a request is closed         *)
  arg,        (* the node id of the command in progress                 *)
  pingTodo,   (* nodes check_nodes has not visited yet                  *)
  report,     (* unavailable_nodes of the pingall in progress           *)
  deadBefore  (* history: nodes that were dead when pingall began       *)

listVars == <<head, next, heap>>
opVars   == <<listVars, issued, age, outcome, sentToDead>>
passVars == <<current, prev, due, resume>>
pingVars == <<pingTodo, report, deadBefore>>
vars     == <<nodeVars, tree, avail, opVars, pc, passVars, arg, pingVars>>

NoOp  == 0                  \* the null pointer of the list
OpPtr == Ops \cup {NoOp}

\* The requests that were sent and that no pass has ended.
Open == {o \in Ops : o <= issued /\ outcome[o] = "none"}

InTree == {n \in Ids : n \in Subtree(tree, tree.root)}

PcStates == {"poll", "cleanup", "responses", "status", "command", "inserting",
             "typing", "pinging", "closing", "exited", "terminated"}
Outcomes == {"none", "ok", "unavailable", "dropped"}
Ages     == 0..(OpTimeout + 1)

TypeOK ==
  /\ NodeTypeOK
  /\ tree \in Trees
  /\ avail \in [Ids -> BOOLEAN]
  /\ head \in OpPtr
  /\ next \in [Ops -> OpPtr]
  /\ heap \in SUBSET Ops
  /\ issued \in 0..MaxOps
  /\ age \in [Ops -> Ages]
  /\ outcome \in [Ops -> Outcomes]
  /\ sentToDead \in SUBSET Ops
  /\ pc \in PcStates
  /\ current \in OpPtr
  /\ prev \in OpPtr
  /\ due \in SUBSET Ops
  /\ resume \in {"cleanup", "responses"}
  /\ arg \in Ptr
  /\ pingTodo \in SUBSET Ids
  /\ report \in SUBSET Ids
  /\ deadBefore \in SUBSET Ids

Init ==
  /\ NodeInit
  /\ tree = EmptyTree
  /\ avail = [n \in Ids |-> FALSE]
  /\ head = NoOp
  /\ next = [o \in Ops |-> NoOp]
  /\ heap = {}
  /\ issued = 0
  /\ age = [o \in Ops |-> 0]
  /\ outcome = [o \in Ops |-> "none"]
  /\ sentToDead = {}
  /\ pc = "poll"
  /\ current = NoOp
  /\ prev = NoOp
  /\ due = {}
  /\ resume = "cleanup"
  /\ arg = NULL
  /\ pingTodo = {}
  /\ report = {}
  /\ deadBefore = {}
-----------------------------------------------------------------------------
(* Giving up or finishing a request: unlink it, close its socket, destroy  *)
(* its context, free it.  No linger is set on these sockets, so            *)
(* zmq_ctx_destroy waits until a request that is still queued has been     *)
(* handed over.                                                            *)

\* Faulty variant: every request is taken off as if it were the first.
UnlinkAtHead == head' = next[current] /\ next' = next

\* Take the current request off the list.
Unlink ==
  IF prev # NoOp
    THEN next' = [next EXCEPT ![prev] = next[current]] /\ head' = head
    ELSE head' = next[current] /\ next' = next

RemoveOperation(result, here) ==
  /\ Unlink
  /\ outcome' = [outcome EXCEPT ![current] = result]
  /\ req' = [req EXCEPT ![current] = IF @ \in {"queued", "arrived"} THEN @ ELSE "none"]
  /\ pc' = "closing"
  /\ resume' = here
  /\ UNCHANGED <<proc, signalled, opNode, kin, leftover, tree, avail, heap, issued, age,
                 sentToDead, current, prev, due, arg, pingVars>>

HandedOver(r) == req[r] # "queued"

\* Faulty variant: the request is not freed.
FreedNever(o) == heap

Freed(o) == heap \ {o}

\* Faulty variant: the pass skips the neighbour of the removed request.
FollowingButOne == IF next[current] # NoOp THEN next[next[current]] ELSE NoOp

\* Faulty variant: the pass goes on from the request that was freed.
FollowingFreed == current

\* The request that now stands where the removed one stood.
Following == IF prev # NoOp THEN next[prev] ELSE head

\* zmq_ctx_destroy returns, the request is freed and the pass goes on.
CloseReturns ==
  /\ pc = "closing"
  /\ HandedOver(current)
  /\ heap' = Freed(current)
  /\ current' = Following
  /\ pc' = resume
  /\ UNCHANGED <<nodeVars, tree, avail, head, next, issued, age, outcome, sentToDead, prev,
                 due, resume, arg, pingVars>>

\* The pass leaves the current request in the list.
KeepOperation ==
  /\ prev' = current
  /\ current' = next[current]
  /\ UNCHANGED <<nodeVars, tree, avail, opVars, pc, due, resume, arg, pingVars>>
-----------------------------------------------------------------------------
(* The three maintenance calls main makes after every zmq_poll.             *)

\* Faulty variant: >= for > in the comparison with the timeout.
ExpiredEarly(o) == age[o] >= OpTimeout

Expired(o) == age[o] > OpTimeout

\* zmq_poll returns and cleanup_operations reads the clock once.
Poll ==
  /\ pc = "poll"
  /\ pc' = "cleanup"
  /\ current' = head
  /\ due' = {o \in heap : Expired(o)}
  /\ UNCHANGED <<nodeVars, tree, avail, opVars, prev, resume, arg, pingVars>>

\* One turn of the loop of cleanup_operations; nothing is printed.
CleanupOperation ==
  /\ pc = "cleanup" /\ current # NoOp
  /\ \/ current \in due /\ RemoveOperation("dropped", "cleanup")
     \/ current \notin due /\ KeepOperation

CleanupDone ==
  /\ pc = "cleanup" /\ current = NoOp
  /\ pc' = "responses"
  /\ current' = head
  /\ prev' = NoOp
  /\ due' = {}
  /\ UNCHANGED <<nodeVars, tree, avail, opVars, resume, arg, pingVars>>

\* Faulty variant: what zmq_poll and receive_message return is not looked at.
AnsweredUnread(o) == TRUE

\* zmq_poll finds a reply and receive_message reads it.
Answered(o) == req[o] = "arrived"

\* One turn of the loop of check_responses.
CheckResponse ==
  /\ pc = "responses" /\ current # NoOp
  /\ \/ /\ ~avail[opNode[current]]
        /\ RemoveOperation("unavailable", "responses")
     \/ /\ avail[opNode[current]] /\ Answered(current)
        /\ RemoveOperation("ok", "responses")
     \/ /\ avail[opNode[current]] /\ ~Answered(current) /\ Expired(current)
        /\ RemoveOperation("unavailable", "responses")
     \/ /\ avail[opNode[current]] /\ ~Answered(current) /\ ~Expired(current)
        /\ KeepOperation

ResponsesDone ==
  /\ pc = "responses" /\ current = NoOp
  /\ pc' = "status"
  /\ prev' = NoOp
  /\ UNCHANGED <<nodeVars, tree, avail, opVars, current, due, resume, arg, pingVars>>

\* Faulty variant: the marking starts at the root, not at the node.
UnavailableAfterRoot(S) ==
  [m \in Ids |-> avail[m] /\ (m \in InTree => S = {})]

\* Faulty variant: the marks of earlier walks are forgotten.
UnavailableAfterRevives(S) ==
  [m \in Ids |-> m \in InTree /\ m \notin S /\ \A n \in S : m \notin Below(tree, n)]

\* Faulty variant: only the node itself is marked, not its children.
UnavailableAfterAlone(S) == [m \in Ids |-> avail[m] /\ m \notin S]

\* mark_node_unavailable and mark_children_unavailable, for the nodes of S.
UnavailableAfter(S) ==
  [m \in Ids |-> avail[m] /\ m \notin S /\ \A n \in S : m \notin Below(tree, n)]

\* Faulty variant: the walk does not go into the children.
EndedAtRoot == {n \in Ids : n = tree.root /\ avail[n] /\ proc[n] = "zombie"}

\* The nodes waitpid finds ended in one walk of check_process_status: a node
\* below one of them is marked before the walk comes to it and is not waited
\* for.
Ended ==
  LET gone == {n \in Ids : avail[n] /\ proc[n] = "zombie"}
  IN  {n \in gone : \A a \in gone : n \notin Below(tree, a)}

\* check_process_status over the whole tree; then main goes on to a command,
\* if zmq_poll saw one, or polls again.
CheckProcessStatus ==
  /\ pc = "status"
  /\ proc' = [n \in Ids |-> IF n \in Ended THEN "reaped" ELSE proc[n]]
  /\ avail' = UnavailableAfter(Ended)
  /\ pc' \in {"command", "poll"}
  /\ UNCHANGED <<signalled, req, opNode, kin, leftover, tree, opVars, passVars, arg, pingVars>>
-----------------------------------------------------------------------------
(* The commands.                                                           *)

\* Printing the tree, an unknown word, and the commands that only report an
\* error: a refused create, a failing fork, a kill of a process that is gone.
OtherCommand ==
  /\ pc = "command"
  /\ pc' = "poll"
  /\ UNCHANGED <<nodeVars, tree, avail, opVars, passVars, arg, pingVars>>

\* create: the checks and the fork.
ForkNode(id, parent) ==
  /\ pc = "command"
  /\ CreateAccepted(tree, id, parent)
  /\ proc' = [proc EXCEPT ![id] = "forked"]
  /\ kin' = [kin EXCEPT ![id] = InTree]
  /\ pc' = "inserting"
  /\ arg' = id
  /\ UNCHANGED <<signalled, req, opNode, leftover, tree, avail, opVars,
                 passVars, pingVars>>

\* create, in the parent after the fork: the node enters the tree.
InsertForked ==
  /\ pc = "inserting"
  /\ tree' = InsertNode(tree, arg)
  /\ avail' = [avail EXCEPT ![arg] = TRUE]
  /\ pc' = "poll"
  /\ arg' = NULL
  /\ UNCHANGED <<nodeVars, opVars, passVars, pingVars>>

\* kill: the signal is sent and the node is marked; nobody waits for it here.
KillNode(n) ==
  /\ pc = "command"
  /\ proc[n] \in {"forked", "serving", "deaf", "zombie"}
  /\ signalled' = signalled \cup {n}
  /\ avail' = UnavailableAfter({n})
  /\ pc' = "poll"
  /\ UNCHANGED <<proc, req, opNode, kin, leftover, tree, opVars, passVars, arg, pingVars>>

\* exec: the id is read, then the loop waits for two more lines.
ExecCommand(id) ==
  /\ pc = "command"
  /\ issued < MaxOps
  /\ pc' = "typing"
  /\ arg' = id
  /\ UNCHANGED <<nodeVars, tree, avail, opVars, passVars, pingVars>>

\* Faulty variant: op->next is left as malloc returned it.
PrependedUnset(o) == [next EXCEPT ![o] = -1]

\* add_upcoming_operation puts the request before the others.
Prepended(o) == [next EXCEPT ![o] = head]

\* exec_recursive at its target: the request is listed and sent.
ExecSend ==
  /\ pc = "typing"
  /\ ExecTarget(tree, arg) # NULL /\ avail[arg]
  /\ issued < MaxOps
  /\ issued' = issued + 1
  /\ head' = issued + 1
  /\ next' = Prepended(issued + 1)
  /\ heap' = heap \cup {issued + 1}
  /\ sentToDead' = IF Running(arg) THEN sentToDead ELSE sentToDead \cup {issued + 1}
  /\ opNode' = [opNode EXCEPT ![issued + 1] = arg]
  /\ req' = [req EXCEPT ![issued + 1] = "queued"]
  /\ pc' = "poll"
  /\ arg' = NULL
  /\ UNCHANGED <<proc, signalled, kin, leftover, tree, avail, age, outcome, passVars,
                 pingVars>>

\* exec_recursive finds no node, or one that is marked.
ExecRefused ==
  /\ pc = "typing"
  /\ ExecTarget(tree, arg) = NULL \/ ~avail[arg]
  /\ pc' = "poll"
  /\ arg' = NULL
  /\ UNCHANGED <<nodeVars, tree, avail, opVars, passVars, pingVars>>
-----------------------------------------------------------------------------
(* pingall: check_nodes walks the tree and pings one node after another.   *)

PingAll ==
  /\ pc = "command"
  /\ pc' = "pinging"
  /\ pingTodo' = InTree
  /\ deadBefore' = {n \in InTree : ~Running(n)}
  /\ UNCHANGED <<nodeVars, tree, avail, opVars, passVars, arg, report>>

\* Faulty variant: a node that does not answer is not listed.
NotListed(n) == report

Listed(n) == report \cup {n}

\* check_nodes comes to node n, and is_node_available returns at once or
\* sends a PING.
PingNode(n) ==
  /\ pc = "pinging" /\ arg = NULL
  /\ n \in pingTodo
  /\ n = Head(SelectSeq(PreOrder(tree), LAMBDA m : m \in pingTodo))
  /\ pingTodo' = pingTodo \ {n}
  /\ \/ /\ ~avail[n]
        /\ report' = Listed(n)
        /\ UNCHANGED <<req, opNode, arg>>
     \/ /\ avail[n]
        /\ req' = [req EXCEPT ![PingSlot] = "queued"]
        /\ opNode' = [opNode EXCEPT ![PingSlot] = n]
        /\ arg' = n
        /\ UNCHANGED report
  /\ UNCHANGED <<proc, signalled, kin, leftover, tree, avail, opVars, pc, passVars,
                 deadBefore>>

\* The reply came within the timeout.  The socket is closed with linger 0.
PingAnswered ==
  /\ pc = "pinging" /\ arg # NULL
  /\ req[PingSlot] = "arrived"
  /\ req' = [req EXCEPT ![PingSlot] = "none"]
  /\ opNode' = [opNode EXCEPT ![PingSlot] = NULL]
  /\ arg' = NULL
  /\ UNCHANGED <<proc, signalled, kin, leftover, tree, avail, opVars, pc, passVars,
                 pingVars>>

\* zmq_poll on the ping gives up after a second.
PingTimeout ==
  /\ pc = "pinging" /\ arg # NULL
  /\ req[PingSlot] # "arrived"
  /\ req' = [req EXCEPT ![PingSlot] = "none"]
  /\ opNode' = [opNode EXCEPT ![PingSlot] = NULL]
  /\ report' = Listed(arg)
  /\ arg' = NULL
  /\ UNCHANGED <<proc, signalled, kin, leftover, tree, avail, opVars, pc, passVars,
                 pingTodo, deadBefore>>

\* The list of unavailable nodes is printed.
PingAllDone ==
  /\ pc = "pinging" /\ arg = NULL /\ pingTodo = {}
  /\ pc' = "poll"
  /\ report' = {}
  /\ deadBefore' = {}
  /\ UNCHANGED <<nodeVars, tree, avail, opVars, passVars, arg, pingTodo>>
-----------------------------------------------------------------------------
\* exit, or the end of standard input in any fgets: main returns and leaves
\* the nodes running; the next session finds them as leftover.
Exit ==
  /\ pc \in {"command", "typing"}
  /\ pc' = "exited"
  /\ UNCHANGED <<nodeVars, tree, avail, opVars, passVars, arg, pingVars>>

\* Faulty variant: kill_tree leaves out the nodes marked unavailable.
KillTreeAvailable == {n \in InTree : Running(n) /\ avail[n]}

KillTree == {n \in InTree : Running(n)}

\* SIGINT or SIGTERM, between any two steps: kill_tree signals every process
\* of the tree, free_tree and exit end the manager.
HandleSignal ==
  /\ pc \notin {"exited", "terminated"}
  /\ signalled' = signalled \cup KillTree
  /\ pc' = "terminated"
  /\ UNCHANGED <<proc, req, opNode, kin, leftover, tree, avail, opVars, passVars, arg, pingVars>>

\* now - op->timestamp after another second.  It really goes on growing; that
\* the age of an expired request stays is a bound of the model, and nobody reads
\* the age of a request that has ended.
Older(o) == IF o \in Open /\ ~Expired(o) THEN age[o] + 1 ELSE age[o]

\* A second passes on the clock of time(NULL).
Tick ==
  /\ \E o \in Open : ~Expired(o)
  /\ age' = [o \in Ops |-> Older(o)]
  /\ UNCHANGED <<nodeVars, tree, avail, listVars, issued, outcome, sentToDead, pc, passVars,
                 arg, pingVars>>

\* A step of a node or of the transport, the manager's variables unchanged.
managerVars == <<tree, avail, opVars, pc, passVars, arg, pingVars>>
NodeStarts(n)  == StartCalcNode(n) /\ UNCHANGED managerVars
NodeEnds(n)    == NodeDies(n) /\ UNCHANGED managerVars
ChildHandles(n) == ChildRunsHandler(n) /\ UNCHANGED managerVars
NodeGets(r)    == Deliver(r) /\ UNCHANGED managerVars
LeftoverEnds(n) == LeftoverDies(n) /\ UNCHANGED managerVars
NodeAnswers(r) == ServeRequest(r) /\ UNCHANGED managerVars

\* What the manager does by itself, the next line of input being there.
ManagerStep ==
  \/ CloseReturns \/ Poll \/ CleanupOperation \/ CleanupDone
  \/ CheckResponse \/ ResponsesDone \/ CheckProcessStatus
  \/ OtherCommand \/ InsertForked \/ PingAll
  \/ \E id \in Ids, parent \in Ptr : ForkNode(id, parent)
  \/ \E n \in Ids : KillNode(n) \/ ExecCommand(n) \/ PingNode(n)
  \/ PingAnswered \/ PingTimeout \/ PingAllDone

\* What waits for the user.
UserStep == ExecSend \/ ExecRefused \/ Exit

NodeStep ==
  \/ \E n \in Ids : NodeStarts(n) \/ NodeEnds(n) \/ ChildHandles(n) \/ LeftoverEnds(n)
  \/ \E r \in Requests : NodeGets(r) \/ NodeAnswers(r)

Next == ManagerStep \/ UserStep \/ NodeStep \/ HandleSignal \/ Tick

Spec == Init /\ [][Next]_vars

\* The manager's thread runs, time passes, started processes bind, messages
\* and answers arrive, and a SIGTERM ends its process.  Nothing is assumed of
\* the user, who may leave an exec half typed, and no crash has to happen.
Fairness ==
  /\ WF_vars(ManagerStep) /\ WF_vars(Tick)
  /\ \A n \in Ids : WF_vars(NodeStarts(n)) /\ WF_vars(n \in signalled /\ NodeEnds(n))
  /\ \A r \in Requests : WF_vars(NodeGets(r)) /\ WF_vars(NodeAnswers(r))

FairSpec == Spec /\ Fairness
-----------------------------------------------------------------------------
(* Safety.                                                                 *)

\* p points to the newest request of S, or nowhere if there is none.
IsNewest(p, S) == \/ S = {} /\ p = NoOp
                  \/ p \in S /\ \A q \in S : q <= p

\* The list, followed from upcoming_operations through next, is at every moment
\* the requests that were sent and have not ended, newest first, whatever the
\* two passes have unlinked at its head, in its middle and at its end; and no
\* other memory is held than theirs, but for the request being closed.
ListIsOpenRequests ==
  /\ IsNewest(head, Open)
  /\ \A o \in Open : IsNewest(next[o], {p \in Open : p < o})
  /\ Open \subseteq heap
  /\ pc \notin {"closing", "terminated"} => heap = Open

\* No pointer the manager will follow leads to freed memory.
PointersAreLive ==
  {head, current, prev} \cup {next[o] : o \in heap} \subseteq heap \cup {NoOp}

\* A pass that unlinks while it walks skips nobody: after cleanup_operations
\* nothing is listed that was over age when it read the clock, and after
\* check_responses no request to a marked node.
PassesMissNothing ==
  current = NoOp =>
    /\ pc = "cleanup"   => Open \cap due = {}
    /\ pc = "responses" => \A o \in Open : avail[opNode[o]]

\* check_process_status asks waitpid only about processes that are still there
\* to be waited for: the process of an available node was never reaped, so
\* waitpid neither fails nor waits for a stranger that got the same pid.
AvailableIsWaitable ==
  \A n \in Ids : avail[n] => proc[n] \notin {"none", "reaped"}

\* A node is believed lost only for a cause in its own branch: it or a node
\* above it was sent a SIGTERM or was waited for.
MarkedForACause ==
  \A n \in InTree : ~avail[n] =>
    \E a \in InTree : /\ n \in Subtree(tree, a)
                      /\ a \in signalled \/ proc[a] = "reaped"

\* "Ok" is never said for a node that has not come up, whose bind failed or that
\* had ended when the request was sent, however late the manager learns of its
\* end; unless a process of an earlier session answered in its place.
OkFromLivingNode ==
  \A o \in Ops : outcome[o] = "ok" =>
    \/ proc[opNode[o]] \notin {"none", "forked", "deaf"} /\ o \notin sentToDead
    \/ leftover[opNode[o]] # "none"

\* "Node is unavailable" is only ever said of a node that is marked, or of a
\* request that outlived its timeout.
ErrorHasACause ==
  \A o \in Ops :
    outcome[o] = "unavailable" => ~avail[opNode[o]] \/ age[o] > OpTimeout

\* No process runs unknown to the tree, except one that a create has just
\* forked; and once the signal handler ran, only that one can have been missed.
NoStrayProcess ==
  \A n \in Ids : Running(n) =>
    /\ n \in InTree \/ (pc \in {"inserting", "terminated"} /\ arg = n)
    /\ pc = "terminated" => n \in signalled \/ n \notin InTree

\* pingall lists every node that was dead when it began and every node that
\* is marked, whatever happens while the pings are under way; only a process
\* of an earlier session on the port can answer for a dead node.
PingAllListsTheDead ==
  pc = "pinging" /\ pingTodo = {} /\ arg = NULL =>
    /\ \A n \in deadBefore \ report : leftover[n] # "none"
    /\ {n \in InTree : ~avail[n]} \subseteq report

(* What a step may never do.                                               *)

\* A node that is marked stays marked: nothing brings it back.
MarkedForGood == [][\A n \in InTree : ~avail[n] => ~avail'[n]]_vars

\* A node is never marked without everything below it being marked too.
MarkedWithSubtree ==
  [][\A n \in Ids : avail[n] /\ ~avail'[n] =>
       \A m \in Below(tree, n) : ~avail'[m]]_vars

\* What has become of request o, as the user of the exec command sees it.
StatusOf(o) ==
  IF outcome[o] # "none" THEN outcome[o]
  ELSE IF o > issued THEN "unused"
  ELSE IF req[o] = "arrived" THEN "answered" ELSE "waiting"

Exec == INSTANCE ExecService WITH
          status <- [o \in Ops |-> StatusOf(o)],
          late   <- [o \in Ops |-> age[o] > OpTimeout]

\* The manager, with its list, its sockets and the order of its three passes,
\* implements the promise of the exec command.
ImplementsExecService == Exec!Spec

(* Liveness.                                                               *)

\* zmq_ctx_destroy waits for the node to take the request.
Blocked == pc = "closing" /\ ~HandedOver(current)

\* The manager waits for the user, for a socket it closes, or has ended.
Away == pc \in {"typing", "exited", "terminated"} \/ Blocked

\* Every request is ended and its memory given back while the loop runs.
RequestsEnd == \A o \in Ops : o \in heap ~> (o \notin heap \/ Away)

\* The loop notices a node that ended.
DeathsAreNoticed ==
  \A n \in Ids : (avail[n] /\ proc[n] = "zombie") ~> (~avail[n] \/ Away)
-----------------------------------------------------------------------------
(* What the program or its report says and the code does not keep.         *)

\* check_responses says "Error: Node is unavailable" of a request that got no
\* answer in time (n_op.c:91-97): no request ends without a word.
NoSilentDrop == \A o \in Ops : outcome[o] # "dropped"

\* The report promises that the system survives failures of nodes: the loop
\* always gets back to the user, who may also have ended it or be typing.
KeepsServing == []<>(pc \in {"poll", "typing", "exited", "terminated"})
=============================================================================
