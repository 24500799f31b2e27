------------------------------ MODULE CalcNode ------------------------------
(***************************************************************************)
(* The calculation nodes of lab57 (src/calc_node.c): one process per id,   *)
(* forked by the manager, that binds a ZeroMQ REP socket to port 5555 + id *)
(* and answers one request after another.                                  *)
(*                                                                         *)
(* Every request of the manager travels on a REQ socket of its own, so a   *)
(* request is identified with its socket and its whole life is one state:  *)
(*                                                                         *)
(*   "none"    nothing was sent, or the socket is closed and forgotten     *)
(*   "queued"  in the sending socket: the peer has not accepted it yet     *)
(*   "inbox"   at the node, not answered yet                               *)
(*   "arrived" the reply can be read from the manager's socket             *)
(*   "lost"    the node died with the request                              *)
(*                                                                         *)
(* A reply on its way when the node dies either gets through or does not;  *)
(* both outcomes are behaviours of ServeRequest and NodeDies in one order  *)
(* or the other, so the way back needs no state of its own.                *)
(*                                                                         *)
(* A session that ended with exit leaves its nodes running.  The model is  *)
(* one session; leftover says which ports it finds held.                   *)
(***************************************************************************)
EXTENDS TreeOps

CONSTANTS
  MaxOps,   (* bound: how many exec requests are sent altogether   *)
  LeftIds   (* nodes an earlier session may have left running      *)

ASSUME MaxOpsAssumption == MaxOps \in Nat
ASSUME LeftIdsAssumption == LeftIds \subseteq Ids

VARIABLES
  proc,       (* the process of each node id                        *)
  signalled,  (* the processes a SIGTERM was sent to                *)
  req,        (* the life of each request                           *)
  opNode,     (* the node each request was sent to (op->id)         *)
  kin,        (* the tree a forked child inherits, until its exec   *)
  leftover    (* the process an earlier session left on each port   *)

nodeVars == <<proc, signalled, req, opNode, kin, leftover>>

Ops      == 1..MaxOps       \* the exec requests, in the order of creation
PingSlot == 0               \* the socket of the ping in progress
Requests == {PingSlot} \cup Ops

ProcStates == {"none", "forked", "serving", "deaf", "zombie", "reaped"}
ReqStates  == {"none", "queued", "inbox", "arrived", "lost"}

\* The processes kill can still reach; a zombie accepts signals silently.
Running(n) == proc[n] \in {"forked", "serving", "deaf"}

Left == {"none", "holding", "gone"}

NodeTypeOK ==
  /\ proc \in [Ids -> ProcStates]
  /\ signalled \in SUBSET Ids
  /\ req \in [Requests -> ReqStates]
  /\ opNode \in [Requests -> Ptr]
  /\ kin \in [Ids -> SUBSET Ids]
  /\ leftover \in [Ids -> Left]

NodeInit ==
  /\ proc = [n \in Ids |-> "none"]
  /\ signalled = {}
  /\ req = [r \in Requests |-> "none"]
  /\ opNode = [r \in Requests |-> NULL]
  /\ kin = [n \in Ids |-> {}]
  /\ \E S \in SUBSET LeftIds :
       leftover = [n \in Ids |-> IF n \in S THEN "holding" ELSE "none"]
-----------------------------------------------------------------------------
\* execl succeeded: main calls start_calc_node, which binds the endpoint.  That
\* fails while an earlier session's process holds the port; nobody looks, and
\* the node waits for messages on a socket that has no address.
StartCalcNode(n) ==
  /\ proc[n] = "forked"
  /\ proc' = [proc EXCEPT ![n] = IF leftover[n] = "holding" THEN "deaf" ELSE "serving"]
  /\ kin' = [kin EXCEPT ![n] = {}]
  /\ UNCHANGED <<signalled, req, opNode, leftover>>

\* Who listens on the port of n, if anybody.
Listens(n) == proc[n] = "serving" \/ leftover[n] = "holding"

\* ZeroMQ's I/O threads hand a queued request to whoever is bound to the port.
\* A request of a socket that waits to be closed is still handed over.
Deliver(r) ==
  /\ req[r] = "queued"
  /\ opNode[r] \in Ids /\ Listens(opNode[r])
  /\ req' = [req EXCEPT ![r] = "inbox"]
  /\ UNCHANGED <<proc, signalled, opNode, kin, leftover>>

\* One round of the loop of start_calc_node: receive, find_substring or "1",
\* send the answer.  The node a request is sent to is always its target_id,
\* so the forwarding branch is not reached.
ServeRequest(r) ==
  /\ req[r] = "inbox"
  /\ req' = [req EXCEPT ![r] = "arrived"]
  /\ UNCHANGED <<proc, signalled, opNode, kin, leftover>>

\* Faulty variant: the parent is not left with a zombie to wait for.
RemainsNothing == "reaped"

Remains == "zombie"

\* What the process on the port of n had accepted is gone with it.
Lost(n) == [r \in Requests |->
              IF opNode[r] = n /\ req[r] = "inbox" THEN "lost" ELSE req[r]]

\* The process ends: execl fails and the child exits, it crashes, or a SIGTERM
\* takes effect after the exec.  What is queued at the sender stays there, since
\* the sender goes on trying to connect.
NodeDies(n) ==
  /\ Running(n)
  /\ proc' = [proc EXCEPT ![n] = Remains]
  /\ req' = IF proc[n] = "serving" THEN Lost(n) ELSE req
  /\ kin' = [kin EXCEPT ![n] = {}]
  /\ UNCHANGED <<signalled, opNode, leftover>>

\* A process of an earlier session is killed by its pid, or crashes; the port
\* is free again for a node that comes up later.
LeftoverDies(n) ==
  /\ leftover[n] = "holding"
  /\ leftover' = [leftover EXCEPT ![n] = "gone"]
  /\ req' = Lost(n)
  /\ UNCHANGED <<proc, signalled, opNode, kin>>

\* A SIGTERM that comes between fork and exec still runs the handler the child
\* inherited: it signals every process of its copy of the tree and exits.
ChildRunsHandler(n) ==
  /\ proc[n] = "forked" /\ n \in signalled
  /\ proc' = [proc EXCEPT ![n] = Remains]
  /\ signalled' = signalled \cup {m \in kin[n] : Running(m)}
  /\ kin' = [kin EXCEPT ![n] = {}]
  /\ UNCHANGED <<req, opNode, leftover>>
=============================================================================
