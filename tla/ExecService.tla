---------------------------- MODULE ExecService ----------------------------
(***************************************************************************)
(* What the exec command of lab57 promises, without lists, sockets,        *)
(* processes and loops: requests are sent one after another, each of them  *)
(* ends at most once, "ok" is said only of a request that was answered and *)
(* a request is dropped without a word only when it is late.               *)
(***************************************************************************)
EXTENDS Integers

CONSTANT MaxOps   (* how many requests there are *)

VARIABLES
  status,   (* of each request *)
  late      (* whether it outlived the timeout *)

vars == <<status, late>>

Ops == 1..MaxOps

Ended == {"ok", "unavailable", "dropped"}
Open  == {"waiting", "answered"}

Init ==
  /\ status = [o \in Ops |-> "unused"]
  /\ late = [o \in Ops |-> FALSE]

Send(o) ==
  /\ status[o] = "unused"
  /\ \A p \in Ops : p < o => status[p] # "unused"
  /\ status' = [status EXCEPT ![o] = "waiting"]
  /\ UNCHANGED late

Answer(o) ==
  /\ status[o] = "waiting"
  /\ status' = [status EXCEPT ![o] = "answered"]
  /\ UNCHANGED late

\* Time passes for every open request alike; some become late by it.
Expire ==
  /\ \E S \in SUBSET {o \in Ops : status[o] \in Open} :
       late' = [o \in Ops |-> late[o] \/ o \in S]
  /\ UNCHANGED status

Report(o) ==
  /\ \/ status[o] = "answered" /\ status' = [status EXCEPT ![o] = "ok"]
     \/ status[o] \in Open /\ status' = [status EXCEPT ![o] = "unavailable"]
     \/ /\ status[o] \in Open /\ late[o]
        /\ status' = [status EXCEPT ![o] = "dropped"]
  /\ UNCHANGED late

Next == Expire \/ \E o \in Ops : Send(o) \/ Answer(o) \/ Report(o)

Spec == Init /\ [][Next]_vars
=============================================================================
