------------------------------ MODULE TreeOps ------------------------------
(***************************************************************************)
(* The binary search tree of calculation nodes (lab57/src/tree.c) as a     *)
(* value: a record with the root and the left and right child pointers.    *)
(* A C pointer to a node is the node's id, the null pointer is NULL.  The  *)
(* recursions of tree.c are recursive functions over the pointers.         *)
(***************************************************************************)
EXTENDS Integers, Sequences

CONSTANTS
  Ids,    (* the node ids a user may type: a set of integers *)
  NULL    (* the null TreeNode pointer                       *)

ASSUME IdsAssumption == Ids \subseteq Int /\ NULL \notin Ids

Ptr == Ids \cup {NULL}

Trees == [root : Ptr, left : [Ids -> Ptr], right : [Ids -> Ptr]]

EmptyTree == [root  |-> NULL,
              left  |-> [n \in Ids |-> NULL],
              right |-> [n \in Ids |-> NULL]]

\* find_node: the pointer the descent ends on, NULL when the id is absent.
FindNode(t, id) ==
  LET find[n \in Ptr] ==
        IF n = NULL \/ n = id THEN n
        ELSE find[IF id < n THEN t.left[n] ELSE t.right[n]]
  IN  find[t.root]

\* is_node_exists
IsNodeExists(t, id) == FindNode(t, id) # NULL

\* Faulty variant: no descent, a child of the root is replaced.
AttachPointRoot(t, id) == t.root

\* The node at which the recursion of insert_node stops: it has no child on
\* the side of id, or it is id.
AttachPoint(t, id) ==
  LET stop[n \in Ids] ==
        LET child == IF id < n THEN t.left[n] ELSE t.right[n]
        IN  IF n = id \/ child = NULL THEN n ELSE stop[child]
  IN  stop[t.root]

\* Faulty variant: the smaller ids go right.
HangsLeftSwapped(id, p) == id > p

HangsLeft(id, p) == id < p

\* insert_node: the tree with id hung below its attach point; create_node
\* gives it two null children, which Trees has for every id not yet inserted.
InsertNode(t, id) ==
  IF t.root = NULL THEN [t EXCEPT !.root = id]
  ELSE LET p == AttachPoint(t, id)
       IN  IF id = p THEN t
           ELSE IF HangsLeft(id, p) THEN [t EXCEPT !.left = [@ EXCEPT ![p] = id]]
           ELSE [t EXCEPT !.right = [@ EXCEPT ![p] = id]]

\* The ids a recursion that starts at pointer p touches (mark_children_unavailable,
\* kill_tree, free_tree and check_process_status all walk the tree this way).
Subtree(t, p) ==
  LET walk[n \in Ptr] ==
        IF n = NULL THEN {}
        ELSE {n} \cup walk[t.left[n]] \cup walk[t.right[n]]
  IN  walk[p]

\* The proper descendants of n.
Below(t, n) == Subtree(t, t.left[n]) \cup Subtree(t, t.right[n])

\* The order in which check_nodes visits the tree.
PreOrder(t) ==
  LET walk[n \in Ptr] ==
        IF n = NULL THEN <<>>
        ELSE <<n>> \o walk[t.left[n]] \o walk[t.right[n]]
  IN  walk[t.root]

\* The node whose request exec_recursive ends on: like find_node, but written
\* a second time in manage_node.c with its own comparisons.
ExecTarget(t, target) ==
  LET descend[n \in Ptr] ==
        IF n = NULL \/ n = target THEN n
        ELSE IF t.left[n] # NULL /\ target < n THEN descend[t.left[n]]
        ELSE IF t.right[n] # NULL /\ target > n THEN descend[t.right[n]]
        ELSE NULL
  IN  descend[t.root]

\* Faulty variant: the test for an existing id is missing.
IdIsAnything(t, id) == TRUE

IdIsNew(t, id) == ~IsNodeExists(t, id)

\* The checks of create_calc_node and create_calc_node_recursive: the id is
\* new and the parent, when one is typed, exists and lacks a child.  NULL is
\* the parent -1.  The recursion starts at the parent itself, so its
\* descent into the children is never taken.
CreateAccepted(t, id, parent) ==
  /\ IdIsNew(t, id)
  /\ parent # NULL =>
       /\ IsNodeExists(t, parent)
       /\ t.left[parent] = NULL \/ t.right[parent] = NULL
=============================================================================
