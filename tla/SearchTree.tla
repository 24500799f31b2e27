----------------------------- MODULE SearchTree -----------------------------
(***************************************************************************)
(* How the tree of lab57 grows: every accepted create command hangs one    *)
(* more node into it, and nothing is ever removed.  The module checks the  *)
(* algorithms of tree.c against definitions that do not walk pointers: the *)
(* set of created ids and the order they were created in.                  *)
(***************************************************************************)
EXTENDS TreeOps, FiniteSets, SequencesExt

VARIABLES
  tree,   (* the value of the global root                       *)
  born    (* history: the ids in the order they were inserted   *)

vars == <<tree, born>>

Init == tree = EmptyTree /\ born = <<>>

\* create_calc_node for an id and a parent it accepts, when fork succeeds.
Create(id, parent) ==
  /\ CreateAccepted(tree, id, parent)
  /\ tree' = InsertNode(tree, id)
  /\ born' = Append(born, id)

Next == \E id \in Ids, parent \in Ptr : Create(id, parent)

Spec == Init /\ [][Next]_vars
-----------------------------------------------------------------------------
Created == ToSet(born)

\* a was inserted before b.
Older(a, b) ==
  \E i, j \in DOMAIN born : i < j /\ born[i] = a /\ born[j] = b

\* The ids between a and b, both included.
Span(a, b) == {k \in Ids : (a <= k /\ k <= b) \/ (b <= k /\ k <= a)}

\* What the shape of the tree must be, told from the creation order alone:
\* b hangs below a exactly when a is the oldest of all created ids in the
\* span between them.
ShouldBeBelow(a, b) ==
  /\ a # b /\ {a, b} \subseteq Created
  /\ \A k \in (Span(a, b) \cap Created) \ {a} : Older(a, k)

TypeOK ==
  /\ tree \in Trees
  /\ born \in Seq(Ids)
  /\ IsInjective(born)

\* insert_node keeps the search order: everything left of a node is smaller
\* and everything right of it is larger, whatever parents the user names.
Ordered ==
  \A n \in Created :
    /\ \A m \in Subtree(tree, tree.left[n]) : m < n
    /\ \A m \in Subtree(tree, tree.right[n]) : m > n

\* find_node and the separate descent of exec_recursive both find exactly the
\* created ids: no node is ever inserted where a later search misses it.
SearchesAgree ==
  \A id \in Ids :
    /\ FindNode(tree, id) = IF id \in Created THEN id ELSE NULL
    /\ ExecTarget(tree, id) = FindNode(tree, id)

\* The subtree that mark_children_unavailable disables with a node is
\* determined by the creation order, not by the parent the user asked for.
ShapeFromCreationOrder ==
  \A a, b \in Ids : (b \in Subtree(tree, a) /\ a # b /\ a \in Created)
                    <=> ShouldBeBelow(a, b)
=============================================================================
