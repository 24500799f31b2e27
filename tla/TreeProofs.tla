----------------------------- MODULE TreeProofs -----------------------------
(***************************************************************************)
(* Lemmas about the tree algorithms of TreeOps, for every set of ids.      *)
(*                                                                         *)
(* The recursive functions of TreeOps are CHOOSE expressions, which satisfy*)
(* their equation only where some function does.  Every lemma on one of    *)
(* them therefore exhibits such a function, told without recursion from    *)
(* the descendants of a node (Desc), and shows by induction over the tree  *)
(* that there is no other.  The induction is the one of WFMin, over the    *)
(* grades of the nodes.                                                    *)
(***************************************************************************)
EXTENDS TreeOps, TLAPS, WellFoundedInduction

\* The children of a node.
Kids(t, n) == {t.left[n], t.right[n]} \ {NULL}

Closed(t, S) == \A n \in S : Kids(t, n) \subseteq S

\* What can be reached from pointer p: the least closed set with p in it.
Desc(t, p) ==
  {m \in Ids : \A S \in SUBSET Ids : p \in S \cup {NULL} /\ Closed(t, S) => m \in S}

\* Grades that fall along the pointers: there is no cycle and no endless path.
Graded(t, h) ==
  h \in [Ids -> Nat] /\ \A n \in Ids : \A c \in Kids(t, n) : h[c] < h[n]

Nodes(t) == Desc(t, t.root)

\* The search order, at one node.
OrderedAt(t, n) ==
  /\ \A m \in Desc(t, t.left[n]) : m < n
  /\ \A m \in Desc(t, t.right[n]) : m > n

\* What every tree the program builds satisfies.
WellFormed(t) ==
  /\ t \in Trees
  /\ \E h : Graded(t, h)
  /\ \A n \in Ids \ Nodes(t) : Kids(t, n) = {}
  /\ \A n \in Ids : OrderedAt(t, n)
-----------------------------------------------------------------------------
(* Induction.                                                               *)

\* A set of natural numbers has a least member.
LEMMA LeastMember ==
  ASSUME NEW S \in SUBSET Nat, S # {}
  PROVE  \E n \in S : \A m \in S : n <= m
<1> DEFINE R == OpToRel(<, Nat)
<1>1. IsWellFoundedOn(R, Nat)
  BY NatLessThanWellFounded
<1>2. PICK n \in S : \A m \in S : <<m, n>> \notin R
  <2> HIDE DEF R
  <2> QED BY <1>1, WFMin
<1>3. \A m \in S : ~(m < n)
  BY <1>2 DEF OpToRel
<1> QED BY <1>3

\* Children are ids.
LEMMA KidsType ==
  ASSUME NEW t \in Trees, NEW n \in Ids
  PROVE  /\ Kids(t, n) \subseteq Ids
         /\ t.left[n] \in Ptr /\ t.right[n] \in Ptr
BY DEF Trees, Kids, Ptr

\* Induction over a graded tree, from the leaves upwards.
LEMMA TreeInduction ==
  ASSUME NEW t \in Trees, NEW h, Graded(t, h), NEW S,
         \A n \in Ids : Kids(t, n) \subseteq S => n \in S
  PROVE  Ids \subseteq S
<1> DEFINE G == {h[n] : n \in Ids \ S}
<1> SUFFICES ASSUME Ids \ S # {} PROVE FALSE
  OBVIOUS
<1>1. G \in SUBSET Nat /\ G # {}
  BY DEF Graded
<1>2. PICK g \in G : \A k \in G : g <= k
  <2> HIDE DEF G
  <2> QED BY <1>1, LeastMember
<1>3. PICK n \in Ids \ S : g = h[n]
  BY <1>2
<1>4. \A m \in Ids \ S : h[n] <= h[m]
  BY <1>2, <1>3
<1>5. PICK c \in Kids(t, n) : c \notin S
  BY <1>3
<1>6. c \in Ids /\ h[c] < h[n] /\ h[n] \in Nat /\ h[c] \in Nat
  BY <1>5, KidsType DEF Graded
<1> QED BY <1>4, <1>5, <1>6
-----------------------------------------------------------------------------
(* Descendants.                                                             *)

\* A closed set around p holds all that is reached from p.
LEMMA DescWithin ==
  ASSUME NEW t, NEW p, NEW S \in SUBSET Ids, p \in S \cup {NULL}, Closed(t, S)
  PROVE  Desc(t, p) \subseteq S
BY DEF Desc

\* Descendants are ids.
LEMMA DescType == \A t, p : Desc(t, p) \in SUBSET Ids
BY DEF Desc

\* Nothing can be reached from NULL.
LEMMA DescNull == \A t : Desc(t, NULL) = {}
<1> SUFFICES ASSUME NEW t, NEW m \in Desc(t, NULL) PROVE FALSE
  OBVIOUS
<1>1. {} \in SUBSET Ids /\ NULL \in {} \cup {NULL} /\ Closed(t, {})
  BY DEF Closed
<1> QED BY <1>1 DEF Desc

\* A node can be reached from itself.
LEMMA DescSelf ==
  ASSUME NEW t, NEW p \in Ids
  PROVE  p \in Desc(t, p)
BY IdsAssumption DEF Desc

\* With a node its children can be reached.
LEMMA DescClosed ==
  ASSUME NEW t \in Trees, NEW p
  PROVE  Closed(t, Desc(t, p))
<1> SUFFICES ASSUME NEW n \in Desc(t, p), NEW c \in Kids(t, n), NEW S \in SUBSET Ids,
                    p \in S \cup {NULL}, Closed(t, S)
             PROVE  c \in Ids /\ c \in S
  BY KidsType DEF Desc, Closed
<1>1. n \in S
  BY DEF Desc
<1> QED BY <1>1 DEF Closed

\* What can be reached from a node below p can be reached from p.
LEMMA DescTransitive ==
  ASSUME NEW t \in Trees, NEW p, NEW n \in Desc(t, p)
  PROVE  Desc(t, n) \subseteq Desc(t, p)
BY DescClosed, DescWithin, DescType

\* A node reaches itself and what its children reach.
LEMMA DescUnfold ==
  ASSUME NEW t \in Trees, NEW n \in Ids
  PROVE  Desc(t, n) = {n} \cup Desc(t, t.left[n]) \cup Desc(t, t.right[n])
<1> DEFINE S == {n} \cup Desc(t, t.left[n]) \cup Desc(t, t.right[n])
<1>1. \A c \in Kids(t, n) : c \in S
  BY DescSelf, KidsType DEF Kids
<1>2. Closed(t, S)
  BY <1>1, DescClosed DEF Closed
<1>3. Desc(t, n) \subseteq S
  BY <1>2, DescWithin, DescType
<1>4. \A c \in Kids(t, n) : Desc(t, c) \subseteq Desc(t, n)
  BY DescSelf, DescClosed, DescTransitive DEF Closed
<1>5. Desc(t, t.left[n]) \subseteq Desc(t, n) /\ Desc(t, t.right[n]) \subseteq Desc(t, n)
  BY <1>4, DescNull DEF Kids
<1> QED BY <1>3, <1>5, DescSelf

\* Grades fall from a node to what is below it.
LEMMA DescGrade ==
  ASSUME NEW t \in Trees, NEW h, Graded(t, h), NEW n \in Ids, NEW m \in Desc(t, n), m # n
  PROVE  h[m] < h[n]
<1> DEFINE S == {n} \cup {k \in Ids : h[k] < h[n]}
<1>1. ASSUME NEW k \in S, NEW c \in Kids(t, k)
      PROVE  c \in S
  <2>1. c \in Ids /\ h[c] < h[k] /\ h[c] \in Nat /\ h[k] \in Nat /\ h[n] \in Nat
    BY KidsType DEF Graded
  <2> QED BY <2>1
<1>2. Closed(t, S) /\ S \in SUBSET Ids /\ n \in S \cup {NULL}
  BY <1>1 DEF Closed
<1>3. m \in S
  <2> HIDE DEF S
  <2> QED BY <1>2, DescWithin
<1> QED BY <1>3

\* A node is not below itself.
LEMMA DescAcyclic ==
  ASSUME NEW t \in Trees, NEW h, Graded(t, h), NEW n \in Ids, NEW a \in Desc(t, n)
  PROVE  n \notin Desc(t, t.left[a]) /\ n \notin Desc(t, t.right[a])
<1>1. h[a] <= h[n] /\ a \in Ids /\ h[n] \in Nat /\ h[a] \in Nat
  BY DescGrade, DescType DEF Graded
<1>2. ASSUME NEW c \in Kids(t, a), n \in Desc(t, c) PROVE FALSE
  <2>1. c \in Ids /\ h[c] < h[a] /\ h[c] \in Nat
    BY <1>1, KidsType DEF Graded
  <2>2. h[n] <= h[c]
    BY <1>1, <1>2, <2>1, DescGrade
  <2> QED BY <1>1, <2>1, <2>2
<1> QED BY <1>2, DescNull DEF Kids

\* The recursion that marks, kills, frees and checks touches the descendants.
LEMMA SubtreeIsDesc ==
  ASSUME NEW t \in Trees, NEW h, Graded(t, h), NEW p \in Ptr
  PROVE  Subtree(t, p) = Desc(t, p)
<1> DEFINE Walk(w) == [n \in Ptr |-> IF n = NULL THEN {}
                                     ELSE {n} \cup w[t.left[n]] \cup w[t.right[n]]]
           D == [n \in Ptr |-> Desc(t, n)]
<1>1. D = Walk(D)
  BY DescUnfold, DescNull, KidsType, IdsAssumption DEF Ptr
<1>2. ASSUME NEW w, w = Walk(w)
      PROVE  w[p] = Desc(t, p)
  <2> DEFINE S == {n \in Ids : w[n] = Desc(t, n)}
  <2>1. w[NULL] = {} /\ NULL \in Ptr
    BY <1>2 DEF Ptr
  <2>2. ASSUME NEW n \in Ids, Kids(t, n) \subseteq S
        PROVE  n \in S
    <3>1. w[n] = {n} \cup w[t.left[n]] \cup w[t.right[n]]
      BY <1>2, IdsAssumption DEF Ptr
    <3>2. w[t.left[n]] = Desc(t, t.left[n]) /\ w[t.right[n]] = Desc(t, t.right[n])
      BY <2>1, <2>2, DescNull DEF Kids
    <3>3. Desc(t, n) = {n} \cup Desc(t, t.left[n]) \cup Desc(t, t.right[n])
      BY DescUnfold
    <3> QED BY <3>1, <3>2, <3>3
  <2>3. Ids \subseteq S
    <3> HIDE DEF S
    <3> QED BY <2>2, TreeInduction
  <2> QED BY <2>1, <2>3, DescNull DEF Ptr
<1>3. \E w : w = Walk(w) /\ Subtree(t, p) = w[p]
  BY <1>1 DEF Subtree
<1> QED BY <1>2, <1>3
-----------------------------------------------------------------------------
(* The searches.                                                            *)

\* The child on the side of id, NULL when there is none.
SideOf(t, id, n) == IF id < n THEN t.left[n] ELSE t.right[n]

\* Every descendant but the node itself is below the child on its side.
LEMMA DescSide ==
  ASSUME NEW t, WellFormed(t), NEW n \in Ids, NEW m \in Ids, m # n
  PROVE  m \in Desc(t, n) <=> m \in Desc(t, SideOf(t, m, n))
<1>1. Desc(t, n) = {n} \cup Desc(t, t.left[n]) \cup Desc(t, t.right[n])
  BY DescUnfold DEF WellFormed
<1>2. /\ m \in Desc(t, t.left[n]) => m < n
      /\ m \in Desc(t, t.right[n]) => m > n
  BY DEF WellFormed, OrderedAt
<1> QED BY <1>1, <1>2, IdsAssumption DEF SideOf

\* What the descent of find_node ends on, from any node it may come to.
Found(t, id) == [n \in Ptr |-> IF id \in Desc(t, n) THEN id ELSE NULL]

LEMMA FoundStep ==
  ASSUME NEW t, WellFormed(t), NEW id \in Ids, NEW n \in Ids, n # id
  PROVE  /\ SideOf(t, id, n) \in Ptr
         /\ Found(t, id)[n] = Found(t, id)[SideOf(t, id, n)]
<1>1. SideOf(t, id, n) \in Ptr
  BY KidsType DEF SideOf, WellFormed
<1> QED BY <1>1, DescSide DEF Found, Ptr

\* Two functions that end in the same way and else go on to the same side.
SameDescent(t, id, f, g) ==
  /\ f[NULL] = g[NULL] /\ f[id] = g[id]
  /\ \A n \in Ids \ {id} : /\ f[n] = f[SideOf(t, id, n)]
                           /\ g[n] = g[SideOf(t, id, n)]

\* They are the same, because the descent ends.
LEMMA DescentUnique ==
  ASSUME NEW t, WellFormed(t), NEW id \in Ids, NEW f, NEW g, SameDescent(t, id, f, g)
  PROVE  \A n \in Ptr : f[n] = g[n]
<1> DEFINE S == {n \in Ids : f[n] = g[n]}
<1>1. t \in Trees /\ \E h : Graded(t, h)
  BY DEF WellFormed
<1>2. ASSUME NEW n \in Ids, Kids(t, n) \subseteq S
      PROVE  n \in S
  <2>1. SideOf(t, id, n) = NULL \/ SideOf(t, id, n) \in S
    BY <1>2 DEF SideOf, Kids
  <2> QED BY <2>1 DEF SameDescent
<1>3. Ids \subseteq S
  <2> HIDE DEF S
  <2> QED BY <1>1, <1>2, TreeInduction
<1> QED BY <1>3 DEF Ptr, SameDescent

LEMMA FindIsFound ==
  ASSUME NEW t, WellFormed(t), NEW id \in Ids
  PROVE  FindNode(t, id) = Found(t, id)[t.root]
<1> DEFINE Find(f) == [n \in Ptr |-> IF n = NULL \/ n = id THEN n
                                     ELSE f[IF id < n THEN t.left[n] ELSE t.right[n]]]
           F == Found(t, id)
<1>1. F[NULL] = NULL /\ F[id] = id
  BY DescNull, DescSelf DEF Found, Ptr
<1>2. F = Find(F)
  <2>1. \A n \in Ptr : F[n] = Find(F)[n]
    BY <1>1, FoundStep DEF SideOf, Ptr
  <2>2. F = [n \in Ptr |-> F[n]]
    BY DEF Found
  <2> QED BY <2>1, <2>2
<1>3. ASSUME NEW f, f = Find(f)
      PROVE  f[t.root] = F[t.root]
  <2>1. \A n \in Ptr : f[n] = IF n = NULL \/ n = id THEN n
                              ELSE f[IF id < n THEN t.left[n] ELSE t.right[n]]
    BY <1>3
  <2> HIDE DEF F
  <2>2. f[NULL] = F[NULL] /\ f[id] = F[id]
    BY <1>1, <2>1 DEF Ptr
  <2>3. \A n \in Ids \ {id} : f[n] = f[SideOf(t, id, n)]
    BY <2>1, IdsAssumption DEF SideOf, Ptr
  <2>4. \A n \in Ids \ {id} : F[n] = F[SideOf(t, id, n)]
    BY FoundStep DEF F
  <2>5. SameDescent(t, id, f, F)
    BY <2>2, <2>3, <2>4 DEF SameDescent
  <2>6. \A n \in Ptr : f[n] = F[n]
    BY <2>5, DescentUnique
  <2> QED BY <2>6 DEF WellFormed, Trees
<1>4. \E f : f = Find(f) /\ FindNode(t, id) = f[t.root]
  BY <1>2 DEF FindNode
<1> QED BY <1>3, <1>4

\* find_node finds exactly the nodes of the tree.
LEMMA FindNodeFinds ==
  ASSUME NEW t, WellFormed(t), NEW id \in Ids
  PROVE  FindNode(t, id) = IF id \in Nodes(t) THEN id ELSE NULL
BY FindIsFound DEF Found, Nodes, WellFormed, Trees

\* And so does the second descent, the one of exec_recursive.
LEMMA ExecTargetFinds ==
  ASSUME NEW t, WellFormed(t), NEW id \in Ids
  PROVE  ExecTarget(t, id) = IF id \in Nodes(t) THEN id ELSE NULL
<1> DEFINE Descend(f) ==
             [n \in Ptr |-> IF n = NULL \/ n = id THEN n
                            ELSE IF t.left[n] # NULL /\ id < n THEN f[t.left[n]]
                            ELSE IF t.right[n] # NULL /\ id > n THEN f[t.right[n]]
                            ELSE NULL]
           F == Found(t, id)
<1>1. F[NULL] = NULL /\ F[id] = id
  BY DescNull, DescSelf DEF Found, Ptr
<1>2. ASSUME NEW f, f[NULL] = NULL, NEW n \in Ids, n # id
      PROVE  Descend(f)[n] = f[SideOf(t, id, n)]
  BY <1>2, IdsAssumption DEF SideOf, Ptr
<1>3. F = Descend(F)
  <2>1. \A n \in Ids \ {id} : F[n] = Descend(F)[n]
    BY <1>1, <1>2, FoundStep
  <2>2. \A n \in Ptr : F[n] = Descend(F)[n]
    BY <1>1, <2>1 DEF Ptr
  <2>3. F = [n \in Ptr |-> F[n]]
    BY DEF Found
  <2> QED BY <2>2, <2>3
<1>4. ASSUME NEW f, f = Descend(f)
      PROVE  f[t.root] = F[t.root]
  <2>1. f[NULL] = NULL /\ f[id] = id
    BY <1>4 DEF Ptr
  <2>2. \A n \in Ids \ {id} : f[n] = f[SideOf(t, id, n)]
    BY <1>2, <1>4, <2>1
  <2>3. \A n \in Ids \ {id} : F[n] = F[SideOf(t, id, n)]
    BY FoundStep
  <2> HIDE DEF F
  <2>4. SameDescent(t, id, f, F)
    BY <1>1, <2>1, <2>2, <2>3 DEF SameDescent
  <2>5. \A n \in Ptr : f[n] = F[n]
    BY <2>4, DescentUnique
  <2> QED BY <2>5 DEF WellFormed, Trees
<1>5. \E f : f = Descend(f) /\ ExecTarget(t, id) = f[t.root]
  BY <1>3 DEF ExecTarget
<1>6. ExecTarget(t, id) = F[t.root]
  BY <1>4, <1>5
<1> QED BY <1>6 DEF Found, Nodes, WellFormed, Trees
-----------------------------------------------------------------------------
(* The insertion.                                                           *)

\* m is where the descent for id from node n may stop: there is no child on
\* the side of id, and id is on the same side as m of every node on the way.
Land(t, id, n) ==
  {m \in Desc(t, n) :
     /\ m = id \/ SideOf(t, id, m) = NULL
     /\ \A a \in Desc(t, n) : /\ m \in Desc(t, t.left[a]) => id < a
                              /\ m \in Desc(t, t.right[a]) => id > a}

\* At the end of the descent nothing else is a place to stop.
LEMMA LandHere ==
  ASSUME NEW t, WellFormed(t), NEW id \in Ids, NEW n \in Ids,
         n = id \/ SideOf(t, id, n) = NULL
  PROVE  n \in Land(t, id, n)
<1>1. PICK h : Graded(t, h)
  BY DEF WellFormed
<1>2. t \in Trees /\ n \in Desc(t, n)
  BY DescSelf DEF WellFormed
<1>3. \A a \in Desc(t, n) : n \notin Desc(t, t.left[a]) /\ n \notin Desc(t, t.right[a])
  BY <1>1, <1>2, DescAcyclic
<1> QED BY <1>2, <1>3 DEF Land

\* Before it, the descent goes on below the child on the side of id.
LEMMA LandBelow ==
  ASSUME NEW t, WellFormed(t), NEW id \in Ids, NEW n \in Ids,
         n # id, NEW c \in Ids, c = SideOf(t, id, n)
  PROVE  Land(t, id, c) \subseteq Land(t, id, n)
<1>1. /\ t \in Trees /\ t.left[n] \in Ptr /\ t.right[n] \in Ptr
      /\ Desc(t, n) = {n} \cup Desc(t, t.left[n]) \cup Desc(t, t.right[n])
      /\ \A m \in Desc(t, t.left[n]) : m < n
      /\ \A m \in Desc(t, t.right[n]) : m > n
  BY DescUnfold, KidsType DEF WellFormed, OrderedAt
<1> SUFFICES ASSUME NEW m \in Land(t, id, c)
             PROVE  m \in Land(t, id, n)
  OBVIOUS
<1>2. m \in Desc(t, c) /\ (m = id \/ SideOf(t, id, m) = NULL)
  BY DEF Land
<1>3. m \in Desc(t, n)
  BY <1>1, <1>2 DEF SideOf
<1>4. /\ m \in Desc(t, t.left[n]) => id < n
      /\ m \in Desc(t, t.right[n]) => id > n
  <2>1. m \in Int /\ n \in Int /\ id \in Int
    BY <1>3, DescType, IdsAssumption
  <2>2. CASE id < n
    <3>1. c = t.left[n] /\ m < n
      BY <1>1, <1>2, <2>2 DEF SideOf
    <3>2. m \notin Desc(t, t.right[n])
      BY <1>1, <2>1, <3>1
    <3> QED BY <2>2, <3>2
  <2>3. CASE id > n
    <3>1. c = t.right[n] /\ m > n
      BY <1>1, <1>2, <2>1, <2>3 DEF SideOf
    <3>2. m \notin Desc(t, t.left[n])
      BY <1>1, <2>1, <3>1
    <3> QED BY <2>3, <3>2
  <2> QED BY <2>1, <2>2, <2>3
<1>5. \A a \in Desc(t, c) : /\ m \in Desc(t, t.left[a]) => id < a
                            /\ m \in Desc(t, t.right[a]) => id > a
  BY DEF Land
<1>6. ASSUME NEW a \in Desc(t, n), a # n, a \notin Desc(t, c)
      PROVE  m \notin Desc(t, t.left[a]) /\ m \notin Desc(t, t.right[a])
  <2>1. a \in Ids /\ m \in Ids
    BY DescType, <1>3
  <2>2. Desc(t, a) = {a} \cup Desc(t, t.left[a]) \cup Desc(t, t.right[a])
    BY <1>1, <2>1, DescUnfold
  <2>3. CASE c = t.left[n] /\ a \in Desc(t, t.right[n])
    <3>1. Desc(t, a) \subseteq Desc(t, t.right[n])
      BY <1>1, <2>3, DescTransitive
    <3>2. m < n
      BY <1>1, <1>2, <2>3
    <3> QED BY <1>1, <2>1, <2>2, <3>1, <3>2, IdsAssumption
  <2>4. CASE c = t.right[n] /\ a \in Desc(t, t.left[n])
    <3>1. Desc(t, a) \subseteq Desc(t, t.left[n])
      BY <1>1, <2>4, DescTransitive
    <3>2. m > n
      BY <1>1, <1>2, <2>4
    <3> QED BY <1>1, <2>1, <2>2, <3>1, <3>2, IdsAssumption
  <2> QED BY <1>1, <1>6, <2>3, <2>4 DEF SideOf
<1>7. \A a \in Desc(t, n) : /\ m \in Desc(t, t.left[a]) => id < a
                            /\ m \in Desc(t, t.right[a]) => id > a
  BY <1>4, <1>5, <1>6
<1> QED BY <1>2, <1>3, <1>7 DEF Land

\* A place to stop below n is on the side of id, or n itself at the end.
LEMMA LandAbove ==
  ASSUME NEW t, WellFormed(t), NEW id \in Ids, NEW n \in Ids, NEW m \in Land(t, id, n)
  PROVE  /\ m = n => n = id \/ SideOf(t, id, n) = NULL
         /\ m # n => /\ n # id
                     /\ m \in Desc(t, SideOf(t, id, n))
<1>1. /\ m \in Desc(t, n) /\ m \in Ids
      /\ m = id \/ SideOf(t, id, m) = NULL
      /\ m \in Desc(t, t.left[n]) => id < n
      /\ m \in Desc(t, t.right[n]) => id > n
  BY DescSelf, DescType DEF Land
<1>2. Desc(t, n) = {n} \cup Desc(t, t.left[n]) \cup Desc(t, t.right[n])
  BY DescUnfold DEF WellFormed
<1> QED BY <1>1, <1>2, IdsAssumption DEF SideOf

\* So the places to stop do not change along the descent, and there is one.
LEMMA LandEnd ==
  ASSUME NEW t, WellFormed(t), NEW id \in Ids, NEW n \in Ids,
         n = id \/ SideOf(t, id, n) = NULL
  PROVE  Land(t, id, n) = {n}
<1>1. \A m \in Land(t, id, n) : m = n
  <2> SUFFICES ASSUME NEW m \in Land(t, id, n), m # n PROVE FALSE
    OBVIOUS
  <2> QED BY LandAbove, DescNull
<1> QED BY <1>1, LandHere

LEMMA LandNext ==
  ASSUME NEW t, WellFormed(t), NEW id \in Ids, NEW n \in Ids, n # id,
         NEW c \in Ids, c = SideOf(t, id, n)
  PROVE  Land(t, id, n) = Land(t, id, c)
<1>1. t \in Trees /\ c \in Desc(t, n)
  BY DescUnfold, DescSelf, KidsType DEF SideOf, WellFormed
<1>2. Desc(t, c) \subseteq Desc(t, n)
  BY <1>1, DescTransitive
<1>3. ASSUME NEW m \in Land(t, id, n)
      PROVE  m \in Land(t, id, c)
  <2>1. m # n
    BY LandAbove, IdsAssumption
  <2>2. m \in Desc(t, c)
    BY <2>1, LandAbove
  <2> QED BY <1>2, <2>2 DEF Land
<1> QED BY <1>3, LandBelow

\* insert_node stops at a place to stop.
LEMMA AttachPointLands ==
  ASSUME NEW t, WellFormed(t), NEW id \in Ids, t.root # NULL
  PROVE  AttachPoint(t, id) \in Land(t, id, t.root)
<1> DEFINE Stop(f) ==
             [n \in Ids |-> LET child == IF id < n THEN t.left[n] ELSE t.right[n]
                            IN  IF n = id \/ child = NULL THEN n ELSE f[child]]
           F == [n \in Ids |-> CHOOSE m \in Ids : m \in Land(t, id, n)]
<1>1. t \in Trees /\ \E h : Graded(t, h)
  BY DEF WellFormed
<1>2. ASSUME NEW f, NEW n \in Ids
      PROVE  Stop(f)[n] = IF n = id \/ SideOf(t, id, n) = NULL
                          THEN n ELSE f[SideOf(t, id, n)]
  BY DEF SideOf
<1>3. F = Stop(F)
  <2>1. ASSUME NEW n \in Ids, n = id \/ SideOf(t, id, n) = NULL
        PROVE  F[n] = n
    BY <2>1, LandEnd
  <2>2. ASSUME NEW n \in Ids, n # id, SideOf(t, id, n) # NULL
        PROVE  F[n] = F[SideOf(t, id, n)]
    <3>1. SideOf(t, id, n) \in Ids
      BY <1>1, <2>2, KidsType DEF SideOf, Ptr
    <3>2. Land(t, id, n) = Land(t, id, SideOf(t, id, n))
      BY <2>2, <3>1, LandNext
    <3> QED BY <3>1, <3>2
  <2>3. \A n \in Ids : F[n] = Stop(F)[n]
    <3> HIDE DEF F
    <3> SUFFICES ASSUME NEW n \in Ids PROVE F[n] = Stop(F)[n]
      OBVIOUS
    <3> HIDE DEF Stop
    <3> QED BY <1>2, <2>1, <2>2
  <2> QED BY <2>3
<1>4. ASSUME NEW f, f = Stop(f)
      PROVE  f[t.root] \in Land(t, id, t.root)
  <2> HIDE DEF Stop
  <2> DEFINE S == {n \in Ids : f[n] \in Land(t, id, n)}
  <2>1. ASSUME NEW n \in Ids, Kids(t, n) \subseteq S
        PROVE  n \in S
    <3>1. CASE n = id \/ SideOf(t, id, n) = NULL
      BY <1>2, <1>4, <3>1, LandEnd
    <3>2. CASE n # id /\ SideOf(t, id, n) # NULL
      <4>1. SideOf(t, id, n) \in Ids
        BY <1>1, <3>2, KidsType DEF SideOf, Ptr
      <4>2. f[n] = f[SideOf(t, id, n)]
        BY <1>2, <1>4, <3>2
      <4>3. SideOf(t, id, n) \in S
        BY <2>1, <3>2 DEF SideOf, Kids
      <4>4. Land(t, id, n) = Land(t, id, SideOf(t, id, n))
        BY <3>2, <4>1, LandNext
      <4> QED BY <4>2, <4>3, <4>4
    <3> QED BY <3>1, <3>2
  <2>2. Ids \subseteq S
    <3> HIDE DEF S
    <3> QED BY <1>1, <2>1, TreeInduction
  <2> QED BY <1>1, <2>2 DEF Trees, Ptr
<1>5. \E f : f = Stop(f) /\ AttachPoint(t, id) = f[t.root]
  BY <1>3 DEF AttachPoint
<1> QED BY <1>4, <1>5

\* A node without children reaches itself only.
LEMMA DescLeaf ==
  ASSUME NEW t \in Trees, NEW n \in Ids, Kids(t, n) = {}
  PROVE  Desc(t, n) = {n}
<1>1. t.left[n] = NULL /\ t.right[n] = NULL
  BY DEF Kids
<1> QED BY <1>1, DescUnfold, DescNull

\* u is t with the leaf id hung below p, on the side of id.
Grafted(t, u, id, p) ==
  /\ u \in Trees /\ u.root = t.root
  /\ p \in Nodes(t) /\ p # id
  /\ \A n \in Ids \ {p} : u.left[n] = t.left[n] /\ u.right[n] = t.right[n]
  /\ SideOf(t, id, p) = NULL /\ SideOf(u, id, p) = id
  /\ id < p => u.right[p] = t.right[p]
  /\ id > p => u.left[p] = t.left[p]
  /\ \A a \in Nodes(t) : /\ p \in Desc(t, t.left[a]) => id < a
                         /\ p \in Desc(t, t.right[a]) => id > a

\* That is what insert_node makes of a tree, for an id that is not in it.
LEMMA InsertGrafts ==
  ASSUME NEW t, WellFormed(t), t.root # NULL, NEW id \in Ids, id \notin Nodes(t)
  PROVE  Grafted(t, InsertNode(t, id), id, AttachPoint(t, id))
<1> DEFINE p == AttachPoint(t, id)
           u == InsertNode(t, id)
<1>1. t \in Trees /\ p \in Land(t, id, t.root)
  BY AttachPointLands DEF WellFormed
<1>2. p \in Nodes(t) /\ p \in Ids /\ p # id
  BY <1>1, DescType DEF Land, Nodes
<1>3. /\ SideOf(t, id, p) = NULL
      /\ \A a \in Nodes(t) : /\ p \in Desc(t, t.left[a]) => id < a
                             /\ p \in Desc(t, t.right[a]) => id > a
  BY <1>1, <1>2 DEF Land, Nodes
<1> HIDE DEF p
<1>4. u = IF id < p THEN [t EXCEPT !.left = [@ EXCEPT ![p] = id]]
                    ELSE [t EXCEPT !.right = [@ EXCEPT ![p] = id]]
  BY <1>2 DEF InsertNode, HangsLeft, p
<1> HIDE DEF u
<1>5. /\ u \in Trees /\ u.root = t.root
      /\ \A n \in Ids \ {p} : u.left[n] = t.left[n] /\ u.right[n] = t.right[n]
      /\ id < p => u.left[p] = id /\ u.right[p] = t.right[p]
      /\ ~(id < p) => u.left[p] = t.left[p] /\ u.right[p] = id
  BY <1>1, <1>2, <1>4 DEF Trees, Ptr
<1>6. id \in Int /\ p \in Int
  BY <1>2, IdsAssumption
<1>7. /\ SideOf(u, id, p) = id
      /\ id < p => u.right[p] = t.right[p]
      /\ id > p => u.left[p] = t.left[p]
  BY <1>5, <1>6 DEF SideOf
<1>8. Grafted(t, u, id, p)
  BY <1>2, <1>3, <1>5, <1>7 DEF Grafted
<1> QED BY <1>8 DEF u, p

LEMMA GraftKids ==
  ASSUME NEW t, WellFormed(t), NEW u, NEW id \in Ids, id \notin Nodes(t),
         NEW p, Grafted(t, u, id, p)
  PROVE  /\ p \in Ids /\ Kids(t, id) = {} /\ Kids(u, id) = {}
         /\ Kids(u, p) = Kids(t, p) \cup {id}
         /\ \A n \in Ids \ {p} : Kids(u, n) = Kids(t, n)
<1>1. p \in Ids /\ id # p /\ Kids(t, id) = {}
  BY DescType DEF Grafted, WellFormed, Nodes
<1>2. \A n \in Ids \ {p} : Kids(u, n) = Kids(t, n)
  BY DEF Grafted, Kids
<1>3. id # NULL /\ id \in Int /\ p \in Int
  BY <1>1, IdsAssumption
<1>4. Kids(u, p) = Kids(t, p) \cup {id}
  <2>1. CASE id < p
    BY <1>3, <2>1 DEF Grafted, Kids, SideOf
  <2>2. CASE id > p
    BY <1>3, <2>2 DEF Grafted, Kids, SideOf
  <2> QED BY <1>1, <1>3, <2>1, <2>2
<1> QED BY <1>1, <1>2, <1>4

\* The new leaf is reached from where its parent is, and nothing else changes.
LEMMA GraftDesc ==
  ASSUME NEW t, WellFormed(t), NEW u, NEW id \in Ids, id \notin Nodes(t),
         NEW p, Grafted(t, u, id, p), NEW x \in Ptr
  PROVE  Desc(u, x) = Desc(t, x) \cup {m \in {id} : p \in Desc(t, x)}
<1> DEFINE S == Desc(t, x) \cup {m \in {id} : p \in Desc(t, x)}
<1>1. t \in Trees /\ u \in Trees
  BY DEF WellFormed, Grafted
<1>2. /\ p \in Ids /\ Kids(u, id) = {} /\ Kids(u, p) = Kids(t, p) \cup {id}
      /\ \A n \in Ids \ {p} : Kids(u, n) = Kids(t, n)
  BY GraftKids
<1>3. Closed(u, S)
  BY <1>1, <1>2, DescClosed, DescType DEF Closed
<1>4. S \in SUBSET Ids /\ x \in S \cup {NULL}
  BY <1>1, DescType, DescSelf DEF Ptr
<1>5. Desc(u, x) \subseteq S
  <2> HIDE DEF S
  <2> QED BY <1>3, <1>4, DescWithin
<1>6. Closed(u, Desc(u, x))
  BY <1>1, DescClosed
<1>7. Closed(t, Desc(u, x))
  BY <1>2, <1>6, DescType DEF Closed
<1>8. Desc(t, x) \subseteq Desc(u, x)
  BY <1>1, <1>7, DescWithin, DescType, DescSelf DEF Ptr
<1>9. p \in Desc(t, x) => id \in Desc(u, x)
  BY <1>2, <1>6, <1>8 DEF Closed
<1> QED BY <1>5, <1>8, <1>9

LEMMA GraftGraded ==
  ASSUME NEW t, WellFormed(t), NEW u, NEW id \in Ids, id \notin Nodes(t),
         NEW p, Grafted(t, u, id, p)
  PROVE  \E h : Graded(u, h)
<1>1. PICK h : Graded(t, h)
  BY DEF WellFormed
<1> DEFINE g == [n \in Ids |-> IF n = id THEN 0 ELSE h[n] + 1]
<1>2. h \in [Ids -> Nat] /\ \A n \in Ids : \A c \in Kids(t, n) : h[c] < h[n]
  BY <1>1 DEF Graded
<1>3. g \in [Ids -> Nat]
  BY <1>2
<1>4. ASSUME NEW n \in Ids, NEW c \in Kids(u, n)
      PROVE  g[c] < g[n]
  <2>1. c \in Ids /\ n # id
    BY <1>4, KidsType, GraftKids DEF Grafted
  <2>2. h[n] \in Nat /\ h[c] \in Nat /\ g[n] = h[n] + 1
    BY <1>2, <2>1
  <2>3. CASE c = id
    BY <2>2, <2>3
  <2>4. CASE c # id
    <3>1. c \in Kids(t, n)
      BY <1>4, <2>4, GraftKids
    <3> QED BY <1>2, <2>1, <2>2, <2>4, <3>1
  <2> QED BY <2>3, <2>4
<1> QED BY <1>3, <1>4 DEF Graded

LEMMA GraftOrdered ==
  ASSUME NEW t, WellFormed(t), NEW u, NEW id \in Ids, id \notin Nodes(t),
         NEW p, Grafted(t, u, id, p), NEW n \in Ids
  PROVE  OrderedAt(u, n)
<1>1. /\ t \in Trees /\ u \in Trees /\ OrderedAt(t, n)
      /\ t.left[n] \in Ptr /\ t.right[n] \in Ptr
      /\ id \in Int /\ n \in Int /\ n # NULL /\ id # NULL /\ p \in Ids /\ p \in Int
  BY KidsType, GraftKids, IdsAssumption DEF WellFormed, Grafted
<1>2. /\ Desc(u, t.left[n]) = Desc(t, t.left[n]) \cup {m \in {id} : p \in Desc(t, t.left[n])}
      /\ Desc(u, t.right[n]) = Desc(t, t.right[n]) \cup {m \in {id} : p \in Desc(t, t.right[n])}
  BY <1>1, GraftDesc
<1>3. CASE n # p
  <2>1. u.left[n] = t.left[n] /\ u.right[n] = t.right[n]
    BY <1>3 DEF Grafted
  <2>2. CASE n \in Nodes(t)
    <3>1. /\ p \in Desc(t, t.left[n]) => id < n
          /\ p \in Desc(t, t.right[n]) => id > n
      BY <2>2 DEF Grafted
    <3> QED BY <1>1, <1>2, <2>1, <3>1 DEF OrderedAt
  <2>3. CASE n \notin Nodes(t)
    <3>1. t.left[n] = NULL /\ t.right[n] = NULL
      BY <2>3 DEF WellFormed, Kids
    <3> QED BY <2>1, <3>1, DescNull DEF OrderedAt
  <2> QED BY <2>2, <2>3
<1>4. CASE n = p
  <2>1. Desc(u, id) = {id}
    BY <1>1, GraftKids, DescLeaf
  <2>2. p \notin Desc(t, t.left[n]) /\ p \notin Desc(t, t.right[n])
    BY <1>1, <1>4 DEF OrderedAt
  <2>3. CASE id < p
    <3>1. u.left[n] = id /\ u.right[n] = t.right[n]
      BY <1>4, <2>3 DEF Grafted, SideOf
    <3> QED BY <1>1, <1>2, <1>4, <2>1, <2>2, <2>3, <3>1 DEF OrderedAt
  <2>4. CASE id > p
    <3>1. u.left[n] = t.left[n] /\ u.right[n] = id
      BY <1>1, <1>4, <2>4 DEF Grafted, SideOf
    <3> QED BY <1>1, <1>2, <1>4, <2>1, <2>2, <2>4, <3>1 DEF OrderedAt
  <2> QED BY <1>1, <2>3, <2>4 DEF Grafted
<1> QED BY <1>3, <1>4

\* The first insertion only sets the root.
LEMMA InsertRoot ==
  ASSUME NEW t, WellFormed(t), t.root = NULL, NEW id \in Ids
  PROVE  LET u == InsertNode(t, id)
         IN  WellFormed(u) /\ Nodes(t) = {} /\ Nodes(u) = {id} /\ u.root = id
             /\ \A x \in Ptr : Desc(u, x) = Desc(t, x)
<1> DEFINE u == InsertNode(t, id)
<1>1. t \in Trees /\ Nodes(t) = {} /\ \A n \in Ids : Kids(t, n) = {}
  BY DescNull DEF WellFormed, Nodes
<1>2. u \in Trees /\ u.root = id /\ u.left = t.left /\ u.right = t.right
  BY <1>1 DEF InsertNode, Trees, Ptr
<1> HIDE DEF u
<1>3. \A n \in Ids : Kids(u, n) = {}
  BY <1>1, <1>2 DEF Kids
<1>4. \A x \in Ids : Desc(u, x) = {x} /\ Desc(t, x) = {x}
  BY <1>1, <1>2, <1>3, DescLeaf
<1>5. \A x \in Ptr : Desc(u, x) = Desc(t, x)
  BY <1>4, DescNull DEF Ptr
<1>6. Nodes(u) = {id}
  BY <1>2, <1>4 DEF Nodes
<1>7. Graded(u, [n \in Ids |-> 0])
  BY <1>3 DEF Graded
<1>8. \A n \in Ids : OrderedAt(u, n)
  BY <1>2, <1>3, DescNull DEF OrderedAt, Kids
<1>9. WellFormed(u)
  BY <1>2, <1>3, <1>7, <1>8 DEF WellFormed
<1> QED BY <1>1, <1>2, <1>5, <1>6, <1>9 DEF u

\* insert_node keeps the tree a search tree, adds the id, and takes no node
\* from below another.
LEMMA InsertKeeps ==
  ASSUME NEW t, WellFormed(t), NEW id \in Ids, id \notin Nodes(t)
  PROVE  LET u == InsertNode(t, id)
         IN  /\ WellFormed(u)
             /\ Nodes(u) = Nodes(t) \cup {id}
             /\ \A x \in Ptr : Desc(t, x) \subseteq Desc(u, x)
<1> DEFINE u == InsertNode(t, id)
           p == AttachPoint(t, id)
<1>1. CASE t.root = NULL
  BY <1>1, InsertRoot
<1>2. CASE t.root # NULL
  <2>1. Grafted(t, u, id, p)
    BY <1>2, InsertGrafts
  <2> HIDE DEF u, p
  <2>2. t.root \in Ptr /\ u.root = t.root /\ p \in Nodes(t) /\ u \in Trees
    BY <2>1 DEF Grafted, WellFormed, Trees
  <2>3. \A x \in Ptr : Desc(u, x) = Desc(t, x) \cup {m \in {id} : p \in Desc(t, x)}
    BY <2>1, GraftDesc
  <2>4. Nodes(u) = Nodes(t) \cup {id}
    BY <2>2, <2>3 DEF Nodes
  <2>5. \A n \in Ids \ Nodes(u) : Kids(u, n) = {}
    <3>1. \A n \in Ids \ {p} : Kids(u, n) = Kids(t, n)
      BY <2>1 DEF Grafted, Kids
    <3>2. \A n \in Ids \ Nodes(t) : Kids(t, n) = {}
      BY DEF WellFormed
    <3> QED BY <2>2, <2>4, <3>1, <3>2
  <2>6. \E h : Graded(u, h)
    BY <2>1, GraftGraded
  <2>7. \A n \in Ids : OrderedAt(u, n)
    BY <2>1, GraftOrdered
  <2>8. WellFormed(u)
    BY <2>2, <2>5, <2>6, <2>7 DEF WellFormed
  <2> QED BY <2>3, <2>4, <2>8 DEF u
<1> QED BY <1>1, <1>2

\* The tree before the first create.
LEMMA EmptyTreeWellFormed == WellFormed(EmptyTree) /\ Nodes(EmptyTree) = {}
<1> DEFINE t == EmptyTree
<1>1. t \in Trees /\ t.root = NULL /\ \A n \in Ids : t.left[n] = NULL /\ t.right[n] = NULL
  BY DEF EmptyTree, Trees, Ptr
<1> HIDE DEF t
<1>2. \A n \in Ids : Kids(t, n) = {}
  BY <1>1 DEF Kids
<1>3. Graded(t, [n \in Ids |-> 0])
  BY <1>2 DEF Graded
<1>4. \A n \in Ids : OrderedAt(t, n)
  BY <1>1, DescNull DEF OrderedAt
<1>5. WellFormed(t) /\ Nodes(t) = {}
  BY <1>1, <1>2, <1>3, <1>4, DescNull DEF WellFormed, Nodes
<1> QED BY <1>5 DEF t

\* The checks of create let in ids that are not in the tree.
LEMMA CreateIsNew ==
  ASSUME NEW t, WellFormed(t), NEW id \in Ids, NEW parent, CreateAccepted(t, id, parent)
  PROVE  id \notin Nodes(t)
BY FindNodeFinds, IdsAssumption DEF CreateAccepted, IdIsNew, IsNodeExists
-----------------------------------------------------------------------------
(* The walk of pingall.                                                     *)

\* s lists the members of D, each once.
Lists(s, D) ==
  /\ s \in Seq(Ids)
  /\ \A i, j \in 1..Len(s) : s[i] = s[j] => i = j
  /\ D = {s[i] : i \in 1..Len(s)}

\* Lists of disjoint sets make a list of their union.
LEMMA ListsConcat ==
  ASSUME NEW D, NEW E, D \cap E = {}, NEW s, NEW u, Lists(s, D), Lists(u, E)
  PROVE  Lists(s \o u, D \cup E)
<1> DEFINE v == s \o u
<1>1. /\ s \in Seq(Ids) /\ u \in Seq(Ids) /\ v \in Seq(Ids)
      /\ Len(s) \in Nat /\ Len(u) \in Nat /\ Len(v) = Len(s) + Len(u)
      /\ \A i \in 1..Len(v) : v[i] = IF i <= Len(s) THEN s[i] ELSE u[i - Len(s)]
  BY DEF Lists
<1> HIDE DEF v
<1>2. /\ \A i, j \in 1..Len(s) : s[i] = s[j] => i = j
      /\ \A i, j \in 1..Len(u) : u[i] = u[j] => i = j
      /\ \A i \in 1..Len(s) : s[i] \in D
      /\ \A i \in 1..Len(u) : u[i] \in E
  BY DEF Lists
<1>3. ASSUME NEW i \in 1..Len(v)
      PROVE  \/ i \in 1..Len(s) /\ v[i] = s[i]
             \/ i > Len(s) /\ i - Len(s) \in 1..Len(u) /\ v[i] = u[i - Len(s)]
  <2>1. Len(s) \in Nat /\ Len(u) \in Nat /\ i \in 1..(Len(s) + Len(u))
    BY <1>1
  <2>2. v[i] = IF i <= Len(s) THEN s[i] ELSE u[i - Len(s)]
    BY <1>1
  <2> QED BY <2>1, <2>2
<1>4. ASSUME NEW i \in 1..Len(v), NEW j \in 1..Len(v), v[i] = v[j]
      PROVE  i = j
  <2>1. CASE i \in 1..Len(s) /\ j \in 1..Len(s)
    BY <1>1, <1>2, <1>4, <2>1
  <2>2. CASE i > Len(s) /\ j > Len(s)
    <3>1. i - Len(s) \in 1..Len(u) /\ j - Len(s) \in 1..Len(u)
      BY <1>1, <1>3, <2>2
    <3>2. u[i - Len(s)] = u[j - Len(s)]
      BY <1>1, <1>4, <2>2
    <3>3. \A k, l \in 1..Len(u) : u[k] = u[l] => k = l
      BY <1>2
    <3>4. i - Len(s) = j - Len(s)
      BY <3>1, <3>2, <3>3
    <3> QED BY <1>1, <3>4
  <2>3. CASE (i \in 1..Len(s) /\ j > Len(s)) \/ (j \in 1..Len(s) /\ i > Len(s))
    <3>1. (v[i] \in D /\ v[j] \in E) \/ (v[i] \in E /\ v[j] \in D)
      <4>1. ASSUME NEW k \in 1..Len(v)
            PROVE  (k \in 1..Len(s) => v[k] \in D) /\ (k > Len(s) => v[k] \in E)
        <5>1. Len(s) \in Nat /\ k \in Int
          BY <1>1
        <5>2. \/ k \in 1..Len(s) /\ v[k] \in D
              \/ k > Len(s) /\ v[k] \in E
          BY <1>2, <1>3
        <5> QED BY <5>1, <5>2
      <4> QED BY <2>3, <4>1
    <3> QED BY <1>4, <3>1
  <2>4. (i \in 1..Len(s) \/ i > Len(s)) /\ (j \in 1..Len(s) \/ j > Len(s))
    BY <1>3
  <2> QED BY <2>1, <2>2, <2>3, <2>4
<1>5. D \cup E = {v[i] : i \in 1..Len(v)}
  <2>1. ASSUME NEW x \in D PROVE \E i \in 1..Len(v) : x = v[i]
    <3>1. PICK i \in 1..Len(s) : x = s[i]
      BY DEF Lists
    <3>2. i \in 1..Len(v) /\ v[i] = s[i]
      BY <1>1
    <3> QED BY <3>1, <3>2
  <2>2. ASSUME NEW x \in E PROVE \E i \in 1..Len(v) : x = v[i]
    <3>1. PICK i \in 1..Len(u) : x = u[i]
      BY DEF Lists
    <3>2. i + Len(s) \in 1..Len(v) /\ v[i + Len(s)] = u[i]
      BY <1>1
    <3> QED BY <3>1, <3>2
  <2>3. \A i \in 1..Len(v) : v[i] \in D \cup E
    BY <1>2, <1>3
  <2> QED BY <2>1, <2>2, <2>3
<1> QED BY <1>1, <1>4, <1>5 DEF Lists, v

\* The two sides of a node have no node in common, and not the node itself.
LEMMA SidesDisjoint ==
  ASSUME NEW t, WellFormed(t), NEW n \in Ids
  PROVE  /\ Desc(t, t.left[n]) \cap Desc(t, t.right[n]) = {}
         /\ n \notin Desc(t, t.left[n]) /\ n \notin Desc(t, t.right[n])
<1>1. /\ \A m \in Desc(t, t.left[n]) : m < n /\ m \in Ids
      /\ \A m \in Desc(t, t.right[n]) : m > n /\ m \in Ids
  BY DescType DEF WellFormed, OrderedAt
<1> QED BY <1>1, IdsAssumption

\* v gives for p and the nodes below it what the walk of check_nodes gives.
WalksBelow(t, p, v) ==
  /\ v[NULL] = <<>>
  /\ \A m \in Desc(t, p) : v[m] = <<m>> \o v[t.left[m]] \o v[t.right[m]]

\* There is such a function for every node: the recursion ends.
LEMMA WalkExists ==
  ASSUME NEW t, WellFormed(t), NEW p \in Ptr
  PROVE  \E v : WalksBelow(t, p, v)
<1> DEFINE S == {n \in Ids : \E v : WalksBelow(t, n, v)}
<1>0. PICK h : t \in Trees /\ Graded(t, h)
  BY DEF WellFormed
<1>1. WalksBelow(t, NULL, [n \in {NULL} |-> <<>>])
  BY DescNull DEF WalksBelow
<1>2. ASSUME NEW n \in Ids, Kids(t, n) \subseteq S
      PROVE  n \in S
  <2> DEFINE L == Desc(t, t.left[n])
             R == Desc(t, t.right[n])
  <2>1. /\ t.left[n] = NULL \/ \E v : WalksBelow(t, t.left[n], v)
        /\ t.right[n] = NULL \/ \E v : WalksBelow(t, t.right[n], v)
    BY <1>2 DEF Kids
  <2>2. PICK a : WalksBelow(t, t.left[n], a)
    BY <1>1, <2>1
  <2>3. PICK b : WalksBelow(t, t.right[n], b)
    BY <1>1, <2>1
  <2> DEFINE w == [m \in Ptr |-> IF m = NULL THEN <<>>
                                 ELSE IF m \in L THEN a[m]
                                 ELSE IF m \in R THEN b[m]
                                 ELSE <<n>> \o a[t.left[n]] \o b[t.right[n]]]
  <2>4. /\ L \cap R = {} /\ n \notin L /\ n \notin R /\ Desc(t, n) = {n} \cup L \cup R
        /\ L \subseteq Ids /\ R \subseteq Ids
    BY <1>0, SidesDisjoint, DescUnfold, DescType
  <2>5. /\ \A m \in L : t.left[m] \in L \cup {NULL} /\ t.right[m] \in L \cup {NULL}
        /\ \A m \in R : t.left[m] \in R \cup {NULL} /\ t.right[m] \in R \cup {NULL}
    BY <1>0, DescClosed DEF Closed, Kids
  <2>6. /\ t.left[n] \in L \cup {NULL} /\ t.right[n] \in R \cup {NULL}
        /\ NULL \notin Ids /\ Ids \cup {NULL} = Ptr
    BY <1>0, KidsType, DescSelf, IdsAssumption DEF Ptr
  <2>7. a[NULL] = <<>> /\ b[NULL] = <<>>
    BY <2>2, <2>3 DEF WalksBelow
  <2>8. /\ \A m \in L \cup {NULL} : w[m] = a[m]
        /\ \A m \in R \cup {NULL} : w[m] = b[m]
        /\ w[n] = <<n>> \o a[t.left[n]] \o b[t.right[n]]
    <3> HIDE DEF L, R
    <3> QED BY <2>4, <2>6, <2>7
  <2>9. ASSUME NEW m \in Desc(t, n)
        PROVE  w[m] = <<m>> \o w[t.left[m]] \o w[t.right[m]]
    <3> HIDE DEF w
    <3>1. CASE m \in L
      <4>1. a[m] = <<m>> \o a[t.left[m]] \o a[t.right[m]]
        BY <2>2, <3>1 DEF WalksBelow
      <4> QED BY <2>5, <2>8, <3>1, <4>1
    <3>2. CASE m \in R
      <4>1. b[m] = <<m>> \o b[t.left[m]] \o b[t.right[m]]
        BY <2>3, <3>2 DEF WalksBelow
      <4> QED BY <2>5, <2>8, <3>2, <4>1
    <3>3. CASE m = n
      BY <2>6, <2>8, <3>3
    <3> QED BY <2>4, <3>1, <3>2, <3>3
  <2>10. WalksBelow(t, n, w)
    <3>1. w[NULL] = <<>>
      BY DEF Ptr
    <3> HIDE DEF w
    <3> QED BY <2>9, <3>1 DEF WalksBelow
  <2> QED BY <2>10
<1>3. Ids \subseteq S
  <2> HIDE DEF S
  <2> QED BY <1>0, <1>2, TreeInduction
<1>4. CASE p = NULL
  BY <1>1, <1>4
<1>5. CASE p \in Ids
  BY <1>3, <1>5
<1> QED BY <1>4, <1>5 DEF Ptr

\* check_nodes comes to every node of the tree, to each once.
LEMMA VisitsEveryNodeOnce ==
  ASSUME NEW t, WellFormed(t)
  PROVE  Lists(PreOrder(t), Nodes(t))
<1> DEFINE Walk(w) == [n \in Ptr |-> IF n = NULL THEN <<>>
                                     ELSE <<n>> \o w[t.left[n]] \o w[t.right[n]]]
<1>0. PICK h : t \in Trees /\ t.root \in Ptr /\ Graded(t, h)
  BY DEF WellFormed, Trees
<1>1. PICK v : WalksBelow(t, t.root, v)
  BY <1>0, WalkExists
<1> DEFINE u == [n \in Ptr |-> IF n = NULL THEN <<>>
                               ELSE IF n \in Nodes(t) THEN v[n] ELSE <<n>>]
<1>2. u = Walk(u)
  <2>1. NULL \notin Ids /\ Ptr = Ids \cup {NULL} /\ Nodes(t) \subseteq Ids
    BY DescType, IdsAssumption DEF Ptr, Nodes
  <2>2. \A n \in Nodes(t) : /\ t.left[n] \in Nodes(t) \cup {NULL}
                            /\ t.right[n] \in Nodes(t) \cup {NULL}
    BY <1>0, DescClosed DEF Closed, Kids, Nodes
  <2>3. \A n \in Ids \ Nodes(t) : t.left[n] = NULL /\ t.right[n] = NULL
    <3>1. \A n \in Ids \ Nodes(t) : Kids(t, n) = {}
      BY DEF WellFormed
    <3>2. ASSUME NEW n \in Ids \ Nodes(t), NEW c \in {t.left[n], t.right[n]}
          PROVE  c = NULL
      BY <3>1 DEF Kids
    <3> QED BY <3>2
  <2>4. /\ v[NULL] = <<>>
        /\ \A n \in Nodes(t) : v[n] = <<n>> \o v[t.left[n]] \o v[t.right[n]]
    BY <1>1 DEF WalksBelow, Nodes
  <2>5. /\ u[NULL] = <<>> /\ \A n \in Nodes(t) \cup {NULL} : u[n] = v[n]
        /\ \A n \in Ids \ Nodes(t) : u[n] = <<n>>
    BY <2>1, <2>4
  <2>6. ASSUME NEW n \in Ids
        PROVE  u[n] = <<n>> \o u[t.left[n]] \o u[t.right[n]]
    <3> HIDE DEF u
    <3>1. CASE n \in Nodes(t)
      BY <2>2, <2>4, <2>5, <3>1
    <3>2. CASE n \notin Nodes(t)
      <4>1. u[n] = <<n>> /\ u[t.left[n]] = <<>> /\ u[t.right[n]] = <<>>
        BY <2>3, <2>5, <3>2
      <4>2. <<n>> \o <<>> \o <<>> = <<n>>
        OBVIOUS
      <4> QED BY <4>1, <4>2
    <3> QED BY <3>1, <3>2
  <2>7. u = [n \in Ptr |-> u[n]]
    OBVIOUS
  <2> HIDE DEF u
  <2> QED BY <2>1, <2>5, <2>6, <2>7
<1>3. ASSUME NEW w, w = Walk(w)
      PROVE  Lists(w[t.root], Nodes(t))
  <2> DEFINE S == {n \in Ids : Lists(w[n], Desc(t, n))}
  <2>1. w[NULL] = <<>> /\ Lists(w[NULL], Desc(t, NULL))
    <3>1. w[NULL] = <<>>
      BY <1>3 DEF Ptr
    <3> QED BY <3>1, DescNull DEF Lists
  <2>2. ASSUME NEW n \in Ids, Kids(t, n) \subseteq S
        PROVE  n \in S
    <3>1. w[n] = <<n>> \o w[t.left[n]] \o w[t.right[n]]
      BY <1>3, IdsAssumption DEF Ptr
    <3>2. Lists(w[t.left[n]], Desc(t, t.left[n])) /\ Lists(w[t.right[n]], Desc(t, t.right[n]))
      BY <2>1, <2>2 DEF Kids
    <3>3. Lists(<<n>>, {n})
      BY DEF Lists
    <3>4. Lists(<<n>> \o w[t.left[n]], {n} \cup Desc(t, t.left[n]))
      BY <3>2, <3>3, SidesDisjoint, ListsConcat
    <3>5. Lists(w[n], ({n} \cup Desc(t, t.left[n])) \cup Desc(t, t.right[n]))
      <4>1. ({n} \cup Desc(t, t.left[n])) \cap Desc(t, t.right[n]) = {}
        BY SidesDisjoint
      <4> QED BY <3>1, <3>2, <3>4, <4>1, ListsConcat
    <3> QED BY <1>0, <3>5, DescUnfold
  <2>3. Ids \subseteq S
    <3> HIDE DEF S
    <3> QED BY <1>0, <2>2, TreeInduction
  <2> QED BY <1>0, <2>1, <2>3 DEF Ptr, Nodes
<1>4. \E w : w = Walk(w) /\ PreOrder(t) = w[t.root]
  BY <1>2 DEF PreOrder
<1> QED BY <1>3, <1>4
=============================================================================
