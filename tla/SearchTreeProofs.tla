-------------------------- MODULE SearchTreeProofs --------------------------
(***************************************************************************)
(* Theorems about SearchTree, for every set of ids: every property its run *)
(* checks.  They rest on one inductive invariant, that the tree is a well  *)
(* formed search tree of the created ids, and on the shape of the tree,    *)
(* which the last inserted leaf extends.                                   *)
(***************************************************************************)
EXTENDS SearchTree, TreeProofs, SequenceTheorems

\* The tree is a search tree, and holds the created ids, each created once.
IInv ==
  /\ WellFormed(tree)
  /\ Nodes(tree) = Created
  /\ born \in Seq(Ids)
  /\ IsInjective(born)

\* ShapeFromCreationOrder, told with the descendants instead of the walk.
Shape ==
  \A a, b \in Ids : (b \in Desc(tree, a) /\ a # b /\ a \in Created)
                    <=> ShouldBeBelow(a, b)
-----------------------------------------------------------------------------
(* The creation order.                                                      *)

\* Older orders the created ids.
LEMMA OlderIsOrder ==
  ASSUME IInv
  PROVE  /\ \A a : ~Older(a, a)
         /\ \A a, b : Older(a, b) => {a, b} \subseteq Created /\ ~Older(b, a)
         /\ \A a, b \in Created : a = b \/ Older(a, b) \/ Older(b, a)
<1>1. /\ DOMAIN born \subseteq Nat
      /\ \A i, j \in DOMAIN born : born[i] = born[j] => i = j
      /\ Created = {born[i] : i \in DOMAIN born}
  BY LenProperties DEF IInv, IsInjective, Created, ToSet
<1>2. \A a : ~Older(a, a)
  BY <1>1 DEF Older
<1>3. \A a, b : Older(a, b) => {a, b} \subseteq Created /\ ~Older(b, a)
  <2> SUFFICES ASSUME NEW a, NEW b, Older(a, b)
               PROVE  {a, b} \subseteq Created /\ ~Older(b, a)
    OBVIOUS
  <2>1. PICK i \in DOMAIN born, j \in DOMAIN born : i < j /\ born[i] = a /\ born[j] = b
    BY DEF Older
  <2>2. ~Older(b, a)
    <3> SUFFICES ASSUME NEW k \in DOMAIN born, NEW l \in DOMAIN born,
                        k < l, born[k] = b, born[l] = a
                 PROVE  FALSE
      BY DEF Older
    <3>1. k = j /\ l = i
      BY <1>1, <2>1
    <3> QED BY <1>1, <2>1, <3>1
  <2> QED BY <1>1, <2>1, <2>2
<1>4. \A a, b \in Created : a = b \/ Older(a, b) \/ Older(b, a)
  <2> SUFFICES ASSUME NEW i \in DOMAIN born, NEW j \in DOMAIN born
               PROVE  \/ born[i] = born[j]
                      \/ Older(born[i], born[j]) \/ Older(born[j], born[i])
    BY <1>1
  <2>1. i = j \/ i < j \/ j < i
    BY <1>1
  <2> QED BY <2>1 DEF Older
<1> QED BY <1>2, <1>3, <1>4

\* Some created ids have an oldest among them.
LEMMA OldestOf ==
  ASSUME IInv, NEW S \in SUBSET Created, S # {}
  PROVE  \E c \in S : \A k \in S \ {c} : Older(c, k)
<1> DEFINE I == {i \in DOMAIN born : born[i] \in S}
<1>1. /\ DOMAIN born \subseteq Nat
      /\ Created = {born[i] : i \in DOMAIN born}
  BY LenProperties DEF IInv, Created, ToSet
<1>2. I \in SUBSET Nat /\ I # {}
  BY <1>1
<1>3. PICK i \in I : \A j \in I : i <= j
  <2> HIDE DEF I
  <2> QED BY <1>2, LeastMember
<1>4. ASSUME NEW k \in S \ {born[i]}
      PROVE  Older(born[i], k)
  <2>1. PICK j \in I : born[j] = k
    BY <1>1
  <2>2. i < j
    BY <1>1, <1>3, <2>1, <1>4
  <2> QED BY <2>1, <2>2 DEF Older
<1> QED BY <1>4

\* The new id is younger than the others, whose order does not change.
LEMMA OrderExtends ==
  ASSUME IInv, NEW id \in Ids, id \notin Created, born' = Append(born, id)
  PROVE  /\ (born \in Seq(Ids))' /\ IsInjective(born)'
         /\ Created' = Created \cup {id}
         /\ \A a \in Created : Older(a, id)'
         /\ \A b \in Ids : ~Older(id, b)'
         /\ \A a, b \in Created : Older(a, b)' <=> Older(a, b)
<1> DEFINE n == Len(born)
<1>1. /\ born \in Seq(Ids) /\ n \in Nat /\ DOMAIN born = 1..n
      /\ \A i, j \in 1..n : born[i] = born[j] => i = j
      /\ Created = {born[i] : i \in 1..n}
  BY LenProperties DEF IInv, IsInjective, Created, ToSet
<1>2. /\ born' \in Seq(Ids) /\ DOMAIN born' = 1..(n + 1)
      /\ \A i \in 1..n : born'[i] = born[i]
      /\ born'[n + 1] = id
  BY <1>1, AppendProperties, LenProperties
<1> HIDE DEF n
<1>3. Created' = Created \cup {id}
  <2>1. Created' = {born'[i] : i \in 1..(n + 1)}
    BY <1>2 DEF Created, ToSet
  <2>2. 1..(n + 1) = (1..n) \cup {n + 1}
    BY <1>1
  <2> QED BY <1>1, <1>2, <2>1, <2>2
<1>4. \A i \in 1..n : born[i] # id
  BY <1>1
<1>5. IsInjective(born)'
  <2> SUFFICES ASSUME NEW i \in 1..(n + 1), NEW j \in 1..(n + 1), born'[i] = born'[j]
               PROVE  i = j
    BY <1>2 DEF IsInjective
  <2>1. /\ i = n + 1 \/ i \in 1..n
        /\ j = n + 1 \/ j \in 1..n
    BY <1>1
  <2> QED BY <1>1, <1>2, <1>4, <2>1
<1>6. ASSUME NEW a \in Created
      PROVE  Older(a, id)'
  <2>1. PICK i \in 1..n : born[i] = a
    BY <1>1
  <2>2. i < n + 1 /\ i \in 1..(n + 1) /\ n + 1 \in 1..(n + 1)
    BY <1>1
  <2> QED BY <1>2, <2>1, <2>2 DEF Older
<1>7. ASSUME NEW b \in Ids, Older(id, b)'
      PROVE  FALSE
  <2>1. PICK i \in 1..(n + 1), j \in 1..(n + 1) : i < j /\ born'[i] = id
    BY <1>2, <1>7 DEF Older
  <2>2. i \in 1..n
    BY <1>1, <2>1
  <2> QED BY <1>2, <1>4, <2>1, <2>2
<1>8. ASSUME NEW a \in Created, NEW b \in Created
      PROVE  Older(a, b)' <=> Older(a, b)
  <2>1. ASSUME Older(a, b)' PROVE Older(a, b)
    <3>1. PICK i \in 1..(n + 1), j \in 1..(n + 1) : i < j /\ born'[i] = a /\ born'[j] = b
      BY <1>2, <2>1 DEF Older
    <3>2. i # n + 1 /\ j # n + 1
      BY <1>1, <1>2, <3>1
    <3>3. i \in 1..n /\ j \in 1..n
      BY <1>1, <3>1, <3>2
    <3> QED BY <1>1, <1>2, <3>1, <3>3 DEF Older
  <2>2. ASSUME Older(a, b) PROVE Older(a, b)'
    <3>1. PICK i \in 1..n, j \in 1..n : i < j /\ born[i] = a /\ born[j] = b
      BY <1>1, <2>2 DEF Older
    <3>2. i \in 1..(n + 1) /\ j \in 1..(n + 1)
      BY <1>1
    <3> QED BY <1>2, <3>1, <3>2 DEF Older
  <2> QED BY <2>1, <2>2
<1> QED BY <1>2, <1>3, <1>5, <1>6, <1>7, <1>8
-----------------------------------------------------------------------------
(* The steps of create.                                                     *)

\* Both hold of the empty tree, root == NULL.
LEMMA InitIInv == Init => IInv /\ Shape
<1> SUFFICES ASSUME Init PROVE IInv /\ Shape
  OBVIOUS
<1>1. born \in Seq(Ids) /\ DOMAIN born = {} /\ Created = {}
  BY EmptySeq, LenProperties DEF Init, Created, ToSet
<1>2. WellFormed(tree) /\ Nodes(tree) = {}
  BY EmptyTreeWellFormed DEF Init
<1> QED BY <1>1, <1>2 DEF IInv, Shape, IsInjective, ShouldBeBelow

\* An accepted create keeps the tree a search tree, of one more id.
LEMMA CreateIInv ==
  ASSUME IInv, NEW id \in Ids, NEW parent \in Ptr, Create(id, parent)
  PROVE  id \notin Created /\ IInv'
<1>1. id \notin Nodes(tree) /\ id \notin Created
  BY CreateIsNew DEF Create, IInv
<1>2. tree' = InsertNode(tree, id) /\ born' = Append(born, id)
  BY DEF Create
<1>3. WellFormed(tree') /\ Nodes(tree') = Nodes(tree) \cup {id}
  BY <1>1, <1>2, InsertKeeps DEF IInv
<1>4. (born \in Seq(Ids))' /\ IsInjective(born)' /\ Created' = Created \cup {id}
  BY <1>1, <1>2, OrderExtends
<1> QED BY <1>1, <1>3, <1>4 DEF IInv

\* A created id that is the oldest up to a's side of the span is above a.
LEMMA OldestIsAbove ==
  ASSUME IInv, Shape, NEW a \in Created, NEW c \in Created, c # a,
         \A k \in (Span(a, c) \cap Created) \ {c} : Older(c, k)
  PROVE  a \in Desc(tree, c) /\ a \in Desc(tree, SideOf(tree, a, c))
<1>1. a \in Ids /\ c \in Ids
  BY DescType DEF IInv, Nodes
<1>2. Span(c, a) = Span(a, c)
  BY DEF Span
<1>3. ShouldBeBelow(c, a)
  BY <1>2 DEF ShouldBeBelow
<1>4. a \in Desc(tree, c)
  BY <1>1, <1>3 DEF Shape
<1> QED BY <1>1, <1>4, DescSide DEF IInv

\* The span up to an id in between is part of the whole span.
LEMMA SpanShrinks ==
  ASSUME NEW a \in Ids, NEW b \in Ids, NEW c \in Span(a, b)
  PROVE  /\ c \in Ids /\ c \in Int
         /\ Span(a, c) \subseteq Span(a, b) /\ Span(b, c) \subseteq Span(a, b)
<1>1. c \in Ids /\ a \in Int /\ b \in Int /\ c \in Int
  BY IdsAssumption DEF Span
<1>2. ASSUME NEW l \in Ids
      PROVE  /\ l \in Span(a, c) => l \in Span(a, b)
             /\ l \in Span(b, c) => l \in Span(a, b)
  <2>1. l \in Int
    BY IdsAssumption
  <2> QED BY <1>1, <2>1 DEF Span
<1> QED BY <1>1, <1>2 DEF Span

\* The new leaf is below exactly the nodes that are the oldest on their way
\* to it: an older one in between would have turned the descent away.
LEMMA LeafPlace ==
  ASSUME IInv, Shape, NEW id \in Ids, id \notin Created,
         NEW u, NEW p, Grafted(tree, u, id, p), NEW a \in Created
  PROVE  p \in Desc(tree, a)
           <=> \A k \in (Span(a, id) \cap Created) \ {a} : Older(a, k)
<1>1. /\ a \in Ids /\ a \in Int /\ id \in Int /\ p \in Ids /\ p \in Int
      /\ p \in Created /\ a # id /\ Created \subseteq Int /\ Created \subseteq Ids
  BY DescType, IdsAssumption DEF IInv, Nodes, Grafted
<1>2. \A c \in Created : /\ p \in Desc(tree, tree.left[c]) => id < c
                         /\ p \in Desc(tree, tree.right[c]) => id > c
  BY DEF Grafted, IInv
<1>3. tree \in Trees /\ WellFormed(tree)
  BY DEF IInv, WellFormed
<1>4. ASSUME p \in Desc(tree, a), NEW k \in (Span(a, id) \cap Created) \ {a}
      PROVE  Older(a, k)
  <2> DEFINE S == Span(a, k) \cap Created
  <2>1. S \in SUBSET Created /\ a \in S /\ k \in S
    BY <1>1 DEF Span
  <2>2. PICK c \in S : \A l \in S \ {c} : Older(c, l)
    <3> HIDE DEF S
    <3> QED BY <2>1, OldestOf
  <2>3. CASE c # a
    <3>0. c \in Int /\ c \in Created /\ k \in Ids /\ k \in Int
      BY <1>1, <1>4, <2>2
    <3>1. \A l \in (Span(a, c) \cap Created) \ {c} : Older(c, l)
      BY <1>1, <2>2, <3>0, SpanShrinks
    <3>2. a \in Desc(tree, SideOf(tree, a, c))
      BY <2>2, <2>3, <3>1, OldestIsAbove
    <3>3. p \in Desc(tree, SideOf(tree, a, c))
      BY <1>3, <1>4, <3>2, DescTransitive
    <3>4. (a < c => id < c) /\ (a > c => id > c)
      <4>1. CASE a < c
        BY <1>1, <1>2, <3>0, <3>3, <4>1 DEF SideOf
      <4>2. CASE a > c
        BY <1>1, <1>2, <3>0, <3>3, <4>2 DEF SideOf
      <4> QED BY <1>1, <3>0, <4>1, <4>2
    <3>5. (a < c /\ c <= id) \/ (id <= c /\ c < a)
      BY <1>1, <1>4, <2>2, <2>3, <3>0 DEF Span
    <3> QED BY <1>1, <3>0, <3>4, <3>5
  <2> QED BY <1>4, <2>1, <2>2, <2>3
<1>5. ASSUME \A k \in (Span(a, id) \cap Created) \ {a} : Older(a, k)
      PROVE  p \in Desc(tree, a)
  <2> SUFFICES ASSUME p \notin Desc(tree, a) PROVE FALSE
    OBVIOUS
  <2>1. p # a
    BY <1>1, DescSelf
  <2> DEFINE S == Span(p, a) \cap Created
  <2>2. S \in SUBSET Created /\ p \in S /\ a \in S
    BY <1>1 DEF Span
  <2>3. PICK c \in S : \A l \in S \ {c} : Older(c, l)
    <3> HIDE DEF S
    <3> QED BY <2>2, OldestOf
  <2>4. c # a
    <3>1. ASSUME c = a
          PROVE  \A k \in (Span(p, a) \cap Created) \ {a} : Older(a, k)
      BY <2>3, <3>1
    <3> QED BY <1>1, <2>1, <3>1, OldestIsAbove
  <2>5. /\ Span(a, c) \cap Created \subseteq S
        /\ Span(p, c) \cap Created \subseteq S
    <3>1. c \in Span(p, a)
      BY <2>3
    <3> QED BY <1>1, <3>1, SpanShrinks
  <2>6. a \in Desc(tree, SideOf(tree, a, c))
    <3>1. \A l \in (Span(a, c) \cap Created) \ {c} : Older(c, l)
      <4> HIDE DEF S
      <4> QED BY <2>3, <2>5
    <3> QED BY <2>3, <2>4, <3>1, OldestIsAbove
  <2>7. c \notin Span(a, id)
    <3>1. Older(c, a)
      BY <2>2, <2>3, <2>4
    <3>2. ~Older(a, c)
      BY <3>1, OlderIsOrder
    <3> QED BY <1>5, <2>3, <2>4, <3>2
  <2>8. c \in Int /\ c \in Ids /\ c # id
    BY <1>1, <2>3
  <2>9. (a < c /\ id < c) \/ (a > c /\ id > c)
    BY <1>1, <2>4, <2>7, <2>8 DEF Span
  <2>10. CASE c = p
    <3>1. SideOf(tree, a, c) = NULL
      BY <1>1, <2>8, <2>9, <2>10 DEF SideOf, Grafted
    <3> QED BY <2>6, <3>1, DescNull
  <2>11. CASE c # p
    <3>1. \A l \in (Span(p, c) \cap Created) \ {c} : Older(c, l)
      <4> HIDE DEF S
      <4> QED BY <2>3, <2>5
    <3>2. p \in Desc(tree, SideOf(tree, p, c))
      BY <1>1, <2>3, <2>11, <3>1, OldestIsAbove
    <3>3. (p < c /\ c < a) \/ (a < c /\ c < p)
      BY <1>1, <2>3, <2>4, <2>11, <2>8 DEF Span
    <3>4. (p < c => id < c) /\ (p > c => id > c)
      BY <1>1, <1>2, <2>3, <2>8, <3>2 DEF SideOf
    <3> QED BY <1>1, <2>8, <2>9, <3>3, <3>4
  <2> QED BY <2>10, <2>11
<1> QED BY <1>4, <1>5

\* The leaf and its parent, in terms of the creation order of the new state.
LEMMA LeafShape ==
  ASSUME IInv, Shape, NEW id \in Ids, id \notin Created, born' = Append(born, id),
         NEW p, Grafted(tree, tree', id, p), NEW a \in Ids, NEW b \in Ids
  PROVE  (b \in Desc(tree', a) /\ a # b /\ a \in Created') <=> ShouldBeBelow(a, b)'
<1>1. /\ Created' = Created \cup {id} /\ Created \subseteq Ids
      /\ \A k \in Created : Older(k, id)'
      /\ \A k \in Ids : ~Older(id, k)'
      /\ \A k, l \in Created : Older(k, l)' <=> Older(k, l)
  BY OrderExtends, DescType DEF IInv, Nodes
<1>2. /\ WellFormed(tree) /\ id \notin Nodes(tree) /\ Nodes(tree) = Created
      /\ tree \in Trees /\ p \in Created /\ p # id /\ a \in Ptr
  BY DEF IInv, WellFormed, Grafted, Ptr
<1>3. \A x \in Ptr : Desc(tree', x) = Desc(tree, x) \cup {m \in {id} : p \in Desc(tree, x)}
  BY <1>2, GraftDesc
<1>4. ShouldBeBelow(a, b)' <=>
        /\ a # b /\ a \in Created' /\ b \in Created'
        /\ \A k \in (Span(a, b) \cap Created') \ {a} : Older(a, k)'
  BY DEF ShouldBeBelow, Span
<1>5. CASE a \notin Created'
  BY <1>4, <1>5
<1>6. CASE a = id
  <2>1. Desc(tree', id) = {id}
    <3>1. tree' \in Trees /\ Kids(tree', id) = {}
      BY <1>2, GraftKids DEF Grafted
    <3> QED BY <3>1, DescLeaf
  <2>2. b \in Span(a, b)
    BY IdsAssumption DEF Span
  <2> QED BY <1>1, <1>4, <1>6, <2>1, <2>2
<1>7. CASE a \in Created /\ b = id
  <2>1. b \in Desc(tree', a) <=> p \in Desc(tree, a)
    <3>1. Desc(tree, a) \subseteq Nodes(tree)
      BY <1>2, <1>7, DescTransitive DEF Nodes
    <3> QED BY <1>2, <1>3, <1>7, <3>1
  <2>2. p \in Desc(tree, a)
          <=> \A k \in (Span(a, id) \cap Created) \ {a} : Older(a, k)
    BY <1>7, LeafPlace
  <2>3. (\A k \in (Span(a, b) \cap Created') \ {a} : Older(a, k)')
          <=> \A k \in (Span(a, id) \cap Created) \ {a} : Older(a, k)
    BY <1>1, <1>7
  <2> QED BY <1>1, <1>4, <1>7, <2>1, <2>2, <2>3
<1>8. CASE a \in Created /\ b # id
  <2>1. b \in Desc(tree', a) <=> b \in Desc(tree, a)
    BY <1>2, <1>3, <1>8
  <2>2. (b \in Desc(tree, a) /\ a # b /\ a \in Created) <=> ShouldBeBelow(a, b)
    BY DEF Shape
  <2>3. (\A k \in (Span(a, b) \cap Created') \ {a} : Older(a, k)')
          <=> \A k \in (Span(a, b) \cap Created) \ {a} : Older(a, k)
    BY <1>1, <1>8
  <2> QED BY <1>1, <1>4, <1>8, <2>1, <2>2, <2>3 DEF ShouldBeBelow
<1> QED BY <1>1, <1>5, <1>6, <1>7, <1>8

\* An accepted create keeps the shape: as the root, or as a leaf that hangs
\* below exactly those whose span to it holds nothing older.
LEMMA CreateShape ==
  ASSUME IInv, Shape, NEW id \in Ids, NEW parent \in Ptr, Create(id, parent)
  PROVE  Shape'
<1>1. /\ tree' = InsertNode(tree, id) /\ born' = Append(born, id)
      /\ id \notin Created /\ IInv'
  BY CreateIInv DEF Create
<1>2. CASE tree.root = NULL
  <2>1. Created' = {id} /\ \A x \in Ptr : Desc(tree', x) = Desc(tree, x)
    BY <1>1, <1>2, InsertRoot DEF IInv
  <2>2. \A n \in Ids : Kids(tree, n) = {}
    BY <1>2, DescNull DEF IInv, WellFormed, Nodes
  <2>3. \A x \in Ids : Desc(tree', x) = {x}
    BY <2>1, <2>2, DescLeaf DEF IInv, WellFormed, Ptr
  <2>4. ASSUME NEW a \in Ids, NEW b \in Ids
        PROVE  (b \in Desc(tree', a) /\ a # b /\ a \in Created') <=> ShouldBeBelow(a, b)'
    BY <2>1, <2>3 DEF ShouldBeBelow
  <2> QED BY <2>4 DEF Shape
<1>3. CASE tree.root # NULL
  <2>1. Grafted(tree, tree', id, AttachPoint(tree, id))
    BY <1>1, <1>3, InsertGrafts DEF IInv
  <2>2. ASSUME NEW a \in Ids, NEW b \in Ids
        PROVE  (b \in Desc(tree', a) /\ a # b /\ a \in Created') <=> ShouldBeBelow(a, b)'
    BY <1>1, <2>1, LeafShape
  <2> QED BY <2>2 DEF Shape
<1> QED BY <1>2, <1>3

\* Nothing changes, nothing is lost.
LEMMA StutterKeeps ==
  ASSUME IInv, Shape, UNCHANGED vars
  PROVE  IInv' /\ Shape'
BY DEF vars, IInv, Shape, Created, ShouldBeBelow, Older, Span

\* Whatever creates are accepted in whatever order, the tree is a well formed
\* search tree of the created ids, and what hangs below what is told by the
\* creation order.
THEOREM IndInv == Spec => [](IInv /\ Shape)
<1>1. IInv /\ Shape /\ [Next]_vars => (IInv /\ Shape)'
  BY CreateIInv, CreateShape, StutterKeeps DEF Next
<1> QED BY InitIInv, <1>1, PTL DEF Spec
-----------------------------------------------------------------------------
(* The properties.                                                          *)

\* The types: pointers are ids or NULL, and no id is created twice.
THEOREM TypeCorrect == Spec => []TypeOK
<1>1. IInv => TypeOK
  BY DEF IInv, TypeOK, WellFormed
<1> QED BY <1>1, IndInv, PTL

\* insert_node keeps the search order, although the user names parents that it
\* does not look at.
THEOREM SearchOrder == Spec => []Ordered
<1>1. ASSUME IInv PROVE Ordered
  <2>1. PICK h : Graded(tree, h)
    BY <1>1 DEF IInv, WellFormed
  <2>2. tree \in Trees /\ Created \subseteq Ids /\ \A n \in Ids : OrderedAt(tree, n)
    BY <1>1, DescType DEF IInv, WellFormed, Nodes
  <2>3. \A p \in Ptr : Subtree(tree, p) = Desc(tree, p)
    BY <2>1, <2>2, SubtreeIsDesc
  <2>4. \A n \in Ids : tree.left[n] \in Ptr /\ tree.right[n] \in Ptr
    BY <2>2, KidsType
  <2> QED BY <2>2, <2>3, <2>4 DEF Ordered, OrderedAt
<1> QED BY <1>1, IndInv, PTL

\* find_node and the descent of exec_recursive, written apart, both find exactly
\* the created ids.
THEOREM BothSearchesFind == Spec => []SearchesAgree
<1>1. IInv => SearchesAgree
  BY FindNodeFinds, ExecTargetFinds DEF IInv, SearchesAgree
<1> QED BY <1>1, IndInv, PTL

\* What mark_children_unavailable disables with a node is told by the creation
\* order: the ids whose span to the node holds nothing older than it.
THEOREM ShapeIsCreationOrder == Spec => []ShapeFromCreationOrder
<1>1. ASSUME IInv, Shape PROVE ShapeFromCreationOrder
  <2>1. PICK h : Graded(tree, h)
    BY <1>1 DEF IInv, WellFormed
  <2>2. \A a \in Ids : Subtree(tree, a) = Desc(tree, a)
    BY <1>1, <2>1, SubtreeIsDesc DEF IInv, WellFormed, Ptr
  <2> QED BY <1>1, <2>2 DEF Shape, ShapeFromCreationOrder
<1> QED BY <1>1, IndInv, PTL
=============================================================================
