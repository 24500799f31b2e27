----------------------------- MODULE DiceProofs -----------------------------
(***************************************************************************)
(* Theorems about Dice, for every number of threads and experiments: no    *)
(* addition to the totals is lost, and the totals main prints add up to    *)
(* the number of experiments.  The sum over the threads is a function on   *)
(* 0..MaxThreads that some state of the model justifies: its value at i is *)
(* what the threads below i have added.                                    *)
(***************************************************************************)
EXTENDS Dice, TLAPS, WellFoundedInduction

(* The inductive invariant.                                                *)

\* A thread inside the critical section owns the mutex.
InsideOwns == \A i \in Threads : state[i] \in {"adding", "storing"} => mutex = i

\* Between its load and its store a thread holds the current value.
LoadedIsCurrent ==
  \A i \in Threads : state[i] = "storing" =>
    kind[i] \in Kinds /\ loaded[i] = total[kind[i]]

IInv == TypeOK /\ InsideOwns /\ LoadedIsCurrent /\ NoLostUpdate

USE DiceAssumption
USE DEF Remains, MutexFree, Released

\* Every thread gets a natural number of experiments.
LEMMA ShareType == \A i \in Threads : Share(i) \in Nat
<1>1. Experiments \div MaxThreads \in Nat
  OBVIOUS
<1> QED BY <1>1 DEF Share

LEMMA NextKindType == \A k \in Kinds \cup {"none"} : NextKind[k] \in Kinds \cup {"none"}
BY DEF NextKind, Kinds

\* The invariant holds before main creates a thread.
LEMMA InitInv == Init => IInv
BY DEF Init, IInv, TypeOK, InsideOwns, LoadedIsCurrent, NoLostUpdate, Threads, Kinds,
       States, Nobody

\* The steps of main, create and join, keep it.
LEMMA MainStepInv == IInv /\ (CreateThread \/ JoinThread) => IInv'
<1> SUFFICES ASSUME IInv, CreateThread \/ JoinThread PROVE IInv'
  OBVIOUS
<1>1. CASE CreateThread
  <2>1. created \in Threads /\ created' \in 0..MaxThreads
    BY <1>1 DEF CreateThread, IInv, TypeOK, Threads
  <2>2. TypeOK'
    BY <1>1, <2>1, ShareType DEF CreateThread, IInv, TypeOK, States
  <2>3. InsideOwns' /\ LoadedIsCurrent' /\ NoLostUpdate'
    BY <1>1, <2>1 DEF CreateThread, IInv, TypeOK, InsideOwns, LoadedIsCurrent, NoLostUpdate
  <2> QED BY <2>2, <2>3 DEF IInv
<1>2. CASE JoinThread
  BY <1>2 DEF JoinThread, IInv, TypeOK, InsideOwns, LoadedIsCurrent, NoLostUpdate
<1> QED BY <1>1, <1>2

\* Every step of a thread keeps it.
LEMMA ThreadStepInv ==
  ASSUME IInv, NEW i \in Threads, ThreadStep(i)
  PROVE  IInv'
<1> USE DEF IInv
<1>1. CASE Play(i)
  <2>1. local' \in [Threads -> [Kinds -> Nat]]
    BY <1>1 DEF Play, TypeOK
  <2>2. left' \in [Threads -> Nat]
    BY <1>1 DEF Play, TypeOK
  <2> QED BY <1>1, <2>1, <2>2
          DEF Play, TypeOK, InsideOwns, LoadedIsCurrent, NoLostUpdate
<1>2. CASE Lock(i)
  <2>1. \A j \in Threads : j # Nobody
    BY DEF Threads, Nobody
  <2>2. \A j \in Threads \ {i} : state'[j] \notin {"adding", "storing"}
    BY <1>2, <2>1 DEF Lock, TypeOK, InsideOwns
  <2>3. TypeOK'
    BY <1>2 DEF Lock, TypeOK, States, NextKind, Kinds
  <2>4. InsideOwns' /\ LoadedIsCurrent' /\ NoLostUpdate'
    BY <1>2, <2>2 DEF Lock, TypeOK, InsideOwns, LoadedIsCurrent, NoLostUpdate
  <2> QED BY <2>3, <2>4
<1>3. CASE Load(i)
  <2>1. kind[i] \in Kinds
    BY <1>3 DEF Load, TypeOK
  <2>2. TypeOK'
    BY <1>3, <2>1 DEF Load, TypeOK, States
  <2>3. InsideOwns' /\ LoadedIsCurrent' /\ NoLostUpdate'
    BY <1>3, <2>1 DEF Load, TypeOK, InsideOwns, LoadedIsCurrent, NoLostUpdate
  <2> QED BY <2>2, <2>3
<1>4. CASE Store(i)
  <2>1. kind[i] \in Kinds /\ loaded[i] = total[kind[i]] /\ mutex = i
    BY <1>4 DEF Store, InsideOwns, LoadedIsCurrent
  <2>2. local[i][kind[i]] \in Nat
    BY <2>1 DEF TypeOK
  <2>3. total' = added'
    BY <1>4, <2>1, <2>2 DEF Store, TypeOK, NoLostUpdate
  <2>4. TypeOK'
    BY <1>4, <2>1, <2>2, NextKindType DEF Store, TypeOK, States
  <2>5. \A j \in Threads \ {i} : state[j] \notin {"adding", "storing"}
    BY <2>1 DEF InsideOwns
  <2>6. InsideOwns' /\ LoadedIsCurrent'
    BY <1>4, <2>1, <2>5 DEF Store, TypeOK, InsideOwns, LoadedIsCurrent
  <2> QED BY <2>3, <2>4, <2>6 DEF NoLostUpdate
<1>5. CASE Unlock(i)
  <2>1. mutex = i
    BY <1>5 DEF Unlock, InsideOwns
  <2> QED BY <1>5, <2>1
          DEF Unlock, TypeOK, States, InsideOwns, LoadedIsCurrent, NoLostUpdate
<1> QED BY <1>1, <1>2, <1>3, <1>4, <1>5 DEF ThreadStep

\* The inductive invariant: who is inside owns the mutex and holds the current
\* value of the total it adds to.
THEOREM Invariance == Spec => []IInv
<1>1. IInv /\ UNCHANGED vars => IInv'
  BY DEF IInv, TypeOK, InsideOwns, LoadedIsCurrent, NoLostUpdate, vars
<1>2. IInv /\ [Next]_vars => IInv'
  BY <1>1, MainStepInv, ThreadStepInv DEF Next
<1> QED BY InitInv, <1>2, PTL DEF Spec

\* Types: no counter of the game falls below zero, and the mutex has one owner.
THEOREM TypeCorrect == Spec => []TypeOK
<1>1. IInv => TypeOK
  BY DEF IInv
<1> QED BY Invariance, <1>1, PTL

\* However many threads add their results, and however their loads and stores
\* interleave, each total is exactly what was added to it.
THEOREM NoUpdateIsLost == Spec => []NoLostUpdate
<1>1. IInv => NoLostUpdate
  BY DEF IInv
<1> QED BY Invariance, <1>1, PTL
-----------------------------------------------------------------------------
(* The shares add up.                                                       *)

\* A set of natural numbers has a least member.
LEMMA LeastMember ==
  ASSUME NEW S \in SUBSET Nat, S # {}
  PROVE  \E n \in S : \A m \in S : n <= m
<1> DEFINE R == OpToRel(<, Nat)
<1>1. IsWellFoundedOn(R, Nat)
  BY NatLessThanWellFounded
<1>2. PICK n \in S : \A m \in S : <<m, n>> \notin R
  <2> HIDE DEF R
  <2> QED BY <1>1, WFMin
<1>3. \A m \in S : ~(m < n)
  BY <1>2 DEF OpToRel
<1> QED BY <1>3

Lines == 0..MaxThreads

\* s is the running sum of the shares of main.
SumsShares(s) ==
  /\ s \in [Lines -> Nat] /\ s[0] = 0
  /\ \A i \in Threads : s[i + 1] = s[i] + Share(i)

\* What the first j shares come to.
FirstShares(j) ==
  LET r == Experiments % MaxThreads
  IN  j * (Experiments \div MaxThreads) + (IF j < r THEN j ELSE r)

\* FirstShares is the running sum of the shares of main.
LEMMA ShareGrows ==
  ASSUME NEW i \in Threads
  PROVE  FirstShares(i + 1) = FirstShares(i) + Share(i)
<1> DEFINE q == Experiments \div MaxThreads
           r == Experiments % MaxThreads
<1>1. q \in Nat /\ r \in Nat /\ i \in Nat
  BY DEF Threads
<1> HIDE DEF q, r
<1>2. (i + 1) * q = i * q + q /\ i * q \in Nat
  BY <1>1
<1>3. /\ FirstShares(i + 1) = (i + 1) * q + (IF i + 1 < r THEN i + 1 ELSE r)
      /\ FirstShares(i) = i * q + (IF i < r THEN i ELSE r)
      /\ Share(i) = q + (IF i < r THEN 1 ELSE 0)
  BY DEF FirstShares, Share, q, r
<1> QED BY <1>1, <1>2, <1>3

\* The shares come to all experiments: the remainder of the division goes to the
\* first threads, one each.
LEMMA SharesOfAll == FirstShares(0) = 0 /\ FirstShares(MaxThreads) = Experiments
<1> DEFINE q == Experiments \div MaxThreads
           r == Experiments % MaxThreads
<1>1. q \in Nat /\ r \in Nat /\ r < MaxThreads /\ Experiments = MaxThreads * q + r
  OBVIOUS
<1> HIDE DEF q, r
<1>2. /\ FirstShares(0) = 0 * q + (IF 0 < r THEN 0 ELSE r)
      /\ FirstShares(MaxThreads) = MaxThreads * q + (IF MaxThreads < r THEN MaxThreads ELSE r)
  BY DEF FirstShares, q, r
<1> QED BY <1>1, <1>2

\* The division of main shares out exactly the experiments asked for.
LEMMA SharesAddUp ==
  ASSUME NEW s, SumsShares(s)
  PROVE  s[MaxThreads] = Experiments
<1> DEFINE B == {j \in Lines : s[j] # FirstShares(j)}
<1>1. ASSUME B # {}
      PROVE  FALSE
  <2>1. B \in SUBSET Nat
    BY DEF Lines
  <2>2. PICK j \in B : \A k \in B : j <= k
    <3> HIDE DEF B
    <3> QED BY <1>1, <2>1, LeastMember
  <2>3. j # 0
    BY SharesOfAll DEF SumsShares
  <2>4. j - 1 \in Threads /\ j - 1 \in Lines /\ (j - 1) + 1 = j /\ ~(j <= j - 1)
    BY <2>2, <2>3 DEF Lines, Threads
  <2>5. s[j - 1] = FirstShares(j - 1)
    BY <2>2, <2>4
  <2>6. s[j] = s[j - 1] + Share(j - 1)
    BY <2>4 DEF SumsShares
  <2>7. FirstShares(j) = FirstShares(j - 1) + Share(j - 1)
    BY <2>4, ShareGrows
  <2> QED BY <2>2, <2>5, <2>6, <2>7
<1>2. MaxThreads \in Lines
  BY DEF Lines
<1> QED BY <1>1, <1>2, SharesOfAll
-----------------------------------------------------------------------------
(* What the threads have played and added.                                  *)

\* The results of thread i so far.
Results(i) == local[i]["first"] + local[i]["second"] + local[i]["draw"]

\* What thread i has already added to the totals.
AddedBy(i) ==
  IF state[i] \in {"none", "playing"} THEN 0
  ELSE [first  |-> 0,
        second |-> local[i]["first"],
        draw   |-> local[i]["first"] + local[i]["second"],
        none   |-> Results(i)][kind[i]]

\* Results and experiments left make up the share of a thread, which begins
\* to add when nothing is left.
ResultsInv ==
  \A i \in Threads :
    /\ state[i] = "none" => Results(i) = 0
    /\ state[i] # "none" => left[i] + Results(i) = Share(i)
    /\ state[i] \in {"adding", "storing", "done"} => left[i] = 0
    /\ state[i] = "done" => kind[i] = "none"

\* Threads exist from their creation on, and main joins only those that ended.
JoinInv ==
  /\ \A i \in Threads : state[i] = "none" <=> i >= created
  /\ \A i \in Threads : i < joined => state[i] = "done"

\* s is the running sum of what the threads have added.
SumsAdded(s) ==
  /\ s \in [Lines -> Nat] /\ s[0] = 0
  /\ \A i \in Threads : s[i + 1] = s[i] + AddedBy(i)

\* The totals got no more and no less than that.
SumInv ==
  \E s : SumsAdded(s)
         /\ s[MaxThreads] = added["first"] + added["second"] + added["draw"]

\* Results are counted with natural numbers.
LEMMA ResultsType == 
  ASSUME TypeOK, NEW i \in Threads
  PROVE  /\ Results(i) \in Nat /\ AddedBy(i) \in Nat
         /\ \A k \in Kinds : local[i][k] \in Nat
<1>1. \A k \in Kinds : local[i][k] \in Nat
  BY DEF TypeOK
<1>2. /\ local[i]["first"] \in Nat /\ local[i]["second"] \in Nat
      /\ local[i]["draw"] \in Nat
  BY <1>1 DEF Kinds
<1>3. kind[i] \in {"first", "second", "draw", "none"}
  BY DEF TypeOK, Kinds
<1> QED BY <1>1, <1>2, <1>3 DEF Results, AddedBy

\* A step that changes what no thread has added keeps the sum.
LEMMA SumFrame ==
  ASSUME SumInv, UNCHANGED added, \A i \in Threads : AddedBy(i)' = AddedBy(i)
  PROVE  SumInv'
<1>1. PICK s : SumsAdded(s) /\ s[MaxThreads] = added["first"] + added["second"] + added["draw"]
  BY DEF SumInv
<1>2. SumsAdded(s)'
  BY <1>1 DEF SumsAdded
<1> QED BY <1>1, <1>2 DEF SumInv

\* A thread that adds raises the sums above it.
LEMMA SumRaise ==
  ASSUME SumInv, NEW i \in Threads, NEW a \in Nat,
         \A j \in Threads : AddedBy(j) \in Nat,
         AddedBy(i)' = AddedBy(i) + a,
         \A j \in Threads \ {i} : AddedBy(j)' = AddedBy(j),
         added'["first"] + added'["second"] + added'["draw"]
           = added["first"] + added["second"] + added["draw"] + a
  PROVE  SumInv'
<1>1. PICK s : SumsAdded(s) /\ s[MaxThreads] = added["first"] + added["second"] + added["draw"]
  BY DEF SumInv
<1> DEFINE u == [j \in Lines |-> IF j <= i THEN s[j] ELSE s[j] + a]
<1>2. \A j \in Lines : s[j] \in Nat
  BY <1>1 DEF SumsAdded
<1>3. /\ u \in [Lines -> Nat] /\ 0 \in Lines /\ MaxThreads \in Lines /\ i \in Nat
      /\ \A j \in Threads : j \in Lines /\ j + 1 \in Lines /\ j \in Nat
  BY <1>2 DEF Lines, Threads
<1>4. \A j \in Lines : u[j] = IF j <= i THEN s[j] ELSE s[j] + a
  OBVIOUS
<1> HIDE DEF u
<1>5. u[0] = 0
  BY <1>1, <1>3, <1>4 DEF SumsAdded
<1>6. u[MaxThreads] = s[MaxThreads] + a
  BY <1>3, <1>4 DEF Threads
<1>7. ASSUME NEW j \in Threads
      PROVE  u[j + 1] = u[j] + AddedBy(j)'
  <2>1. s[j + 1] = s[j] + AddedBy(j) /\ s[j] \in Nat /\ s[j + 1] \in Nat /\ AddedBy(j) \in Nat
    BY <1>1, <1>2, <1>3 DEF SumsAdded
  <2>2. CASE j < i
    <3>1. j <= i /\ j + 1 <= i /\ j # i
      BY <1>3, <2>2
    <3> QED BY <1>3, <1>4, <2>1, <3>1
  <2>3. CASE j = i
    <3>1. ~(j + 1 <= i) /\ j <= i
      BY <1>3, <2>3
    <3> QED BY <1>3, <1>4, <2>1, <2>3, <3>1
  <2>4. CASE j > i
    <3>1. ~(j + 1 <= i) /\ ~(j <= i) /\ j # i
      BY <1>3, <2>4
    <3> QED BY <1>3, <1>4, <2>1, <3>1
  <2> QED BY <1>3, <2>2, <2>3, <2>4
<1>8. SumsAdded(u)'
  BY <1>3, <1>5, <1>7 DEF SumsAdded
<1>9. u[MaxThreads] = (added["first"] + added["second"] + added["draw"])'
  BY <1>1, <1>6
<1> QED BY <1>8, <1>9 DEF SumInv

\* In the end every share was added.
LEMMA TotalsFromSum ==
  ASSUME IInv, ResultsInv, JoinInv, SumInv
  PROVE  TotalsAddUp
<1> SUFFICES ASSUME joined = MaxThreads
             PROVE  total["first"] + total["second"] + total["draw"] = Experiments
  BY DEF TotalsAddUp, Printing
<1>1. PICK s : SumsAdded(s) /\ s[MaxThreads] = added["first"] + added["second"] + added["draw"]
  BY DEF SumInv
<1>2. ASSUME NEW i \in Threads
      PROVE  AddedBy(i) = Share(i)
  <2>1. state[i] = "done" /\ kind[i] = "none" /\ left[i] = 0
    BY DEF JoinInv, ResultsInv, Threads
  <2>2. Results(i) \in Nat /\ left[i] + Results(i) = Share(i)
    BY <2>1, ResultsType DEF ResultsInv, IInv
  <2> QED BY <2>1, <2>2 DEF AddedBy
<1>3. s[MaxThreads] = Experiments
  <2>1. SumsShares(s)
    BY <1>1, <1>2 DEF SumsAdded, SumsShares
  <2> QED BY <2>1, SharesAddUp
<1> QED BY <1>1, <1>3 DEF IInv, NoLostUpdate

SInv == IInv /\ ResultsInv /\ JoinInv /\ SumInv

\* Nothing played, nothing added.
LEMMA InitSInv == Init => SInv
<1> SUFFICES ASSUME Init PROVE SInv
  OBVIOUS
<1>1. IInv
  BY InitInv
<1>2. ResultsInv /\ \A i \in Threads : AddedBy(i) = 0
  BY DEF Init, ResultsInv, Results, AddedBy, Kinds
<1>3. JoinInv
  BY DEF Init, JoinInv, Threads
<1>4. SumInv
  <2> DEFINE s == [j \in Lines |-> 0]
  <2>1. SumsAdded(s)
    <3>1. 0 \in Lines /\ \A i \in Threads : i \in Lines /\ i + 1 \in Lines
      BY DEF Lines, Threads
    <3> QED BY <1>2, <3>1 DEF SumsAdded
  <2>2. s[MaxThreads] = added["first"] + added["second"] + added["draw"]
    BY DEF Init, Lines, Kinds
  <2> HIDE DEF s
  <2> QED BY <2>1, <2>2 DEF SumInv
<1> QED BY <1>1, <1>2, <1>3, <1>4 DEF SInv

\* A new thread has its share to play and has added nothing.
LEMMA CreateSum == SInv /\ CreateThread => ResultsInv' /\ JoinInv' /\ SumInv'
<1> SUFFICES ASSUME SInv, CreateThread PROVE ResultsInv' /\ JoinInv' /\ SumInv'
  OBVIOUS
<1> USE DEF SInv
<1>1. created \in Threads /\ created \in Nat /\ state[created] = "none"
  BY DEF CreateThread, IInv, TypeOK, JoinInv, Threads
<1>2. /\ \A i \in Threads : state'[i] = IF i = created THEN "playing" ELSE state[i]
      /\ \A i \in Threads : left'[i] = IF i = created THEN Share(i) ELSE left[i]
      /\ created' = created + 1 /\ UNCHANGED <<joined, local, kind, added>>
  BY DEF CreateThread, IInv, TypeOK
<1>3. \A i \in Threads : Results(i)' = Results(i) /\ AddedBy(i)' = AddedBy(i)
  BY <1>1, <1>2 DEF Results, AddedBy
<1>4. \A i \in Threads : Share(i) \in Nat
  BY ShareType
<1>5. ResultsInv'
  BY <1>1, <1>2, <1>3, <1>4 DEF ResultsInv
<1>6. JoinInv'
  BY <1>1, <1>2 DEF JoinInv, Threads
<1>7. SumInv'
  BY <1>2, <1>3, SumFrame
<1> QED BY <1>5, <1>6, <1>7

\* Joining a thread changes no number.
LEMMA JoinSum == SInv /\ JoinThread => ResultsInv' /\ JoinInv' /\ SumInv'
<1> SUFFICES ASSUME SInv, JoinThread PROVE ResultsInv' /\ JoinInv' /\ SumInv'
  OBVIOUS
<1>1. /\ \A i \in Threads : Results(i)' = Results(i) /\ AddedBy(i)' = AddedBy(i)
      /\ UNCHANGED <<created, state, left, kind, added>>
      /\ joined' = joined + 1 /\ state[joined] = "done" /\ joined \in Nat
  BY DEF JoinThread, Results, AddedBy, SInv, IInv, TypeOK
<1>2. JoinInv'
  BY <1>1 DEF SInv, JoinInv, Threads
<1>3. ResultsInv' /\ SumInv'
  BY <1>1, SumFrame DEF SInv, ResultsInv
<1> QED BY <1>2, <1>3

\* A thread moves one unit of its own at a time: from what it has to play
\* to its results, or its results of a kind to the total.
LEMMA ThreadSum ==
  ASSUME SInv, NEW i \in Threads, ThreadStep(i)
  PROVE  ResultsInv' /\ JoinInv' /\ SumInv'
<1> USE DEF SInv
<1>0. /\ TypeOK /\ TypeOK' /\ \A j \in Threads : Share(j) \in Nat
      /\ \A j \in Threads : AddedBy(j) \in Nat
  BY ThreadStepInv, ShareType, ResultsType DEF IInv
<1>1. CASE Play(i)
  <2>1. PICK k \in Kinds : local' = [local EXCEPT ![i][k] = @ + 1]
    BY <1>1 DEF Play
  <2>2. /\ state[i] = "playing" /\ left[i] > 0
        /\ \A j \in Threads : left'[j] = IF j = i THEN left[i] - 1 ELSE left[j]
        /\ UNCHANGED <<created, joined, state, kind, added>>
    BY <1>0, <1>1 DEF Play, TypeOK
  <2>3. Results(i)' = Results(i) + 1
    <3>1. \A l \in Kinds : /\ local[i][l] \in Nat
                           /\ local'[i][l] = IF l = k THEN local[i][l] + 1 ELSE local[i][l]
      BY <1>0, <2>1 DEF TypeOK
    <3>2. k = "first" \/ k = "second" \/ k = "draw"
      BY DEF Kinds
    <3>3. /\ local[i]["first"] \in Nat /\ local[i]["second"] \in Nat /\ local[i]["draw"] \in Nat
          /\ local'[i]["first"] = IF "first" = k THEN local[i]["first"] + 1 ELSE local[i]["first"]
          /\ local'[i]["second"] = IF "second" = k THEN local[i]["second"] + 1 ELSE local[i]["second"]
          /\ local'[i]["draw"] = IF "draw" = k THEN local[i]["draw"] + 1 ELSE local[i]["draw"]
      BY <3>1 DEF Kinds
    <3> QED BY <3>2, <3>3 DEF Results
  <2>4. \A j \in Threads \ {i} : Results(j)' = Results(j) /\ AddedBy(j)' = AddedBy(j)
    <3>1. \A j \in Threads \ {i} : local'[j] = local[j]
      BY <1>0, <2>1 DEF TypeOK
    <3> QED BY <2>2, <3>1 DEF Results, AddedBy
  <2>5. AddedBy(i)' = AddedBy(i)
    BY <2>2 DEF AddedBy
  <2>6. left[i] \in Nat /\ Results(i) \in Nat
    BY <1>0, ResultsType DEF TypeOK
  <2>7. ResultsInv'
    BY <1>0, <2>2, <2>3, <2>4, <2>6 DEF ResultsInv
  <2>8. JoinInv'
    BY <2>2 DEF JoinInv
  <2> QED BY <2>2, <2>4, <2>5, <2>7, <2>8, SumFrame
<1>2. CASE Lock(i)
  <2>1. /\ state[i] = "playing" /\ left[i] = 0
        /\ \A j \in Threads : state'[j] = IF j = i THEN "adding" ELSE state[j]
        /\ \A j \in Threads : kind'[j] = IF j = i THEN "first" ELSE kind[j]
        /\ UNCHANGED <<created, joined, left, local, added>>
    BY <1>0, <1>2 DEF Lock, TypeOK, NextKind
  <2>2. \A j \in Threads : Results(j)' = Results(j) /\ AddedBy(j)' = AddedBy(j)
    BY <2>1 DEF Results, AddedBy
  <2>3. ResultsInv' /\ JoinInv'
    BY <2>1, <2>2 DEF ResultsInv, JoinInv
  <2> QED BY <2>1, <2>2, <2>3, SumFrame
<1>3. CASE Load(i)
  <2>1. /\ state[i] = "adding"
        /\ \A j \in Threads : state'[j] = IF j = i THEN "storing" ELSE state[j]
        /\ UNCHANGED <<created, joined, left, local, kind, added>>
    BY <1>0, <1>3 DEF Load, TypeOK
  <2>2. \A j \in Threads : Results(j)' = Results(j) /\ AddedBy(j)' = AddedBy(j)
    BY <2>1 DEF Results, AddedBy
  <2>3. ResultsInv' /\ JoinInv'
    BY <2>1, <2>2 DEF ResultsInv, JoinInv
  <2> QED BY <2>1, <2>2, <2>3, SumFrame
<1>4. CASE Store(i)
  <2> DEFINE k == kind[i]
  <2>1. k \in Kinds /\ local[i][k] \in Nat
    BY <1>0, <1>4 DEF Store, IInv, LoadedIsCurrent, TypeOK
  <2>2. /\ state[i] = "storing"
        /\ \A j \in Threads : state'[j] = IF j = i THEN "adding" ELSE state[j]
        /\ \A j \in Threads : kind'[j] = IF j = i THEN NextKind[k] ELSE kind[j]
        /\ \A l \in Kinds : added'[l] = IF l = k THEN added[k] + local[i][k] ELSE added[l]
        /\ UNCHANGED <<created, joined, left, local>>
    BY <1>0, <1>4 DEF Store, TypeOK
  <2>3. /\ \A j \in Threads : Results(j)' = Results(j)
        /\ \A j \in Threads \ {i} : AddedBy(j)' = AddedBy(j)
    BY <2>2 DEF Results, AddedBy
  <2>4. AddedBy(i)' = AddedBy(i) + local[i][k]
    <3>1. /\ local[i]["first"] \in Nat /\ local[i]["second"] \in Nat
          /\ local[i]["draw"] \in Nat
      BY <1>0, ResultsType DEF Kinds
    <3>2. k = "first" \/ k = "second" \/ k = "draw"
      BY <2>1 DEF Kinds
    <3>3. state'[i] = "adding" /\ kind'[i] = NextKind[k] /\ local' = local
      BY <2>2
    <3> QED BY <2>2, <3>1, <3>2, <3>3 DEF AddedBy, Results, NextKind
  <2>5. added'["first"] + added'["second"] + added'["draw"]
          = added["first"] + added["second"] + added["draw"] + local[i][k]
    <3>1. k = "first" \/ k = "second" \/ k = "draw"
      BY <2>1 DEF Kinds
    <3>2. \A l \in Kinds : added[l] \in Nat
      BY <1>0 DEF TypeOK
    <3>3. /\ added["first"] \in Nat /\ added["second"] \in Nat /\ added["draw"] \in Nat
          /\ added'["first"] = IF "first" = k THEN added[k] + local[i][k] ELSE added["first"]
          /\ added'["second"] = IF "second" = k THEN added[k] + local[i][k] ELSE added["second"]
          /\ added'["draw"] = IF "draw" = k THEN added[k] + local[i][k] ELSE added["draw"]
      BY <2>2, <3>2 DEF Kinds
    <3> QED BY <2>1, <3>1, <3>3
  <2>6. ResultsInv' /\ JoinInv'
    BY <2>2, <2>3 DEF ResultsInv, JoinInv
  <2> HIDE DEF k
  <2>7. SumInv'
    BY <1>0, <2>1, <2>3, <2>4, <2>5, SumRaise
  <2> QED BY <2>6, <2>7
<1>5. CASE Unlock(i)
  <2>1. /\ state[i] = "adding" /\ kind[i] = "none"
        /\ \A j \in Threads : state'[j] = IF j = i THEN "done" ELSE state[j]
        /\ UNCHANGED <<created, joined, left, local, kind, added>>
    BY <1>0, <1>5 DEF Unlock, TypeOK
  <2>2. \A j \in Threads : Results(j)' = Results(j) /\ AddedBy(j)' = AddedBy(j)
    BY <2>1 DEF Results, AddedBy
  <2>3. ResultsInv' /\ JoinInv'
    BY <2>1, <2>2 DEF ResultsInv, JoinInv
  <2> QED BY <2>1, <2>2, <2>3, SumFrame
<1> QED BY <1>1, <1>2, <1>3, <1>4, <1>5 DEF ThreadStep

\* The three totals main prints add up to the number of experiments, for every
\* number of threads and however their additions interleave.
THEOREM PrintedTotalsAddUp == Spec => []TotalsAddUp
<1>1. SInv /\ UNCHANGED vars => SInv'
  <2> SUFFICES ASSUME SInv, UNCHANGED vars PROVE SInv'
    OBVIOUS
  <2>1. \A i \in Threads : Results(i)' = Results(i) /\ AddedBy(i)' = AddedBy(i)
    BY DEF vars, Results, AddedBy
  <2>2. IInv' /\ ResultsInv' /\ JoinInv'
    BY <2>1 DEF vars, SInv, IInv, TypeOK, InsideOwns, LoadedIsCurrent, NoLostUpdate,
                ResultsInv, JoinInv
  <2>3. SumInv'
    BY <2>1, SumFrame DEF vars, SInv
  <2> QED BY <2>2, <2>3 DEF SInv
<1>2. SInv /\ (CreateThread \/ JoinThread) => SInv'
  BY MainStepInv, CreateSum, JoinSum DEF SInv
<1>3. ASSUME SInv, NEW i \in Threads, ThreadStep(i)
      PROVE  SInv'
  BY <1>3, ThreadStepInv, ThreadSum DEF SInv
<1>4. SInv /\ [Next]_vars => SInv'
  BY <1>1, <1>2, <1>3 DEF Next
<1>5. SInv => TotalsAddUp
  BY TotalsFromSum DEF SInv
<1> QED BY InitSInv, <1>4, <1>5, PTL DEF Spec
=============================================================================
