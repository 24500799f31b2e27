----------------------------- MODULE PipeProofs -----------------------------
(***************************************************************************)
(* Theorems about lab1 (PipeDivision), for any number of lines: the type   *)
(* invariant, and the three safety invariants, which all rest on where the *)
(* line typed last can be.                                                 *)
(***************************************************************************)
EXTENDS PipeDivision, TLAPS, SequenceTheorems

(* The line the child has still to answer: the one typed last or, if the    *)
(* name cut it off, its end.                                                *)
Due(l) == l.n = (IF FirstCut THEN 0 ELSE typed) /\ l.kind \in LineKinds

(* The parent has not sent a line that is still to be answered.             *)
NothingSent ==
  /\ pipe2 = <<>>
  /\ child \in {"starting", "opening", "reading", "exited"}
  /\ child = "starting" => typed = 0 /\ pipe1 \in {<<>>, <<FileName>>}
  /\ child = "opening" => typed = 0 /\ pipe1 = <<>>
  /\ child = "reading" => pipe1 = <<>>

(* Where the line typed last is while the parent waits.                     *)
LineIsSomewhere ==
  /\ typed >= 1
  /\ child \in {"dividing", "answering"} =>
       pipe1 = <<>> /\ pipe2 = <<>> /\ Due(line)
  /\ child = "answering" => line.n \in log
  /\ child = "starting" =>
       /\ typed = 1 /\ pipe2 = <<>> /\ lost = {}
       /\ \E l \in Lines : pipe1 = <<FileName, l>> /\ Due(l)
  /\ child = "opening" =>
       typed = 1 /\ pipe2 = <<>> /\ (pipe1 = <<>> \/ \E l \in Lines : pipe1 = <<l>> /\ Due(l))
  /\ child = "reading" =>
       \/ pipe2 = <<>> /\ (pipe1 = <<>> \/ \E l \in Lines : pipe1 = <<l>> /\ Due(l))
       \/ /\ pipe1 = <<>>
          /\ \E r \in Results : /\ pipe2 = <<r>> /\ r.kind = "quotient" /\ r.n \in log
                              /\ r.n = (IF FirstCut THEN 0 ELSE typed)
  /\ child = "exited" =>
       pipe2 = <<>> \/ \E r \in Results : pipe2 = <<r>> /\ r.kind = "text"

(* Nothing runs any more.                                                   *)
Over ==
  /\ child = "exited"
  /\ pipe2 = <<>> \/ \E r \in Results : pipe2 = <<r>> /\ r.kind = "text"

Turns ==
  /\ parent = "filename" => NothingSent /\ typed = 0 /\ pipe1 = <<>> /\ child # "opening"
                            /\ child # "reading"
  /\ parent = "command" => NothingSent /\ (child = "starting" => pipe1 = <<FileName>>)
  /\ parent \in {"reading", "waiting"} => LineIsSomewhere
  /\ parent \in {"done", "killed"} => Over

(* The file holds no line that is still to come, and of a first line that   *)
(* was cut off nothing but the end.                                         *)
LogIsOld ==
  /\ typed = 0 => lost = {}
  /\ child = "starting" => log = {}
  /\ \A m \in log : m <= typed /\ (FirstCut => m = 0)

(* A quotient that is in the file but has not been shown.                   *)
Unread == child = "answering" \/ (child = "reading" /\ pipe2 # <<>>)

(* What was shown last is in the file, as its newest quotient until there   *)
(* is one more, and belongs to the line typed last as soon as the parent    *)
(* goes on, with the two exceptions of ShownIsNewest.                       *)
ShownIsTrue ==
  /\ parent = "filename" => shown = NothingRead
  /\ shown.kind = "quotient" =>
       /\ shown.n \in log
       /\ Unread \/ \A m \in log : m <= shown.n
       /\ parent = "command" => shown.n = typed \/ child = "exited" \/ FirstCut

IInv == TypeOK /\ Turns /\ LogIsOld /\ ShownIsTrue /\ OnlyFirstLineLost
-----------------------------------------------------------------------------
(* Short sequences.                                                         *)
LEMMA OneAndTwo ==
  ASSUME NEW S, NEW a \in S, NEW b \in S
  PROVE  /\ <<>> \in Seq(S) /\ <<a>> \in Seq(S) /\ <<a, b>> \in Seq(S)
         /\ Len(<<>>) = 0 /\ Len(<<a>>) = 1 /\ Len(<<a, b>>) = 2
         /\ <<a>> # <<>> /\ <<a, b>> # <<>>
         /\ Append(<<>>, a) = <<a>> /\ Append(<<a>>, b) = <<a, b>>
         /\ Head(<<a>>) = a /\ Tail(<<a>>) = <<>>
         /\ Head(<<a, b>>) = a /\ Tail(<<a, b>>) = <<b>>
<1>1. /\ <<>> \in Seq(S) /\ <<a>> \in Seq(S) /\ <<a, b>> \in Seq(S) /\ <<b>> \in Seq(S)
      /\ Len(<<>>) = 0 /\ Len(<<a>>) = 1 /\ Len(<<a, b>>) = 2 /\ Len(<<b>>) = 1
  OBVIOUS
<1>2. <<a>> # <<>> /\ <<a, b>> # <<>>
  OBVIOUS
<1>3. Append(<<>>, a) = <<a>> /\ Append(<<a>>, b) = <<a, b>>
  <2>1. /\ Append(<<>>, a) \in Seq(S) /\ Len(Append(<<>>, a)) = 1
        /\ Append(<<>>, a)[1] = a
    BY <1>1, AppendProperties
  <2>2. Append(<<>>, a) = <<a>>
    BY <1>1, <2>1, SeqEqual
  <2>3. /\ Append(<<a>>, b) \in Seq(S) /\ Len(Append(<<a>>, b)) = 2
        /\ Append(<<a>>, b)[1] = a /\ Append(<<a>>, b)[2] = b
    BY <1>1, AppendProperties
  <2>4. Append(<<a>>, b) = <<a, b>>
    <3> DEFINE p == Append(<<a>>, b)
               q == <<a, b>>
    <3>1. p \in Seq(S) /\ q \in Seq(S) /\ Len(p) = Len(q) /\ Len(p) = 2
      BY <1>1, <2>3
    <3>2. p[1] = q[1] /\ p[2] = q[2]
      BY <2>3
    <3> HIDE DEF p, q
    <3>3. \A i \in 1..Len(p) : p[i] = q[i]
      BY <3>1, <3>2
    <3>4. p = q
      BY <3>1, <3>3, SeqEqual, Zenon
    <3> QED BY <3>4 DEF p, q
  <2> QED BY <2>2, <2>4
<1>4. Head(<<a>>) = a /\ Head(<<a, b>>) = a
  OBVIOUS
<1>5. Tail(<<a>>) = <<>>
  BY <1>1, <1>2, HeadTailProperties, EmptySeq
<1>6. Tail(<<a, b>>) = <<b>>
  <2>1. /\ Tail(<<a, b>>) \in Seq(S) /\ Len(Tail(<<a, b>>)) = 1
        /\ Tail(<<a, b>>)[1] = b
    BY <1>1, <1>2, HeadTailProperties
  <2> QED BY <1>1, <2>1, SeqEqual
<1> QED BY <1>1, <1>2, <1>3, <1>4, <1>5, <1>6

LEMMA Members ==
  ASSUME NEW a
  PROVE  ToSet(<<>>) = {} /\ ToSet(<<a>>) = {a}
BY DEF ToSet

LEMMA InitInv == Init => IInv
<1> SUFFICES ASSUME Init PROVE IInv
  OBVIOUS
<1>1. FileName \in Lines /\ NothingRead \in Results
  BY MaxLinesAssumption DEF FileName, NothingRead, Lines, Results
<1>2. TypeOK
  BY <1>1, MaxLinesAssumption, OneAndTwo DEF Init, TypeOK, ParentStates, ChildStates
<1>3. Turns
  BY DEF Init, Turns, NothingSent
<1>4. LogIsOld /\ ShownIsTrue /\ OnlyFirstLineLost
  BY DEF Init, LogIsOld, ShownIsTrue, OnlyFirstLineLost, NothingRead
<1> QED BY <1>2, <1>3, <1>4 DEF IInv

(* The parent's steps.                                                      *)

LEMMA SendNameStep ==
  ASSUME IInv, SendName
  PROVE  IInv'
<1>1. /\ TypeOK /\ parent = "filename" /\ pipe1 = <<>> /\ pipe2 = <<>> /\ typed = 0
      /\ child \in {"starting", "exited"} /\ shown = NothingRead
  BY DEF IInv, SendName, Turns, NothingSent, ShownIsTrue
<1>2. UNCHANGED <<child, typed, pipe2, line, shown, log, lost>>
  BY DEF SendName
<1>3. FileName \in Lines
  BY MaxLinesAssumption DEF FileName, Lines
<1>4. \/ parent' = "command" /\ pipe1' = <<FileName>> /\ child = "starting"
      \/ parent' = "killed" /\ pipe1' = <<>> /\ child = "exited"
  BY <1>1, <1>3, OneAndTwo DEF SendName
<1>5. TypeOK'
  <2>1. /\ <<>> \in Seq(Lines) /\ <<FileName>> \in Seq(Lines)
        /\ Len(<<>>) = 0 /\ Len(<<FileName>>) = 1
    BY <1>3, OneAndTwo
  <2>2. pipe1' \in Seq(Lines) /\ Len(pipe1') \in {0, 1}
    BY <1>4, <2>1, Zenon
  <2>3. pipe1' \in Seq(Lines) /\ Len(pipe1') <= 2 /\ parent' \in ParentStates
    BY <1>4, <2>2 DEF ParentStates
  <2> QED BY <1>1, <1>2, <2>3 DEF TypeOK
<1>6. Turns'
  BY <1>1, <1>2, <1>4 DEF Turns, NothingSent, Over
<1>7. LogIsOld' /\ OnlyFirstLineLost'
  BY <1>2 DEF IInv, LogIsOld, OnlyFirstLineLost, FirstCut
<1>8. ShownIsTrue'
  BY <1>1, <1>2, <1>4 DEF ShownIsTrue, NothingRead
<1> QED BY <1>5, <1>6, <1>7, <1>8 DEF IInv

LEMMA SendLineStep ==
  ASSUME IInv, NEW k \in LineKinds, SendLine(k)
  PROVE  IInv'
<1> DEFINE l == [kind |-> k, n |-> typed + 1]
<1>1. /\ TypeOK /\ parent = "command" /\ NothingSent /\ typed < MaxLines
      /\ child = "starting" => pipe1 = <<FileName>>
      /\ typed' = typed + 1
  BY DEF IInv, SendLine, MaySend, Turns
<1>2. UNCHANGED <<child, pipe2, line, shown, log, lost>>
  BY DEF SendLine
<1>3. /\ FileName \in Lines /\ l \in Lines /\ l.n = typed' /\ l.kind \in LineKinds
      /\ typed' \in 1..MaxLines
  BY <1>1, MaxLinesAssumption DEF FileName, Lines, TypeOK
<1>4. \/ child = "exited" /\ parent' = "killed" /\ pipe1' = pipe1
      \/ /\ child # "exited" /\ parent' \in {"reading", "waiting"}
         /\ pipe1' = Append(pipe1, l)
  BY DEF SendLine
<1> HIDE DEF l
<1>5. child # "exited" =>
        \/ child = "starting" /\ typed = 0 /\ pipe1' = <<FileName, l>>
        \/ child = "opening" /\ typed = 0 /\ pipe1' = <<l>>
        \/ child = "reading" /\ pipe1' = <<l>>
  <2>1. Append(<<>>, l) = <<l>> /\ Append(<<FileName>>, l) = <<FileName, l>>
    BY <1>3, OneAndTwo
  <2> QED BY <1>1, <1>4, <2>1 DEF NothingSent
<1>6. /\ typed \in Nat /\ ~FirstCut' /\ (typed = 0 => lost = {})
      /\ \A m \in log : m <= typed /\ m \in Nat
  <2>1. typed \in Nat /\ log \in SUBSET (0..MaxLines) /\ LogIsOld
    BY <1>1, MaxLinesAssumption DEF TypeOK, IInv
  <2> QED BY <1>1, <1>2, <2>1 DEF LogIsOld, FirstCut
<1>7. TypeOK'
  <2>1. pipe1' \in Seq(Lines) /\ Len(pipe1') <= 2
    BY <1>1, <1>3, <1>4, <1>5, OneAndTwo DEF TypeOK
  <2> QED BY <1>1, <1>2, <1>3, <1>4, <2>1 DEF TypeOK, ParentStates
<1>8. Turns'
  <2>1. CASE child = "exited"
    BY <1>1, <1>2, <1>4, <2>1 DEF Turns, NothingSent, Over
  <2>2. CASE child # "exited"
    <3>1. l.n = (IF FirstCut' THEN 0 ELSE typed') /\ l.kind \in LineKinds
      BY <1>3, <1>6
    <3>2. ASSUME child = "starting" PROVE LineIsSomewhere'
      <4>1. /\ child' = "starting" /\ typed' = 1 /\ pipe2' = <<>> /\ lost' = {}
            /\ pipe1' = <<FileName, l>>
        BY <1>1, <1>2, <1>5, <1>6, <3>2 DEF NothingSent
      <4> QED BY <1>3, <3>1, <4>1 DEF LineIsSomewhere, Due
    <3>3. ASSUME child = "opening" PROVE LineIsSomewhere'
      <4>1. /\ child' = "opening" /\ typed' = 1 /\ pipe2' = <<>> /\ pipe1' = <<l>>
        BY <1>1, <1>2, <1>5, <3>3 DEF NothingSent
      <4> QED BY <1>3, <3>1, <4>1 DEF LineIsSomewhere, Due
    <3>4. ASSUME child = "reading" PROVE LineIsSomewhere'
      <4>1. /\ child' = "reading" /\ typed' >= 1 /\ pipe2' = <<>> /\ pipe1' = <<l>>
        BY <1>1, <1>2, <1>3, <1>5, <3>4 DEF NothingSent
      <4> QED BY <1>3, <3>1, <4>1 DEF LineIsSomewhere, Due
    <3>5. LineIsSomewhere'
      BY <1>5, <2>2, <3>2, <3>3, <3>4
    <3> QED BY <1>4, <2>2, <3>5 DEF Turns
  <2> QED BY <2>1, <2>2
<1>9. LogIsOld' /\ OnlyFirstLineLost'
  BY <1>1, <1>2, <1>6 DEF IInv, LogIsOld, OnlyFirstLineLost
<1>10. ShownIsTrue'
  BY <1>2, <1>4 DEF IInv, ShownIsTrue, Unread
<1> QED BY <1>7, <1>8, <1>9, <1>10 DEF IInv

LEMMA ReadResultStep ==
  ASSUME IInv, ReadResult
  PROVE  IInv'
<1>1. /\ TypeOK /\ parent = "reading" /\ parent' = "command" /\ pipe2' = <<>> /\ LineIsSomewhere
      /\ UNCHANGED <<child, typed, pipe1, line, log, lost>>
  BY DEF IInv, ReadResult, Turns
<1>2. /\ NothingRead \in Results /\ NothingRead.kind # "quotient"
      /\ typed \in 0..MaxLines /\ log \in SUBSET (0..MaxLines)
  BY <1>1, MaxLinesAssumption DEF NothingRead, Results, TypeOK
<1>3. \/ child = "exited"
      \/ /\ child = "reading" /\ pipe1 = <<>>
         /\ \E r \in Results : /\ pipe2 = <<r>> /\ r.kind = "quotient" /\ r.n \in log
                             /\ r.n = (IF FirstCut THEN 0 ELSE typed)
  BY <1>1 DEF ReadResult, EndOfPipe2, LineIsSomewhere, TypeOK, ChildStates
<1>4. /\ shown' \in Results
      /\ shown'.kind = "quotient" =>
           /\ shown'.n \in log /\ \A m \in log : m <= shown'.n
           /\ shown'.n = typed \/ child = "exited" \/ FirstCut
  <2>1. CASE pipe2 = <<>>
    <3>1. child = "exited" /\ shown' \in {shown, NothingRead}
      BY <2>1 DEF ReadResult, EndOfPipe2, Unwritten
    <3>2. shown.kind = "quotient" => shown.n \in log /\ \A m \in log : m <= shown.n
      BY <3>1 DEF IInv, ShownIsTrue, Unread
    <3> QED BY <1>1, <1>2, <3>1, <3>2 DEF TypeOK
  <2>2. ASSUME NEW r \in Results, pipe2 = <<r>>, r.n \in log,
               r.n = IF FirstCut THEN 0 ELSE typed
        PROVE  /\ shown' = r /\ \A m \in log : m <= r.n
               /\ r.n = typed \/ FirstCut
    <3>1. shown' = r
      BY <2>2, OneAndTwo DEF ReadResult
    <3>2. \A m \in log : m <= r.n
      BY <2>2 DEF IInv, LogIsOld
    <3> QED BY <2>2, <3>1, <3>2
  <2>3. ASSUME NEW r \in Results, pipe2 = <<r>>, r.kind = "text"
        PROVE  shown' \in Results /\ shown'.kind # "quotient"
    <3>1. shown' = r
      BY <2>3, OneAndTwo DEF ReadResult
    <3> QED BY <2>3, <3>1
  <2>4. CASE child = "exited"
    BY <1>1, <2>1, <2>3, <2>4 DEF LineIsSomewhere
  <2>5. ASSUME NEW r \in Results, pipe2 = <<r>>, r.kind = "quotient", r.n \in log,
               r.n = IF FirstCut THEN 0 ELSE typed
        PROVE  /\ shown' \in Results /\ shown'.n \in log
               /\ \A m \in log : m <= shown'.n
               /\ shown'.n = typed \/ FirstCut
    BY <2>2, <2>5
  <2> QED BY <1>3, <2>4, <2>5
<1>5. TypeOK'
  BY <1>1, <1>4, OneAndTwo DEF TypeOK, ParentStates
<1>6. Turns'
  BY <1>1, <1>3 DEF Turns, NothingSent
<1>7. LogIsOld' /\ OnlyFirstLineLost'
  BY <1>1 DEF IInv, LogIsOld, OnlyFirstLineLost, FirstCut
<1>8. ShownIsTrue'
  BY <1>1, <1>4 DEF ShownIsTrue, FirstCut
<1> QED BY <1>5, <1>6, <1>7, <1>8 DEF IInv

LEMMA WaitChildStep ==
  ASSUME IInv, WaitChild
  PROVE  IInv'
<1>1. /\ parent = "waiting" /\ parent' = "done" /\ child = "exited"
      /\ UNCHANGED <<child, typed, pipe1, pipe2, line, shown, log, lost>>
  BY DEF WaitChild
<1>2. TypeOK'
  BY <1>1 DEF IInv, TypeOK, ParentStates
<1>3. Turns'
  BY <1>1 DEF IInv, Turns, LineIsSomewhere, Over
<1>4. LogIsOld' /\ ShownIsTrue' /\ OnlyFirstLineLost'
  BY <1>1 DEF IInv, LogIsOld, ShownIsTrue, OnlyFirstLineLost, FirstCut, Unread
<1> QED BY <1>2, <1>3, <1>4 DEF IInv

(* The child's steps.                                                       *)

(* What was shown does not depend on where the child is, as long as it does *)
(* not add a quotient.                                                      *)
LEMMA ShownStays ==
  ASSUME IInv, UNCHANGED <<parent, typed, shown, log>>, Unread => Unread',
         child' = "exited" \/ child # "exited", FirstCut => FirstCut'
  PROVE  ShownIsTrue'
BY DEF IInv, ShownIsTrue

LEMMA ReadNameStep ==
  ASSUME IInv, ReadName
  PROVE  IInv'
<1>1. PICK left \in Behind(Tail(pipe1)) :
        /\ TypeOK /\ child = "starting" /\ pipe1 # <<>> /\ child' = "opening" /\ pipe1' = left
        /\ line' = Head(pipe1)
        /\ lost' = lost \cup {l.n : l \in ToSet(Tail(pipe1)) \ ToSet(left)}
        /\ UNCHANGED <<parent, typed, pipe2, shown, log>>
  BY DEF IInv, ReadName, TakeFirst
<1>2. FileName \in Lines
  BY MaxLinesAssumption DEF FileName, Lines
<1>3. \/ parent = "command" /\ typed = 0 /\ pipe1 = <<FileName>> /\ pipe2 = <<>>
      \/ /\ parent \in {"reading", "waiting"} /\ typed = 1 /\ pipe2 = <<>>
         /\ \E l \in Lines : pipe1 = <<FileName, l>> /\ Due(l)
  BY <1>1 DEF IInv, Turns, NothingSent, LineIsSomewhere, Over, TypeOK, ParentStates
<1>4. log = {} /\ lost = {} /\ ~FirstCut
  BY <1>1, <1>3 DEF IInv, LogIsOld, Turns, LineIsSomewhere, FirstCut
<1>5. CASE parent = "command" /\ typed = 0 /\ pipe1 = <<FileName>> /\ pipe2 = <<>>
  <2>1. Head(pipe1) = FileName /\ Tail(pipe1) = <<>>
    BY <1>2, <1>5, OneAndTwo
  <2>2. line' = FileName /\ pipe1' = <<>> /\ lost' = {}
    BY <1>1, <1>4, <2>1, Members DEF Behind
  <2>3. TypeOK'
    <3>1. pipe1' \in Seq(Lines) /\ Len(pipe1') <= 2
      BY <1>2, <2>2, OneAndTwo
    <3> QED BY <1>1, <1>2, <2>2, <3>1 DEF TypeOK, ChildStates
  <2>4. Turns'
    BY <1>1, <1>5, <2>2 DEF Turns, NothingSent
  <2>5. LogIsOld' /\ OnlyFirstLineLost'
    BY <1>1, <1>4, <2>2 DEF LogIsOld, OnlyFirstLineLost
  <2>6. ShownIsTrue'
    BY <1>1, <1>4, ShownStays DEF Unread
  <2> QED BY <2>3, <2>4, <2>5, <2>6 DEF IInv
<1>6. ASSUME NEW l \in Lines, pipe1 = <<FileName, l>>, Due(l), typed = 1, pipe2 = <<>>,
             parent \in {"reading", "waiting"}
      PROVE  IInv'
  <2>1. Head(pipe1) = FileName /\ Tail(pipe1) = <<l>> /\ <<l>> # <<>> /\ Head(<<l>>) = l
    BY <1>2, <1>6, OneAndTwo
  <2>2. l.n = 1 /\ l.kind \in LineKinds
    BY <1>4, <1>6 DEF Due
  <2> DEFINE Cut(k) == [kind |-> k, n |-> 0]
  <2>3. left = <<>> \/ left = <<l>> \/ \E k \in EndKinds(l) : left = <<Cut(k)>>
    BY <1>1, <2>1 DEF Behind
  <2>4. \A k \in EndKinds(l) : Cut(k) \in Lines /\ Cut(k) # l /\ k \in LineKinds
    BY <2>2, MaxLinesAssumption DEF EndKinds, LineKinds, Lines
  <2>5. \/ left = <<l>> /\ lost' = {}
        \/ left = <<>> /\ lost' = {1}
        \/ lost' = {1} /\ \E k \in EndKinds(l) : left = <<Cut(k)>>
    <3>1. ToSet(Tail(pipe1)) = {l} /\ ToSet(<<>>) = {}
      BY <2>1, Members
    <3>2. CASE left = <<>>
      <4>1. ToSet(Tail(pipe1)) \ ToSet(left) = {l}
        BY <3>1, <3>2
      <4> QED BY <1>1, <1>4, <2>2, <3>2, <4>1
    <3>3. CASE left = <<l>>
      <4>1. ToSet(Tail(pipe1)) \ ToSet(left) = {}
        BY <3>1, <3>3, Members
      <4> QED BY <1>1, <1>4, <3>3, <4>1
    <3>4. ASSUME NEW k \in EndKinds(l), left = <<Cut(k)>>
          PROVE  lost' = {1}
      <4>1. ToSet(left) = {Cut(k)}
        BY <3>4, Members
      <4>2. ToSet(Tail(pipe1)) \ ToSet(left) = {l}
        BY <2>4, <3>1, <4>1
      <4> QED BY <1>1, <1>4, <2>2, <4>2
    <3> QED BY <2>3, <3>2, <3>3, <3>4
  <2> HIDE DEF Cut
  <2>6. /\ line' = FileName /\ lost' \in SUBSET {1}
        /\ pipe1' \in Seq(Lines) /\ Len(pipe1') <= 2
    <3>1. /\ <<>> \in Seq(Lines) /\ Len(<<>>) = 0
          /\ <<l>> \in Seq(Lines) /\ Len(<<l>>) = 1
      BY <1>2, <1>6, OneAndTwo
    <3>2. \A k \in EndKinds(l) : <<Cut(k)>> \in Seq(Lines) /\ Len(<<Cut(k)>>) = 1
      <4>1. \A d \in Lines : <<d>> \in Seq(Lines) /\ Len(<<d>>) = 1
        BY OneAndTwo
      <4> QED BY <2>4, <4>1
    <3>3. left \in Seq(Lines) /\ Len(left) \in {0, 1}
      BY <2>3, <3>1, <3>2
    <3>4. line' = FileName /\ lost' \in SUBSET {1}
      BY <1>1, <2>1, <2>5
    <3>5. pipe1' \in Seq(Lines) /\ Len(pipe1') \in {0, 1}
      BY <1>1, <3>3
    <3>6. Len(pipe1') <= 2
      <4> DEFINE n == Len(pipe1')
      <4>1. n \in {0, 1}
        BY <3>5
      <4> HIDE DEF n
      <4>2. n <= 2
        BY <4>1
      <4> QED BY <4>2 DEF n
    <3> QED BY <3>4, <3>5, <3>6, Zenon
  <2>7. TypeOK'
    <3>1. lost' \in SUBSET (0..MaxLines)
      BY <1>1, <1>6, <2>6, MaxLinesAssumption DEF TypeOK
    <3> QED BY <1>1, <1>2, <2>6, <3>1 DEF TypeOK, ChildStates
  <2>8. LineIsSomewhere'
    <3>1. pipe1' = <<>> \/ \E d \in Lines : pipe1' = <<d>> /\ (Due(d))'
      <4>1. CASE left = <<l>> /\ lost' = {}
        BY <1>1, <1>6, <2>2, <4>1 DEF Due, FirstCut
      <4>2. ASSUME NEW k \in EndKinds(l), left = <<Cut(k)>>, lost' = {1}
            PROVE  \E d \in Lines : pipe1' = <<d>> /\ (Due(d))'
        <5>1. Cut(k).n = 0 /\ Cut(k).kind = k
          BY DEF Cut
        <5> QED BY <1>1, <1>6, <2>4, <4>2, <5>1 DEF Due, FirstCut
      <4> QED BY <1>1, <2>5, <4>1, <4>2
    <3> QED BY <1>1, <1>6, <3>1 DEF LineIsSomewhere
  <2>9. Turns'
    BY <1>1, <1>6, <2>8 DEF Turns
  <2>10. LogIsOld' /\ OnlyFirstLineLost'
    BY <1>1, <1>4, <1>6, <2>6 DEF LogIsOld, OnlyFirstLineLost
  <2>11. ShownIsTrue'
    BY <1>1, <1>4, ShownStays DEF Unread
  <2> QED BY <2>7, <2>9, <2>10, <2>11 DEF IInv
<1> QED BY <1>3, <1>5, <1>6

LEMMA ReadLineStep ==
  ASSUME IInv, ReadLine
  PROVE  IInv'
<1>1. /\ TypeOK /\ child = "reading" /\ pipe1 # <<>> /\ child' = "dividing" /\ pipe1' = <<>>
      /\ line' = Head(pipe1)
      /\ lost' = lost \cup {l.n : l \in ToSet(Tail(pipe1)) \ ToSet(<<>>)}
      /\ UNCHANGED <<parent, typed, pipe2, shown, log>>
  BY DEF IInv, ReadLine, TakeFirst
<1>2. /\ parent \in {"reading", "waiting"} /\ typed >= 1 /\ pipe2 = <<>>
      /\ \E l \in Lines : pipe1 = <<l>> /\ Due(l)
  BY <1>1 DEF IInv, Turns, NothingSent, LineIsSomewhere, Over, TypeOK, ParentStates
<1>3. PICK l \in Lines : pipe1 = <<l>> /\ Due(l)
  BY <1>2
<1>4. line' = l /\ lost' = lost
  BY <1>1, <1>3, OneAndTwo, Members
<1>5. TypeOK'
  <2>1. pipe1' \in Seq(Lines) /\ Len(pipe1') <= 2
    BY <1>1, <1>3, OneAndTwo
  <2> QED BY <1>1, <1>3, <1>4, <2>1 DEF TypeOK, ChildStates
<1>6. Turns'
  BY <1>1, <1>2, <1>3, <1>4 DEF Turns, LineIsSomewhere, Due, FirstCut
<1>7. LogIsOld' /\ OnlyFirstLineLost'
  BY <1>1, <1>4 DEF IInv, LogIsOld, OnlyFirstLineLost, FirstCut
<1>8. ShownIsTrue'
  BY <1>1, <1>2, <1>4, ShownStays DEF Unread, FirstCut
<1> QED BY <1>5, <1>6, <1>7, <1>8 DEF IInv

LEMMA DivideStep ==
  ASSUME IInv, Divide
  PROVE  IInv'
<1>1. /\ TypeOK /\ UNCHANGED <<parent, typed, pipe1, pipe2, line, shown, lost>>
      /\ child = "dividing" /\ child' = "answering" /\ log' = log \cup {line.n}
  BY DEF IInv, Divide, Logged
<1>2. /\ parent \in {"reading", "waiting"} /\ typed >= 1
      /\ pipe1 = <<>> /\ pipe2 = <<>> /\ Due(line)
  BY <1>1 DEF IInv, Turns, NothingSent, LineIsSomewhere, Over, TypeOK, ParentStates
<1>3. /\ line.n \in 0..MaxLines /\ typed \in 0..MaxLines
      /\ line.n <= typed /\ (FirstCut => line.n = 0)
  BY <1>1, <1>2, MaxLinesAssumption DEF TypeOK, Lines, Due
<1>4. TypeOK'
  BY <1>1, <1>3 DEF TypeOK, ChildStates
<1>5. Turns'
  BY <1>1, <1>2 DEF Turns, LineIsSomewhere, Due, FirstCut
<1>6. LogIsOld' /\ OnlyFirstLineLost'
  BY <1>1, <1>3 DEF IInv, LogIsOld, OnlyFirstLineLost, FirstCut
<1>7. ShownIsTrue'
  BY <1>1, <1>2 DEF IInv, ShownIsTrue, Unread
<1> QED BY <1>4, <1>5, <1>6, <1>7 DEF IInv

LEMMA ChildStep ==
  ASSUME IInv, OpenLog \/ ChildFails \/ DivisionTraps
  PROVE  IInv'
<1>1. /\ TypeOK /\ UNCHANGED <<parent, typed, pipe1, pipe2, line, shown, log, lost>>
  BY DEF IInv, OpenLog, ChildFails, DivisionTraps
<1>2. /\ child \in {"starting", "opening", "dividing"}
      /\ child' \in {"reading", "exited"}
  BY DEF OpenLog, ChildFails, DivisionTraps
<1>3. TypeOK'
  BY <1>1, <1>2 DEF TypeOK, ChildStates
<1>4. Turns'
  <2>1. CASE OpenLog
    BY <1>1, <2>1 DEF OpenLog, IInv, Turns, NothingSent, LineIsSomewhere, Over, Due, FirstCut
  <2>2. CASE ChildFails
    BY <1>1, <2>2 DEF ChildFails, IInv, Turns, NothingSent, LineIsSomewhere, Over
  <2>3. CASE DivisionTraps
    BY <1>1, <2>3 DEF DivisionTraps, IInv, Turns, NothingSent, LineIsSomewhere, Over
  <2> QED BY <2>1, <2>2, <2>3
<1>5. LogIsOld' /\ OnlyFirstLineLost'
  BY <1>1, <1>2 DEF IInv, LogIsOld, OnlyFirstLineLost, FirstCut
<1>6. ShownIsTrue'
  BY <1>1, <1>2, ShownStays DEF Unread, FirstCut
<1> QED BY <1>3, <1>4, <1>5, <1>6 DEF IInv

LEMMA AnswerStep ==
  ASSUME IInv, Answer \/ DivideByZero
  PROVE  IInv'
<1>1. /\ TypeOK /\ UNCHANGED <<parent, typed, pipe1, line, shown, log, lost>>
      /\ child \in {"answering", "dividing"} /\ child' \in {"reading", "exited"}
  BY DEF IInv, Answer, DivideByZero
<1>2. /\ parent \in {"reading", "waiting"} /\ typed >= 1 /\ pipe1 = <<>> /\ pipe2 = <<>>
      /\ line.n = (IF FirstCut THEN 0 ELSE typed) /\ (child = "answering" => line.n \in log)
  BY <1>1 DEF IInv, Turns, NothingSent, LineIsSomewhere, Over, Due, TypeOK, ParentStates
<1> DEFINE q == [kind |-> "quotient", n |-> line.n]
           t == [kind |-> "text", n |-> line.n]
<1>3. /\ q \in Results /\ q.kind = "quotient" /\ q.n = line.n
      /\ t \in Results /\ t.kind = "text"
  BY <1>1 DEF Results, TypeOK, Lines
<1>4. \/ child = "answering" /\ child' = "reading" /\ pipe2' = Append(<<>>, q)
      \/ child = "dividing" /\ child' = "exited" /\ pipe2' = Append(<<>>, t)
  BY <1>2 DEF Answer, DivideByZero
<1> HIDE DEF q, t
<1>5. \/ child = "answering" /\ child' = "reading" /\ pipe2' = <<q>>
      \/ child = "dividing" /\ child' = "exited" /\ pipe2' = <<t>>
  BY <1>3, <1>4, OneAndTwo
<1>6. TypeOK'
  <2>1. /\ <<q>> \in Seq(Results) /\ Len(<<q>>) = 1
        /\ <<t>> \in Seq(Results) /\ Len(<<t>>) = 1
    BY <1>3, OneAndTwo
  <2>2. pipe2' \in Seq(Results) /\ Len(pipe2') <= 1
    <3>1. pipe2' \in Seq(Results) /\ Len(pipe2') = 1
      BY <1>5, <2>1, Zenon
    <3> QED BY <3>1
  <2> QED BY <1>1, <2>2 DEF TypeOK, ChildStates
<1>7. Turns'
  <2>1. LineIsSomewhere'
    BY <1>1, <1>2, <1>3, <1>5 DEF LineIsSomewhere, FirstCut
  <2> QED BY <1>1, <1>2, <2>1 DEF Turns
<1>8. LogIsOld' /\ OnlyFirstLineLost'
  BY <1>1 DEF IInv, LogIsOld, OnlyFirstLineLost, FirstCut
<1>9. ShownIsTrue'
  <2>1. <<q>> # <<>>
    BY <1>3, OneAndTwo
  <2>2. child = "answering" /\ child' = "reading" /\ pipe2' = <<q>> => Unread'
    BY <2>1 DEF Unread
  <2>3. child = "dividing" => ~Unread
    BY DEF Unread
  <2>4. Unread => Unread'
    BY <1>5, <2>2, <2>3
  <2> QED BY <1>1, <2>4, ShownStays DEF FirstCut
<1> QED BY <1>6, <1>7, <1>8, <1>9 DEF IInv

(* The inductive invariant: the parent's position tells where the line is.  *)
THEOREM Invariance == Spec => []IInv
<1>1. IInv /\ Next => IInv'
  BY SendNameStep, SendLineStep, ReadResultStep, WaitChildStep, ReadNameStep, ReadLineStep,
     DivideStep, ChildStep, AnswerStep
  DEF Next, Proceed, Work
<1>2. IInv /\ UNCHANGED vars => IInv'
  BY DEF IInv, TypeOK, Turns, NothingSent, LineIsSomewhere, Over, Due, FirstCut, LogIsOld,
         ShownIsTrue, Unread, OnlyFirstLineLost, vars
<1> QED BY InitInv, <1>1, <1>2, PTL DEF Spec

(* Types; in particular neither pipe ever holds more than the parent and    *)
(* the child can read: two strings in one, one in the other.                *)
THEOREM TypeCorrect == Spec => []TypeOK
<1>1. IInv => TypeOK
  BY DEF IInv
<1> QED BY Invariance, <1>1, PTL

(* A quotient the parent of lab1 prints is the newest one of the file; it   *)
(* is that of the line typed last unless the child is gone or the file name *)
(* cut that line off.                                                       *)
THEOREM AnswerIsNewest == Spec => []ShownIsNewest
<1>1. IInv => ShownIsNewest
  <2> SUFFICES ASSUME IInv, parent = "command", shown.kind = "quotient"
               PROVE  /\ \A m \in log : m <= shown.n
                      /\ shown.n = typed \/ child = "exited" \/ FirstCut
    BY DEF ShownIsNewest
  <2>1. ~Unread
    BY DEF IInv, Turns, NothingSent, Unread
  <2> QED BY <2>1 DEF IInv, ShownIsTrue
<1> QED BY Invariance, <1>1, PTL

(* A quotient is in the file before the parent can see it.                  *)
THEOREM LoggedFirst == Spec => []LoggedBeforeAnswered
<1>1. IInv => LoggedBeforeAnswered
  <2> SUFFICES ASSUME IInv, NEW r \in ToSet(pipe2) \cup {shown}, r.kind = "quotient"
               PROVE  r.n \in log
    BY DEF LoggedBeforeAnswered
  <2>1. CASE r = shown
    BY <2>1 DEF IInv, ShownIsTrue
  <2>2. CASE r \in ToSet(pipe2)
    <3>1. \/ pipe2 = <<>>
          \/ \E q \in Results : pipe2 = <<q>> /\ q.n \in log
          \/ \E t \in Results : pipe2 = <<t>> /\ t.kind = "text"
      BY DEF IInv, Turns, NothingSent, LineIsSomewhere, Over, TypeOK, ParentStates, ChildStates
    <3>2. pipe2 # <<>>
      BY <2>2, Members
    <3>3. ASSUME NEW q \in Results, pipe2 = <<q>>, q.n \in log PROVE r.n \in log
      <4>1. ToSet(pipe2) = {q}
        BY <3>3, Members
      <4> QED BY <2>2, <3>3, <4>1
    <3>4. ASSUME NEW t \in Results, pipe2 = <<t>>, t.kind = "text" PROVE FALSE
      <4>1. ToSet(pipe2) = {t}
        BY <3>4, Members
      <4> QED BY <2>2, <3>4, <4>1
    <3> QED BY <3>1, <3>2, <3>3, <3>4
  <2> QED BY <2>1, <2>2
<1> QED BY Invariance, <1>1, PTL

(* Only the first line can be taken together with the file name.            *)
THEOREM LossIsBounded == Spec => []OnlyFirstLineLost
<1>1. IInv => OnlyFirstLineLost
  BY DEF IInv
<1> QED BY Invariance, <1>1, PTL
=============================================================================
