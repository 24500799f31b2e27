----------------------------- MODULE GameProofs -----------------------------
(***************************************************************************)
(* Theorems about the bulls and cows server of GameServer, for any number  *)
(* of clients, lines, seats, names, words and guesses: the type invariant, *)
(* the safety invariants, the action property, and that the server         *)
(* implements the lobby of GameLobby.                                      *)
(***************************************************************************)
EXTENDS GameServer, TLAPS, SequenceTheorems, FiniteSetTheorems

(* The parts of the inductive invariant.                                    *)

Busy(k) == thread[k] \in {"locking", "serving"}

(* Line numbers are given out one by one.                                   *)
TypedWithinLines == \A k \in Conns : typed[k] <= lines

(* A thread that waits for or holds the mutex has a command to carry out.   *)
CommandIsKnown ==
  \A k \in Conns : Busy(k) => /\ cmd[k].n # 0
                              /\ cmd[k].line.op \in {"create", "join", "find", "play"}

(* gamesMutex has one owner.                                                *)
MutexHeldOnce ==
  \A j, k \in Conns : thread[j] = "serving" /\ thread[k] = "serving" => j = k

(* What the loop of the mutex owner found still holds.                      *)
TargetStands ==
  \A k \in Conns : thread[k] = "serving" =>
    /\ StopsAt(target[k].game, Candidates(k))
    /\ target[k].room <=> (target[k].game # 0 /\ Room(target[k].game))

(* Connections are accepted in their order, and a descriptor is given out   *)
(* again only after its thread ended.                                       *)
AcceptedInOrder ==
  \A j, k \in Conns : j < k /\ thread[k] # "none" => thread[j] # "none"

FdGiven == \A k \in Conns : fd[k] # 0 <=> thread[k] # "none"

FdFreed ==
  \A j, k \in Conns : j < k /\ fd[j] = fd[k] /\ fd[k] # 0 => thread[j] = "ended"

(* Whoever sits in a game took the seat or had the descriptor before.       *)
SeatsAreTaken ==
  \A g \in Games : \A i \in DOMAIN games[g].clients :
    \E j \in Conns : /\ fd[j] = games[g].clients[i]
                     /\ thread[j] = "ended" \/ g \in joined[j]

(* The last play was judged by the word of a game the player sits in.       *)
JudgedTruly ==
  \A k \in Conns : judged[k].game # 0 =>
    /\ thread[k] # "ended" /\ fd[k] # 0
    /\ Seated(judged[k].game, k)
    /\ (judged[k].bulls = 4) <=> (judged[k].guess = games[judged[k].game].word)

(* A connection is reset only after its client closed it.  A client that    *)
(* typed no long line has at most one line under way.                       *)
Idle(k) == up[k] = <<>> /\ ~Busy(k)

ResetIsClosed(k) == k \in reset => client[k] = "closed"

OneLineUnderWay(k) ==
  "long" \notin slips[k] =>
    /\ Len(up[k]) <= 1 /\ Len(down[k]) <= 1
    /\ Busy(k) => up[k] = <<>>
    /\ down[k] # <<>> \/ k \in reset \/ client[k] \in {"off", "typing"} => Idle(k)
    /\ client[k] \in {"off", "typing"} => down[k] = <<>>

(* And if it typed no empty line either, that is the line it typed last.    *)
LastLineUnderWay(k) ==
  slips[k] \cap {"long", "blank"} = {} =>
    /\ client[k] \in {"off", "typing"} => shown[k] = typed[k]
    /\ client[k] = "reading" =>
         /\ \A i \in DOMAIN up[k] : up[k][i].n = typed[k]
         /\ Busy(k) => cmd[k].n = typed[k]
         /\ \A i \in DOMAIN down[k] : down[k][i] = typed[k]

BareIsTyped(k) ==
  \A i \in DOMAIN up[k] : up[k][i].line.op = "bare" => "bare" \in slips[k]

Dialog(k) ==
  ResetIsClosed(k) /\ OneLineUnderWay(k) /\ LastLineUnderWay(k) /\ BareIsTyped(k)

ThreadInv ==
  /\ CommandIsKnown /\ MutexHeldOnce /\ TargetStands
  /\ AcceptedInOrder /\ FdGiven /\ FdFreed
  /\ SeatsAreTaken /\ JudgedTruly

DialogInv == (\A k \in Conns : Dialog(k)) /\ ServerEndsForACause

IInv == TypeOK /\ TypedWithinLines /\ ThreadInv /\ DialogInv
-----------------------------------------------------------------------------
(* Pure lemmas: what is left of a sequence, the kinds of lines, the count   *)
(* of bulls.                                                                *)

LEMMA RestOfSeq ==
  ASSUME NEW S, NEW s \in Seq(S), NEW i \in 1..Len(s)
  PROVE  /\ SubSeq(s, i + 1, Len(s)) \in Seq(S)
         /\ Len(SubSeq(s, i + 1, Len(s))) = Len(s) - i
         /\ \A j \in 1..(Len(s) - i) : SubSeq(s, i + 1, Len(s))[j] = s[j + i]
<1>1. \A j \in (i + 1)..Len(s) : s[j] \in S
  OBVIOUS
<1> QED BY <1>1, SubSeqProperties, LenProperties

LEMMA ShortSeq ==
  ASSUME NEW S, NEW a \in S, NEW b \in S
  PROVE  /\ <<a>> \in Seq(S) /\ Len(<<a>>) = 1 /\ <<a>>[1] = a
         /\ <<a, b>> \in Seq(S)
OBVIOUS

LEMMA AppendGrows ==
  ASSUME NEW S, NEW s \in Seq(S), NEW e \in S
  PROVE  /\ DOMAIN Append(s, e) = 1..(Len(s) + 1)
         /\ DOMAIN s \subseteq DOMAIN Append(s, e)
         /\ \A i \in DOMAIN s : Append(s, e)[i] = s[i]
         /\ Append(s, e)[Len(s) + 1] = e
<1>1. DOMAIN s = 1..Len(s) /\ Len(s) \in Nat
  BY LenProperties
<1>2. Append(s, e) \in Seq(S) /\ Len(Append(s, e)) = Len(s) + 1
  BY AppendProperties
<1>3. DOMAIN Append(s, e) = 1..(Len(s) + 1)
  BY <1>2, LenProperties
<1> QED BY <1>1, <1>3, AppendProperties

LEMMA LineKinds ==
  ASSUME NEW l \in Lines
  PROVE  /\ l.op \in {"create", "join", "play", "find", "bare", "other"}
         /\ l.op \in {"create", "join"} => l.arg \in Names
         /\ l.op = "play" => l.arg \in Guesses
BY DEF Lines, NamedLines, Find, Bare, Other

LEMMA CommandKinds ==
  ASSUME NEW l \in Commands
  PROVE  l \in Lines \/ l.op = "exit"
BY DEF Commands, Exit

LEMMA FusedLines ==
  ASSUME NEW l \in Commands, NEW m \in FusedWith(l)
  PROVE  m \in Lines /\ (m.op # "bare")
<1>1. CASE l.op = "bare"
  BY <1>1 DEF FusedWith, Lines, NamedLines
<1>2. CASE l.op = "exit"
  BY <1>2 DEF FusedWith, Lines, Other
<1>3. CASE l.op \notin {"bare", "exit"}
  BY <1>3 DEF FusedWith
<1> QED BY <1>1, <1>2, <1>3

LEMMA OtherIsALine == Other \in Lines
BY DEF Lines

LEMMA LongLineTypes ==
  ASSUME NEW l \in LongLines
  PROVE  /\ l.head \in Commands /\ l.rest \in Commands
         /\ l.head.op # "bare"
<1>1. l \in [head : Heads, rest : Commands]
  BY GameAssumption
<1>2. l.head \in Heads /\ l.rest \in Commands
  BY <1>1
<1> QED BY <1>2 DEF Heads, Commands

(* playGame counts from 0 to 4, and counts four bulls for its word alone.   *)
LEMMA BullsAndCows ==
  ASSUME NEW w \in Words, NEW s \in Guesses
  PROVE  /\ Bulls(w, s) \in 0..4 /\ Cows(w, s) \in 0..4
         /\ Bulls(w, s) = 4 <=> s = w
<1> DEFINE B == {i \in Letters : w[i] = s[i]}
           C == {i \in Letters : w[i] # s[i] /\ Contains(w, s[i])}
<1>1. IsFiniteSet(Letters) /\ Cardinality(Letters) = 4
  <2>1. \A a, b \in Int : /\ IsFiniteSet(a..b)
                          /\ Cardinality(a..b) = IF a > b THEN 0 ELSE b - a + 1
    BY FS_Interval
  <2>2. IsFiniteSet(1..4) /\ Cardinality(1..4) = IF 1 > 4 THEN 0 ELSE 4 - 1 + 1
    <3>1. 1 \in Int /\ 4 \in Int
      OBVIOUS
    <3> QED BY <2>1, <3>1, Zenon
  <2> QED BY <2>2 DEF Letters
<1>2. B \in SUBSET Letters /\ C \in SUBSET Letters
  OBVIOUS
<1>3. /\ Cardinality(B) \in Nat /\ Cardinality(B) <= 4
      /\ Cardinality(C) \in Nat /\ Cardinality(C) <= 4
      /\ Cardinality(B) = 4 => B = Letters
  <2> HIDE DEF B, C
  <2> QED BY <1>1, <1>2, FS_Subset, FS_CardinalityType
<1>4. B = Letters => s = w
  <2> SUFFICES ASSUME B = Letters PROVE s = w
    OBVIOUS
  <2>1. \A i \in Letters : w[i] = s[i]
    OBVIOUS
  <2>2. w = [i \in Letters |-> w[i]] /\ s = [i \in Letters |-> s[i]]
    BY GameAssumption
  <2> QED BY <2>1, <2>2
<1>5. s = w => B = Letters
  OBVIOUS
<1> HIDE DEF B, C
<1>6. Bulls(w, s) = Cardinality(B) /\ Cows(w, s) = Cardinality(C)
  BY DEF Bulls, Cows, B, C
<1> QED BY <1>1, <1>3, <1>4, <1>5, <1>6

(* Type correctness, one lemma per group of actions.                        *)

LEMMA InitType == Init => TypeOK /\ TypedWithinLines
<1> SUFFICES ASSUME Init PROVE TypeOK /\ TypedWithinLines
  OBVIOUS
<1>1. GamesTypeOK
  <2>1. Games = {} /\ games \in Seq(GameRecords)
    BY DEF Init, Games
  <2>2. target \in [Conns -> [game : 0..Len(games), room : BOOLEAN]]
    BY DEF Init, NoTarget
  <2>3. judged \in [Conns -> [game : 0..Len(games), guess : Guesses \cup {<<>>},
                              bulls : 0..4, cows : 0..4]]
    BY DEF Init, NotJudged
  <2> QED BY <2>1, <2>2, <2>3 DEF Init, GamesTypeOK
<1>2. ThreadTypeOK
  BY OtherIsALine, GameAssumption DEF Init, ThreadTypeOK, NoCmd
<1>3. ClientTypeOK /\ TypedWithinLines
  BY GameAssumption DEF Init, ClientTypeOK, TypedWithinLines
<1> QED BY <1>1, <1>2, <1>3 DEF TypeOK

(* The client disturbs no type of the server.                               *)
LEMMA ServerTypeStays ==
  ASSUME TypeOK, UNCHANGED serverVars
  PROVE  ThreadTypeOK' /\ GamesTypeOK'
BY DEF TypeOK, ThreadTypeOK, GamesTypeOK, serverVars, Games

LEMMA TypedType ==
  ASSUME ClientTypeOK, TypedWithinLines, NEW k \in Conns, NEW pieces \in Seq(Pieces),
         NEW slip \in SUBSET {"long", "blank", "bare"}, Typed(k, pieces, slip)
  PROVE  ClientTypeOK' /\ TypedWithinLines'
<1>1. lines' \in 0..MaxLines /\ typed' \in [Conns -> 0..MaxLines] /\ TypedWithinLines'
  BY GameAssumption DEF ClientTypeOK, TypedWithinLines, Typed
<1>2. up[k] \o pieces \in Seq(Pieces)
  BY ConcatProperties DEF ClientTypeOK
<1>3. up' \in [Conns -> Seq(Pieces)]
  BY <1>2 DEF ClientTypeOK, Typed
<1>4. /\ slips' \in [Conns -> SUBSET {"long", "blank", "bare"}]
      /\ client' \in [Conns -> {"off", "typing", "reading", "closed"}]
  BY DEF ClientTypeOK, Typed
<1> QED BY <1>1, <1>3, <1>4 DEF ClientTypeOK, Typed

LEMMA PieceType ==
  ASSUME ClientTypeOK, TypedWithinLines, lines < MaxLines,
         NEW k \in Conns, NEW l \in Commands, NEW full \in BOOLEAN
  PROVE  Piece(k, l, full) \in Pieces
BY GameAssumption DEF ClientTypeOK, TypedWithinLines, Piece, Pieces

LEMMA ClientType ==
  ASSUME TypeOK, TypedWithinLines, NEW k \in Conns,
         ClientStep(k) \/ UserStep(k)
  PROVE  TypeOK' /\ TypedWithinLines'
<1>1. ClientTypeOK /\ ThreadTypeOK /\ GamesTypeOK
  BY DEF TypeOK
<1>2. UNCHANGED serverVars
  BY DEF ClientStep, UserStep, Connect, Type, TypeLong, TypeBlank, Typed, ReadAnswer,
         ReadEnd, Leave
<1>3. SUFFICES ClientTypeOK' /\ TypedWithinLines'
  BY <1>2, ServerTypeStays DEF TypeOK
<1>4. CASE Connect(k)
  BY <1>1, <1>4 DEF Connect, ClientTypeOK, TypedWithinLines
<1>5. CASE Type(k)
  <2>1. PICK l \in Lines : Typed(k, <<Piece(k, l, FALSE)>>, BareSlip(l))
    BY <1>5 DEF Type
  <2>2. <<Piece(k, l, FALSE)>> \in Seq(Pieces)
    BY <1>1, <2>1, PieceType, ShortSeq DEF Typed, Commands
  <2>3. BareSlip(l) \in SUBSET {"long", "blank", "bare"}
    BY DEF BareSlip
  <2> QED BY <1>1, <2>1, <2>2, <2>3, TypedType
<1>6. CASE TypeLong(k)
  <2>1. PICK l \in LongLines :
          Typed(k, <<Piece(k, l.head, TRUE), Piece(k, l.rest, FALSE)>>,
                {"long"} \cup BareSlip(l.rest))
    BY <1>6 DEF TypeLong
  <2>2. Piece(k, l.head, TRUE) \in Pieces /\ Piece(k, l.rest, FALSE) \in Pieces
    BY <1>1, <2>1, PieceType, LongLineTypes DEF Typed
  <2>3. <<Piece(k, l.head, TRUE), Piece(k, l.rest, FALSE)>> \in Seq(Pieces)
    BY <2>2, ShortSeq
  <2>4. {"long"} \cup BareSlip(l.rest) \in SUBSET {"long", "blank", "bare"}
    BY DEF BareSlip
  <2> QED BY <1>1, <2>1, <2>3, <2>4, TypedType
<1>7. CASE TypeBlank(k)
  <2>1. Typed(k, <<>>, {"blank"}) /\ <<>> \in Seq(Pieces)
    BY <1>7 DEF TypeBlank
  <2> QED BY <1>1, <2>1, TypedType
<1>8. CASE ReadAnswer(k)
  <2>1. PICK i \in 1..Len(down[k]) :
          /\ shown' = [shown EXCEPT ![k] = down[k][i]]
          /\ down' = [down EXCEPT ![k] = SubSeq(@, i + 1, Len(@))]
    BY <1>8 DEF ReadAnswer
  <2>2. down[k] \in Seq(1..MaxLines)
    BY <1>1 DEF ClientTypeOK
  <2>3. down[k][i] \in 1..MaxLines /\ SubSeq(down[k], i + 1, Len(down[k])) \in Seq(1..MaxLines)
    BY <2>2, RestOfSeq, ElementOfSeq
  <2>4. shown' \in [Conns -> 0..MaxLines] /\ down' \in [Conns -> Seq(1..MaxLines)]
    BY <1>1, <2>1, <2>3 DEF ClientTypeOK
  <2> QED BY <1>1, <1>8, <2>4 DEF ReadAnswer, ClientTypeOK, TypedWithinLines
<1>9. CASE ReadEnd(k)
  BY <1>1, <1>9 DEF ReadEnd, ClientTypeOK, TypedWithinLines
<1>10. CASE Leave(k)
  BY <1>1, <1>10, GameAssumption DEF Leave, ClientTypeOK, TypedWithinLines
<1> QED BY <1>4, <1>5, <1>6, <1>7, <1>8, <1>9, <1>10 DEF ClientStep, UserStep

(* What the commands do to the games.                                       *)

FourOps == {"create", "join", "find", "play"}

LEMMA CommandFacts ==
  ASSUME ThreadTypeOK, CommandIsKnown, FdGiven, NEW k \in Conns, Busy(k)
  PROVE  /\ fd[k] \in Fds
         /\ cmd[k].n \in 1..MaxLines
         /\ cmd[k].line \in Lines /\ cmd[k].line.op \in FourOps
         /\ cmd[k].line.op \in {"create", "join"} => cmd[k].line.arg \in Names
         /\ cmd[k].line.op = "play" => cmd[k].line.arg \in Guesses
<1>1. cmd[k].line \in Lines /\ cmd[k].n \in 0..MaxLines /\ fd[k] \in Fds \cup {0}
  BY DEF ThreadTypeOK
<1>2. cmd[k].n # 0 /\ cmd[k].line.op \in FourOps /\ fd[k] # 0
  BY DEF CommandIsKnown, FdGiven, Busy, FourOps
<1>3. cmd[k].n \in 1..MaxLines
  BY <1>1, <1>2, GameAssumption
<1> QED BY <1>1, <1>2, <1>3, LineKinds

NewGame(k, w) ==
  [name |-> cmd[k].line.arg, players |-> 1, word |-> w, clients |-> <<fd[k]>>]

LEMMA GameCreated ==
  ASSUME GamesTypeOK, NEW k \in Conns, fd[k] \in Fds, cmd[k].line.arg \in Names,
         CreateGame(k)
  PROVE  \E w \in Words :
           /\ games' = Append(games, NewGame(k, w))
           /\ NewGame(k, w) \in GameRecords
           /\ games' \in Seq(GameRecords)
           /\ Len(games') = Len(games) + 1
           /\ \A g \in Games : games'[g] = games[g]
           /\ games'[Len(games) + 1] = NewGame(k, w)
<1>1. PICK w \in Words : games' = Append(games, NewGame(k, w))
  BY DEF CreateGame, NewGame
<1>2. <<fd[k]>> \in Seq(Fds)
  BY ShortSeq
<1>3. 1 \in 1..MAX_PLAYERS
  BY GameAssumption
<1>4. NewGame(k, w) \in GameRecords
  BY <1>2, <1>3 DEF NewGame, GameRecords
<1>5. games \in Seq(GameRecords)
  BY DEF GamesTypeOK
<1> QED BY <1>1, <1>4, <1>5, AppendProperties DEF Games

LEMMA SeatTaken ==
  ASSUME GamesTypeOK, NEW k \in Conns, fd[k] \in Fds, TakeSeat(k),
         NEW g \in Games, g = target[k].game, Room(g)
  PROVE  /\ games' = [games EXCEPT ![g] = [games[g] EXCEPT
                        !.players = @ + 1, !.clients = Append(@, fd[k])]]
         /\ games' \in Seq(GameRecords)
         /\ Len(games') = Len(games)
         /\ \A h \in Games : h # g => games'[h] = games[h]
         /\ games'[g].name = games[g].name /\ games'[g].word = games[g].word
         /\ games'[g].players = games[g].players + 1
         /\ games'[g].clients = Append(games[g].clients, fd[k])
<1> DEFINE r == [games[g] EXCEPT !.players = @ + 1, !.clients = Append(@, fd[k])]
<1>1. games \in Seq(GameRecords) /\ games[g] \in GameRecords
  BY ElementOfSeq DEF GamesTypeOK, Games
<1>2. Append(games[g].clients, fd[k]) \in Seq(Fds)
  BY <1>1, AppendProperties DEF GameRecords
<1>3. games[g].players + 1 \in 1..MAX_PLAYERS
  <2>1. games[g].players \in 1..MAX_PLAYERS
    BY <1>1 DEF GameRecords
  <2>2. games[g].players < MAX_PLAYERS /\ MAX_PLAYERS \in Nat
    BY GameAssumption DEF Room
  <2> QED BY <2>1, <2>2
<1>4. r \in GameRecords
  BY <1>1, <1>2, <1>3 DEF GameRecords
<1>5. /\ r.name = games[g].name /\ r.word = games[g].word
      /\ r.players = games[g].players + 1 /\ r.clients = Append(games[g].clients, fd[k])
  BY <1>1 DEF GameRecords
<1>6. games' = [games EXCEPT ![g] = r]
  BY DEF TakeSeat
<1> HIDE DEF r
<1>7. /\ games' \in Seq(GameRecords) /\ Len(games') = Len(games)
      /\ \A h \in 1..Len(games) : games'[h] = IF h = g THEN r ELSE games[h]
  BY <1>1, <1>4, <1>6, ExceptSeq DEF Games
<1> QED BY <1>5, <1>6, <1>7 DEF Games, r

(* Whatever a command does, games and seats are only added.                 *)
GamesGrow ==
  /\ games' \in Seq(GameRecords) /\ Len(games') >= Len(games)
  /\ \A g \in Games :
       /\ games'[g].name = games[g].name /\ games'[g].word = games[g].word
       /\ DOMAIN games[g].clients \subseteq DOMAIN games'[g].clients
       /\ \A i \in DOMAIN games[g].clients : games'[g].clients[i] = games[g].clients[i]

LEMMA GameTypes ==
  ASSUME games \in Seq(GameRecords), NEW g \in Games
  PROVE  /\ games[g].name \in Names /\ games[g].word \in Words
         /\ games[g].players \in 1..MAX_PLAYERS
         /\ games[g].clients \in Seq(Fds)
         /\ DOMAIN games[g].clients = 1..Len(games[g].clients)
         /\ Len(games[g].clients) \in Nat
<1>1. games[g] \in GameRecords
  BY ElementOfSeq DEF Games
<1>2. games[g].clients \in Seq(Fds)
  BY <1>1 DEF GameRecords
<1> QED BY <1>1, <1>2, LenProperties DEF GameRecords

LEMMA SeatedGrows ==
  ASSUME GamesTypeOK, GamesGrow, UNCHANGED fd,
         NEW k \in Conns, NEW g \in Games, Seated(g, k)
  PROVE  g \in Games' /\ \E i \in DOMAIN games'[g].clients : games'[g].clients[i] = fd'[k]
<1>1. PICK i \in DOMAIN games[g].clients : games[g].clients[i] = fd[k]
  BY DEF Seated
<1>2. i \in DOMAIN games'[g].clients /\ games'[g].clients[i] = fd'[k]
  BY <1>1 DEF GamesGrow
<1>3. Len(games) \in Nat /\ Len(games') \in Nat
  BY LenProperties DEF GamesTypeOK, GamesGrow
<1>4. g \in Games'
  BY <1>3 DEF Games, GamesGrow
<1> QED BY <1>2, <1>4

LEMMA CreationGrows ==
  ASSUME GamesTypeOK, NEW k \in Conns, fd[k] \in Fds, cmd[k].line.arg \in Names,
         CreateGame(k)
  PROVE  GamesGrow
<1>1. /\ games' \in Seq(GameRecords) /\ Len(games') = Len(games) + 1
      /\ \A g \in Games : games'[g] = games[g]
  BY GameCreated
<1>2. Len(games) \in Nat
  BY LenProperties DEF GamesTypeOK
<1> QED BY <1>1, <1>2 DEF GamesGrow

LEMMA SeatingGrows ==
  ASSUME GamesTypeOK, NEW k \in Conns, fd[k] \in Fds, TakeSeat(k),
         NEW g \in Games, g = target[k].game, Room(g)
  PROVE  GamesGrow
<1>1. games \in Seq(GameRecords) /\ Len(games) \in Nat
  BY LenProperties DEF GamesTypeOK
<1>2. /\ games' \in Seq(GameRecords) /\ Len(games') = Len(games)
      /\ \A h \in Games : h # g => games'[h] = games[h]
      /\ games'[g].name = games[g].name /\ games'[g].word = games[g].word
      /\ games'[g].clients = Append(games[g].clients, fd[k])
  BY SeatTaken
<1>3. games[g].clients \in Seq(Fds)
  BY <1>1, GameTypes
<1>4. /\ DOMAIN games[g].clients \subseteq DOMAIN games'[g].clients
      /\ \A i \in DOMAIN games[g].clients : games'[g].clients[i] = games[g].clients[i]
  <2> DEFINE c == games[g].clients
  <2>1. games'[g].clients = Append(c, fd[k]) /\ c \in Seq(Fds)
    BY <1>2, <1>3
  <2> HIDE DEF c
  <2>2. /\ DOMAIN c \subseteq DOMAIN Append(c, fd[k])
        /\ \A i \in DOMAIN c : Append(c, fd[k])[i] = c[i]
    BY <2>1, AppendGrows
  <2> QED BY <2>1, <2>2 DEF c
<1>5. Len(games') >= Len(games)
  BY <1>1, <1>2
<1> QED BY <1>2, <1>4, <1>5, Zenon DEF GamesGrow

(* What the owner of the mutex found when it came in it may act upon.       *)
LEMMA ServeCases ==
  ASSUME TypeOK, CommandIsKnown, FdGiven, TargetStands, NEW k \in Conns, Serve(k)
  PROVE  \/ CreateGame(k) /\ cmd[k].line.arg \in Names
         \/ TakeSeat(k) /\ target[k].game \in Games /\ Room(target[k].game)
         \/ /\ PlayGame(k) /\ cmd[k].line.arg \in Guesses
            /\ target[k].game \in Games /\ Seated(target[k].game, k)
            /\ \A h \in Games : Seated(h, k) => target[k].game <= h
         \/ UNCHANGED <<games, joined, judged>>
<1>1. thread[k] = "serving" /\ Busy(k)
  BY DEF Serve, Busy
<1>2. /\ cmd[k].line.op \in {"create", "join"} => cmd[k].line.arg \in Names
      /\ cmd[k].line.op = "play" => cmd[k].line.arg \in Guesses
  BY <1>1, CommandFacts DEF TypeOK
<1>3. /\ StopsAt(target[k].game, Candidates(k))
      /\ target[k].room <=> (target[k].game # 0 /\ Room(target[k].game))
  BY <1>1 DEF TargetStands
<1>4. target[k].game # 0 => target[k].game \in Games
  <2>1. target[k].game \in 0..Len(games) /\ Len(games) \in Nat
    BY LenProperties DEF TypeOK, GamesTypeOK
  <2> QED BY <2>1 DEF Games
<1>5. CASE CreateGame(k)
  BY <1>2, <1>5 DEF CreateGame
<1>6. CASE TakeSeat(k)
  BY <1>3, <1>4, <1>6 DEF TakeSeat
<1>7. CASE PlayGame(k)
  <2>1. cmd[k].line.op = "play" /\ target[k].game # 0
    BY <1>7 DEF PlayGame
  <2>2. Candidates(k) = {g \in Games : Seated(g, k)}
    BY <2>1 DEF Candidates
  <2>3. /\ target[k].game \in Candidates(k)
        /\ \A h \in Candidates(k) : target[k].game <= h
    BY <1>3, <2>1 DEF StopsAt
  <2> QED BY <1>2, <1>7, <2>1, <2>2, <2>3
<1>8. CASE Refuse(k)
  BY <1>8 DEF Refuse
<1> QED BY <1>5, <1>6, <1>7, <1>8 DEF Serve

LEMMA ServeGrows ==
  ASSUME TypeOK, CommandIsKnown, FdGiven, TargetStands, NEW k \in Conns, Serve(k)
  PROVE  GamesGrow
<1>1. fd[k] \in Fds /\ GamesTypeOK
  BY CommandFacts DEF TypeOK, Serve, Busy
<1>2. UNCHANGED games => GamesGrow
  <2>1. Len(games) \in Nat
    BY <1>1, LenProperties DEF GamesTypeOK
  <2> QED BY <1>1, <2>1 DEF GamesTypeOK, GamesGrow
<1>3. CASE CreateGame(k) /\ cmd[k].line.arg \in Names
  BY <1>1, <1>3, CreationGrows
<1>4. CASE TakeSeat(k) /\ target[k].game \in Games /\ Room(target[k].game)
  BY <1>1, <1>4, SeatingGrows
<1>5. CASE UNCHANGED games
  BY <1>2, <1>5
<1> QED BY <1>3, <1>4, <1>5, ServeCases DEF PlayGame

LEMMA ServeGamesType ==
  ASSUME TypeOK, CommandIsKnown, FdGiven, TargetStands, NEW k \in Conns, Serve(k)
  PROVE  GamesTypeOK'
<1>1. GamesGrow /\ fd[k] \in Fds
  BY ServeGrows, CommandFacts DEF TypeOK, Serve, Busy
<1>2. GamesTypeOK /\ Len(games) \in Nat /\ Len(games') \in Nat /\ Len(games') >= Len(games)
  BY <1>1, LenProperties DEF TypeOK, GamesTypeOK, GamesGrow
<1>3. 0..Len(games) \subseteq 0..Len(games') /\ Games \subseteq Games'
  BY <1>2 DEF Games
<1>4. target' \in [Conns -> [game : 0..Len(games'), room : BOOLEAN]]
  <2>1. NoTarget \in [game : 0..Len(games'), room : BOOLEAN]
    BY <1>2 DEF NoTarget
  <2>2. target \in [Conns -> [game : 0..Len(games'), room : BOOLEAN]]
    BY <1>2, <1>3 DEF GamesTypeOK
  <2> QED BY <2>1, <2>2 DEF Serve
<1>5. CASE CreateGame(k) /\ cmd[k].line.arg \in Names
  <2>1. PICK w \in Words :
          /\ Len(games') = Len(games) + 1
          /\ \A g \in Games : games'[g] = games[g]
          /\ games'[Len(games) + 1] = NewGame(k, w)
    BY <1>1, <1>2, <1>5, GameCreated
  <2>2. NewGame(k, w).players = Len(NewGame(k, w).clients)
    BY DEF NewGame
  <2>3. \A g \in Games' : games'[g].players = Len(games'[g].clients)
    <3>1. \A g \in Games' : g \in Games \/ g = Len(games) + 1
      BY <1>2, <2>1 DEF Games
    <3>2. \A g \in Games : games'[g].players = Len(games'[g].clients)
      BY <1>2, <2>1 DEF GamesTypeOK
    <3> QED BY <2>1, <2>2, <3>1, <3>2
  <2>4. joined' \in [Conns -> SUBSET Games']
    BY <1>2, <1>3, <1>5, <2>1 DEF GamesTypeOK, CreateGame, Games
  <2>5. judged' \in [Conns -> [game : 0..Len(games'), guess : Guesses \cup {<<>>},
                               bulls : 0..4, cows : 0..4]]
    BY <1>2, <1>3, <1>5 DEF GamesTypeOK, CreateGame
  <2> QED BY <1>1, <1>4, <2>3, <2>4, <2>5 DEF GamesTypeOK, GamesGrow
<1>6. CASE TakeSeat(k) /\ target[k].game \in Games /\ Room(target[k].game)
  <2> DEFINE g == target[k].game
  <2>1. /\ Len(games') = Len(games)
        /\ \A h \in Games : h # g => games'[h] = games[h]
        /\ games'[g].players = games[g].players + 1
        /\ games'[g].clients = Append(games[g].clients, fd[k])
    BY <1>1, <1>2, <1>6, SeatTaken
  <2>2. Len(Append(games[g].clients, fd[k])) = Len(games[g].clients) + 1
    BY <1>1, <1>2, <1>6, GameTypes, AppendProperties DEF GamesTypeOK
  <2>3. \A h \in Games' : games'[h].players = Len(games'[h].clients)
    BY <1>2, <1>6, <2>1, <2>2 DEF GamesTypeOK, Games
  <2>4. /\ joined' \in [Conns -> SUBSET Games']
        /\ judged' \in [Conns -> [game : 0..Len(games'), guess : Guesses \cup {<<>>},
                                  bulls : 0..4, cows : 0..4]]
    BY <1>2, <1>3, <1>6, <2>1 DEF GamesTypeOK, TakeSeat
  <2> QED BY <1>1, <1>4, <2>3, <2>4 DEF GamesTypeOK, GamesGrow
<1>7. CASE /\ PlayGame(k) /\ cmd[k].line.arg \in Guesses
           /\ target[k].game \in Games /\ Seated(target[k].game, k)
  <2> DEFINE w == games[target[k].game].word
             s == cmd[k].line.arg
  <2>1. UNCHANGED <<games, joined>>
    BY <1>7 DEF PlayGame
  <2>2. Bulls(w, s) \in 0..4 /\ Cows(w, s) \in 0..4
    BY <1>2, <1>7, GameTypes, BullsAndCows DEF GamesTypeOK
  <2>3. target[k].game \in 0..Len(games)
    BY <1>2, <1>7 DEF Games
  <2>4. judged' = [judged EXCEPT ![k] = [game |-> target[k].game, guess |-> s,
                                         bulls |-> Bulls(w, s), cows |-> Cows(w, s)]]
    BY <1>7 DEF PlayGame
  <2> HIDE DEF w, s
  <2>5. s \in Guesses
    BY <1>7 DEF s
  <2>6. judged' \in [Conns -> [game : 0..Len(games), guess : Guesses \cup {<<>>},
                               bulls : 0..4, cows : 0..4]]
    BY <1>2, <2>2, <2>3, <2>4, <2>5 DEF GamesTypeOK
  <2> QED BY <1>2, <1>4, <2>1, <2>6 DEF GamesTypeOK, Games
<1>8. CASE UNCHANGED <<games, joined, judged>>
  BY <1>2, <1>4, <1>8 DEF GamesTypeOK, Games
<1> QED BY <1>5, <1>6, <1>7, <1>8, ServeCases

LEMMA ServeSeats ==
  ASSUME TypeOK, CommandIsKnown, FdGiven, TargetStands, SeatsAreTaken,
         NEW k \in Conns, Serve(k)
  PROVE  SeatsAreTaken'
<1>1. /\ UNCHANGED fd /\ GamesTypeOK /\ fd[k] \in Fds
      /\ thread[k] = "serving"
      /\ \A j \in Conns : thread[j] = "ended" => thread'[j] = "ended"
  BY CommandFacts DEF Serve, TypeOK, ThreadTypeOK, Busy
<1>2. joined \in [Conns -> SUBSET Games] /\ Len(games) \in Nat /\ games \in Seq(GameRecords)
  BY <1>1, LenProperties DEF GamesTypeOK
<1>3. ASSUME NEW g \in Games, NEW i \in DOMAIN games[g].clients,
             \A j \in Conns : joined[j] \subseteq joined'[j]
      PROVE  \E j \in Conns : /\ fd'[j] = games[g].clients[i]
                              /\ thread'[j] = "ended" \/ g \in joined'[j]
  BY <1>1, <1>3 DEF SeatsAreTaken
<1>4. CASE CreateGame(k) /\ cmd[k].line.arg \in Names
  <2>1. PICK w \in Words :
          /\ Len(games') = Len(games) + 1
          /\ \A g \in Games : games'[g] = games[g]
          /\ games'[Len(games) + 1] = NewGame(k, w)
    BY <1>1, <1>4, GameCreated
  <2>2. /\ \A j \in Conns : joined[j] \subseteq joined'[j]
        /\ Len(games) + 1 \in joined'[k]
    BY <1>2, <1>4 DEF CreateGame
  <2>3. \A i \in DOMAIN NewGame(k, w).clients : NewGame(k, w).clients[i] = fd[k]
    BY DEF NewGame
  <2>4. \A g \in Games' : g \in Games \/ g = Len(games) + 1
    BY <1>2, <2>1 DEF Games
  <2> QED BY <1>1, <1>3, <2>1, <2>2, <2>3, <2>4 DEF SeatsAreTaken
<1>5. CASE TakeSeat(k) /\ target[k].game \in Games /\ Room(target[k].game)
  <2> DEFINE g == target[k].game
             c == games[g].clients
  <2>1. /\ Len(games') = Len(games)
        /\ \A h \in Games : h # g => games'[h] = games[h]
        /\ games'[g].clients = Append(c, fd[k])
    BY <1>1, <1>5, SeatTaken
  <2>2. /\ \A j \in Conns : joined[j] \subseteq joined'[j]
        /\ g \in joined'[k]
    BY <1>2, <1>5 DEF TakeSeat
  <2>3. c \in Seq(Fds)
    BY <1>2, <1>5, GameTypes
  <2> HIDE DEF c
  <2>4. \A i \in DOMAIN Append(c, fd[k]) :
          \/ i \in DOMAIN c /\ Append(c, fd[k])[i] = c[i]
          \/ Append(c, fd[k])[i] = fd[k]
    <3>1. /\ DOMAIN Append(c, fd[k]) = 1..(Len(c) + 1)
          /\ \A i \in DOMAIN c : Append(c, fd[k])[i] = c[i]
          /\ Append(c, fd[k])[Len(c) + 1] = fd[k]
      BY <1>1, <2>3, AppendGrows
    <3>2. DOMAIN c = 1..Len(c) /\ Len(c) \in Nat
      BY <2>3, LenProperties
    <3>3. \A i \in 1..(Len(c) + 1) : i \in 1..Len(c) \/ i = Len(c) + 1
      BY <3>2
    <3> QED BY <3>1, <3>2, <3>3, Zenon
  <2>5. Games' = Games
    BY <2>1 DEF Games
  <2>6. ASSUME NEW i \in DOMAIN games'[g].clients
        PROVE  \E j \in Conns : /\ fd'[j] = games'[g].clients[i]
                                /\ thread'[j] = "ended" \/ g \in joined'[j]
    <3>1. CASE i \in DOMAIN c /\ Append(c, fd[k])[i] = c[i]
      <4>1. i \in DOMAIN games[g].clients /\ games'[g].clients[i] = games[g].clients[i]
        BY <2>1, <3>1 DEF c
      <4>2. \E j \in Conns : /\ fd'[j] = games[g].clients[i]
                             /\ thread'[j] = "ended" \/ g \in joined'[j]
        BY <1>3, <1>5, <2>2, <4>1
      <4> QED BY <4>1, <4>2
    <3>2. CASE Append(c, fd[k])[i] = fd[k]
      BY <1>1, <2>1, <2>2, <3>2
    <3> QED BY <2>1, <2>4, <3>1, <3>2
  <2>7. ASSUME NEW h \in Games, h # g, NEW i \in DOMAIN games'[h].clients
        PROVE  \E j \in Conns : /\ fd'[j] = games'[h].clients[i]
                                /\ thread'[j] = "ended" \/ h \in joined'[j]
    BY <1>3, <2>1, <2>2, <2>7
  <2> QED BY <2>5, <2>6, <2>7 DEF SeatsAreTaken
<1>6. CASE UNCHANGED <<games, joined>>
  BY <1>1, <1>6 DEF SeatsAreTaken, Games
<1> QED BY <1>4, <1>5, <1>6, ServeCases DEF PlayGame

LEMMA ServeJudges ==
  ASSUME TypeOK, CommandIsKnown, FdGiven, TargetStands, JudgedTruly,
         NEW k \in Conns, Serve(k)
  PROVE  /\ JudgedTruly'
         /\ \A j \in Conns : judged[j].game # 0 => judged'[j].game <= judged[j].game
<1>1. /\ UNCHANGED fd /\ GamesTypeOK /\ GamesGrow /\ fd[k] # 0
      /\ thread[k] = "serving"
      /\ \A j \in Conns : thread[j] # "ended" => thread'[j] # "ended"
  BY ServeGrows DEF Serve, TypeOK, ThreadTypeOK, FdGiven
<1>2. \A j \in Conns : judged[j].game \in 0..Len(games)
  BY <1>1 DEF GamesTypeOK
<1>3. \A j \in Conns : judged[j].game # 0 => judged[j].game \in Games
  <2>1. Len(games) \in Nat
    BY <1>1, LenProperties DEF GamesTypeOK
  <2> QED BY <1>2, <2>1 DEF Games
<1>4. ASSUME NEW j \in Conns, judged'[j] = judged[j], judged[j].game # 0
      PROVE  /\ thread'[j] # "ended" /\ fd'[j] # 0
             /\ Seated(judged[j].game, j)'
             /\ (judged'[j].bulls = 4) <=>
                  (judged'[j].guess = games'[judged'[j].game].word)
             /\ judged'[j].game <= judged[j].game
  <2>1. /\ thread[j] # "ended" /\ fd[j] # 0 /\ Seated(judged[j].game, j)
        /\ (judged[j].bulls = 4) <=> (judged[j].guess = games[judged[j].game].word)
    BY <1>4 DEF JudgedTruly
  <2>2. Seated(judged[j].game, j)'
    <3>1. \E i \in DOMAIN games'[judged[j].game].clients :
            games'[judged[j].game].clients[i] = fd'[j]
      BY <1>1, <1>3, <1>4, <2>1, SeatedGrows
    <3> QED BY <1>4, <3>1 DEF Seated
  <2>3. games'[judged[j].game].word = games[judged[j].game].word
    BY <1>1, <1>3, <1>4 DEF GamesGrow
  <2> QED BY <1>1, <1>2, <1>4, <2>1, <2>2, <2>3
<1>5. CASE UNCHANGED judged
  BY <1>4, <1>5 DEF JudgedTruly
<1>6. CASE /\ PlayGame(k) /\ cmd[k].line.arg \in Guesses
           /\ target[k].game \in Games /\ Seated(target[k].game, k)
           /\ \A h \in Games : Seated(h, k) => target[k].game <= h
  <2> DEFINE g == target[k].game
             w == games[g].word
             s == cmd[k].line.arg
  <2>1. /\ UNCHANGED games
        /\ judged'[k] = [game |-> g, guess |-> s, bulls |-> Bulls(w, s), cows |-> Cows(w, s)]
        /\ \A j \in Conns : j # k => judged'[j] = judged[j]
    BY <1>1, <1>6 DEF PlayGame, GamesTypeOK
  <2>2. w \in Words
    BY <1>1, <1>6, GameTypes DEF GamesTypeOK
  <2>3. Bulls(w, s) = 4 <=> s = w
    BY <1>6, <2>2, BullsAndCows
  <2>4. Seated(judged[k].game, k)'
    BY <1>1, <1>6, <2>1 DEF Seated
  <2>5. judged[k].game # 0 => g <= judged[k].game
    BY <1>3, <1>6 DEF JudgedTruly
  <2>6. games'[g].word = w
    BY <2>1
  <2> HIDE DEF g, w, s
  <2>7. judged'[k].game = g /\ judged'[k].guess = s /\ judged'[k].bulls = Bulls(w, s)
    BY <2>1
  <2>8. /\ thread'[k] # "ended" /\ fd'[k] # 0
        /\ (judged'[k].bulls = 4) <=> (judged'[k].guess = games'[judged'[k].game].word)
        /\ judged[k].game # 0 => judged'[k].game <= judged[k].game
    BY <1>1, <2>3, <2>5, <2>6, <2>7
  <2>9. \A j \in Conns : j # k => judged'[j] = judged[j]
    BY <2>1
  <2> QED BY <1>4, <2>4, <2>8, <2>9 DEF JudgedTruly
<1> QED BY <1>5, <1>6, ServeCases DEF CreateGame, TakeSeat

(* The threads: descriptors, the mutex, and what its owner found.           *)

LEMMA InitThreads == Init => ThreadInv
<1> SUFFICES ASSUME Init PROVE ThreadInv
  OBVIOUS
<1>1. CommandIsKnown /\ MutexHeldOnce /\ TargetStands
  BY DEF Init, CommandIsKnown, MutexHeldOnce, TargetStands, Busy
<1>2. AcceptedInOrder /\ FdGiven /\ FdFreed
  BY DEF Init, AcceptedInOrder, FdGiven, FdFreed
<1>3. SeatsAreTaken /\ JudgedTruly
  BY DEF Init, SeatsAreTaken, JudgedTruly, Games, NotJudged
<1> QED BY <1>1, <1>2, <1>3 DEF ThreadInv

(* What the owner found stands as long as the games and its own command do. *)
LEMMA SameCandidates ==
  ASSUME NEW j \in Conns, UNCHANGED games, fd'[j] = fd[j], cmd'[j] = cmd[j]
  PROVE  Candidates(j)' = Candidates(j)
BY DEF Candidates, Games, Room, Seated

LEMMA TargetStays ==
  ASSUME TargetStands, NEW j \in Conns, thread[j] = "serving", UNCHANGED games,
         fd'[j] = fd[j], cmd'[j] = cmd[j], target'[j] = target[j]
  PROVE  /\ StopsAt(target[j].game, Candidates(j))'
         /\ (target[j].room <=> (target[j].game # 0 /\ Room(target[j].game)))'
<1>1. Candidates(j)' = Candidates(j)
  BY SameCandidates
<1>2. /\ StopsAt(target[j].game, Candidates(j))
      /\ target[j].room <=> (target[j].game # 0 /\ Room(target[j].game))
  BY DEF TargetStands
<1> QED BY <1>1, <1>2 DEF StopsAt, Room

(* A step that starts no thread and ends none, and leaves the games alone,  *)
(* disturbs neither descriptors nor seats.                                  *)
LEMMA SameSeats ==
  ASSUME ThreadInv, UNCHANGED <<games, fd, joined, judged>>,
         \A j \in Conns : /\ thread'[j] = "ended" <=> thread[j] = "ended"
                          /\ thread'[j] = "none" <=> thread[j] = "none"
  PROVE  AcceptedInOrder' /\ FdGiven' /\ FdFreed' /\ SeatsAreTaken' /\ JudgedTruly'
<1>1. AcceptedInOrder' /\ FdGiven' /\ FdFreed'
  BY DEF ThreadInv, AcceptedInOrder, FdGiven, FdFreed
<1>2. SeatsAreTaken'
  BY DEF ThreadInv, SeatsAreTaken, Games
<1>3. JudgedTruly'
  BY DEF ThreadInv, JudgedTruly, Seated
<1> QED BY <1>1, <1>2, <1>3

LEMMA SameThreads ==
  ASSUME ThreadInv, UNCHANGED <<thread, cmd, games, fd, target, joined, judged>>
  PROVE  ThreadInv'
<1>1. CommandIsKnown' /\ MutexHeldOnce'
  BY DEF ThreadInv, CommandIsKnown, MutexHeldOnce, Busy
<1>2. TargetStands'
  <2> SUFFICES ASSUME NEW j \in Conns, thread'[j] = "serving"
               PROVE  /\ StopsAt(target[j].game, Candidates(j))'
                      /\ (target[j].room <=> (target[j].game # 0 /\ Room(target[j].game)))'
    BY DEF TargetStands
  <2> QED BY TargetStays DEF ThreadInv
<1> QED BY <1>1, <1>2, SameSeats DEF ThreadInv

LEMMA AcceptThreads ==
  ASSUME TypeOK, ThreadInv, NEW k \in Conns, Accept(k)
  PROVE  ThreadInv'
<1>1. PICK d \in Fds :
        ~InUse(d) /\ fd' = [fd EXCEPT ![k] = d]
  BY DEF Accept
<1>2. /\ thread[k] = "none" /\ fd[k] = 0 /\ d # 0
      /\ \A j \in Conns : j < k => thread[j] # "none"
      /\ thread' = [thread EXCEPT ![k] = "reading"]
      /\ UNCHANGED <<games, cmd, target, joined, judged>>
  BY DEF Accept, ThreadInv, FdGiven, Fds, Conns
<1>3. ThreadTypeOK /\ games \in Seq(GameRecords)
  BY DEF TypeOK, GamesTypeOK
<1>4. /\ thread'[k] = "reading" /\ fd'[k] = d
      /\ \A j \in Conns : j # k => thread'[j] = thread[j] /\ fd'[j] = fd[j]
  BY <1>1, <1>2, <1>3 DEF ThreadTypeOK
<1>5. CommandIsKnown' /\ MutexHeldOnce'
  BY <1>2, <1>4 DEF ThreadInv, CommandIsKnown, MutexHeldOnce, Busy
<1>6. TargetStands'
  <2> SUFFICES ASSUME NEW j \in Conns, thread'[j] = "serving"
               PROVE  /\ StopsAt(target[j].game, Candidates(j))'
                      /\ (target[j].room <=> (target[j].game # 0 /\ Room(target[j].game)))'
    BY DEF TargetStands
  <2> QED BY <1>2, <1>4, TargetStays DEF ThreadInv
<1>7. AcceptedInOrder' /\ FdGiven'
  BY <1>2, <1>4 DEF ThreadInv, AcceptedInOrder, FdGiven
<1>8. FdFreed'
  <2> SUFFICES ASSUME NEW j \in Conns, NEW m \in Conns, j < m,
                      fd'[j] = fd'[m], fd'[m] # 0
               PROVE  thread'[j] = "ended"
    BY DEF FdFreed
  <2>1. CASE m = k
    BY <1>1, <1>2, <1>4, <2>1 DEF InUse, Conns
  <2>2. CASE j = k
    BY <1>2, <1>4, <2>2 DEF ThreadInv, AcceptedInOrder, FdGiven, Conns
  <2> QED BY <1>4, <2>1, <2>2 DEF ThreadInv, FdFreed
<1>9. SeatsAreTaken'
  <2> SUFFICES ASSUME NEW g \in Games, NEW i \in DOMAIN games[g].clients
               PROVE  \E j \in Conns : /\ fd'[j] = games[g].clients[i]
                                       /\ thread'[j] = "ended" \/ g \in joined[j]
    BY <1>2 DEF SeatsAreTaken, Games
  <2>1. PICK j \in Conns : /\ fd[j] = games[g].clients[i]
                           /\ thread[j] = "ended" \/ g \in joined[j]
    BY DEF ThreadInv, SeatsAreTaken
  <2>2. games[g].clients[i] \in Fds
    BY <1>3, GameTypes, ElementOfSeq
  <2>3. fd[j] # 0
    BY <2>1, <2>2 DEF Fds, Conns
  <2> QED BY <1>2, <1>4, <2>1, <2>3
<1>10. JudgedTruly'
  <2> SUFFICES ASSUME NEW j \in Conns, judged[j].game # 0
               PROVE  /\ thread'[j] # "ended" /\ fd'[j] # 0
                      /\ Seated(judged[j].game, j)'
                      /\ (judged[j].bulls = 4) <=>
                           (judged[j].guess = games[judged[j].game].word)
    BY <1>2 DEF JudgedTruly
  <2>1. j # k
    BY <1>2 DEF ThreadInv, JudgedTruly
  <2> QED BY <1>2, <1>4, <2>1 DEF ThreadInv, JudgedTruly, Seated
<1> QED BY <1>5, <1>6, <1>7, <1>8, <1>9, <1>10 DEF ThreadInv

(* What read returns to a thread is a bare command, exit, a line answered   *)
(* at once or a command for which it needs the mutex.                       *)
ReadsUpTo(k, i) == up' = [up EXCEPT ![k] = SubSeq(up[k], i + 1, Len(up[k]))]

ThrowsOut(k) ==
  /\ up[k][1].line.op = "bare" /\ serverUp' = FALSE
  /\ UNCHANGED <<thread, cmd, reset, down>>

LeavesLoop(k) ==
  /\ thread' = [thread EXCEPT ![k] = "leaving"]
  /\ UNCHANGED <<serverUp, cmd, reset, down>>

AnswersAtOnce(k, n) == Write(k, <<n>>) /\ UNCHANGED <<thread, cmd>>

GoesToLock(k, l, n) ==
  /\ thread' = [thread EXCEPT ![k] = "locking"]
  /\ cmd' = [cmd EXCEPT ![k] = [line |-> l, n |-> n]]
  /\ UNCHANGED <<serverUp, reset, down>>

LEMMA ReadCases ==
  ASSUME ClientTypeOK, NEW k \in Conns, Read(k)
  PROVE  \E i \in 1..Len(up[k]), n \in 1..MaxLines :
           /\ n = up[k][i].n /\ ReadsUpTo(k, i)
           /\ \/ ThrowsOut(k)
              \/ LeavesLoop(k)
              \/ AnswersAtOnce(k, n)
              \/ \E l \in Lines : l.op \in FourOps /\ GoesToLock(k, l, n)
<1>1. PICK i \in 1..Len(up[k]) :
        /\ ReadsUpTo(k, i)
        /\ \E l \in IF i = 1 THEN {Head(up[k]).line} ELSE FusedWith(Head(up[k]).line) :
             \/ /\ l.op = "bare" /\ serverUp' = FALSE
                /\ UNCHANGED <<thread, cmd, reset, down>>
             \/ LeavesLoop(k)
             \/ AnswersAtOnce(k, up[k][i].n)
             \/ l.op \notin {"bare", "exit", "other"} /\ GoesToLock(k, l, up[k][i].n)
  BY DEF Read, ReadsUpTo, LeavesLoop, AnswersAtOnce, GoesToLock
<1>2. PICK l \in IF i = 1 THEN {Head(up[k]).line} ELSE FusedWith(Head(up[k]).line) :
        \/ /\ l.op = "bare" /\ serverUp' = FALSE
           /\ UNCHANGED <<thread, cmd, reset, down>>
        \/ LeavesLoop(k)
        \/ AnswersAtOnce(k, up[k][i].n)
        \/ l.op \notin {"bare", "exit", "other"} /\ GoesToLock(k, l, up[k][i].n)
  BY <1>1
<1>3. up[k] \in Seq(Pieces) /\ up[k] # <<>>
  BY DEF ClientTypeOK, Read
<1>4. Head(up[k]) = up[k][1] /\ up[k][1] \in Pieces /\ up[k][i] \in Pieces
  BY <1>3, HeadTailProperties, ElementOfSeq
<1>5. Head(up[k]).line \in Commands /\ up[k][i].n \in 1..MaxLines
  BY <1>4 DEF Pieces
<1>6. (l \in Lines \/ l.op = "exit") /\ (l.op = "bare" => l = up[k][1].line)
  BY <1>4, <1>5, FusedLines, CommandKinds
<1>7. l.op \notin {"bare", "exit", "other"} => l \in Lines /\ l.op \in FourOps
  BY <1>6, LineKinds DEF FourOps
<1> QED BY <1>1, <1>2, <1>5, <1>6, <1>7 DEF ThrowsOut

LEMMA ReadThreads ==
  ASSUME TypeOK, ThreadInv, NEW k \in Conns, Read(k)
  PROVE  ThreadInv'
<1>1. /\ thread[k] = "reading"
      /\ UNCHANGED <<games, fd, target, joined, judged>>
  BY DEF Read
<1>2. ThreadTypeOK /\ ClientTypeOK
  BY DEF TypeOK
<1>3. \/ UNCHANGED <<thread, cmd>>
      \/ LeavesLoop(k)
      \/ \E l \in Lines, n \in 1..MaxLines : l.op \in FourOps /\ GoesToLock(k, l, n)
  BY <1>2, ReadCases DEF ThrowsOut, AnswersAtOnce
<1>4. CASE UNCHANGED <<thread, cmd>>
  BY <1>1, <1>4, SameThreads
<1>5. ASSUME NEW l \in Lines, NEW n \in 1..MaxLines,
             l.op \in FourOps, GoesToLock(k, l, n)
      PROVE  ThreadInv'
  <2>1. /\ thread'[k] = "locking" /\ cmd'[k].line = l /\ cmd'[k].n = n /\ n # 0
        /\ \A j \in Conns : j # k => thread'[j] = thread[j] /\ cmd'[j] = cmd[j]
    BY <1>2, <1>5 DEF ThreadTypeOK, GoesToLock
  <2>2. CommandIsKnown'
    BY <1>5, <2>1 DEF ThreadInv, CommandIsKnown, Busy, FourOps
  <2>3. MutexHeldOnce'
    BY <2>1 DEF ThreadInv, MutexHeldOnce
  <2>4. TargetStands'
    <3> SUFFICES ASSUME NEW j \in Conns, thread'[j] = "serving"
                 PROVE  /\ StopsAt(target[j].game, Candidates(j))'
                        /\ (target[j].room <=> (target[j].game # 0 /\ Room(target[j].game)))'
      BY DEF TargetStands
    <3> QED BY <1>1, <2>1, TargetStays DEF ThreadInv
  <2>5. \A j \in Conns : /\ thread'[j] = "ended" <=> thread[j] = "ended"
                         /\ thread'[j] = "none" <=> thread[j] = "none"
    BY <1>1, <2>1
  <2> QED BY <1>1, <2>2, <2>3, <2>4, <2>5, SameSeats DEF ThreadInv
<1>6. CASE LeavesLoop(k)
  <2>1. /\ thread'[k] = "leaving" /\ UNCHANGED cmd
        /\ \A j \in Conns : j # k => thread'[j] = thread[j]
    BY <1>2, <1>6 DEF ThreadTypeOK, LeavesLoop
  <2>2. CommandIsKnown'
    BY <2>1 DEF ThreadInv, CommandIsKnown, Busy
  <2>3. MutexHeldOnce'
    BY <2>1 DEF ThreadInv, MutexHeldOnce
  <2>4. TargetStands'
    <3> SUFFICES ASSUME NEW j \in Conns, thread'[j] = "serving"
                 PROVE  /\ StopsAt(target[j].game, Candidates(j))'
                        /\ (target[j].room <=> (target[j].game # 0 /\ Room(target[j].game)))'
      BY DEF TargetStands
    <3> QED BY <1>1, <2>1, TargetStays DEF ThreadInv
  <2>5. \A j \in Conns : /\ thread'[j] = "ended" <=> thread[j] = "ended"
                         /\ thread'[j] = "none" <=> thread[j] = "none"
    BY <1>1, <2>1
  <2> QED BY <1>1, <2>2, <2>3, <2>4, <2>5, SameSeats DEF ThreadInv
<1> QED BY <1>3, <1>4, <1>5, <1>6

LEMMA LockThreads ==
  ASSUME TypeOK, ThreadInv, NEW k \in Conns, Lock(k)
  PROVE  ThreadInv'
<1>1. PICK g \in 0..Len(games) :
        /\ StopsAt(g, Candidates(k))
        /\ target' = [target EXCEPT ![k] = [game |-> g, room |-> g # 0 /\ Room(g)]]
  BY DEF Lock
<1>2. /\ thread[k] = "locking" /\ gamesMutexFree
      /\ thread' = [thread EXCEPT ![k] = "serving"]
      /\ UNCHANGED <<games, fd, cmd, joined, judged>>
  BY DEF Lock
<1>3. /\ thread'[k] = "serving" /\ target'[k] = [game |-> g, room |-> g # 0 /\ Room(g)]
      /\ \A j \in Conns : j # k => thread'[j] = thread[j]
  BY <1>1, <1>2 DEF TypeOK, ThreadTypeOK, GamesTypeOK
<1>4. \A j \in Conns : thread'[j] = "serving" => j = k
  BY <1>2, <1>3 DEF gamesMutexFree
<1>5. CommandIsKnown' /\ MutexHeldOnce'
  BY <1>2, <1>3, <1>4 DEF ThreadInv, CommandIsKnown, MutexHeldOnce, Busy
<1>6. TargetStands'
  <2>1. Candidates(k)' = Candidates(k) /\ Room(g)' = Room(g)
    BY <1>2, SameCandidates DEF Room
  <2>2. target'[k].game = g /\ target'[k].room = (g # 0 /\ Room(g))
    BY <1>3
  <2>3. StopsAt(g, Candidates(k))'
    BY <1>1, <2>1 DEF StopsAt
  <2>4. StopsAt(target[k].game, Candidates(k))'
    BY <2>2, <2>3 DEF StopsAt
  <2>5. (target[k].room <=> (target[k].game # 0 /\ Room(target[k].game)))'
    BY <1>2, <2>2 DEF Room
  <2> QED BY <1>4, <2>4, <2>5 DEF TargetStands
<1>7. \A j \in Conns : /\ thread'[j] = "ended" <=> thread[j] = "ended"
                       /\ thread'[j] = "none" <=> thread[j] = "none"
  BY <1>2, <1>3
<1> QED BY <1>2, <1>5, <1>6, <1>7, SameSeats DEF ThreadInv

LEMMA ServeThreads ==
  ASSUME TypeOK, ThreadInv, NEW k \in Conns, Serve(k)
  PROVE  ThreadInv'
<1>1. /\ thread[k] = "serving" /\ thread' = [thread EXCEPT ![k] = "reading"]
      /\ cmd' = [cmd EXCEPT ![k] = NoCmd] /\ UNCHANGED fd
  BY DEF Serve
<1>2. /\ thread'[k] = "reading"
      /\ \A j \in Conns : j # k => thread'[j] = thread[j] /\ cmd'[j] = cmd[j]
  BY <1>1 DEF TypeOK, ThreadTypeOK
<1>3. \A j \in Conns : thread'[j] # "serving"
  BY <1>1, <1>2 DEF ThreadInv, MutexHeldOnce
<1>4. CommandIsKnown' /\ MutexHeldOnce' /\ TargetStands'
  BY <1>2, <1>3 DEF ThreadInv, CommandIsKnown, MutexHeldOnce, TargetStands, Busy
<1>5. AcceptedInOrder' /\ FdGiven' /\ FdFreed'
  BY <1>1, <1>2 DEF ThreadInv, AcceptedInOrder, FdGiven, FdFreed
<1>6. SeatsAreTaken' /\ JudgedTruly'
  BY ServeSeats, ServeJudges DEF ThreadInv
<1> QED BY <1>4, <1>5, <1>6 DEF ThreadInv

LEMMA EndThreads ==
  ASSUME TypeOK, ThreadInv, NEW k \in Conns, ThreadEnds(k)
  PROVE  ThreadInv'
<1>1. /\ thread[k] \in {"reading", "leaving"} /\ thread' = [thread EXCEPT ![k] = "ended"]
      /\ joined' = [joined EXCEPT ![k] = {}] /\ judged' = [judged EXCEPT ![k] = NotJudged]
      /\ UNCHANGED <<games, fd, cmd, target>>
  BY DEF ThreadEnds
<1>2. /\ thread'[k] = "ended" /\ judged'[k] = NotJudged
      /\ \A j \in Conns : j # k =>
           thread'[j] = thread[j] /\ joined'[j] = joined[j] /\ judged'[j] = judged[j]
  BY <1>1 DEF TypeOK, ThreadTypeOK, GamesTypeOK
<1>3. CommandIsKnown' /\ MutexHeldOnce'
  BY <1>1, <1>2 DEF ThreadInv, CommandIsKnown, MutexHeldOnce, Busy
<1>4. TargetStands'
  <2> SUFFICES ASSUME NEW j \in Conns, thread'[j] = "serving"
               PROVE  /\ StopsAt(target[j].game, Candidates(j))'
                      /\ (target[j].room <=> (target[j].game # 0 /\ Room(target[j].game)))'
    BY DEF TargetStands
  <2> QED BY <1>1, <1>2, TargetStays DEF ThreadInv
<1>5. AcceptedInOrder' /\ FdGiven' /\ FdFreed'
  BY <1>1, <1>2 DEF ThreadInv, AcceptedInOrder, FdGiven, FdFreed
<1>6. SeatsAreTaken'
  <2> SUFFICES ASSUME NEW g \in Games, NEW i \in DOMAIN games[g].clients
               PROVE  \E j \in Conns : /\ fd[j] = games[g].clients[i]
                                       /\ thread'[j] = "ended" \/ g \in joined'[j]
    BY <1>1 DEF SeatsAreTaken, Games
  <2> QED BY <1>2 DEF ThreadInv, SeatsAreTaken
<1>7. JudgedTruly'
  <2> SUFFICES ASSUME NEW j \in Conns, judged'[j].game # 0
               PROVE  /\ thread'[j] # "ended" /\ fd[j] # 0
                      /\ Seated(judged[j].game, j)'
                      /\ (judged'[j].bulls = 4) <=>
                           (judged'[j].guess = games[judged'[j].game].word)
    BY <1>1 DEF JudgedTruly
  <2>1. j # k
    BY <1>2 DEF NotJudged
  <2> QED BY <1>1, <1>2, <2>1 DEF ThreadInv, JudgedTruly, Seated
<1> QED BY <1>3, <1>4, <1>5, <1>6, <1>7 DEF ThreadInv

(* Types of what the server writes and works on.                            *)

LEMMA WriteType ==
  ASSUME ClientTypeOK, ThreadTypeOK, NEW k \in Conns, NEW n \in 1..MaxLines,
         Write(k, <<n>>)
  PROVE  serverUp' \in BOOLEAN /\ reset' \subseteq Conns /\ down' \in [Conns -> Seq(1..MaxLines)]
<1>1. serverUp' \in BOOLEAN
  BY DEF Write, FatalWrite
<1>2. reset' \subseteq Conns
  BY DEF Write, ThreadTypeOK
<1>3. down[k] \o <<n>> \in Seq(1..MaxLines)
  BY ShortSeq, ConcatProperties DEF ClientTypeOK
<1>4. down' \in [Conns -> Seq(1..MaxLines)]
  BY <1>3 DEF Write, ClientTypeOK
<1> QED BY <1>1, <1>2, <1>4

LEMMA ServerType ==
  ASSUME TypeOK, TypedWithinLines, ThreadInv, NEW k \in Conns, ServerStep(k)
  PROVE  TypeOK' /\ TypedWithinLines'
<1>1. ClientTypeOK /\ ThreadTypeOK /\ GamesTypeOK
  BY DEF TypeOK
<1>2. UNCHANGED clientVars
  BY DEF ServerStep, Accept, Read, Lock, Serve, ThreadEnds
<1>3. TypedWithinLines'
  BY <1>2 DEF TypedWithinLines, clientVars
<1>4. CASE Accept(k)
  <2>1. ThreadTypeOK'
    BY <1>1, <1>4 DEF Accept, ThreadTypeOK
  <2>2. GamesTypeOK'
    BY <1>1, <1>4 DEF Accept, GamesTypeOK, Games
  <2> QED BY <1>1, <1>2, <1>3, <1>4, <2>1, <2>2 DEF Accept, ClientTypeOK, clientVars, TypeOK
<1>5. CASE Read(k)
  <2>1. PICK i \in 1..Len(up[k]), n \in 1..MaxLines :
          /\ ReadsUpTo(k, i)
          /\ \/ ThrowsOut(k)
             \/ LeavesLoop(k)
             \/ AnswersAtOnce(k, n)
             \/ \E l \in Lines : GoesToLock(k, l, n)
    BY <1>1, <1>5, ReadCases
  <2>2. up' \in [Conns -> Seq(Pieces)]
    <3>1. up[k] \in Seq(Pieces)
      BY <1>1 DEF ClientTypeOK
    <3>2. SubSeq(up[k], i + 1, Len(up[k])) \in Seq(Pieces)
      BY <3>1, RestOfSeq
    <3> QED BY <1>1, <2>1, <3>2 DEF ReadsUpTo, ClientTypeOK
  <2>3. serverUp' \in BOOLEAN /\ reset' \subseteq Conns /\ down' \in [Conns -> Seq(1..MaxLines)]
    <3>1. CASE ThrowsOut(k)
      BY <1>1, <3>1 DEF ThrowsOut, ThreadTypeOK, ClientTypeOK
    <3>2. CASE AnswersAtOnce(k, n)
      BY <1>1, <3>2, WriteType DEF AnswersAtOnce
    <3>3. ASSUME NEW l \in Lines, GoesToLock(k, l, n)
          PROVE  UNCHANGED <<serverUp, reset, down>>
      BY <3>3 DEF GoesToLock
    <3>4. LeavesLoop(k) => UNCHANGED <<serverUp, reset, down>>
      BY DEF LeavesLoop
    <3> QED BY <1>1, <2>1, <3>1, <3>2, <3>3, <3>4 DEF ThreadTypeOK, ClientTypeOK
  <2>4. /\ thread' \in [Conns -> {"none", "reading", "locking", "serving", "leaving", "ended"}]
        /\ cmd' \in [Conns -> [line : Lines, n : 0..MaxLines]]
    <3>1. CASE UNCHANGED <<thread, cmd>>
      BY <1>1, <3>1 DEF ThreadTypeOK
    <3>2. ASSUME NEW l \in Lines, GoesToLock(k, l, n)
          PROVE  /\ thread' \in [Conns -> {"none", "reading", "locking", "serving", "leaving", "ended"}]
                 /\ cmd' \in [Conns -> [line : Lines, n : 0..MaxLines]]
      BY <1>1, <3>2, GameAssumption DEF GoesToLock, ThreadTypeOK
    <3>3. CASE LeavesLoop(k)
      BY <1>1, <3>3 DEF LeavesLoop, ThreadTypeOK
    <3> QED BY <2>1, <3>1, <3>2, <3>3 DEF ThrowsOut, AnswersAtOnce
  <2>5. ThreadTypeOK'
    BY <1>1, <1>5, <2>3, <2>4 DEF Read, ThreadTypeOK
  <2>6. ClientTypeOK'
    BY <1>1, <1>2, <2>2, <2>3 DEF ClientTypeOK, clientVars
  <2>7. GamesTypeOK'
    BY <1>1, <1>5 DEF Read, GamesTypeOK, Games
  <2> QED BY <1>3, <2>5, <2>6, <2>7 DEF TypeOK
<1>6. CASE Lock(k)
  <2>1. PICK g \in 0..Len(games) :
          target' = [target EXCEPT ![k] = [game |-> g, room |-> g # 0 /\ Room(g)]]
    BY <1>6 DEF Lock
  <2>2. target' \in [Conns -> [game : 0..Len(games), room : BOOLEAN]]
    BY <1>1, <2>1 DEF GamesTypeOK, Room
  <2>3. GamesTypeOK'
    BY <1>1, <1>6, <2>2 DEF Lock, GamesTypeOK, Games
  <2>4. ThreadTypeOK'
    BY <1>1, <1>6 DEF Lock, ThreadTypeOK
  <2> QED BY <1>1, <1>2, <1>3, <1>6, <2>3, <2>4 DEF Lock, ClientTypeOK, clientVars, TypeOK
<1>7. CASE Serve(k)
  <2>1. GamesTypeOK'
    BY <1>7, ServeGamesType DEF ThreadInv
  <2>2. Write(k, <<cmd[k].n>>) /\ cmd[k].n \in 1..MaxLines
    BY <1>1, <1>7, CommandFacts DEF Serve, Reply, ThreadInv, Busy
  <2>3. serverUp' \in BOOLEAN /\ reset' \subseteq Conns /\ down' \in [Conns -> Seq(1..MaxLines)]
    BY <1>1, <2>2, WriteType
  <2>4. NoCmd \in [line : Lines, n : 0..MaxLines]
    BY OtherIsALine, GameAssumption DEF NoCmd
  <2>5. ThreadTypeOK'
    BY <1>1, <1>7, <2>3, <2>4 DEF Serve, ThreadTypeOK
  <2>6. ClientTypeOK'
    BY <1>1, <1>2, <1>7, <2>3 DEF Serve, ClientTypeOK, clientVars
  <2> QED BY <1>3, <2>1, <2>5, <2>6 DEF TypeOK
<1>8. CASE ThreadEnds(k)
  <2>1. ThreadTypeOK'
    BY <1>1, <1>8 DEF ThreadEnds, ThreadTypeOK
  <2>2. NotJudged \in [game : 0..Len(games), guess : Guesses \cup {<<>>},
                       bulls : 0..4, cows : 0..4]
    BY <1>1, LenProperties DEF NotJudged, GamesTypeOK
  <2>3. GamesTypeOK'
    BY <1>1, <1>8, <2>2 DEF ThreadEnds, GamesTypeOK, Games
  <2> QED BY <1>1, <1>2, <1>3, <1>8, <2>1, <2>3 DEF ThreadEnds, ClientTypeOK, clientVars, TypeOK
<1> QED BY <1>4, <1>5, <1>6, <1>7, <1>8 DEF ServerStep

(* The dialog of one client with its thread.                                *)

LEMMA ConcatParts ==
  ASSUME NEW S, NEW s \in Seq(S), NEW t \in Seq(S), NEW i \in DOMAIN (s \o t)
  PROVE  \/ i \in DOMAIN s /\ (s \o t)[i] = s[i]
         \/ \E j \in DOMAIN t : (s \o t)[i] = t[j]
<1>1. DOMAIN s = 1..Len(s) /\ DOMAIN t = 1..Len(t) /\ Len(s) \in Nat /\ Len(t) \in Nat
  BY LenProperties
<1>2. /\ s \o t \in Seq(S) /\ Len(s \o t) = Len(s) + Len(t)
      /\ \A j \in 1..(Len(s) + Len(t)) :
           (s \o t)[j] = IF j <= Len(s) THEN s[j] ELSE t[j - Len(s)]
  BY ConcatProperties
<1>3. i \in 1..(Len(s) + Len(t))
  BY <1>1, <1>2, LenProperties
<1>4. CASE i <= Len(s)
  BY <1>1, <1>2, <1>3, <1>4
<1>5. CASE ~(i <= Len(s))
  <2>1. i - Len(s) \in DOMAIN t
    BY <1>1, <1>3, <1>5
  <2>2. (s \o t)[i] = t[i - Len(s)]
    BY <1>2, <1>3, <1>5
  <2> QED BY <2>1, <2>2
<1> QED BY <1>4, <1>5

LEMMA NoneOrSome ==
  ASSUME NEW S, NEW s \in Seq(S)
  PROVE  /\ Len(s) \in Nat /\ DOMAIN s = 1..Len(s)
         /\ Len(s) = 0 <=> s = <<>>
         /\ <<>> \o s = s
BY EmptySeq, LenProperties, ConcatEmptySeq

LEMMA SameDialog ==
  ASSUME NEW j \in Conns, Dialog(j),
         client'[j] = client[j], up'[j] = up[j], down'[j] = down[j],
         thread'[j] = thread[j], cmd'[j] = cmd[j], typed'[j] = typed[j],
         shown'[j] = shown[j], slips'[j] = slips[j], j \in reset' <=> j \in reset
  PROVE  Dialog(j)'
BY DEF Dialog, ResetIsClosed, OneLineUnderWay, LastLineUnderWay, BareIsTyped, Idle, Busy

LEMMA InitDialog == Init => DialogInv
<1> SUFFICES ASSUME Init PROVE DialogInv
  OBVIOUS
<1>1. ASSUME NEW k \in Conns PROVE Dialog(k)
  <2>1. /\ up[k] = <<>> /\ down[k] = <<>> /\ thread[k] = "none" /\ client[k] = "off"
        /\ shown[k] = 0 /\ typed[k] = 0 /\ reset = {} /\ Len(<<>>) = 0
    BY DEF Init
  <2> QED BY <2>1 DEF Dialog, ResetIsClosed, OneLineUnderWay, LastLineUnderWay,
                      BareIsTyped, Idle, Busy
<1> QED BY <1>1 DEF Init, DialogInv, ServerEndsForACause

(* What a line under way leaves of the dialog.                              *)
LEMMA TypedDialog ==
  ASSUME TypeOK, NEW k \in Conns, Dialog(k),
         NEW pieces \in Seq(Pieces), NEW slip \in SUBSET {"long", "blank", "bare"},
         Typed(k, pieces, slip),
         "long" \notin slip => Len(pieces) <= 1,
         slip \cap {"long", "blank"} = {} => \A i \in DOMAIN pieces : pieces[i].n = typed[k] + 1,
         \A i \in DOMAIN pieces : pieces[i].line.op = "bare" => "bare" \in slip
  PROVE  Dialog(k)'
<1>1. /\ client[k] = "typing" /\ client'[k] = "reading"
      /\ typed'[k] = typed[k] + 1 /\ up'[k] = up[k] \o pieces
      /\ slips'[k] = slips[k] \cup slip
      /\ UNCHANGED <<thread, cmd, reset, down>>
  BY DEF Typed, serverVars, TypeOK, ClientTypeOK
<1>2. up[k] \in Seq(Pieces)
  BY DEF TypeOK, ClientTypeOK
<1>3. ResetIsClosed(k)'
  BY <1>1 DEF Dialog, ResetIsClosed
<1>4. "long" \notin slips[k] => /\ up'[k] = pieces /\ down'[k] = <<>> /\ ~Busy(k)
                                /\ k \notin reset
  BY <1>1, <1>2, NoneOrSome DEF Dialog, ResetIsClosed, OneLineUnderWay, Idle
<1>5. OneLineUnderWay(k)'
  <2>1. Len(<<>>) = 0
    OBVIOUS
  <2> QED BY <1>1, <1>4, <2>1 DEF OneLineUnderWay, Idle, Busy
<1>6. LastLineUnderWay(k)'
  <2>1. DOMAIN <<>> = {}
    OBVIOUS
  <2> QED BY <1>1, <1>4, <2>1 DEF LastLineUnderWay, Busy
<1>7. BareIsTyped(k)'
  <2> SUFFICES ASSUME NEW i \in DOMAIN up'[k], up'[k][i].line.op = "bare"
               PROVE  "bare" \in slips'[k]
    BY DEF BareIsTyped
  <2>1. \/ i \in DOMAIN up[k] /\ up'[k][i] = up[k][i]
        \/ \E j \in DOMAIN pieces : up'[k][i] = pieces[j]
    BY <1>1, <1>2, ConcatParts
  <2> QED BY <1>1, <2>1 DEF Dialog, BareIsTyped
<1> QED BY <1>3, <1>5, <1>6, <1>7 DEF Dialog

LEMMA UserDialog ==
  ASSUME TypeOK, TypedWithinLines, NEW k \in Conns, Dialog(k),
         ClientStep(k) \/ UserStep(k)
  PROVE  Dialog(k)'
<1>1. /\ ClientTypeOK /\ up[k] \in Seq(Pieces) /\ down[k] \in Seq(1..MaxLines)
      /\ client[k] \in {"off", "typing", "reading", "closed"}
  BY DEF TypeOK, ClientTypeOK
<1>2. UNCHANGED serverVars
  BY DEF ClientStep, UserStep, Connect, Type, TypeLong, TypeBlank, Typed, ReadAnswer,
         ReadEnd, Leave
<1>3. CASE Connect(k)
  <2>1. client[k] = "off" /\ client'[k] = "typing" /\ UNCHANGED <<up, down, typed, shown, slips>>
    BY <1>1, <1>3 DEF Connect, ClientTypeOK
  <2> QED BY <1>2, <2>1 DEF Dialog, ResetIsClosed, OneLineUnderWay, LastLineUnderWay,
                           BareIsTyped, Idle, Busy, serverVars
<1>4. CASE Type(k)
  <2>1. PICK l \in Lines : Typed(k, <<Piece(k, l, FALSE)>>, BareSlip(l))
    BY <1>4 DEF Type
  <2> DEFINE p == Piece(k, l, FALSE)
             slip == BareSlip(l)
  <2>2. p \in Pieces
    BY <1>1, <2>1, PieceType DEF Typed, Commands
  <2>3. p.n = typed[k] + 1 /\ p.line = l
    BY DEF Piece
  <2>4. /\ slip \in SUBSET {"long", "blank", "bare"} /\ "long" \notin slip
        /\ l.op = "bare" => "bare" \in slip
    BY DEF BareSlip
  <2>5. Typed(k, <<p>>, slip)
    BY <2>1
  <2> HIDE DEF p
  <2>6. <<p>> \in Seq(Pieces) /\ Len(<<p>>) = 1 /\ \A i \in DOMAIN <<p>> : <<p>>[i] = p
    BY <2>2, ShortSeq
  <2>7. /\ Len(<<p>>) <= 1
        /\ \A i \in DOMAIN <<p>> : <<p>>[i].n = typed[k] + 1
        /\ \A i \in DOMAIN <<p>> : <<p>>[i].line.op = "bare" => "bare" \in slip
    BY <2>3, <2>4, <2>6
  <2> HIDE DEF slip
  <2> QED BY <2>4, <2>5, <2>6, <2>7, TypedDialog
<1>5. CASE TypeLong(k)
  <2>1. PICK l \in LongLines :
          Typed(k, <<Piece(k, l.head, TRUE), Piece(k, l.rest, FALSE)>>,
                {"long"} \cup BareSlip(l.rest))
    BY <1>5 DEF TypeLong
  <2> DEFINE p == Piece(k, l.head, TRUE)
             q == Piece(k, l.rest, FALSE)
             slip == {"long"} \cup BareSlip(l.rest)
  <2>2. p \in Pieces /\ q \in Pieces
    BY <1>1, <2>1, PieceType, LongLineTypes DEF Typed
  <2>3. p.line = l.head /\ q.line = l.rest
    BY DEF Piece
  <2>4. /\ slip \in SUBSET {"long", "blank", "bare"} /\ "long" \in slip
        /\ l.rest.op = "bare" => "bare" \in slip
    BY DEF BareSlip
  <2>5. Typed(k, <<p, q>>, slip)
    BY <2>1
  <2> HIDE DEF p, q
  <2>6. <<p, q>> \in Seq(Pieces) /\ \A i \in DOMAIN <<p, q>> : <<p, q>>[i] \in {p, q}
    BY <2>2, ShortSeq
  <2>7. \A i \in DOMAIN <<p, q>> : <<p, q>>[i].line.op = "bare" => "bare" \in slip
    <3>1. p.line.op # "bare"
      BY <2>3, LongLineTypes
    <3> QED BY <2>3, <2>4, <2>6, <3>1
  <2> HIDE DEF slip
  <2> QED BY <2>4, <2>5, <2>6, <2>7, TypedDialog
<1>6. CASE TypeBlank(k)
  <2>1. Typed(k, <<>>, {"blank"}) /\ <<>> \in Seq(Pieces)
    BY <1>6 DEF TypeBlank
  <2>2. Len(<<>>) <= 1 /\ DOMAIN <<>> = {}
    OBVIOUS
  <2> QED BY <2>1, <2>2, TypedDialog
<1>7. CASE ReadAnswer(k)
  <2>1. PICK i \in 1..Len(down[k]) :
          /\ shown'[k] = down[k][i]
          /\ down'[k] = SubSeq(down[k], i + 1, Len(down[k]))
    BY <1>1, <1>7 DEF ReadAnswer, ClientTypeOK
  <2>2. /\ client[k] = "reading" /\ client'[k] = "typing"
        /\ UNCHANGED <<up, typed, slips, thread, cmd, reset>>
    BY <1>1, <1>2, <1>7 DEF ReadAnswer, ClientTypeOK, serverVars
  <2>3. /\ SubSeq(down[k], i + 1, Len(down[k])) \in Seq(1..MaxLines)
        /\ Len(SubSeq(down[k], i + 1, Len(down[k]))) = Len(down[k]) - i
        /\ Len(down[k]) \in Nat /\ DOMAIN down[k] = 1..Len(down[k])
    BY <1>1, <2>1, RestOfSeq, NoneOrSome
  <2>4. "long" \notin slips[k] => i = 1 /\ down'[k] = <<>> /\ Len(down'[k]) = 0 /\ Idle(k)
    <3>1. ASSUME "long" \notin slips[k] PROVE Len(down[k]) <= 1
      BY <3>1 DEF Dialog, OneLineUnderWay
    <3>2. ASSUME "long" \notin slips[k] PROVE down[k] # <<>>
      BY <1>1, <2>3, NoneOrSome
    <3>3. ASSUME "long" \notin slips[k] PROVE i = 1 /\ Len(down'[k]) = 0
      BY <2>1, <2>3, <3>1, <3>3
    <3>4. Len(down'[k]) = 0 => down'[k] = <<>>
      BY <2>1, <2>3, NoneOrSome
    <3> QED BY <3>2, <3>3, <3>4 DEF Dialog, OneLineUnderWay
  <2>5. ResetIsClosed(k)' /\ BareIsTyped(k)'
    BY <2>2 DEF Dialog, ResetIsClosed, BareIsTyped
  <2>6. OneLineUnderWay(k)'
    BY <2>2, <2>4 DEF Dialog, OneLineUnderWay, Idle, Busy
  <2>7. LastLineUnderWay(k)'
    BY <2>1, <2>2, <2>3, <2>4 DEF Dialog, LastLineUnderWay
  <2> QED BY <2>5, <2>6, <2>7 DEF Dialog
<1>8. CASE ReadEnd(k)
  <2>1. client'[k] = "closed" /\ UNCHANGED <<up, down, typed, shown, slips>>
    BY <1>1, <1>8 DEF ReadEnd, ClientTypeOK
  <2> QED BY <1>2, <2>1 DEF Dialog, ResetIsClosed, OneLineUnderWay, LastLineUnderWay,
                           BareIsTyped, Idle, Busy, serverVars
<1>9. CASE Leave(k)
  <2>1. /\ client'[k] = "closed" /\ down'[k] = <<>> /\ UNCHANGED <<up, slips>>
        /\ Len(<<>>) = 0
    BY <1>1, <1>9 DEF Leave, ClientTypeOK
  <2> QED BY <1>2, <2>1 DEF Dialog, ResetIsClosed, OneLineUnderWay, LastLineUnderWay,
                           BareIsTyped, Idle, Busy, serverVars
<1> QED BY <1>3, <1>4, <1>5, <1>6, <1>7, <1>8, <1>9 DEF ClientStep, UserStep

(* An answer ends what was under way, and a second one to a closed client   *)
(* needs a long line.                                                       *)
LEMMA WriteDialog ==
  ASSUME TypeOK, NEW k \in Conns, Dialog(k), ~Idle(k),
         NEW n \in 1..MaxLines, Write(k, <<n>>), UNCHANGED clientVars,
         thread'[k] \notin {"locking", "serving"},
         BareIsTyped(k)', "long" \notin slips[k] => up'[k] = <<>>,
         slips[k] \cap {"long", "blank"} = {} /\ client[k] = "reading" => n = typed[k]
  PROVE  /\ Dialog(k)'
         /\ serverUp' = FALSE => "long" \in slips[k] /\ client[k] = "closed"
<1>1. /\ down[k] \in Seq(1..MaxLines) /\ DOMAIN <<>> = {} /\ Len(<<>>) = 0
      /\ down \in [Conns -> Seq(1..MaxLines)] /\ ~Busy(k)'
  BY DEF TypeOK, ClientTypeOK, Busy
<1>2. "long" \notin slips[k] =>
        down[k] = <<>> /\ k \notin reset /\ client[k] \notin {"off", "typing"}
  BY DEF Dialog, OneLineUnderWay
<1>3. serverUp' = FALSE => "long" \in slips[k] /\ client[k] = "closed"
  BY <1>2 DEF Write, FatalWrite
<1>4. CASE client[k] = "closed"
  <2>1. k \in reset' /\ down'[k] = down[k] /\ client'[k] = "closed" /\ UNCHANGED slips
    BY <1>4 DEF Write, clientVars
  <2>2. OneLineUnderWay(k)'
    BY <1>1, <1>2, <2>1 DEF OneLineUnderWay, Idle
  <2>3. ResetIsClosed(k)' /\ LastLineUnderWay(k)'
    BY <2>1 DEF ResetIsClosed, LastLineUnderWay
  <2> QED BY <1>3, <2>2, <2>3 DEF Dialog
<1>5. CASE client[k] # "closed"
  <2>1. UNCHANGED <<reset, client, slips, typed, shown>> /\ down'[k] = down[k] \o <<n>>
    BY <1>1, <1>5 DEF Write, clientVars
  <2>2. "long" \notin slips[k] => down'[k] = <<n>>
    <3>1. <<n>> \in Seq(1..MaxLines)
      BY ShortSeq
    <3> QED BY <1>2, <2>1, <3>1, NoneOrSome
  <2>3. Len(<<n>>) = 1 /\ \A i \in DOMAIN <<n>> : <<n>>[i] = n
    BY ShortSeq
  <2>4. ResetIsClosed(k)'
    BY <2>1 DEF Dialog, ResetIsClosed
  <2>5. OneLineUnderWay(k)'
    BY <1>1, <1>2, <2>1, <2>2, <2>3 DEF OneLineUnderWay, Idle
  <2>6. LastLineUnderWay(k)'
    BY <1>1, <1>2, <2>1, <2>2, <2>3 DEF LastLineUnderWay
  <2> QED BY <1>3, <2>4, <2>5, <2>6 DEF Dialog
<1> QED BY <1>4, <1>5

Cause(k) == "bare" \in slips[k] \/ ("long" \in slips[k] /\ client[k] = "closed")

LEMMA ReadDialog ==
  ASSUME TypeOK, NEW k \in Conns, Dialog(k), Read(k)
  PROVE  Dialog(k)' /\ (serverUp' = FALSE => Cause(k))
<1>1. /\ serverUp = TRUE /\ thread[k] = "reading" /\ up[k] # <<>> /\ UNCHANGED clientVars
      /\ ~Idle(k) /\ ~Busy(k)
  BY DEF Read, Idle, Busy, TypeOK, ThreadTypeOK
<1>2. ClientTypeOK /\ ThreadTypeOK /\ up[k] \in Seq(Pieces)
  BY DEF TypeOK, ClientTypeOK
<1>3. PICK i \in 1..Len(up[k]), n \in 1..MaxLines :
        /\ n = up[k][i].n /\ ReadsUpTo(k, i)
        /\ \/ ThrowsOut(k)
           \/ LeavesLoop(k)
           \/ AnswersAtOnce(k, n)
           \/ \E l \in Lines : l.op \in FourOps /\ GoesToLock(k, l, n)
  BY <1>2, ReadCases
<1> DEFINE rest == SubSeq(up[k], i + 1, Len(up[k]))
<1>4. /\ rest \in Seq(Pieces) /\ Len(rest) = Len(up[k]) - i /\ Len(up[k]) \in Nat
      /\ \A j \in 1..(Len(up[k]) - i) : rest[j] = up[k][j + i]
      /\ DOMAIN up[k] = 1..Len(up[k]) /\ DOMAIN rest = 1..Len(rest)
  BY <1>2, RestOfSeq, NoneOrSome
<1>5. up'[k] = rest
  BY <1>2, <1>3 DEF ReadsUpTo, ClientTypeOK
<1> HIDE DEF rest
<1>6. BareIsTyped(k)'
  <2> SUFFICES ASSUME NEW j \in DOMAIN rest, rest[j].line.op = "bare"
               PROVE  "bare" \in slips[k]
    BY <1>1, <1>5 DEF BareIsTyped, clientVars
  <2>1. j + i \in DOMAIN up[k] /\ rest[j] = up[k][j + i]
    BY <1>4
  <2> QED BY <2>1 DEF Dialog, BareIsTyped
<1>7. /\ UNCHANGED <<client, typed, shown, slips>>
      /\ Len(<<>>) = 0 /\ DOMAIN <<>> = {}
  BY <1>1 DEF clientVars
<1>8. "long" \notin slips[k] =>
        /\ rest = <<>> /\ down[k] = <<>> /\ k \notin reset
        /\ client[k] \notin {"off", "typing"}
  <2>1. Len(rest) = 0 => rest = <<>>
    BY <1>4, NoneOrSome
  <2> QED BY <1>1, <1>4, <2>1 DEF Dialog, OneLineUnderWay
<1>9. slips[k] \cap {"long", "blank"} = {} /\ client[k] = "reading" => n = typed[k]
  BY <1>3, <1>4 DEF Dialog, LastLineUnderWay
<1>10. CASE ThrowsOut(k)
  <2>1. up[k][1].line.op = "bare" /\ UNCHANGED <<thread, cmd, reset, down>>
    BY <1>10 DEF ThrowsOut
  <2>2. Cause(k)
    BY <1>3, <1>4, <2>1 DEF Dialog, BareIsTyped, Cause
  <2>3. ResetIsClosed(k)'
    BY <1>7, <2>1 DEF Dialog, ResetIsClosed
  <2>4. OneLineUnderWay(k)'
    BY <1>1, <1>5, <1>7, <1>8, <2>1 DEF OneLineUnderWay, Idle, Busy
  <2>5. LastLineUnderWay(k)'
    BY <1>1, <1>5, <1>7, <1>8, <2>1 DEF Dialog, LastLineUnderWay, Busy
  <2> QED BY <1>6, <2>2, <2>3, <2>4, <2>5 DEF Dialog
<1>11. CASE AnswersAtOnce(k, n)
  <2>1. Write(k, <<n>>) /\ thread'[k] = "reading"
    BY <1>1, <1>11 DEF AnswersAtOnce
  <2> QED BY <1>1, <1>5, <1>6, <1>8, <1>9, <2>1, WriteDialog DEF Cause
<1>12. ASSUME NEW l \in Lines, GoesToLock(k, l, n)
       PROVE  Dialog(k)' /\ (serverUp' = FALSE => Cause(k))
  <2>1. /\ thread'[k] = "locking" /\ cmd'[k].n = n /\ UNCHANGED <<serverUp, reset, down>>
    BY <1>2, <1>12 DEF GoesToLock, ThreadTypeOK
  <2>2. ResetIsClosed(k)'
    BY <1>7, <2>1 DEF Dialog, ResetIsClosed
  <2>3. OneLineUnderWay(k)'
    BY <1>1, <1>5, <1>7, <1>8, <2>1 DEF OneLineUnderWay, Idle, Busy
  <2>4. LastLineUnderWay(k)'
    BY <1>1, <1>5, <1>7, <1>8, <1>9, <2>1 DEF LastLineUnderWay, Busy
  <2> QED BY <1>1, <1>6, <2>1, <2>2, <2>3, <2>4 DEF Dialog
<1>13. CASE LeavesLoop(k)
  <2>1. thread'[k] = "leaving" /\ UNCHANGED <<serverUp, cmd, reset, down>>
    BY <1>2, <1>13 DEF LeavesLoop, ThreadTypeOK
  <2>2. ResetIsClosed(k)'
    BY <1>7, <2>1 DEF Dialog, ResetIsClosed
  <2>3. OneLineUnderWay(k)'
    BY <1>1, <1>5, <1>7, <1>8, <2>1 DEF OneLineUnderWay, Idle, Busy
  <2>4. LastLineUnderWay(k)'
    BY <1>1, <1>5, <1>7, <1>8, <2>1 DEF Dialog, LastLineUnderWay, Busy
  <2> QED BY <1>1, <1>6, <2>1, <2>2, <2>3, <2>4 DEF Dialog
<1> QED BY <1>3, <1>10, <1>11, <1>12, <1>13

LEMMA ServeDialog ==
  ASSUME TypeOK, CommandIsKnown, FdGiven, NEW k \in Conns, Dialog(k), Serve(k)
  PROVE  Dialog(k)' /\ (serverUp' = FALSE => Cause(k))
<1>1. /\ thread[k] = "serving" /\ thread' = [thread EXCEPT ![k] = "reading"]
      /\ UNCHANGED <<clientVars, up>> /\ Write(k, <<cmd[k].n>>)
  BY DEF Serve, Reply
<1>2. Busy(k) /\ ~Idle(k) /\ thread'[k] = "reading"
  BY <1>1 DEF Busy, Idle, TypeOK, ThreadTypeOK
<1>3. cmd[k].n \in 1..MaxLines
  BY <1>2, CommandFacts DEF TypeOK
<1>4. BareIsTyped(k)' /\ ("long" \notin slips[k] => up'[k] = <<>>)
  BY <1>1, <1>2 DEF Dialog, OneLineUnderWay, BareIsTyped, clientVars
<1>5. slips[k] \cap {"long", "blank"} = {} /\ client[k] = "reading" => cmd[k].n = typed[k]
  BY <1>2 DEF Dialog, LastLineUnderWay
<1> QED BY <1>1, <1>2, <1>3, <1>4, <1>5, WriteDialog DEF Cause

LEMMA ServerDialog ==
  ASSUME TypeOK, CommandIsKnown, FdGiven, NEW k \in Conns, Dialog(k), ServerStep(k)
  PROVE  Dialog(k)' /\ (serverUp' = FALSE => Cause(k))
<1>1. CASE Accept(k) \/ Lock(k) \/ ThreadEnds(k)
  <2>1. /\ serverUp = TRUE
        /\ UNCHANGED <<serverUp, client, up, down, cmd, typed, shown, slips>>
    BY <1>1 DEF Accept, Lock, ThreadEnds, clientVars, TypeOK, ThreadTypeOK
  <2>2. Busy(k)' = Busy(k)
    BY <1>1 DEF Accept, Lock, ThreadEnds, Busy, TypeOK, ThreadTypeOK
  <2>3. k \in reset' => k \in reset
    BY <1>1 DEF Accept, Lock, ThreadEnds
  <2>4. ResetIsClosed(k)' /\ BareIsTyped(k)'
    BY <2>1, <2>3 DEF Dialog, ResetIsClosed, BareIsTyped
  <2>5. OneLineUnderWay(k)'
    BY <2>1, <2>2, <2>3 DEF Dialog, OneLineUnderWay, Idle
  <2>6. LastLineUnderWay(k)'
    BY <2>1, <2>2 DEF Dialog, LastLineUnderWay
  <2> QED BY <2>1, <2>4, <2>5, <2>6 DEF Dialog
<1>2. CASE Read(k)
  BY <1>2, ReadDialog
<1>3. CASE Serve(k)
  BY <1>3, ServeDialog
<1> QED BY <1>1, <1>2, <1>3 DEF ServerStep

(* The other dialogs go on.                                                 *)
LEMMA OtherDialogs ==
  ASSUME TypeOK, NEW k \in Conns, ServerStep(k) \/ ClientStep(k) \/ UserStep(k),
         NEW j \in Conns, j # k, Dialog(j)
  PROVE  Dialog(j)'
<1>1. CASE ClientStep(k) \/ UserStep(k)
  <2>1. /\ client'[j] = client[j] /\ up'[j] = up[j] /\ down'[j] = down[j]
        /\ typed'[j] = typed[j] /\ shown'[j] = shown[j] /\ slips'[j] = slips[j]
        /\ UNCHANGED <<thread, cmd, reset>>
    BY <1>1 DEF ClientStep, UserStep, Connect, Type, TypeLong, TypeBlank, Typed, ReadAnswer,
                ReadEnd, Leave, TypeOK, ClientTypeOK, serverVars
  <2> QED BY <2>1, SameDialog
<1>2. CASE Accept(k) \/ Lock(k) \/ ThreadEnds(k)
  <2>1. /\ UNCHANGED <<clientVars, up, down, cmd>>
        /\ thread'[j] = thread[j] /\ (j \in reset' <=> j \in reset)
    BY <1>2 DEF Accept, Lock, ThreadEnds, TypeOK, ThreadTypeOK
  <2> QED BY <2>1, SameDialog DEF clientVars
<1>3. ASSUME NEW n \in 1..MaxLines, Write(k, <<n>>)
      PROVE  down'[j] = down[j] /\ (j \in reset' <=> j \in reset)
  BY <1>3 DEF Write, TypeOK, ClientTypeOK
<1>4. CASE Read(k)
  <2>1. PICK i \in 1..Len(up[k]), n \in 1..MaxLines :
          /\ ReadsUpTo(k, i)
          /\ \/ ThrowsOut(k)
             \/ LeavesLoop(k)
             \/ AnswersAtOnce(k, n)
             \/ \E l \in Lines : GoesToLock(k, l, n)
    BY <1>4, ReadCases DEF TypeOK
  <2>2. up'[j] = up[j] /\ UNCHANGED clientVars
    BY <1>4, <2>1 DEF ReadsUpTo, Read, TypeOK, ClientTypeOK
  <2>3. CASE ThrowsOut(k)
    BY <2>2, <2>3, SameDialog DEF ThrowsOut, clientVars
  <2>4. CASE AnswersAtOnce(k, n)
    BY <1>3, <2>2, <2>4, SameDialog DEF AnswersAtOnce, clientVars
  <2>5. ASSUME NEW l \in Lines, GoesToLock(k, l, n) PROVE Dialog(j)'
    <3>1. /\ thread'[j] = thread[j] /\ cmd'[j] = cmd[j]
          /\ UNCHANGED <<reset, down>>
      BY <2>5 DEF GoesToLock, TypeOK, ThreadTypeOK
    <3> QED BY <2>2, <3>1, SameDialog DEF clientVars
  <2>6. CASE LeavesLoop(k)
    <3>1. thread'[j] = thread[j] /\ UNCHANGED <<cmd, reset, down>>
      BY <2>6 DEF LeavesLoop, TypeOK, ThreadTypeOK
    <3> QED BY <2>2, <3>1, SameDialog DEF clientVars
  <2> QED BY <2>1, <2>3, <2>4, <2>5, <2>6
<1>5. CASE Serve(k)
  <2>1. /\ UNCHANGED <<clientVars, up>> /\ thread'[j] = thread[j] /\ cmd'[j] = cmd[j]
        /\ Write(k, <<cmd[k].n>>)
    BY <1>5 DEF Serve, Reply, TypeOK, ThreadTypeOK
  <2>2. down'[j] = down[j] /\ (j \in reset' <=> j \in reset)
    BY <2>1 DEF Write, TypeOK, ClientTypeOK
  <2> QED BY <2>1, <2>2, SameDialog DEF clientVars
<1> QED BY <1>1, <1>2, <1>4, <1>5 DEF ServerStep

(* A reason to end stays a reason.                                          *)
LEMMA CauseStays ==
  ASSUME TypeOK, NEW k \in Conns, ServerStep(k) \/ ClientStep(k) \/ UserStep(k),
         NEW j \in Conns, Cause(j)
  PROVE  Cause(j)'
<1>1. CASE ServerStep(k)
  <2>1. UNCHANGED <<client, slips>>
    BY <1>1 DEF ServerStep, Accept, Read, Lock, Serve, ThreadEnds, clientVars
  <2> QED BY <2>1 DEF Cause
<1>2. CASE ClientStep(k) \/ UserStep(k)
  <2>1. slips[j] \subseteq slips'[j] /\ (client[j] = "closed" => client'[j] = "closed")
    <3>1. ASSUME NEW pieces, NEW slip, Typed(k, pieces, slip)
          PROVE  slips[j] \subseteq slips'[j] /\ (client[j] = "closed" => client'[j] = "closed")
      BY <3>1 DEF Typed, TypeOK, ClientTypeOK
    <3>2. CASE Connect(k) \/ ReadAnswer(k) \/ ReadEnd(k) \/ Leave(k)
      BY <3>2 DEF Connect, ReadAnswer, ReadEnd, Leave, TypeOK, ClientTypeOK
    <3>3. CASE Type(k) \/ TypeLong(k) \/ TypeBlank(k)
      BY <3>1, <3>3 DEF Type, TypeLong, TypeBlank
    <3> QED BY <1>2, <3>2, <3>3 DEF ClientStep, UserStep
  <2> QED BY <2>1 DEF Cause
<1> QED BY <1>1, <1>2

LEMMA DialogStep ==
  ASSUME IInv, NEW k \in Conns, ServerStep(k) \/ ClientStep(k) \/ UserStep(k)
  PROVE  DialogInv'
<1>1. /\ TypeOK /\ TypedWithinLines /\ CommandIsKnown /\ FdGiven
      /\ ServerEndsForACause /\ \A j \in Conns : Dialog(j)
  BY DEF IInv, ThreadInv, DialogInv
<1>2. ASSUME NEW j \in Conns PROVE Dialog(j)'
  <2>1. CASE j # k
    BY <1>1, <2>1, OtherDialogs
  <2>2. CASE j = k
    BY <1>1, <2>2, ServerDialog, UserDialog
  <2> QED BY <2>1, <2>2
<1>3. ServerEndsForACause'
  <2> SUFFICES ASSUME ~serverUp' PROVE \E j \in Conns : Cause(j)'
    BY DEF ServerEndsForACause, Cause
  <2>1. CASE ~serverUp
    <3>1. PICK j \in Conns : Cause(j)
      BY <1>1, <2>1 DEF ServerEndsForACause, Cause
    <3> QED BY <1>1, <3>1, CauseStays
  <2>2. CASE serverUp
    <3>1. ServerStep(k)
      BY <2>2 DEF ClientStep, UserStep, Connect, Type, TypeLong, TypeBlank, Typed, ReadAnswer,
                  ReadEnd, Leave, serverVars
    <3>2. serverUp' = FALSE
      BY <3>1, ServerType DEF IInv, TypeOK, ThreadTypeOK
    <3>3. Cause(k)
      BY <1>1, <3>1, <3>2, ServerDialog
    <3> QED BY <1>1, <3>1, <3>3, CauseStays
  <2> QED BY <2>1, <2>2
<1> QED BY <1>2, <1>3 DEF DialogInv

(* The inductive invariant.                                                 *)

LEMMA InitInv == Init => IInv
BY InitType, InitThreads, InitDialog DEF IInv

LEMMA StepInv ==
  ASSUME IInv, NEW k \in Conns, ServerStep(k) \/ ClientStep(k) \/ UserStep(k)
  PROVE  IInv'
<1>1. TypeOK /\ TypedWithinLines /\ ThreadInv
  BY DEF IInv
<1>2. TypeOK' /\ TypedWithinLines'
  BY <1>1, ServerType, ClientType
<1>3. ThreadInv'
  <2>1. CASE ServerStep(k)
    BY <1>1, <2>1, AcceptThreads, ReadThreads, LockThreads, ServeThreads, EndThreads
    DEF ServerStep
  <2>2. CASE ClientStep(k) \/ UserStep(k)
    <3>1. UNCHANGED serverVars
      BY <2>2 DEF ClientStep, UserStep, Connect, Type, TypeLong, TypeBlank, Typed, ReadAnswer,
                  ReadEnd, Leave
    <3> QED BY <1>1, <3>1, SameThreads DEF serverVars
  <2> QED BY <2>1, <2>2
<1> QED BY <1>2, <1>3, DialogStep DEF IInv

LEMMA StutterInv ==
  ASSUME IInv, UNCHANGED vars
  PROVE  IInv'
<1>1. TypeOK'
  BY DEF IInv, TypeOK, ClientTypeOK, ThreadTypeOK, GamesTypeOK, Games, vars, serverVars,
         clientVars
<1>2. TypedWithinLines'
  BY DEF IInv, TypedWithinLines, vars, clientVars
<1>3. ThreadInv'
  BY SameThreads DEF IInv, vars, serverVars
<1>4. ASSUME NEW j \in Conns PROVE Dialog(j)'
  BY SameDialog DEF IInv, DialogInv, vars, serverVars, clientVars
<1>5. ServerEndsForACause'
  BY DEF IInv, DialogInv, ServerEndsForACause, vars, serverVars, clientVars
<1> QED BY <1>1, <1>2, <1>3, <1>4, <1>5 DEF IInv, DialogInv

(* The inductive invariant holds throughout every run of server and clients. *)
THEOREM Invariance == Spec => []IInv
<1>1. IInv /\ [Next]_vars => IInv'
  BY StepInv, StutterInv DEF Next
<1> QED BY InitInv, <1>1, PTL DEF Spec

(* Every variable keeps its type: games have as many players as seats taken  *)
(* and never more than MAX_PLAYERS, and the counts lie between 0 and 4.      *)
THEOREM TypeCorrect == Spec => []TypeOK
<1>1. IInv => TypeOK
  BY DEF IInv
<1> QED BY Invariance, <1>1, PTL

(* Whoever plays with a descriptor nobody had before is judged against a     *)
(* game it sits in, and wins exactly with that game's word (playGame).       *)
THEOREM JudgedInOwnGame == Spec => []PlaysOwnGame
<1>1. IInv => PlaysOwnGame
  <2> SUFFICES ASSUME IInv, NEW k \in Conns, FreshDescriptor(k), judged[k].game # 0
               PROVE  /\ judged[k].game \in joined[k]
                      /\ (judged[k].bulls = 4) <=>
                           (judged[k].guess = games[judged[k].game].word)
    BY DEF PlaysOwnGame
  <2>1. /\ thread[k] # "ended" /\ fd[k] # 0 /\ Seated(judged[k].game, k)
        /\ (judged[k].bulls = 4) <=> (judged[k].guess = games[judged[k].game].word)
    BY DEF IInv, ThreadInv, JudgedTruly
  <2>2. judged[k].game \in Games
    <3>1. judged[k].game \in 0..Len(games) /\ Len(games) \in Nat
      BY LenProperties DEF IInv, TypeOK, GamesTypeOK
    <3> QED BY <3>1 DEF Games
  <2>3. PICK i \in DOMAIN games[judged[k].game].clients :
          games[judged[k].game].clients[i] = fd[k]
    BY <2>1 DEF Seated
  <2>4. PICK j \in Conns : /\ fd[j] = fd[k]
                           /\ thread[j] = "ended" \/ judged[k].game \in joined[j]
    BY <2>2, <2>3 DEF IInv, ThreadInv, SeatsAreTaken
  <2>5. ~(j < k) /\ ~(k < j)
    BY <2>1, <2>4 DEF FreshDescriptor, IInv, ThreadInv, FdFreed
  <2>6. j \in Int /\ k \in Int
    BY GameAssumption DEF Conns
  <2>7. j = k
    BY <2>5, <2>6
  <2> QED BY <2>1, <2>4, <2>7
<1> QED BY Invariance, <1>1, PTL

(* The player is judged against an older and older game (playGame's loop).   *)
THEOREM JudgedInOldest == Spec => PlayMovesToOlder
<1>1. IInv /\ [Next]_vars =>
        [\A k \in Conns : judged[k].game # 0 => judged'[k].game <= judged[k].game]_vars
  <2> SUFFICES ASSUME IInv, NEW k \in Conns, ServerStep(k) \/ ClientStep(k) \/ UserStep(k),
                      NEW j \in Conns, judged[j].game # 0
               PROVE  judged'[j].game <= judged[j].game
    BY DEF Next
  <2>1. judged[j].game \in 0..Len(games) /\ Len(games) \in Nat
    BY LenProperties DEF IInv, TypeOK, GamesTypeOK
  <2>2. judged'[j] = judged[j] => judged'[j].game <= judged[j].game
    BY <2>1
  <2>3. CASE Serve(k)
    BY <2>3, ServeJudges DEF IInv, ThreadInv
  <2>4. CASE ThreadEnds(k)
    <3>1. judged'[j] = judged[j] \/ judged'[j] = NotJudged
      BY <2>4 DEF ThreadEnds, IInv, TypeOK, GamesTypeOK
    <3> QED BY <2>1, <2>2, <3>1 DEF NotJudged
  <2>5. CASE ~Serve(k) /\ ~ThreadEnds(k)
    <3>1. UNCHANGED judged
      BY <2>5 DEF ServerStep, ClientStep, UserStep, Connect, Type, TypeLong, TypeBlank, Typed,
                  ReadAnswer, ReadEnd, Leave, Accept, Read, Lock, serverVars
    <3> QED BY <2>2, <3>1
  <2> QED BY <2>3, <2>4, <2>5
<1> QED BY Invariance, <1>1, PTL DEF Spec, PlayMovesToOlder

(* Without lines too long for the buffer and without empty ones, a client    *)
(* that prompts has shown the answer to the line typed last (client.cpp).    *)
THEOREM DialogInStep == Spec => []AnswersInStep
<1>1. IInv => AnswersInStep
  BY DEF IInv, DialogInv, Dialog, LastLineUnderWay, AnswersInStep
<1> QED BY Invariance, <1>1, PTL

(* The server outlives clients that go away in the middle of a command: it   *)
(* ends by a bare command, typed or cut from the end of a long line, or by a *)
(* second answer to a client that left.                                      *)
THEOREM ServerSurvives == Spec => []ServerEndsForACause
<1>1. IInv => ServerEndsForACause
  BY DEF IInv, DialogInv
<1> QED BY Invariance, <1>1, PTL

(* The refinement: the lobby sees the games without their counters.         *)

View == [g \in Games |-> [name |-> games[g].name, word |-> games[g].word,
                          clients |-> games[g].clients]]

Entries == [name : Names, word : Words, clients : Seq(Fds)]

Entry(game) == [name |-> game.name, word |-> game.word, clients |-> game.clients]

LEMMA EntriesOf ==
  ASSUME games \in Seq(GameRecords)
  PROVE  /\ View \in Seq(Entries) /\ Len(View) = Len(games) /\ Len(games) \in Nat
         /\ \A g \in 1..Len(games) :
              /\ View[g] = Entry(games[g]) /\ View[g] \in Entries
              /\ View[g].name = games[g].name /\ View[g].word = games[g].word
              /\ View[g].clients = games[g].clients
<1>1. Len(games) \in Nat /\ Games = 1..Len(games)
  BY LenProperties DEF Games
<1>2. \A g \in Games : Entry(games[g]) \in Entries
  BY GameTypes DEF Entry, Entries
<1>3. View = [g \in 1..Len(games) |-> Entry(games[g])]
  BY <1>1 DEF View, Entry
<1>4. View \in [1..Len(games) -> Entries]
  BY <1>1, <1>2, <1>3
<1>5. View \in Seq(Entries) /\ Len(View) = Len(games)
  BY <1>1, <1>4
<1>6. \A g \in 1..Len(games) : View[g] = Entry(games[g])
  BY <1>3
<1>7. ASSUME NEW game
      PROVE  /\ Entry(game).name = game.name /\ Entry(game).word = game.word
             /\ Entry(game).clients = game.clients
  BY DEF Entry
<1> HIDE DEF View, Entry
<1> QED BY <1>1, <1>2, <1>5, <1>6, <1>7

LEMMA Reseated ==
  ASSUME NEW v \in Entries, NEW c
  PROVE  [v EXCEPT !.clients = c] = [name |-> v.name, word |-> v.word, clients |-> c]
BY DEF Entries

LEMMA EntriesNext ==
  ASSUME games' \in Seq(GameRecords)
  PROVE  /\ View' \in Seq(Entries) /\ Len(View') = Len(games')
         /\ \A g \in 1..Len(games') : View'[g] = Entry(games'[g])
<1>1. Len(games') \in Nat /\ Games' = 1..Len(games')
  BY LenProperties DEF Games
<1>2. \A g \in 1..Len(games') : games'[g] \in GameRecords
  BY ElementOfSeq
<1>3. \A g \in Games' : Entry(games'[g]) \in Entries
  BY <1>1, <1>2 DEF Entry, Entries, GameRecords
<1>4. View' = [g \in 1..Len(games') |-> Entry(games'[g])]
  BY <1>1 DEF View, Entry
<1>5. View' \in [1..Len(games') -> Entries]
  BY <1>1, <1>3, <1>4
<1>6. View' \in Seq(Entries) /\ Len(View') = Len(games')
  BY <1>1, <1>5
<1> QED BY <1>4, <1>6

LEMMA CreateOpens ==
  ASSUME GamesTypeOK, NEW k \in Conns, fd[k] \in Fds, cmd[k].line.arg \in Names,
         CreateGame(k)
  PROVE  \E word \in Words :
           View' = Append(View, [name |-> cmd[k].line.arg, word |-> word, clients |-> <<fd[k]>>])
<1>1. PICK w \in Words :
        /\ NewGame(k, w) \in GameRecords
        /\ games' \in Seq(GameRecords)
        /\ Len(games') = Len(games) + 1
        /\ \A g \in Games : games'[g] = games[g]
        /\ games'[Len(games) + 1] = NewGame(k, w)
  BY GameCreated
<1> DEFINE e == [name |-> cmd[k].line.arg, word |-> w, clients |-> <<fd[k]>>]
<1>2. Entry(NewGame(k, w)) = e /\ e \in Entries
  <2>1. <<fd[k]>> \in Seq(Fds)
    BY ShortSeq
  <2> QED BY <2>1 DEF Entry, NewGame, Entries
<1> HIDE DEF e
<1>3. /\ View \in Seq(Entries) /\ Len(View) = Len(games) /\ Len(games) \in Nat
      /\ \A g \in 1..Len(games) : View[g] = Entry(games[g])
  BY EntriesOf DEF GamesTypeOK
<1>4. /\ View' \in Seq(Entries) /\ Len(View') = Len(games) + 1
      /\ \A g \in 1..(Len(games) + 1) : View'[g] = Entry(games'[g])
  BY <1>1, EntriesNext
<1>5. /\ Append(View, e) \in Seq(Entries) /\ Len(Append(View, e)) = Len(games) + 1
      /\ \A g \in 1..Len(games) : Append(View, e)[g] = View[g]
      /\ Append(View, e)[Len(games) + 1] = e
  BY <1>2, <1>3, AppendProperties
<1>6. ASSUME NEW g \in 1..(Len(games) + 1) PROVE View'[g] = Append(View, e)[g]
  <2>1. CASE g \in 1..Len(games)
    BY <1>1, <1>3, <1>4, <1>5, <2>1 DEF Games
  <2>2. CASE g = Len(games) + 1
    BY <1>1, <1>2, <1>4, <1>5, <2>2
  <2> QED BY <1>3, <2>1, <2>2
<1>7. View' = Append(View, e)
  BY <1>4, <1>5, <1>6, SeqEqual
<1> QED BY <1>7 DEF e

LEMMA SeatSitsDown ==
  ASSUME GamesTypeOK, NEW k \in Conns, fd[k] \in Fds, TakeSeat(k),
         NEW g \in Games, g = target[k].game, Room(g)
  PROVE  View' = [View EXCEPT ![g].clients = Append(@, fd[k])]
<1>1. /\ games' \in Seq(GameRecords) /\ Len(games') = Len(games)
      /\ \A h \in Games : h # g => games'[h] = games[h]
      /\ games'[g].name = games[g].name /\ games'[g].word = games[g].word
      /\ games'[g].clients = Append(games[g].clients, fd[k])
  BY SeatTaken
<1>2. /\ View \in Seq(Entries) /\ Len(View) = Len(games) /\ Len(games) \in Nat
      /\ View[g] \in Entries /\ View[g].name = games[g].name
      /\ View[g].word = games[g].word /\ View[g].clients = games[g].clients
      /\ \A h \in 1..Len(games) : View[h] = Entry(games[h])
  BY EntriesOf DEF GamesTypeOK, Games
<1>3. /\ View' \in Seq(Entries) /\ Len(View') = Len(games)
      /\ \A h \in 1..Len(games) : View'[h] = Entry(games'[h])
  BY <1>1, EntriesNext
<1> DEFINE e == [View[g] EXCEPT !.clients = Append(@, fd[k])]
<1>4. games[g].clients \in Seq(Fds) /\ games[g].name \in Names /\ games[g].word \in Words
  BY GameTypes DEF GamesTypeOK
<1>5. Append(games[g].clients, fd[k]) \in Seq(Fds)
  BY <1>4, AppendProperties
<1>6. e = Entry(games'[g]) /\ e \in Entries
  <2>1. e = [name |-> games[g].name, word |-> games[g].word,
             clients |-> Append(games[g].clients, fd[k])]
    <3>1. View[g] \in Entries
      BY <1>2
    <3>2. e = [name |-> View[g].name, word |-> View[g].word,
               clients |-> Append(View[g].clients, fd[k])]
      BY <3>1, Reseated, Zenon
    <3> HIDE DEF e
    <3> QED BY <1>2, <3>2
  <2> HIDE DEF e
  <2>2. e \in Entries
    BY <1>4, <1>5, <2>1 DEF Entries
  <2> QED BY <1>1, <2>1, <2>2 DEF Entry
<1>7. [View EXCEPT ![g].clients = Append(@, fd[k])] = [View EXCEPT ![g] = e]
  OBVIOUS
<1> HIDE DEF e
<1>8. /\ [View EXCEPT ![g] = e] \in Seq(Entries)
      /\ Len([View EXCEPT ![g] = e]) = Len(games)
      /\ \A h \in 1..Len(games) : [View EXCEPT ![g] = e][h] = IF h = g THEN e ELSE View[h]
  BY <1>2, <1>6, ExceptSeq DEF Games
<1>9. \A h \in 1..Len(games) : View'[h] = [View EXCEPT ![g] = e][h]
  BY <1>1, <1>2, <1>3, <1>6, <1>8 DEF Games
<1>10. View' = [View EXCEPT ![g] = e]
  BY <1>3, <1>8, <1>9, SeqEqual
<1> QED BY <1>7, <1>10

LEMMA OpenIsNext ==
  ASSUME NEW d \in Fds, NEW name \in Names, NEW word \in Words, Lobby!Open(name, word, d)
  PROVE  Lobby!Next
BY DEF Lobby!Next

LEMMA SitDownIsNext ==
  ASSUME NEW d \in Fds, NEW g \in 1..Len(View), Lobby!SitDown(g, d)
  PROVE  Lobby!Next
BY DEF Lobby!Next, View

LEMMA ServeInLobby ==
  ASSUME IInv, NEW k \in Conns, Serve(k)
  PROVE  Lobby!Next \/ UNCHANGED View
<1>1. /\ GamesTypeOK /\ games \in Seq(GameRecords) /\ fd[k] \in Fds
      /\ StopsAt(target[k].game, Candidates(k))
  BY CommandFacts DEF IInv, TypeOK, GamesTypeOK, ThreadInv, TargetStands, Serve, Busy
<1>2. /\ Len(View) = Len(games) /\ Len(games) \in Nat
      /\ \A g \in 1..Len(games) : /\ View[g].name = games[g].name
                                 /\ View[g].clients = games[g].clients
  BY <1>1, EntriesOf
<1>3. CASE CreateGame(k) /\ cmd[k].line.arg \in Names
  <2>1. PICK word \in Words :
          View' = Append(View, [name |-> cmd[k].line.arg, word |-> word, clients |-> <<fd[k]>>])
    BY <1>1, <1>3, CreateOpens
  <2>2. PICK d \in Fds, name \in Names : d = fd[k] /\ name = cmd[k].line.arg
    BY <1>1, <1>3
  <2>3. Lobby!Open(name, word, d)
    BY <2>1, <2>2 DEF Lobby!Open, View
  <2> QED BY <2>3, OpenIsNext
<1>4. CASE TakeSeat(k) /\ target[k].game \in Games /\ Room(target[k].game)
  <2>0. PICK d \in Fds, g \in Games : d = fd[k] /\ g = target[k].game /\ Room(g)
    BY <1>1, <1>4
  <2>1. View' = [View EXCEPT ![g].clients = Append(@, d)]
    BY <1>1, <1>4, <2>0, SeatSitsDown
  <2>2. \A h \in Games : (Len(View[h].clients) < MAX_PLAYERS) <=> Room(h)
    BY <1>1, <1>2 DEF GamesTypeOK, Games, Room
  <2>3. \A h \in Games : View[h].name = games[h].name
    BY <1>2 DEF Games
  <2>4. g \in Candidates(k) /\ \A h \in Candidates(k) : g <= h
    BY <1>1, <1>2, <2>0 DEF StopsAt, Games
  <2>5. \A h \in 1..(g - 1) : h \in Games /\ h < g /\ h \notin Candidates(k)
    BY <1>2, <2>4 DEF Games
  <2>6. \/ \A h \in 1..(g - 1) : View[h].name # View[g].name
        \/ \A h \in 1..(g - 1) : ~(Len(View[h].clients) < MAX_PLAYERS)
    <3>1. CASE cmd[k].line.op = "join"
      <4>1. Candidates(k) = {h \in Games : games[h].name = cmd[k].line.arg}
        BY <3>1 DEF Candidates
      <4> QED BY <2>3, <2>4, <2>5, <4>1
    <3>2. CASE cmd[k].line.op = "find"
      <4>1. Candidates(k) = {h \in Games : Room(h)}
        BY <3>2 DEF Candidates
      <4> QED BY <2>2, <2>5, <4>1
    <3> QED BY <1>4, <3>1, <3>2 DEF TakeSeat
  <2>7. g \in 1..Len(View) /\ Len(View[g].clients) < MAX_PLAYERS
    BY <1>2, <2>0, <2>2 DEF Games
  <2>8. Lobby!SitDown(g, d)
    BY <2>1, <2>6, <2>7 DEF Lobby!SitDown, Lobby!Room, View
  <2> QED BY <2>7, <2>8, SitDownIsNext
<1>5. CASE UNCHANGED games
  BY <1>5 DEF View, Games
<1> QED BY <1>3, <1>4, <1>5, ServeCases DEF PlayGame, IInv, ThreadInv

(* Threads, mutex and sockets implement the lobby: each command takes effect *)
(* at once, and players sit only where the lobby lets them (createGame,      *)
(* joinGame, findGame).                                                      *)
THEOREM Refinement == Spec => ImplementsLobby
<1>1. Init => Lobby!Init
  <2> SUFFICES ASSUME Init PROVE View = <<>>
    BY DEF Lobby!Init, View
  <2>1. games = <<>> /\ games \in Seq(GameRecords)
    BY DEF Init
  <2>2. View \in Seq(Entries) /\ Len(View) = 0
    BY <2>1, EntriesOf
  <2> QED BY <2>2, NoneOrSome
<1>2. IInv /\ [Next]_vars => [Lobby!Next]_View
  <2> SUFFICES ASSUME IInv, [Next]_vars PROVE Lobby!Next \/ UNCHANGED View
    OBVIOUS
  <2>1. CASE UNCHANGED games
    BY <2>1 DEF View, Games
  <2>2. ASSUME NEW k \in Conns, ServerStep(k) \/ ClientStep(k) \/ UserStep(k), ~Serve(k)
        PROVE  UNCHANGED games
    BY <2>2 DEF ServerStep, ClientStep, UserStep, Connect, Type, TypeLong, TypeBlank, Typed,
                ReadAnswer, ReadEnd, Leave, Accept, Read, Lock, ThreadEnds, serverVars
  <2>3. UNCHANGED vars => UNCHANGED games
    BY DEF vars, serverVars
  <2> QED BY <2>1, <2>2, <2>3, ServeInLobby DEF Next
<1>3. Lobby!Spec <=> Lobby!Init /\ [][Lobby!Next]_View
  BY DEF Lobby!Spec, View
<1> QED BY Invariance, <1>1, <1>2, <1>3, PTL DEF Spec, ImplementsLobby
=============================================================================
