----------------------------- MODULE GameServer -----------------------------
(***************************************************************************)
(* The bulls and cows server of KP (server.cpp) with its clients           *)
(* (client.cpp).  The server starts a detached thread per connection; the  *)
(* threads share the vector of games under one mutex, which createGame,    *)
(* joinGame, findGame and playGame hold from the search to the answer.     *)
(* Lines and answers travel over TCP, a stream: a line may be read in two  *)
(* pieces and two lines in one.  A connection is one run of the client.    *)
(***************************************************************************)
EXTENDS Integers, Sequences, FiniteSets

CONSTANTS
  Names,        (* names of games, short enough for an answer to fit 255 bytes *)
  Words,        (* what generateRandomWord may return: four different letters  *)
  Guesses,      (* guesses of at least four letters, cut to the first four     *)
  LongLines,    (* what lines of more than 255 bytes are to the server: a full *)
                (* buffer, head, and the rest                                  *)
  MAX_PLAYERS,  (* seats of a game, 4 in the code                              *)
  MaxConns,     (* bound: connections ever opened                              *)
  MaxLines      (* bound: lines ever typed, over all clients                   *)

Letters == 1..4     (* positions of a word *)

(* The lines a client sends.  "bare" is create, join or play with nothing   *)
(* behind it, "other" text that neither is nor begins a command.  A client  *)
(* keeps the line "exit" for itself, but a long line may end in it.         *)
NamedLines == [op : {"create", "join"}, arg : Names] \cup [op : {"play"}, arg : Guesses]
Find == [op |-> "find", arg |-> "none"]
Bare == [op |-> "bare", arg |-> "none"]
Other == [op |-> "other", arg |-> "none"]
Exit == [op |-> "exit", arg |-> "none"]
Lines == NamedLines \cup {Find, Bare, Other}
Commands == Lines \cup {Exit}

(* A name of 250 letters would make an answer longer than 255 bytes: a head *)
(* begins like find, play or no command.                                    *)
Heads == {l \in Lines : l.op \in {"find", "play", "other"}}

ASSUME GameAssumption ==
  /\ MAX_PLAYERS \in Nat \ {0} /\ MaxConns \in Nat /\ MaxLines \in Nat
  /\ \A w \in Words : /\ w = [i \in Letters |-> w[i]]
                     /\ \A i, j \in Letters : w[i] = w[j] => i = j
  /\ \A s \in Guesses : s = [i \in Letters |-> s[i]]
  /\ LongLines \subseteq [head : Heads, rest : Commands]

Conns == 1..MaxConns
Fds == Conns        (* descriptors: as many as threads can be alive *)

VARIABLES
  serverUp,   (* the server process runs                                     *)
  games,      (* the vector of games, oldest first                           *)
  thread,     (* per connection: handleClient's position                     *)
  fd,         (* per connection: its descriptor in the server, 0 before accept *)
  cmd,        (* per connection: the piece its thread works on               *)
  target,     (* per connection: the game its loop stopped at, 0 for none,   *)
              (* and whether there was room                                  *)
  reset,      (* connections a thread has written to after the client closed *)
  client,     (* per connection: the client's position                       *)
  up,         (* per connection: pieces sent and not yet read                *)
  down,       (* per connection: answers not yet read, as line numbers       *)
  lines,      (* lines typed so far                                          *)
  typed,      (* history: lines each client typed                            *)
  shown,      (* history: which of them the answer last shown is to          *)
  slips,      (* history: unusual lines each client typed                    *)
  joined,     (* history: games each connection took a seat in               *)
  judged      (* history: the last play answered on each connection          *)

serverVars == <<serverUp, games, thread, fd, cmd, target, reset, joined, judged>>
clientVars == <<client, lines, typed, shown, slips>>
vars == <<serverVars, clientVars, up, down>>

Games == 1..Len(games)
NoCmd == [line |-> Other, n |-> 0]
NoTarget == [game |-> 0, room |-> FALSE]
NotJudged == [game |-> 0, guess |-> <<>>, bulls |-> 0, cows |-> 0]

Init ==
  /\ serverUp = TRUE /\ games = <<>> /\ reset = {} /\ lines = 0
  /\ thread = [k \in Conns |-> "none"] /\ fd = [k \in Conns |-> 0]
  /\ cmd = [k \in Conns |-> NoCmd]
  /\ target = [k \in Conns |-> NoTarget]
  /\ client = [k \in Conns |-> "off"]
  /\ up = [k \in Conns |-> <<>>] /\ down = [k \in Conns |-> <<>>]
  /\ typed = [k \in Conns |-> 0] /\ shown = [k \in Conns |-> 0]
  /\ slips = [k \in Conns |-> {}]
  /\ joined = [k \in Conns |-> {}]
  /\ judged = [k \in Conns |-> NotJudged]

------------------------------ (* the client *) -----------------------------
(* connect succeeds while the server listens, before accept is called.      *)
Connect(k) ==
  /\ serverUp /\ client[k] = "off"
  /\ \A j \in Conns : j < k => client[j] # "off"
  /\ client' = [client EXCEPT ![k] = "typing"]
  /\ UNCHANGED <<serverVars, up, down, lines, typed, shown, slips>>

(* Nobody holds the other end of connection k any more.                      *)
Gone(k) == ~serverUp \/ thread[k] = "ended"

(* A line is typed, written as it stands, and the client goes to read.  (To  *)
(* a thread that is gone a line only ends the client, which is Leave.)       *)
Typed(k, pieces, slip) ==
  /\ ~Gone(k) /\ client[k] = "typing" /\ lines < MaxLines
  /\ client' = [client EXCEPT ![k] = "reading"]
  /\ lines' = lines + 1
  /\ typed' = [typed EXCEPT ![k] = @ + 1]
  /\ up' = [up EXCEPT ![k] = @ \o pieces]
  /\ slips' = [slips EXCEPT ![k] = @ \cup slip]
  /\ UNCHANGED <<serverVars, down, shown>>

Piece(k, line, full) == [line |-> line, n |-> typed[k] + 1, full |-> full]

BareSlip(l) == IF l.op = "bare" THEN {"bare"} ELSE {}

Type(k) ==
  \E l \in Lines :
    Typed(k, <<Piece(k, l, FALSE)>>, BareSlip(l))

(* A line of more than 255 bytes is two pieces: a full buffer and the rest,  *)
(* which the server takes for a command of its own, whatever it is.  Bound:  *)
(* one such line.                                                            *)
TypeLong(k) ==
  /\ \A j \in Conns : "long" \notin slips[j]
  /\ \E l \in LongLines :
       Typed(k, <<Piece(k, l.head, TRUE), Piece(k, l.rest, FALSE)>>,
             {"long"} \cup BareSlip(l.rest))

(* An empty line, or the end of the input: nothing to write, and the client  *)
(* reads all the same.                                                       *)
TypeBlank(k) == Typed(k, <<>>, {"blank"})

(* read returns the answers that have arrived, perhaps not all of them.      *)
ReadAnswer(k) ==
  /\ client[k] = "reading"
  /\ \E i \in 1..Len(down[k]) :
       /\ shown' = [shown EXCEPT ![k] = down[k][i]]
       /\ down' = [down EXCEPT ![k] = SubSeq(@, i + 1, Len(@))]
  /\ client' = [client EXCEPT ![k] = "typing"]
  /\ UNCHANGED <<serverVars, up, lines, typed, slips>>

(* read returns 0 or an error: the thread is gone, and answers not yet read  *)
(* are gone too when it left pieces of this client unread.                   *)
ReadEnd(k) ==
  /\ client[k] = "reading" /\ Gone(k)
  /\ down[k] = <<>> \/ up[k] # <<>>
  /\ client' = [client EXCEPT ![k] = "closed"]
  /\ UNCHANGED <<serverVars, up, down, lines, typed, shown, slips>>

(* "exit" at the prompt, or the client is killed while it waits.             *)
Leave(k) ==
  /\ client[k] \in {"typing", "reading"}
  /\ client' = [client EXCEPT ![k] = "closed"]
  /\ down' = [down EXCEPT ![k] = <<>>]
  /\ typed' = [typed EXCEPT ![k] = 0] /\ shown' = [shown EXCEPT ![k] = 0]
  /\ UNCHANGED <<serverVars, up, lines, slips>>

------------------------------ (* the server *) -----------------------------
InUse(d) == \E k \in Conns : fd[k] = d /\ thread[k] \notin {"none", "ended"}

(* The main loop: accept returns the oldest waiting connection under the     *)
(* lowest free descriptor and a thread starts.                               *)
Accept(k) ==
  /\ serverUp /\ client[k] # "off" /\ thread[k] = "none"
  /\ \A j \in Conns : j < k => thread[j] # "none"
  /\ \E d \in Fds :
       /\ ~InUse(d) /\ \A e \in Fds : e < d => InUse(e)
       /\ fd' = [fd EXCEPT ![k] = d]
  /\ thread' = [thread EXCEPT ![k] = "reading"]
  /\ UNCHANGED <<serverUp, games, cmd, target, reset, joined, judged, clientVars, up, down>>

(* Answers written to connection k.  The first write after the client closed *)
(* is lost and resets the connection, the next raises SIGPIPE, which nobody  *)
(* handles.                                                                  *)
(* Faulty: the first such write is already fatal.                            *)
FatalWriteAtOnce(k) == client[k] = "closed"

FatalWrite(k) == client[k] = "closed" /\ k \in reset

Write(k, answers) ==
  /\ serverUp' = ~FatalWrite(k)
  /\ reset' = IF client[k] = "closed" THEN reset \cup {k} ELSE reset
  /\ down' = IF client[k] = "closed" THEN down ELSE [down EXCEPT ![k] = @ \o answers]

(* Pieces read together are one command, that of the first of them: a guess  *)
(* stays, a name changes, a bare command gets an argument after all, and     *)
(* exit is one no longer.                                                    *)
FusedWith(l) ==
  CASE l.op = "bare" -> NamedLines
    [] l.op = "exit" -> {Other}
    [] OTHER -> {m \in Lines : m.op = l.op /\ (l.op = "play" => m = l)}

(* read takes a full buffer by itself, otherwise what has arrived.  A bare   *)
(* command makes substr throw out of the thread, which terminates the        *)
(* server; exit ends the loop; an unknown command is answered at once; the   *)
(* others need the mutex.                                                    *)
Read(k) ==
  /\ serverUp /\ thread[k] = "reading" /\ up[k] # <<>>
  /\ \E i \in 1..Len(up[k]) :
       /\ Head(up[k]).full => i = 1
       /\ up' = [up EXCEPT ![k] = SubSeq(@, i + 1, Len(@))]
       /\ \E l \in IF i = 1 THEN {Head(up[k]).line} ELSE FusedWith(Head(up[k]).line) :
            LET n == up[k][i].n IN
            \/ /\ l.op = "bare" /\ serverUp' = FALSE
               /\ UNCHANGED <<thread, cmd, reset, down>>
            \/ /\ l.op = "exit" /\ thread' = [thread EXCEPT ![k] = "leaving"]
               /\ UNCHANGED <<serverUp, cmd, reset, down>>
            \/ /\ l.op = "other" /\ Write(k, <<n>>)
               /\ UNCHANGED <<thread, cmd>>
            \/ /\ l.op \notin {"bare", "exit", "other"}
               /\ thread' = [thread EXCEPT ![k] = "locking"]
               /\ cmd' = [cmd EXCEPT ![k] = [line |-> l, n |-> n]]
               /\ UNCHANGED <<serverUp, reset, down>>
  /\ UNCHANGED <<games, fd, target, joined, judged, clientVars>>

(* Faulty: one seat too many.                                               *)
RoomForOneMore(g) == games[g].players <= MAX_PLAYERS

Room(g) == games[g].players < MAX_PLAYERS

(* Faulty: the player is not looked for.                                     *)
SeatedAnybody(g, k) == games[g].clients # <<>>

Seated(g, k) == \E i \in DOMAIN games[g].clients : games[g].clients[i] = fd[k]

(* The games at which the loop of the command may stop.                      *)
Candidates(k) ==
  LET l == cmd[k].line IN
  CASE l.op = "join" -> {g \in Games : games[g].name = l.arg}
    [] l.op = "find" -> {g \in Games : Room(g)}
    [] l.op = "play" -> {g \in Games : Seated(g, k)}
    [] OTHER -> {}

(* Faulty: the loops go from the newest game on.                             *)
StopsAtNewest(g, S) == IF S = {} THEN g = 0 ELSE g \in S /\ \A h \in S : g >= h

(* The loops go from the oldest game on.                                     *)
StopsAt(g, S) == IF S = {} THEN g = 0 ELSE g \in S /\ \A h \in S : g <= h

(* Faulty: no mutex.                                                         *)
NoMutex == TRUE

gamesMutexFree == \A j \in Conns : thread[j] # "serving"

(* lock_guard, and the loop over games with the look at its players.         *)
Lock(k) ==
  /\ serverUp /\ thread[k] = "locking" /\ gamesMutexFree
  /\ thread' = [thread EXCEPT ![k] = "serving"]
  /\ \E g \in 0..Len(games) :
       /\ StopsAt(g, Candidates(k))
       /\ target' = [target EXCEPT ![k] = [game |-> g, room |-> g # 0 /\ Room(g)]]
  /\ UNCHANGED <<serverUp, games, fd, cmd, reset, joined, judged, clientVars, up, down>>

Contains(w, c) == \E i \in Letters : w[i] = c
Bulls(w, s) == Cardinality({i \in Letters : w[i] = s[i]})
Cows(w, s) == Cardinality({i \in Letters : w[i] # s[i] /\ Contains(w, s[i])})

(* A game with its first player; the name need not be new.                   *)
CreateGame(k) ==
  /\ cmd[k].line.op = "create"
  /\ \E w \in Words :
       games' = Append(games, [name |-> cmd[k].line.arg, players |-> 1,
                               word |-> w, clients |-> <<fd[k]>>])
  /\ joined' = [joined EXCEPT ![k] = @ \cup {Len(games) + 1}]
  /\ UNCHANGED judged

(* joinGame and findGame: a seat in the game found, if there is one.         *)
TakeSeat(k) ==
  /\ cmd[k].line.op \in {"join", "find"} /\ target[k].room
  /\ LET game == games[target[k].game]
     IN games' = [games EXCEPT ![target[k].game] =
                    [game EXCEPT !.players = @ + 1, !.clients = Append(@, fd[k])]]
  /\ joined' = [joined EXCEPT ![k] = @ \cup {target[k].game}]
  /\ UNCHANGED judged

PlayGame(k) ==
  /\ cmd[k].line.op = "play" /\ target[k].game # 0
  /\ LET w == games[target[k].game].word
         s == cmd[k].line.arg
     IN judged' = [judged EXCEPT ![k] = [game |-> target[k].game, guess |-> s,
                                         bulls |-> Bulls(w, s), cows |-> Cows(w, s)]]
  /\ UNCHANGED <<games, joined>>

(* The game is full, or there is none.                                       *)
Refuse(k) ==
  /\ cmd[k].line.op # "create"
  /\ target[k].game # 0 => cmd[k].line.op # "play" /\ ~target[k].room
  /\ UNCHANGED <<games, joined, judged>>

(* Faulty: the loop goes on after a full game, to "not found".               *)
ReplyTwice(k) ==
  IF cmd[k].line.op = "join" /\ target[k].game # 0 /\ ~target[k].room
    THEN <<cmd[k].n, cmd[k].n>> ELSE <<cmd[k].n>>

(* Faulty: nothing is said when no game was found.                           *)
ReplyIfFound(k) ==
  IF cmd[k].line.op # "create" /\ target[k].game = 0 THEN <<>> ELSE <<cmd[k].n>>

Reply(k) == <<cmd[k].n>>

(* The rest of createGame, joinGame, findGame or playGame, answer and unlock *)
(* included.                                                                 *)
Serve(k) ==
  /\ serverUp /\ thread[k] = "serving"
  /\ CreateGame(k) \/ TakeSeat(k) \/ PlayGame(k) \/ Refuse(k)
  /\ Write(k, Reply(k))
  /\ thread' = [thread EXCEPT ![k] = "reading"]
  /\ cmd' = [cmd EXCEPT ![k] = NoCmd] /\ target' = [target EXCEPT ![k] = NoTarget]
  /\ UNCHANGED <<fd, clientVars, up>>

(* After exit, or when read returns 0 or an error: the descriptor is closed  *)
(* and free again.                                                           *)
ThreadEnds(k) ==
  /\ serverUp
  /\ \/ thread[k] = "leaving"
     \/ thread[k] = "reading" /\ client[k] = "closed" /\ up[k] = <<>>
  /\ thread' = [thread EXCEPT ![k] = "ended"]
  /\ reset' = reset \ {k}
  /\ joined' = [joined EXCEPT ![k] = {}] /\ judged' = [judged EXCEPT ![k] = NotJudged]
  /\ UNCHANGED <<serverUp, games, fd, cmd, target, clientVars, up, down>>

ServerStep(k) == Accept(k) \/ Read(k) \/ Lock(k) \/ Serve(k) \/ ThreadEnds(k)
ClientStep(k) == ReadAnswer(k) \/ ReadEnd(k)
UserStep(k) == Connect(k) \/ Type(k) \/ TypeLong(k) \/ TypeBlank(k) \/ Leave(k)

Next == \E k \in Conns : ServerStep(k) \/ ClientStep(k) \/ UserStep(k)

Spec == Init /\ [][Next]_vars
(* Threads and clients are scheduled; users are not bound to type or leave.  *)
(* Weak fairness of Lock is enough for a mutex that promises no order,       *)
(* because the lines are bounded.                                            *)
FairSpec == Spec /\ \A k \in Conns : WF_vars(ServerStep(k)) /\ WF_vars(ClientStep(k))

------------------------------- (* properties *) -----------------------------
GameRecords ==
  [name : Names, players : 1..MAX_PLAYERS, word : Words, clients : Seq(Fds)]

Pieces == [line : Commands, n : 1..MaxLines, full : BOOLEAN]

ClientTypeOK ==
  /\ client \in [Conns -> {"off", "typing", "reading", "closed"}]
  /\ up \in [Conns -> Seq(Pieces)]
  /\ down \in [Conns -> Seq(1..MaxLines)]
  /\ lines \in 0..MaxLines
  /\ typed \in [Conns -> 0..MaxLines] /\ shown \in [Conns -> 0..MaxLines]
  /\ slips \in [Conns -> SUBSET {"long", "blank", "bare"}]

ThreadTypeOK ==
  /\ serverUp \in BOOLEAN /\ reset \subseteq Conns
  /\ thread \in [Conns -> {"none", "reading", "locking", "serving", "leaving", "ended"}]
  /\ fd \in [Conns -> Fds \cup {0}]
  /\ cmd \in [Conns -> [line : Lines, n : 0..MaxLines]]

GamesTypeOK ==
  /\ games \in Seq(GameRecords)
  /\ \A g \in Games : games[g].players = Len(games[g].clients)
  /\ target \in [Conns -> [game : 0..Len(games), room : BOOLEAN]]
  /\ joined \in [Conns -> SUBSET Games]
  /\ judged \in [Conns -> [game : 0..Len(games), guess : Guesses \cup {<<>>},
                          bulls : 0..4, cows : 0..4]]

TypeOK == ClientTypeOK /\ ThreadTypeOK /\ GamesTypeOK

(* The threads, their mutex, and what travels in the sockets implement the   *)
(* lobby, in which a command is one step (createGame, joinGame, findGame).   *)
Lobby == INSTANCE GameLobby WITH
           lobby <- [g \in Games |-> [name |-> games[g].name, word |-> games[g].word,
                                     clients |-> games[g].clients]]
ImplementsLobby == Lobby!Spec

(* playGame knows a player by the descriptor alone.  As long as nobody had   *)
(* the descriptor of k before, k is judged against a game it took a seat in, *)
(* and four bulls are told exactly for that game's word.                     *)
FreshDescriptor(k) == \A j \in Conns : j < k => fd[j] # fd[k]

PlaysOwnGame ==
  \A k \in Conns :
    FreshDescriptor(k) /\ judged[k].game # 0 =>
      /\ judged[k].game \in joined[k]
      /\ (judged[k].bulls = 4) <=> (judged[k].guess = games[judged[k].game].word)

(* A player who sits in several games plays the oldest: the game a client is *)
(* judged against can only change to an older one, whatever it joins or      *)
(* creates later.                                                            *)
PlayMovesToOlder ==
  [][\A k \in Conns : judged[k].game # 0 => judged'[k].game <= judged[k].game]_vars

(* write and read alternate in the client (client.cpp), so with lines that   *)
(* fit the buffer every prompt shows the answer to the line just typed.      *)
AnswersInStep ==
  \A k \in Conns :
    client[k] = "typing" /\ slips[k] \cap {"long", "blank"} = {} => shown[k] = typed[k]

(* A client that goes away in the middle of a command does not take the      *)
(* server with it: that needs a bare command, typed or cut from the end of a *)
(* long line, or two pieces left unanswered.                                 *)
ServerEndsForACause ==
  ~serverUp =>
    \E k \in Conns :
      "bare" \in slips[k] \/ ("long" \in slips[k] /\ client[k] = "closed")

(* Whoever typed a line other than an empty one gets something to read: an   *)
(* answer, or the end of the connection.                                     *)
CommandsAreAnswered ==
  \A k \in Conns :
    (client[k] = "reading" /\ "blank" \notin slips[k]) ~> (client[k] # "reading")
=============================================================================
