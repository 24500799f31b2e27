# MAI_OS: specifications, model checking and proofs

This directory holds TLA+ specifications of the programs of this repository, the
TLC configurations that check them on small instances, and TLAPS proofs. The
source is the reference: every definition that models code is mapped to its
lines in `PROJECT.json` ("map"). Run a check with `tlc -config X.cfg M`, a
proof with `tlapm M.tla`.

## 1. Inventory of the repository

The repository is a set of independent laboratory works on operating systems.

| part | processes and threads | state | operations |
|---|---|---|---|
| **lab57** (distributed calculation nodes) | one manager, one process per node | the tree `root` with `available` flags; the list `upcoming_operations`; sockets and ZeroMQ queues; child processes | commands `create`, `kill`, `exec`, `pingall`, `print`, `exit`; maintenance after every `zmq_poll`; SIGINT/SIGTERM; the node's service loop |
| **laba2** (dice) | `main` and `max_threads` threads | three totals under one mutex | create, play, add, join |
| **lab1** (division over pipes) | parent and child | two pipes, the log file | name, line, result, exit |
| **lab3** (division over shared memory) | parent and child | shared line, two named semaphores that outlive the processes | line, result, exit; interrupt and restart |
| **lab4** (libraries) | one process | the handle of the loaded library | evaluate, switch the library |
| **KP** (bulls and cows) | server with one thread per client, clients | `games` under `gamesMutex`, descriptors | create, join, find, play, exit |

How the parts of lab57 interact: `main.c` is one thread; after each
`zmq_poll` on standard input it calls `cleanup_operations`, `check_responses`
(n_op.c) and `check_process_status` (manage_node.c), then at most one command.
`create` forks a process that executes `calc_node`; the process binds
port 5555 + id and answers on a REP socket. `exec` opens a REQ socket and a
context of its own, puts them into `upcoming_operations` and sends; the answer
is collected by a later `check_responses`. `pingall` is synchronous. `kill`
signals a pid and marks the node with everything below it. The signal handler
can run between any two instructions, in the manager and, between fork and
exec, in the child too.

How the parts of KP interact: `server.cpp` accepts connections in `main` and starts a
detached thread for each; the threads share `games` under `gamesMutex`, held from the
search through `games` to the write of the answer. `client.cpp` alternates a write of
one line and a read of one answer.

What is hard here: node processes die at any time while requests of theirs are
queued, under way or answered; time runs between two looks at the clock; the
flag `available` is a cached belief; the tree the user asks for is not the tree
that is built; ZeroMQ's close can block; pipes have no message boundaries; named
semaphores survive a crash; TCP splits and joins lines; descriptors are given out again
while old games still hold them. `PROJECT.json` ("hazards") lists these at their lines.

What makes each part correct:

- *tree*: it stays a search tree; every search finds what was inserted; what dies with
  a node is well defined.
- *node management*: a node is marked with its subtree, for a cause, for good;
  only waitable processes are waited for; no process runs unknown to the tree;
  pingall misses no dead node.
- *outstanding operations*: the list, followed by its pointers, is exactly the open
  requests; no pointer leads to freed memory; no pass skips a request; "Ok" and
  "Error" are said for a reason; requests end and are freed.
- *dice*: no update is lost, the totals add up, the program ends.
- *lab1, lab3*: the result shown is the one of the line just typed as long as the child
  lives; it is logged before it is shown; nobody waits for ever; an old session does no
  harm.
- *KP*: a command takes effect as if it were alone; a player is judged by the word of
  a game of its own; every prompt of the client shows the answer to the line just
  typed; whoever typed something gets something to read; a client that goes away does
  not end the server.

## 2. Modules

| module | models | source |
|---|---|---|
| `TreeOps`, `TreeProofs` | the tree as a value; its algorithms as recursive functions; lemmas about them | lab57/src/tree.c, manage_node.c |
| `SearchTree`, `SearchTreeProofs` | the growth of the tree, with the creation order as reference; theorems | the same |
| `CalcNode` | node processes and the life of requests on their sockets | lab57/src/calc_node.c, ZeroMQ |
| `Manager` | the controlling program; EXTENDS `CalcNode` | lab57/main.c, manage_node.c, n_op.c |
| `ExecService` | abstract: what `exec` promises | implemented by `Manager` |
| `ManagerProofs` | theorems about `Manager`: types, the list, the refinement | |
| `NodeProofs` | theorems about `Manager` that need the tree to be one: marks, processes, answers, pingall | |
| `Dice`, `DiceProofs` | laba2 and its theorems | laba2/main.c |
| `PipeDivision`, `PipeProofs` | lab1 and its theorems | lab1/src/main.c, child.c |
| `ShmDivision`, `ShmProofs` | lab3 and its theorems | lab3/src/main.c, child.c |
| `GameServer` | the server and its clients, composed by the connections between them | KP/server.cpp, client.cpp |
| `GameLobby` | abstract: what the server promises about its games | implemented by `GameServer` |
| `GameProofs` | theorems about `GameServer` | |
| `MC*` | instances for TLC | |

Operators whose comment begins with "Faulty" are the wrong code a
property is there to catch: each property of a passing run is violated when the
mapped definition is replaced by such a variant (`PROJECT.json`, "mutants").

### 2.1 The tree (`TreeOps`, `SearchTree`)

A tree is a record of the root and the child pointers of all ids; a pointer is an
id or NULL. The recursions of tree.c are recursive functions with the same case
distinctions. `SearchTree` has one action, an accepted `create`; its history `born` is
the creation order, and `ShouldBeBelow` says from that order alone which node hangs
below which. The properties compare the pointer algorithms with this reference.
`exec_recursive` descends with comparisons of its own (`ExecTarget`), which
`SearchesAgree` relates to `find_node`. Three functions are not modelled: `find_path` is
called by nobody, `print_tree` only reads, and `determine_child_to_forward` is only called in
node processes (calc_node.c:38), where `root` is NULL, so it returns -1 there and never looks
at the manager's tree.

### 2.2 Nodes and requests (`CalcNode`)

`proc[n]` is the process of node n: none, forked (before its bind), serving,
zombie, reaped. Every request travels on a REQ socket of its own, so request and
socket are one: `req[r]` is none, queued in the sender, in the node's inbox,
arrived (the answer is readable) or lost. Slot 0 is the ping in progress. A reply
on its way when the node dies either arrives or does not; both are covered by the
order of `ServeRequest` and `NodeDies`. A request still queued survives the death of
the node, because ZeroMQ goes on connecting. `LeftIds` are the ids whose port a process of an earlier session, which `exit` left
running, may still hold (`leftover`): the bind of a new node fails unnoticed there, and
requests for it are answered by the old process until that dies. `kin` is the copy of
the tree a forked child holds until its exec: `ChildRunsHandler` is the inherited
`handle_signal` taking a SIGTERM in that window.

### 2.3 The manager (`Manager`)

`pc` is where the single thread is (see the head of the module). `upcoming_operations` is
the program's own linked list: a request is its node in memory, `head` is the global
pointer, `next` the field of each, `heap` what malloc returned and free did not get. The two
passes are one action per turn of their loops (`CleanupOperation`, `CheckResponse`) with
`current` and `prev` as in the code, because time passes, answers arrive and
`zmq_ctx_destroy` may block in the middle of a pass. Ending a request is two steps:
`RemoveOperation` unlinks it through `prev` or `head`; `CloseReturns` is the return of
`zmq_ctx_destroy`, the `free`, and the pointer the pass goes on from (`pc = "closing"` between
them). `cleanup_operations` reads the clock once, so `due` is the set of requests that
were expired then; `check_responses` reads it for every element. `check_process_status` is one step: it runs no callback,
and what waitpid finds a moment later it finds on the next turn. `Ended` takes
account of the marking in the middle of its recursion: nodes below a
dead node are marked before they are visited and not waited for. `kill` is by node
because a process is named by its node; the kill of a process that is gone or of a
stranger, refused creates and printing are `OtherCommand`. `HandleSignal` is
enabled wherever the manager runs.

Abstractions and bounds: ages are counted up to `OpTimeout + 1`, a bound of the model:
the real age goes on growing, and nothing in the code tells greater ages apart; `MaxOps` bounds the exec requests of a behaviour;
the texts of requests and answers are left out; a failing `zmq_connect`
or `send` of a ping is a ping without answer. The lines typed after `exec` are
one user step (`pc = "typing"`).

`ExecService` promises, without processes or lists: requests are sent one after
another, end at most once, "ok" only after an answer, silently dropped only when late.
`Manager` implements it under `StatusOf`.

### 2.4 The other programs

`Dice`: one action per loop turn, lock, load, store, unlock, create and join; an
addition is a load and a store. `PipeDivision`: a pipe is a sequence of strings, of which a
read takes up to 256 bytes and the program sees the first (`TakeFirst`). One string always
fits; of a line that is read together with the file name, nothing, all or its end stays in the
pipe (`Behind`), and that end is divided as a line of its own (`EndKinds`, number 0). The kinds
of lines are numbers, a division by zero, a trapping division and the exit line. A read at the
end of pipe2 writes nothing, and what the uninitialised result buffer then holds is printed:
either anything, or still the result printed last (`Unwritten`). At the end
of the typed input the parent of the real program repeats its last line for ever,
which is a choice `SendLine` already has. `ShmDivision`: lines and answers carry the
number of the line; `Interrupt` ends both processes at any step and `Restart` opens
what is left. Where both processes touch the memory at once the real content is a
mixture; in a session that began clean this never happens (`CleanSessionExcludes`),
and only such sessions are promised anything.

### 2.5 The game server (`GameServer`, `GameLobby`)

| variable | code |
|---|---|
| `games` | `std::vector<Game> games`, with `players`, `word`, `clients` of each game |
| `thread[k]` | where `handleClient` of connection k is: `read`, before `lock_guard`, inside a command, or past its loop |
| `fd[k]` | its `clientSocket`; `accept` gives out the lowest free one |
| `cmd[k]`, `target[k]` | the command cut out of the buffer; the game its loop stopped at |
| `up[k]`, `down[k]` | the two directions of the TCP connection |
| `reset` | connections on which a write has met a closed client |
| `client[k]` | where client.cpp is: at its prompt, in `read`, gone |

A command is two steps, `Lock` (lock_guard and the loop) and `Serve` (the change, the
answer, unlock). What is between them is what the mutex protects: `TargetStands` of the
proofs says that what the loop found still holds. A connection is one run of the client;
many runs are many connections, and a thread that ended gives its descriptor back
while the games keep it. That is why a later client may really be judged in the game of
an earlier one: `PlaysOwnGame` promises a player its own game only while nobody had the
descriptor before (`FreshDescriptor`). `PlayMovesToOlder` is the other consequence of
`playGame` looking for a descriptor in the vector from its beginning: who sits in
several games can never play the newer one.

TCP is a stream: `Read` takes one or several pieces, which together are the command of
the first, and `ReadAnswer` may take several answers, of which the client prints all
and the last is what counts. A line of more than 255 bytes is two pieces, a full buffer and
a rest that the server takes for a command of its own, whatever it is: text, `find`, a `join`, a
bare command, which ends the server, or `exit`, which ends the thread (`LongLines`). `write` to a
connection whose client left is lost the first time and raises SIGPIPE the second
(`FatalWrite`); the exception of `substr` ends the process through a detached
thread (`Read` of a bare command). `FusedWith` over-approximates what joined pieces
spell: the command of the first piece with any argument.

Abstractions and bounds: names are short enough for an answer to fit the 255 bytes the
client reads; guesses have at least four letters, cut to four (shorter than three is
undefined behaviour, `guess[i]` behind the end); a client types at most one long line;
`MaxConns` connections and `MaxLines` lines in all; typing to a server that is gone
ends the client and is `Leave`; failures of socket, bind, listen and accept only print
and are left out. The client keeps the line `exit` for itself, so the `exit` branch of
`handleClient` is reached by the rest of a long line only. `typed`, `shown`, `slips`, `joined`
and `judged` are history.

`GameLobby` has no threads, sockets or descriptors' lives: a game is opened with its
first player, players sit down where there is room, in the oldest game of a name or the
oldest with room, and nothing is taken back. `GameServer` implements it.

## 3. Runs

| run | instance | states | shows |
|---|---|---|---|
| `SearchTree` | 5 ids, all orders, all parents | 326 | 3 invariants besides the types: the tree algorithms agree with the creation order |
| `ManagerNodes` | 3 ids, no exec, one port taken | 546 thousand | marking, waiting, strays, pingall |
| `ManagerExec` | 1 id, 3 requests, timeout 1 | 538 thousand | the linked list, its pointers and the passes over it, reasons of errors, refinement |
| `ManagerLive` | 2 ids, 1 request, timeout 0, one port taken, `FairSpec` | 370 thousand | requests end, deaths are noticed, "Ok" from a living node |
| `ManagerDrop` | 2 ids, 1 request, timeout 1 | violation | an expired request is dropped without a word |
| `ManagerHang` | as `ManagerDrop`, `FairSpec` | violation | a dead node stops the manager |
| `Dice` | 3 threads, 4 experiments, fair | 13 thousand | no lost update, totals, termination |
| `PipeDivision` | 6 lines, fair | 313 | answers, log, lost lines |
| `PipeDeadlock` | 2 lines | violation | both processes wait on empty pipes |
| `ShmDivision` | 4 lines, 3 sessions, fair | 9 thousand | clean sessions, recovery by the exit line |
| `ShmStale` | 2 lines, 2 sessions | violation | the typed line is shown as its own result |
| `GameServer` | 2 connections, 4 lines, 2 seats, 1 name, 1 word, 2 guesses, 3 long lines, `FairSpec` | 556 thousand | own games, answers in step, causes of an end, everybody is answered, refinement |

Why the bounds are enough. Five ids give every tree shape with paths of every
length up to five and both sides of every comparison. Three nodes give a chain and a
fork, so that a death, a mark and a walk can meet in a parent, a child and a
sibling; pings need no exec request beside them. Three requests are a list with a head, a
middle and a tail, so that every branch of the unlinking is taken with neighbours on both
sides and a pass goes on from each of them; one node is enough for that, since the list does not
look at where its requests went, and requests to different nodes meet nowhere else (the theorems
hold for any number of both); a timeout of one tick already separates fresh,
at the limit and expired, and with a timeout of 0, in `ManagerLive`, a request is expired one
tick after it was sent; a port taken by an earlier session is a fact about one node, so one
such id beside a free one shows both. Four experiments do not divide by three threads. The pipe programs
alternate after their first line, so more lines repeat what six do. Three sessions
are an interrupted one, one that finds its leftovers and one after it. Two connections
compete for the mutex and for a seat, meet in one game, and the second gets the first
one's descriptor when that ended; four lines let one of them open, the other join and
both play, or one of them end the server by two unread answers while the other works; with
two seats a game is full after one join; one name lets two games share it, and of the
two guesses one is the word; the three long lines end in `exit`, in a bare command and in a
`join`, the ends that close a thread, end the server and are a second command. The safety properties of this run are proved for every value. Deadlock is
not checked (`CHECK_DEADLOCK FALSE`): all programs may end, and the bounded ones run
out of user input; that they do not stop earlier is what the liveness properties say.

Fairness. Manager: the thread runs and its zmq_poll times out after 100 ms
(`WF(ManagerStep)`); time passes (`WF(Tick)`); a forked process gets to its bind, an
accepted request is answered and a queued one delivered once the node listens; a
signalled process dies. Nothing is assumed of the user, who may leave an exec half typed, nor that
anything crashes. The liveness properties therefore except the states in which the
manager waits for the user or for a socket it closes: the second exception is
exactly the finding of `ManagerHang`. Game server: every thread of the server and every
client that waits for an answer runs; users are not bound to type or leave, so nothing
is promised about them. std::mutex promises no order, but lines are bounded, so weak
fairness of `Lock` is enough: the others run out of commands. Dice: each thread runs; the mutex is
not assumed to be fair. The two division programs: each process runs.

## 4. Findings

- `ManagerDrop` (n_op.c:24). `cleanup_operations` runs before `check_responses` with
  the same limit, so the message "Node is unavailable" of a timed-out request is
  only printed when the second changes between the two.
- `ManagerHang` (n_op.c:32). No linger is set on the sockets of `exec`, unlike those of
  the pings; giving up a request the node never accepted blocks the whole manager.
- `PipeDeadlock` (lab1 child.c:16). The child may read the file name and the first
  line at once and drop the line; then both processes wait.
- `ShmStale` (lab3 main.c:41). After an interrupt the semaphores are still posted and
  the next session shows its own input as the result.

Also met while reading, not runs: lab1's parent ignores what `read` returns (main.c:85), so when
a trapping division has ended the child, the quotient of the line before can be printed as the
result of the new one, which `ReadResult` models and `ShownIsNewest` therefore admits; lab57 as committed includes a header
`upcoming_operations.h` that is called `n_op.h`, and `node.h` declares a nameless type;
`CMD_CREATE` is never sent; a node's forwarding branch cannot be reached,
because requests are sent to their target directly and the `root` of a node
process is NULL.

## 5. Proofs

All theorems hold for every value of the constants under the assumptions named in the
modules: `IdsAssumption` (ids are integers, NULL is none of them), `LeftIdsAssumption`,
`MaxOpsAssumption`, `OpTimeoutAssumption`, `DiceAssumption`, `MaxLinesAssumption`,
`ShmAssumption` and `GameAssumption` (bounds are natural numbers; a game has a seat, a
word has four different letters, a guess four letters). Every invariant was
checked by TLC before it was proved. All invariants and action properties of the passing
runs and both refinements are theorems; what is left to TLC is listed at the end of this section.

Induction. The library's induction theorems take an operator as a parameter, which the
installed provers cannot instantiate. Well-foundedness of a relation on a set, `WFMin`, needs
none: a set of natural numbers that is not empty has a least member (`LeastMember`), and a
counterexample with the least grade is no counterexample. `TreeProofs` and `DiceProofs` use this.
The recursive functions of the model are CHOOSE expressions, of which nothing is known until some
function is shown to satisfy their equation; that is the first half of each lemma about one,
and that every such function gives the same result, by induction, the second.

`TreeProofs` is about the operators of `TreeOps`, for every set of ids, finite or not.

- `Desc` is reachability without recursion: the least set that holds the start and the children of
  its members. `Graded` says that some number falls along the pointers, so there is no cycle.
  `SubtreeIsDesc`: the recursion shared by marking, killing and waiting reaches exactly `Desc`.
- `WellFormed`: pointers to ids, no cycle, the search order at every node, no children outside the
  tree. In such a tree `FindNodeFinds` and `ExecTargetFinds`: both descents find exactly the nodes.
- `AttachPointLands`: the recursion of `insert_node` stops at a node without a child on the side
  of the id, or at the id. `InsertGrafts`, `GraftDesc`: the new leaf is below just those nodes that were
  on the way. `InsertKeeps` sums up: the tree stays well formed and gains exactly the id, and no
  node leaves the subtree of another. `VisitsEveryNodeOnce`: `check_nodes` of pingall comes to
  every node, to each once.

`SearchTreeProofs`: every property of the run. The tree is well formed and holds the created ids
(`IInv`); `Shape` says which node hangs below which by age alone. A create keeps it: the new
id hangs below the nodes met on the way down, and these are the ids with nothing older
between them and the new one, because the oldest id of a span is above all of it
(`OldestIsAbove`).

`ManagerProofs`:

- `TypeCorrect` (`TypeOK`), from one lemma per group of actions. `InsertNodeType` shows
  that an insertion gives a tree whatever the recursion `AttachPoint` returns.
- `Invariance`: `IInv` is inductive. `ListIsOpenRequests`, the list as its pointers tell
  it, is not so alone: an unlink through `prev` is right only where `prev` is a listed request
  and `current` the one after it, or the one that was unlinked there (`PassPosition`), and what
  a pass has walked over it had no reason to end (`PassedAreKept`). Requests not sent yet are
  blank (`UnsentIsBlank`) and, for the refinement, what cleanup has still to unlink is late
  (`DueIsLate`). `AvailableIsWaitable` needs that the process of a create in progress is still
  there to be waited for (`ForkedIsWaitable`).
- `ListCorrect`, `PointersCorrect`, `PassesCorrect`, `WaitableCorrect`: consequences of `IInv`.
- `Refinement`: `Manager` implements `ExecService`; the initial states map, and every
  step is a step of the abstract service or leaves its variables alone. `RemoveOperation`
  with result "dropped" needs `DueIsLate`, with "ok" the answer in the socket.

`NodeProofs`: a second inductive invariant, `NInv`, on top of `IInv`, from one rule for what
a step does to the position of the manager, to processes and to requests.

- `TreeInv`: the tree is well formed, and the id of a create in progress is not in it yet: the
  commands that could insert it are not read before the insertion. With `InsertKeeps` no
  node leaves the tree or a subtree, which is why causes and answers stay true.
- `ProcessInv`: a process is in the tree or about to be inserted (`ProcessesAreKnown`);
  the handler signals the whole tree, the window between fork and insertion excepted.
- `CauseInv`: `MarkedForACause` (`MarksHaveACause`), with `Desc` for the walk.
- `RequestInv`: requests go to nodes of the tree, and one that was read or answered went to a node
  that came up and lived when it was sent, or to another process on its port (`OkIsFromANode`). `ErrorHasACause` is inductive beside it (`ErrorsHaveACause`).
- `PingInv`: while pingall runs, every visited node that is marked or was dead is listed, and the
  ping under way will not be answered by the dead (`PingAllIsComplete`). A process of an earlier session
  on the node's port can answer for it, which the property excepts.
- `MarksStay` and `MarksCoverSubtrees` are the action properties of marks, from the same invariant.

`DiceProofs`: `TypeCorrect`, `NoUpdateIsLost`, `PrintedTotalsAddUp`. `NoLostUpdate` becomes
inductive with: the thread in "adding" or "storing" is the owner of the mutex, so at most one
is, and a thread in "storing" has loaded the current total. For the totals, a thread's results and what it
has left come to its share (`ResultsInv`), and some running sum over the threads of what each has added
ends at the sum of the totals (`SumInv`); a step moves one entry of it and all after (`SumRaise`). When all
threads are joined each has added its share, and the shares come to `Experiments` whatever
the remainder of the division is (`SharesAddUp`).

`PipeProofs`: `TypeCorrect`, `AnswerIsNewest`, `LoggedFirst`, `LossIsBounded`. The
invariant says where the line typed last is, by the state of the parent: nothing is
under way while it is at its prompt (`NothingSent`); while it waits, the line is in the
first pipe, with the child, or answered in the second (`LineIsSomewhere`). From this the
pipes hold at most two strings and one, the quotient in the second pipe is the last
line's and logged, and the only read that can swallow a line is the one of the file name.
`LogIsOld` and `ShownIsTrue` relate what was shown to the file: once the child is gone an old
quotient may be shown again, but it is still the newest there is.

`ShmProofs`: `TypeCorrect`, `CleanSessionIsRight`, `CleanSessionIsExclusive`, `Healing`. In
a clean session `CleanTurns` is the same argument with two semaphores for the pipes:
the line is with the parent (both are 0), or on its way, where exactly one of a post,
the child at work and a post back exists. `OverIsOver` carries it to the next session:
who ends by the exit line leaves both semaphores at 0. `PostsAreLines` bounds the
semaphores in unclean sessions, for the types.

`GameProofs`: `TypeCorrect`, `JudgedInOwnGame`, `JudgedInOldest`, `DialogInStep`,
`ServerSurvives`, `Refinement`. The inductive invariant has two halves.

- `ThreadInv`, about the server. `MutexHeldOnce`, and `TargetStands`: what the mutex owner
  found in `games` still holds when it acts on it, which is what `gamesMutex` is for and
  what the refinement rests on. `FdFreed`: two connections share a descriptor only when
  the older one's thread has ended. `SeatsAreTaken`: a descriptor in a game was put there
  by a connection that joined it. Together they give `PlaysOwnGame` for a client whose
  descriptor nobody had before. `JudgedTruly` ties four bulls to equality with the word;
  `BullsAndCows` proves the counting loops' part of it. `PlayMovesToOlder` needs that the
  loop stops at the first of its candidates and that seats are never given back.
- `DialogInv`, about a client and its thread. Without a long line at most one line is
  under way: in one direction, with the thread, or in the other (`OneLineUnderWay`), and
  without an empty line it is the one typed last (`LastLineUnderWay`), so `AnswersInStep`.
  `ResetIsClosed` and `BareIsTyped`, for bare commands typed or cut from the end of a long line,
  give the causes `ServerEndsForACause` admits.
- `Refinement`: `Serve` is `Open`, `SitDown` or nothing in `GameLobby`; every other
  step leaves the view of it alone. `TargetStands` tells that the seat is free and
  in the oldest game that has one.

Model-checked only:

- liveness under fairness, which is out of the prover's reach: `RequestsEnd`,
  `DeathsAreNoticed`, `Finishes`, both `SentLineIsAnswered`,
  `CommandsAreAnswered`;
- the four runs that show a violation, whose counterexamples are small instances by nature.

## 6. Plan

Done: lab57, laba2, lab1, lab3 and KP are modelled, and every safety and action property of
theirs is proved. Left:

1. `PipeDivision`: an abstract dialog (a line is asked, divided at most once, answered or not),
   which it implements; today its three safety properties are stated one by one.
2. `NodeProofs`: what pingall lists besides the dead, that is, which nodes it may list wrongly; today only
   completeness of the list is stated.

Not modelled, and why:

- the substring search (copm_utils.c): a pure function of two strings over a static buffer;
  nodes have one thread, and its result is text that the requests abstract from;
- lab4: floating-point functions and one sequential loop over one library handle;
- ext_main.c: a linear script of calls of the manager's functions; build and editor files;
- the lengths of text buffers, the buffering of stdio in front of `zmq_poll`, and guesses
  of fewer than three letters (undefined behaviour): listed as hazards without a property;
- failures of socket, bind, listen and accept in KP, which only print.
