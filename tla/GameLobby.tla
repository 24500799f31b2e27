----------------------------- MODULE GameLobby -----------------------------
(***************************************************************************)
(* What the bulls and cows server of KP promises about its games, without  *)
(* threads, sockets and the mutex: each command takes effect at once.  A   *)
(* game is opened with its first player, a player sits down only where     *)
(* there is room, in the oldest game of a name or the oldest game with     *)
(* room at all, and nothing is ever taken back.                            *)
(***************************************************************************)
EXTENDS Integers, Sequences

CONSTANTS
  Names,        (* names of games                     *)
  Words,        (* the words to guess                 *)
  Fds,          (* descriptors, which stand for players *)
  MAX_PLAYERS   (* seats of a game                    *)

VARIABLE lobby  (* the games, oldest first            *)

Init == lobby = <<>>

Open(name, word, d) ==
  lobby' = Append(lobby, [name |-> name, word |-> word, clients |-> <<d>>])

Room(g) == Len(lobby[g].clients) < MAX_PLAYERS

SitDown(g, d) ==
  /\ Room(g)
  /\ \/ \A h \in 1..(g - 1) : lobby[h].name # lobby[g].name
     \/ \A h \in 1..(g - 1) : ~Room(h)
  /\ lobby' = [lobby EXCEPT ![g].clients = Append(@, d)]

Next == \E d \in Fds :
          \/ \E name \in Names, word \in Words : Open(name, word, d)
          \/ \E g \in 1..Len(lobby) : SitDown(g, d)

Spec == Init /\ [][Next]_lobby
=============================================================================
