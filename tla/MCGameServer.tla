---------------------------- MODULE MCGameServer ----------------------------
(* GameServer for TLC: the word, a guess with two bulls and two cows, and   *)
(* long lines that end in exit, in a bare command and in a whole one.       *)
EXTENDS GameServer
MCWords == {<<"q", "w", "e", "r">>}
MCGuesses == {<<"q", "w", "e", "r">>, <<"q", "w", "r", "e">>}
MCLongLines ==
  {[head |-> Find, rest |-> Exit], [head |-> Other, rest |-> Bare]}
    \cup {[head |-> Other, rest |-> l] : l \in [op : {"join"}, arg : Names]}
=============================================================================
