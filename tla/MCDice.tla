------------------------------- MODULE MCDice -------------------------------
(* Dice for TLC: fewer experiments than a multiple of the threads, so that  *)
(* the threads get different shares.                                       *)
EXTENDS Dice
=============================================================================
