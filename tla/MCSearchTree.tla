---------------------------- MODULE MCSearchTree ----------------------------
(* SearchTree for TLC: five ids, one of them negative, in every order.      *)
EXTENDS SearchTree
MCIds == {-2, 1, 4, 5, 9}
=============================================================================
