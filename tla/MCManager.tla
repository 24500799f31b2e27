----------------------------- MODULE MCManager -----------------------------
(* Manager for TLC.  The ids are ordered integers, so no symmetry is used.  *)
EXTENDS Manager
OneId == {1}
TwoIds == {1, 2}
ThreeIds == {1, 2, 3}
=============================================================================
