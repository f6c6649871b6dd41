------------------------------ MODULE MCQueue ------------------------------
(***************************************************************************)
(* Instances of Queue for TLC.                                             *)
(***************************************************************************)
EXTENDS Queue

CONSTANTS i1, i2, w1, w2

OneId == {i1}
TwoIds == {i1, i2}
OneWorker == {w1}
TwoWorkers == {w1, w2}
=============================================================================
