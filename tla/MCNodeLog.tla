---------------------------- MODULE MCNodeLog ----------------------------
(* Instances of NodeLog for TLC.                                           *)
EXTENDS NodeLog, TLC

CONSTANTS w1, w2, c1

TwoWorkers == {w1, w2}
OneWorker == {w1}
OneWriter == {c1}
NoWriters == {}
Symmetry == Permutations(Workers) \cup Permutations(Writers)
=============================================================================
