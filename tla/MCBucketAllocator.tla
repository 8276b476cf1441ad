------------------------ MODULE MCBucketAllocator ------------------------
(* Instances of BucketAllocator for TLC.                                   *)
EXTENDS BucketAllocator, TLC

CONSTANTS t1, t2

TwoTasks == {t1, t2}
OneTask == {t1}
Symmetry == Permutations(Tasks)
=============================================================================
