--------------------------- MODULE MCIdempotency ---------------------------
(* Instances of Idempotency for TLC.                                       *)
EXTENDS Idempotency, TLC

CONSTANTS n1, n2, w1

\* A charge whose corrections are corrected in turn, a reservation, and a
\* charge with a crash and a failed lookup or allocation.
Charge == [hold |-> FALSE, depth |-> 3, crashes |-> 0, faults |-> 0]
Reservation == [hold |-> TRUE, depth |-> 2, crashes |-> 0, faults |-> 0]
Recovery == [hold |-> FALSE, depth |-> 2, crashes |-> 1, faults |-> 1]
AllPlans == {Charge, Reservation, Recovery}

Symmetry == Permutations(Nodes)
=============================================================================
