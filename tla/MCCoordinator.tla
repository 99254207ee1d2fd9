---------------------------- MODULE MCCoordinator ----------------------------
(* Small instances of the coordinator for TLC. *)
EXTENDS CoordinatorProperties

CONSTANTS i1, i2, c1, c2, w1, w2, w3, e1, e2, o1, o2, t1, t2

\* One coordinator for every worker, and two: the third worker has its own.
OneHome == [ w \in Workers |-> c1 ]
TwoHomes == [ w \in Workers |-> IF w = w3 THEN c2 ELSE c1 ]
=============================================================================
