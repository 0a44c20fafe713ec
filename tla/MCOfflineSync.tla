--------------------------- MODULE MCOfflineSync ---------------------------
(* TLC instances of OfflineSync. *)
EXTENDS OfflineSync, TLC

CONSTANTS p1, p2

(* Neighbours in the queue want different values. *)
MCWant == [m \in Mutation |-> m % 2]

(* The processes are alike; taken by the run that checks invariants only. *)
Symmetry == Permutations(Proc)
=============================================================================
