----------------------------- MODULE MCAttrition -----------------------------
(* TLC instances of Attrition. *)
EXTENDS Attrition, TLC

CONSTANTS e1, e2, e3, d1, d2, n1, n2

(* Everybody in a department with its target of headcount, nobody in one   *)
(* without a target.                                                       *)
MCHomeOf == [e \in Employee |-> d1]
MCTarget == (d1 :> Cardinality(Employee)) @@ (d2 :> 0)

(* One of three is likely to leave: a share of 33 percent, between the     *)
(* thresholds of 20 and 35, which a report of one row turns into 100.      *)
MCScores == (e1 :> <<60>>) @@ (e2 :> << >>) @@ (e3 :> << >>)

(* Bounds the changes of staff: one employee at a time is away from the    *)
(* department of the beginning, or has left.                               *)
OneAway == Cardinality({e \in Employee : dept[e] # HomeOf[e]} \cup (Employee \ active)) <= 1

Symmetry == Permutations(Run) \cup Permutations({e2, e3})
=============================================================================
