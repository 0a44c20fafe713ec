-------------------------- MODULE MCEmployeeUpdate --------------------------
(* TLC instances of EmployeeUpdate. *)
EXTENDS EmployeeUpdate, TLC

CONSTANTS e1, e2, r1, r2, m1, m2, m3, d1, d2, ra, rb, rc

(* Two roles in the first department, one in the second. *)
MCRoleDept == [r \in Role |-> IF r = rc THEN d2 ELSE d1]

(* Nobody has a manager at first, and updates of the instance send none:   *)
(* states that differ in managers only behave alike.                       *)
NoManagers == \A e \in Employee : rows[e]["manager"] = None

Symmetry == Permutations(Employee) \cup Permutations(Request) \cup Permutations(Email)
=============================================================================
