------------------------------- MODULE Staff ---------------------------------
(***************************************************************************)
(* What the background tasks have in common: the employees, where they are *)
(* at first, and the number of rows an export may have.                    *)
(***************************************************************************)
EXTENDS FiniteSets

CONSTANTS Employee, Department,
          HomeOf,  \* HomeOf[e]: the department e is in at first
          MaxRows  \* MAX_EXPORT_ROWS

(* A table has finitely many rows.                                         *)
ASSUME StaffAssumption ==
  IsFiniteSet(Employee) /\ HomeOf \in [Employee -> Department]
=============================================================================
