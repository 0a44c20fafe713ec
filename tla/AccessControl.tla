---------------------------- MODULE AccessControl ----------------------------
(***************************************************************************)
(* Who may do what: the rules of workforceiq/auth.py.                      *)
(*                                                                         *)
(* A context c holds the claims of the caller's access token: a role, a    *)
(* department and an employee, both possibly None.  The claims come from   *)
(* the account's row, which no operation changes: they say what was true   *)
(* when the account was made.                                              *)
(***************************************************************************)
CONSTANT None

Roles == {"SUPER_ADMIN", "HR_MANAGER", "DEPT_HEAD", "RECRUITER", "EMPLOYEE", "AUDITOR"}

HR == {"SUPER_ADMIN", "HR_MANAGER"}

IsSelf(c, e) == c.role = "EMPLOYEE" /\ c.emp = e
Heads(c, d) == c.role = "DEPT_HEAD" /\ c.dept = d

(* authorize_employee_read: e works in department d.                       *)
MayReadEmployee(c, e, d) == c.role \in HR \/ Heads(c, d) \/ IsSelf(c, e)

(* authorize_compliance_request                                            *)
MayFile(c, e) == c.role \in HR \cup {"AUDITOR"} \/ IsSelf(c, e)
=============================================================================
