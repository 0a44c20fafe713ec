--------------------------- MODULE EmployeeUpdate ---------------------------
(***************************************************************************)
(* update_employee of workforceiq/services/employees.py and the audit_logs *)
(* rows it writes.                                                         *)
(*                                                                         *)
(* A request reads everything it validates against from one snapshot,      *)
(* then commits the columns whose value it changes together with the audit *)
(* entry, which has had its time stamp since it was flushed.  Nothing      *)
(* before the UPDATE is locked, and the UPDATE does not check that the row *)
(* is still the one that was read.                                         *)
(***************************************************************************)
EXTENDS Naturals, Sequences

\* AuthorizedIgnoringFields, CommitTwoTransactions, ... vary the definition they
\* stand before by one plausible slip; Spec uses none of them.

CONSTANTS Employee,
          Request,      \* slots for requests in flight
          Email,
          Department,
          Role,
          RoleDept,     \* roles.department_id, never written by the program
          Free,         \* values of a column validated on its own (name,
                        \* status, hire_date), for which `name` stands
          None,         \* SQL NULL
          HR,           \* a caller whose role is SUPER_ADMIN or HR_MANAGER
          Field,        \* the fields clients send, of AllFields
          MaxAudit,     \* bound on the number of updates
          MaxTime       \* bound on the clock

AllFields == {"name", "email", "dept", "role", "manager"}

ASSUME UpdateAssumption ==
  /\ RoleDept \in [Role -> Department]
  /\ Field \subseteq AllFields
  /\ None \notin Employee \cup Nat /\ HR \notin Employee
  /\ MaxAudit \in Nat /\ MaxTime \in Nat

VARIABLES
  rows,    \* rows[e]: the employees row of e
  req,     \* req[r]: the request in slot r
  audit,   \* the UPDATE entries of audit_logs, in the order of their commits
  now,     \* the time of the last flush
  first,   \* history: the rows as they were loaded
  seen     \* history: seen[r]: the row the request in slot r has read

vars == <<rows, req, audit, now, first, seen>>

(* What a client may send for a field, and what the column may hold. *)
ValueOf(f) ==
  CASE f = "name" -> Free
    [] f = "email" -> Email
    [] f = "dept" -> Department
    [] f = "role" -> Role
    [] f = "manager" -> Employee \cup {None}

Value == UNION {ValueOf(f) : f \in AllFields}

Typed(values) == \A f \in DOMAIN values : values[f] \in ValueOf(f)

Row == {t \in [AllFields -> Value] : Typed(t)}

(* JSON bodies: some of the fields, each with a value of its type. *)
Body == {p \in UNION {[F -> Value] : F \in SUBSET AllFields} : Typed(p)}

Sent == {p \in Body : DOMAIN p # {} /\ DOMAIN p \subseteq Field}

Caller == {HR} \cup Employee

Idle == [pc |-> "idle"]

(* A change: the employee, who asked for it, the columns with the values   *)
(* that were read and the values that are written, and the time stamp of   *)
(* its audit entry, None before the flush.                                 *)
Change == [emp : Employee, by : Caller, old : Body, new : Body, at : Nat \cup {None}]

TypeOK ==
  /\ rows \in [Employee -> Row]
  /\ first \in [Employee -> Row]
  /\ req \in [Request -> {Idle} \cup Change]
  /\ audit \in Seq(Change)
  /\ now \in Nat
  /\ seen \in [Request -> {Idle} \cup Row]

EmailsDiffer(table) == \A e, d \in Employee : e # d => table[e]["email"] # table[d]["email"]

RolesMatch(table) == \A e \in Employee : RoleDept[table[e]["role"]] = table[e]["dept"]

Init ==
  /\ rows \in {t \in [Employee -> Row] :
                 /\ EmailsDiffer(t)
                 /\ RolesMatch(t)
                 /\ \A e \in Employee : t[e]["manager"] # e}
  /\ first = rows
  /\ req = [r \in Request |-> Idle]
  /\ audit = <<>>
  /\ now = 0
  /\ seen = [r \in Request |-> Idle]

-----------------------------------------------------------------------------
AuthorizedIgnoringFields(by, e, fields) == by \in {HR, e}

(* authorize_employee_write *)
Authorized(by, e, fields) ==
  \/ by = HR
  \/ by = e /\ fields \subseteq {"name", "email"}

(* The value a field will have: the one sent, else the one on record. *)
Target(row, payload, f) == IF f \in DOMAIN payload THEN payload[f] ELSE row[f]

(* A slip: the role is looked at when it is sent, whatever the department. *)
ValidByField(e, payload) ==
  /\ "email" \in DOMAIN payload =>
       \A d \in Employee \ {e} : rows[d]["email"] # payload["email"]
  /\ "role" \in DOMAIN payload =>
       RoleDept[payload["role"]] = Target(rows[e], payload, "dept")
  /\ Target(rows[e], payload, "manager") # e

(* _validate_employee_update_payload *)
Valid(e, payload) ==
  /\ "email" \in DOMAIN payload =>
       \A d \in Employee \ {e} : rows[d]["email"] # payload["email"]
  /\ RoleDept[Target(rows[e], payload, "role")] = Target(rows[e], payload, "dept")
  /\ Target(rows[e], payload, "manager") # e

Pick(values, fields) == [f \in fields |-> values[f]]

(* A slip: the old values are collected when the new ones are in place.    *)
ChangesTooLate(e, by, payload) ==
  LET changed == {f \in DOMAIN payload : payload[f] # rows[e][f]}
  IN [emp |-> e, by |-> by, old |-> Pick(payload, changed), new |-> Pick(payload, changed),
      at |-> None]

(* The loop over the requested fields: those whose value differs. *)
Changes(e, by, payload) ==
  LET changed == {f \in DOMAIN payload : payload[f] # rows[e][f]}
  IN [emp |-> e, by |-> by, old |-> Pick(rows[e], changed), new |-> Pick(payload, changed),
      at |-> None]

(* update_employee up to its commit.  A request that is denied, invalid or *)
(* changes nothing is answered with an error and is not kept.              *)
Read(r, e, by, payload) ==
  /\ req[r] = Idle
  /\ Authorized(by, e, DOMAIN payload)
  /\ Valid(e, payload)
  /\ DOMAIN Changes(e, by, payload).new # {}
  /\ req' = [req EXCEPT ![r] = Changes(e, by, payload)]
  /\ seen' = [seen EXCEPT ![r] = rows[e]]
  /\ UNCHANGED <<rows, audit, now, first>>

(* The flush: the audit entry is INSERTed with its time stamp, perhaps     *)
(* before the UPDATE gets the lock of the row.  The clock may have gone on *)
(* since the last flush, or not.                                           *)
Flush(r) ==
  /\ req[r] # Idle
  /\ req[r].at = None
  /\ now' \in now .. MaxTime
  /\ req' = [req EXCEPT ![r].at = now']
  /\ UNCHANGED <<rows, audit, first, seen>>

Overlay(row, values) == [f \in AllFields |-> Target(row, values, f)]

EmailTakenUnconstrained(change) == FALSE

(* uq_employees_org_email, on the rows as they are at the UPDATE. *)
EmailTaken(change) ==
  /\ "email" \in DOMAIN change.new
  /\ \E d \in Employee \ {change.emp} : rows[d]["email"] = change.new["email"]

Answer(r) ==
  /\ req' = [req EXCEPT ![r] = Idle]
  /\ seen' = [seen EXCEPT ![r] = Idle]

CommitTwoTransactions(r) ==
  /\ req[r] # Idle
  /\ req[r].at # None
  /\ Len(audit) < MaxAudit
  /\ rows' = IF EmailTaken(req[r]) THEN rows
             ELSE [rows EXCEPT ![req[r].emp] = Overlay(@, req[r].new)]
  /\ audit' = Append(audit, req[r])
  /\ Answer(r)
  /\ UNCHANGED <<now, first>>

(* The UPDATE and the commit: the row and the audit entry in one           *)
(* transaction, the row locked from the one to the other.  A duplicate     *)
(* e-mail is an IntegrityError: both are rolled back (400).                *)
Commit(r) ==
  /\ req[r] # Idle
  /\ req[r].at # None
  /\ Len(audit) < MaxAudit
  /\ IF EmailTaken(req[r])
       THEN UNCHANGED <<rows, audit>>
       ELSE /\ rows' = [rows EXCEPT ![req[r].emp] = Overlay(@, req[r].new)]
            /\ audit' = Append(audit, req[r])
  /\ Answer(r)
  /\ UNCHANGED <<now, first>>

(* The worker dies before its commit. *)
Crash(r) ==
  /\ req[r] # Idle
  /\ Answer(r)
  /\ UNCHANGED <<rows, audit, now, first>>

Next ==
  \/ \E r \in Request, e \in Employee, by \in Caller, payload \in Sent :
       Read(r, e, by, payload)
  \/ \E r \in Request : Flush(r) \/ Commit(r) \/ Crash(r)

Spec == Init /\ [][Next]_vars

-----------------------------------------------------------------------------
(* The entries of a log that changed field f of e. *)
Entries(log, e, f) == {i \in DOMAIN log : log[i].emp = e /\ f \in DOMAIN log[i].new}

(* Entry k had its time stamp no later than entry i and committed after    *)
(* it: the two updates were open at the same time.                         *)
Crossed(k, i) == i < k /\ audit[k].at <= audit[i].at

(* The audit trail, read by its time stamps as GET /audit-logs shows it,   *)
(* accounts for the record: a column holds what the latest entry naming it *)
(* says, or the value it was loaded with, however updates race or are      *)
(* rolled back.  Where an update with an earlier stamp was held up and     *)
(* committed last, the column holds what that one says.                    *)
AuditReplays ==
  \A e \in Employee, f \in AllFields :
    LET trail == Entries(audit, e, f) IN
    /\ trail = {} => rows[e][f] = first[e][f]
    /\ \A i \in trail : (\A j \in trail : audit[j].at <= audit[i].at) =>
         \E k \in trail : /\ rows[e][f] = audit[k].new[f]
                         /\ \/ k = i
                            \/ Crossed(k, i) /\ \A j \in trail : j <= k

(* Two updates that both found an e-mail free never both get it.           *)
EmailsUnique == EmailsDiffer(rows)

(* A column other than name and e-mail that no longer has its first value  *)
(* was set by an update an HR role asked for: employee self-service cannot *)
(* reach it.                                                               *)
PrivilegedByHR ==
  \A e \in Employee, f \in AllFields \ {"name", "email"} :
    rows[e][f] # first[e][f] =>
      \E i \in Entries(audit, e, f) : audit[i].by = HR /\ audit[i].new[f] = rows[e][f]

(* The old values of the audit trail were held: what an entry says a       *)
(* column held before is what the column was loaded with or what an        *)
(* earlier entry for the employee put there, though with another update in *)
(* between it need not be the value that was replaced (lines 132-161).     *)
OldValuesWereHeld ==
  \A i \in DOMAIN audit : \A f \in DOMAIN audit[i].old :
    LET e == audit[i].emp IN
    \/ audit[i].old[f] = first[e][f]
    \/ \E j \in Entries(audit, e, f) : j < i /\ audit[j].new[f] = audit[i].old[f]

Matches(row) == RoleDept[row["role"]] = row["dept"]

(* Request r, which commits, was validated against another role or         *)
(* department than it finds.                                               *)
Overtaken(r, e) ==
  /\ req[r] # Idle /\ req[r].emp = e /\ req'[r] = Idle
  /\ \E f \in {"role", "dept"} : seen[r][f] # rows[e][f]

(* An employee comes to have a role of another department only where an    *)
(* update of the one overtakes an update of the other: each alone is       *)
(* refused (test_update_employee_rejects_cross_department_role).           *)
MixedOnlyByOvertaking ==
  [][\A e \in Employee : Matches(rows[e]) /\ ~Matches(rows'[e])
       => \E r \in Request : Overtaken(r, e)]_vars
=============================================================================
