----------------------------- MODULE Compliance ------------------------------
(***************************************************************************)
(* Compliance requests: services/compliance.py.                            *)
(*                                                                         *)
(* A request and its audit row are committed together; after that, in a    *)
(* transaction of its own, the export of the employee's data is put        *)
(* together for the answer.  A caller who gets an error does not know      *)
(* whether the request was filed, and sends it again.  Every attempt files *)
(* a row of its own: the program has no key that tells a repetition.       *)
(***************************************************************************)
EXTENDS AccessControl, Naturals, FiniteSets

CONSTANTS Employee,
          Submission,   \* what callers want filed
          By,           \* By[s]: the caller's claims
          Asked,        \* Asked[s]: the payload's employee_id, or None
          Kind,         \* Kind[s]: the payload's request_type
          ExportLimit,  \* how many rows of a table an export takes
          MaxRows,      \* bounds the rows about an employee
          MaxTries      \* MaxTries[s]: bounds the attempts of a caller

AllowedRequestTypes == {"DATA_EXPORT", "DATA_DELETION", "RECTIFICATION"}

ASSUME ComplianceAssumption ==
  /\ None \notin Employee
  /\ \A s \in Submission : By[s].role \in Roles
  /\ ExportLimit \in Nat \ {0} /\ MaxRows \in Nat
  /\ MaxTries \in [Submission -> Nat]

VARIABLES requests, audits,  \* rows of compliance_requests; audit rows on them
          facts,             \* how many rows of a table there are about someone
          pc, try,           \* where a submission is, and in which attempt
          answer,            \* the export a submission was answered with
          before             \* history: facts on the subject when it was filed

complianceVars == <<requests, audits, facts, pc, try, answer, before>>

(* Reviews are taken as predictions are and left out.                      *)
Tables == {"ml_predictions", "audit_logs"}
Nothing == [t \in Tables |-> {}]
NoFacts == [t \in Tables |-> 0]

ComplianceTypeOK ==
  /\ \A r \in requests \cup audits :
       r.sub \in Submission /\ r.try \in 1..MaxTries[r.sub] /\ r = [sub |-> r.sub, try |-> r.try]
  /\ facts \in [Employee -> [Tables -> 0..MaxRows]]
  /\ pc \in [Submission ->
              {"new", "filing", "exporting", "answered", "refused", "failed"}]
  /\ try \in [Submission -> Nat] /\ \A s \in Submission : try[s] <= MaxTries[s]
  /\ answer \in [Submission -> [Tables -> SUBSET (1..MaxRows)]]
  /\ before \in [Submission -> [Tables -> 0..MaxRows]]

ComplianceInit ==
  /\ requests = {} /\ audits = {}
  /\ facts = [e \in Employee |-> NoFacts]
  /\ pc = [s \in Submission |-> "new"]
  /\ try = [s \in Submission |-> 0]
  /\ answer = [s \in Submission |-> Nothing]
  /\ before = [s \in Submission |-> NoFacts]

-----------------------------------------------------------------------------
(* `payload.get("employee_id") or context.employee_id`                     *)
Subject(s) == IF Asked[s] # None THEN Asked[s] ELSE By[s].emp

Goto(s, where) == pc' = [pc EXCEPT ![s] = where]

(* Validation, the employee's row, the caller's right: all before the      *)
(* first write.                                                            *)
Acceptable(s) ==
  /\ Kind[s] \in AllowedRequestTypes
  /\ Subject(s) \in Employee
  /\ MayFile(By[s], Subject(s))

Submit(s) ==
  /\ pc[s] \in {"new", "failed"} /\ try[s] < MaxTries[s]
  /\ try' = [try EXCEPT ![s] = @ + 1]
  /\ Goto(s, IF Acceptable(s) THEN "filing" ELSE "refused")
  /\ UNCHANGED <<requests, audits, facts, answer, before>>

ThisRow(s) == [sub |-> s, try |-> try[s]]

(* A slip: a deletion is carried out at once and needs no record.          *)
FileUnaudited(s) ==
  /\ requests' = requests \cup {ThisRow(s)}
  /\ audits' = IF Kind[s] = "DATA_DELETION" THEN audits ELSE audits \cup {ThisRow(s)}

(* The row and its audit row, in one commit.                               *)
File(s) ==
  /\ requests' = requests \cup {ThisRow(s)}
  /\ audits' = audits \cup {ThisRow(s)}

(* seen: the commit's answer came, and the process went on.                *)
Commit(s, seen) ==
  /\ pc[s] = "filing"
  /\ File(s)
  /\ before' = IF seen THEN [before EXCEPT ![s] = facts[Subject(s)]] ELSE before
  /\ Goto(s, IF ~seen THEN "failed"
             ELSE IF Kind[s] = "DATA_EXPORT" THEN "exporting" ELSE "answered")
  /\ UNCHANGED <<facts, try, answer>>

(* Any step of the handler may fail; before the commit nothing is kept.    *)
Fail(s) ==
  /\ pc[s] \in {"filing", "exporting"}
  /\ Goto(s, "failed")
  /\ UNCHANGED <<requests, audits, facts, try, answer, before>>

(* A slip: ordered by time, and not the newest first.                      *)
Oldest(n) == {i \in 1..n : i <= ExportLimit}

(* ORDER BY .. DESC LIMIT 500                                              *)
Newest(n) == {i \in 1..n : i + ExportLimit > n}

(* build_employee_data_export, in a snapshot taken after the commit.       *)
ExportOf(s) ==
  [t \in Tables |->
     IF t = "audit_logs" /\ By[s].role \notin HR \cup {"AUDITOR"} THEN {}
     ELSE Newest(facts[Subject(s)][t])]

Export(s) ==
  /\ pc[s] = "exporting"
  /\ answer' = [answer EXCEPT ![s] = ExportOf(s)]
  /\ Goto(s, "answered")
  /\ UNCHANGED <<requests, audits, facts, try, before>>

(* Reviews, predictions and updates are written by others at any time.     *)
Learn(e, t) ==
  /\ facts[e]["ml_predictions"] + facts[e]["audit_logs"] < MaxRows
  /\ facts' = [facts EXCEPT ![e][t] = @ + 1]
  /\ UNCHANGED <<requests, audits, pc, try, answer, before>>

ComplianceNext ==
  \/ \E s \in Submission : \/ Submit(s) \/ Fail(s) \/ Export(s)
                           \/ \E seen \in BOOLEAN : Commit(s, seen)
  \/ \E e \in Employee, t \in Tables : Learn(e, t)

-----------------------------------------------------------------------------
Filed(s) == {r \in requests : r.sub = s}

(* Filed and audited go together; who was told that a request is filed     *)
(* finds it filed, and whatever is filed was filed by someone with the     *)
(* right to, about the one the right was asked for (lines 15-51).          *)
FiledAndAudited ==
  /\ requests = audits
  /\ \A s \in Submission :
       /\ pc[s] = "answered" => ThisRow(s) \in requests
       /\ pc[s] = "filing" => ThisRow(s) \notin requests
       /\ Filed(s) # {} =>
            \/ By[s].role \in HR \cup {"AUDITOR"}
            \/ By[s].role = "EMPLOYEE" /\ Asked[s] \in {None, By[s].emp}

(* An export holds whatever was known of the subject when it was filed, or *)
(* as many of the newest rows as an export takes; it holds nothing that is *)
(* not there, and no audit row for the employee himself (lines 69-100).    *)
ExportCoversFiling ==
  \A s \in Submission : pc[s] = "answered" /\ Kind[s] = "DATA_EXPORT" =>
    \A t \in Tables :
      /\ answer[s][t] \subseteq 1..facts[Subject(s)][t]
      /\ IF t = "audit_logs" /\ By[s].role = "EMPLOYEE"
         THEN answer[s][t] = {}
         ELSE \A i \in 1..before[s][t] :
                i \in answer[s][t]
                  \/ Cardinality({j \in answer[s][t] : j > i}) = ExportLimit
=============================================================================
