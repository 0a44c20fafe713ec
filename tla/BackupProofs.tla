---------------------------- MODULE BackupProofs -----------------------------
(***************************************************************************)
(* Proofs about Compliance and Backup, for any callers, employees, limits  *)
(* and exporters.                                                          *)
(***************************************************************************)
EXTENDS Backup, FiniteSetTheorems, TLAPS

(* Rows are filed in attempts that were made, at most one in each, and by  *)
(* somebody with the right to.                                             *)
RowsWereAttempted ==
  /\ requests = audits
  /\ \A r \in requests :
       /\ r.try <= try[r.sub]
       /\ pc[r.sub] = "filing" => r.try < try[r.sub]
       /\ Acceptable(r.sub)
  /\ \A s \in Submission :
       /\ pc[s] \in {"exporting", "answered"} => ThisRow(s) \in requests
       /\ pc[s] \in {"filing", "exporting", "answered"} => Acceptable(s)
       /\ pc[s] # "new" => try[s] >= 1

FilingInv == ComplianceTypeOK /\ RowsWereAttempted

(* What an export is to hold is still there, and what it was answered with *)
(* was there and is still.                                                 *)
Covered(s) ==
  \A t \in Tables :
    /\ answer[s][t] \subseteq 1..facts[Subject(s)][t]
    /\ IF t = "audit_logs" /\ By[s].role = "EMPLOYEE"
       THEN answer[s][t] = {}
       ELSE \A i \in 1..before[s][t] :
              i \in answer[s][t] \/ Cardinality({j \in answer[s][t] : j > i}) = ExportLimit

ExportInv ==
  \A s \in Submission :
    /\ pc[s] = "exporting" => \A t \in Tables : before[s][t] <= facts[Subject(s)][t]
    /\ pc[s] = "answered" /\ Kind[s] = "DATA_EXPORT" => Covered(s)

-----------------------------------------------------------------------------
(* Who may file for an employee is of HR, an auditor or that employee.     *)
LEMMA AcceptableMeans ==
  ASSUME NEW s, Acceptable(s)
  PROVE  /\ Subject(s) \in Employee
         /\ \/ By[s].role \in HR \cup {"AUDITOR"}
            \/ By[s].role = "EMPLOYEE" /\ Asked[s] \in {None, By[s].emp}
BY DEF Acceptable, MayFile, IsSelf, Subject

(* An attempt is the next one, and is filed by none of the rows there are. *)
LEMMA SubmitKeepsInv ==
  ASSUME FilingInv, NEW s \in Submission, Submit(s)
  PROVE  FilingInv'
<1> USE ComplianceAssumption
<1>0. try[s] \in Nat /\ MaxTries[s] \in Nat /\ try[s] < MaxTries[s]
  BY DEF Submit, FilingInv, ComplianceTypeOK
<1>1. /\ try[s] \in Nat /\ try[s] + 1 <= MaxTries[s] /\ MaxTries[s] \in Nat
      /\ try' = [try EXCEPT ![s] = try[s] + 1]
      /\ pc' = [pc EXCEPT ![s] = IF Acceptable(s) THEN "filing" ELSE "refused"]
      /\ UNCHANGED <<requests, audits, facts, answer, before>>
  BY <1>0 DEF Submit, Goto
<1>2. /\ \A u \in Submission : try'[u] = IF u = s THEN try[s] + 1 ELSE try[u]
      /\ \A u \in Submission : pc'[u] = IF u = s THEN (IF Acceptable(s) THEN "filing" ELSE "refused")
                                        ELSE pc[u]
  BY <1>1 DEF FilingInv, ComplianceTypeOK
<1>3. ComplianceTypeOK'
  BY <1>1, <1>2 DEF FilingInv, ComplianceTypeOK
<1>4. RowsWereAttempted'
  <2>1. ASSUME NEW r \in requests
        PROVE  /\ r.try <= try'[r.sub]
               /\ pc'[r.sub] = "filing" => r.try < try'[r.sub]
               /\ Acceptable(r.sub)
    <3>1. /\ r.sub \in Submission /\ r.try \in Nat /\ try[r.sub] \in Nat
          /\ r.try <= try[r.sub]
          /\ pc[r.sub] = "filing" => r.try < try[r.sub]
          /\ Acceptable(r.sub)
      BY DEF FilingInv, ComplianceTypeOK, RowsWereAttempted
    <3>2. QED
      BY <1>1, <1>2, <3>1
  <2>2. ASSUME NEW u \in Submission
        PROVE  /\ pc'[u] \in {"exporting", "answered"} => ThisRow(u)' \in requests
               /\ pc'[u] \in {"filing", "exporting", "answered"} => Acceptable(u)
               /\ pc'[u] # "new" => try'[u] >= 1
    BY <1>1, <1>2 DEF FilingInv, RowsWereAttempted, ThisRow
  <2>3. requests = audits
    BY DEF FilingInv, RowsWereAttempted
  <2>4. QED
    BY <1>1, <2>1, <2>2, <2>3 DEF RowsWereAttempted, Acceptable, Subject, MayFile, IsSelf
<1>5. QED
  BY <1>3, <1>4 DEF FilingInv

(* A commit files the row of its attempt, with its audit row.              *)
LEMMA CommitKeepsInv ==
  ASSUME FilingInv, NEW s \in Submission, NEW seen \in BOOLEAN, Commit(s, seen)
  PROVE  FilingInv'
<1> USE ComplianceAssumption
<1> DEFINE there == IF ~seen THEN "failed"
                    ELSE IF Kind[s] = "DATA_EXPORT" THEN "exporting" ELSE "answered"
           row == [sub |-> s, try |-> try[s]]
<1>1. /\ pc[s] = "filing"
      /\ requests' = requests \cup {row}
      /\ audits' = audits \cup {row}
      /\ pc' = [pc EXCEPT ![s] = there]
      /\ there \in {"failed", "exporting", "answered"}
      /\ before' = IF seen THEN [before EXCEPT ![s] = facts[Subject(s)]] ELSE before
      /\ UNCHANGED <<facts, try, answer>>
  BY DEF Commit, File, Goto, ThisRow
<1>2. row.sub = s /\ row.try = try[s]
  OBVIOUS
<1>3. Acceptable(s) /\ Subject(s) \in Employee
  BY <1>1, AcceptableMeans DEF FilingInv, RowsWereAttempted
<1> HIDE DEF there
<1>4. \A u \in Submission : pc'[u] = IF u = s THEN there ELSE pc[u]
  BY <1>1 DEF FilingInv, ComplianceTypeOK
<1>5. try[s] \in 1..MaxTries[s]
  <2>1. try[s] \in Nat /\ try[s] <= MaxTries[s] /\ MaxTries[s] \in Nat /\ try[s] >= 1
    BY <1>1 DEF FilingInv, ComplianceTypeOK, RowsWereAttempted
  <2>2. QED
    BY <2>1
<1>6. ComplianceTypeOK'
  <2>1. \A r \in requests' \cup audits' :
          /\ r.sub \in Submission /\ r.try \in 1..MaxTries[r.sub]
          /\ r = [sub |-> r.sub, try |-> r.try]
    BY <1>1, <1>5 DEF FilingInv, ComplianceTypeOK
  <2>2. before' \in [Submission -> [Tables -> 0..MaxRows]]
    BY <1>1, <1>3 DEF FilingInv, ComplianceTypeOK
  <2>3. pc' \in [Submission ->
              {"new", "filing", "exporting", "answered", "refused", "failed"}]
    BY <1>1 DEF FilingInv, ComplianceTypeOK
  <2>4. QED
    BY <1>1, <2>1, <2>2, <2>3 DEF FilingInv, ComplianceTypeOK
<1>7. RowsWereAttempted'
  <2>1. ASSUME NEW r \in requests'
        PROVE  /\ r.try <= try'[r.sub]
               /\ pc'[r.sub] = "filing" => r.try < try'[r.sub]
               /\ Acceptable(r.sub)
    <3>1. CASE r = row
      BY <1>1, <1>2, <1>3, <1>4, <1>5, <3>1
    <3>2. CASE r \in requests
      BY <1>1, <1>4, <3>2 DEF FilingInv, ComplianceTypeOK, RowsWereAttempted
    <3>3. QED
      BY <1>1, <3>1, <3>2
  <2>2. ASSUME NEW u \in Submission
        PROVE  /\ pc'[u] \in {"exporting", "answered"} => ThisRow(u)' \in requests'
               /\ pc'[u] \in {"filing", "exporting", "answered"} => Acceptable(u)
               /\ pc'[u] # "new" => try'[u] >= 1
    BY <1>1, <1>3, <1>4 DEF FilingInv, RowsWereAttempted, ThisRow
  <2>3. requests' = audits'
    BY <1>1 DEF FilingInv, RowsWereAttempted
  <2>4. QED
    BY <2>1, <2>2, <2>3 DEF RowsWereAttempted, Acceptable, Subject, MayFile, IsSelf
<1>8. QED
  BY <1>6, <1>7 DEF FilingInv

(* Going on to another place, other than to file, keeps it.                *)
LEMMA MoveKeepsInv ==
  ASSUME FilingInv, NEW s \in Submission, Fail(s) \/ Export(s)
  PROVE  FilingInv'
<1>1. PICK there \in {"failed", "answered"} :
        /\ pc' = [pc EXCEPT ![s] = there]
        /\ pc[s] \in {"filing", "exporting"}
        /\ there = "answered" => pc[s] = "exporting"
  BY DEF Fail, Export, Goto
<1>2. UNCHANGED <<requests, audits, facts, try, before>>
  BY DEF Fail, Export
<1>3. \A u \in Submission : pc'[u] = IF u = s THEN there ELSE pc[u]
  BY <1>1 DEF FilingInv, ComplianceTypeOK
<1>4. answer' \in [Submission -> [Tables -> SUBSET (1..MaxRows)]]
  <2>1. CASE Fail(s)
    BY <2>1 DEF Fail, FilingInv, ComplianceTypeOK
  <2>2. CASE Export(s)
    <3>1. Subject(s) \in Employee
      BY <2>2, AcceptableMeans DEF Export, FilingInv, RowsWereAttempted
    <3>2. \A t \in Tables : facts[Subject(s)][t] \in 0..MaxRows
      BY <3>1 DEF FilingInv, ComplianceTypeOK
    <3>3. \A t \in Tables : Newest(facts[Subject(s)][t]) \subseteq 1..MaxRows
      BY <3>2, ComplianceAssumption DEF Newest
    <3>4. ExportOf(s) \in [Tables -> SUBSET (1..MaxRows)]
      BY <3>3 DEF ExportOf
    <3>5. QED
      BY <2>2, <3>4 DEF Export, FilingInv, ComplianceTypeOK
  <2>3. QED
    BY <2>1, <2>2
<1>5. ComplianceTypeOK'
  BY <1>1, <1>2, <1>4 DEF FilingInv, ComplianceTypeOK
<1>6. RowsWereAttempted'
  BY <1>1, <1>2, <1>3
     DEF FilingInv, RowsWereAttempted, ComplianceTypeOK, ThisRow, Acceptable, Subject, MayFile, IsSelf
<1>7. QED
  BY <1>5, <1>6 DEF FilingInv

(* What others write about an employee touches no request.                 *)
LEMMA LearnKeepsInv ==
  ASSUME FilingInv, NEW e \in Employee, NEW t \in Tables, Learn(e, t)
  PROVE  /\ FilingInv'
         /\ \A x \in Employee, u \in Tables : facts[x][u] <= facts'[x][u]
<1>1. /\ facts[e]["ml_predictions"] + facts[e]["audit_logs"] < MaxRows
      /\ facts' = [facts EXCEPT ![e][t] = @ + 1]
      /\ UNCHANGED <<requests, audits, pc, try, answer, before>>
  BY DEF Learn
<1>2. facts \in [Employee -> [Tables -> 0..MaxRows]] /\ MaxRows \in Nat
  BY ComplianceAssumption DEF FilingInv, ComplianceTypeOK
<1>3. facts[e]["ml_predictions"] \in 0..MaxRows /\ facts[e]["audit_logs"] \in 0..MaxRows
  BY <1>2 DEF Tables
<1>4. facts[e][t] + 1 \in 0..MaxRows
  BY <1>1, <1>2, <1>3 DEF Tables
<1>5. facts' \in [Employee -> [Tables -> 0..MaxRows]]
  BY <1>1, <1>2, <1>4
<1>6. \A x \in Employee, u \in Tables : facts[x][u] <= facts'[x][u]
  BY <1>1, <1>2, <1>4
<1>7. ComplianceTypeOK'
  BY <1>1, <1>5 DEF FilingInv, ComplianceTypeOK
<1>8. RowsWereAttempted'
  BY <1>1 DEF FilingInv, RowsWereAttempted, ThisRow, Acceptable, Subject, MayFile, IsSelf
<1>9. QED
  BY <1>6, <1>7, <1>8 DEF FilingInv

(* The invariant of filing is one of the whole.                            *)
THEOREM FilingCorrect == Spec => []FilingInv
<1>1. Init => FilingInv
  <2> SUFFICES ASSUME Init PROVE FilingInv
    OBVIOUS
  <2>1. ComplianceTypeOK
    BY ComplianceAssumption DEF Init, ComplianceInit, ComplianceTypeOK, NoFacts, Nothing
  <2>2. RowsWereAttempted
    BY DEF Init, ComplianceInit, RowsWereAttempted
  <2>3. QED
    BY <2>1, <2>2 DEF FilingInv
<1>2. FilingInv /\ [Next]_vars => FilingInv'
  <2> SUFFICES ASSUME FilingInv, [Next]_vars PROVE FilingInv'
    OBVIOUS
  <2>1. CASE ComplianceNext
    BY <2>1, SubmitKeepsInv, CommitKeepsInv, MoveKeepsInv, LearnKeepsInv DEF ComplianceNext
  <2>2. CASE UNCHANGED complianceVars
    BY <2>2 DEF complianceVars, FilingInv, ComplianceTypeOK, RowsWereAttempted, ThisRow,
                Acceptable, Subject, MayFile, IsSelf
  <2>3. QED
    BY <2>1, <2>2 DEF Next, vars
<1>3. QED
  BY <1>1, <1>2, PTL DEF Spec

(* Every variable of Compliance keeps its type.                            *)
THEOREM TypeCorrect == Spec => []ComplianceTypeOK
<1>1. FilingInv => ComplianceTypeOK
  BY DEF FilingInv
<1>2. QED
  BY <1>1, FilingCorrect, PTL

(* A request and its audit row go together, whoever was told that it is    *)
(* filed finds it, and it is filed by somebody with the right to.          *)
THEOREM FiledCorrect == Spec => []FiledAndAudited
<1>1. FilingInv => FiledAndAudited
  <2> SUFFICES ASSUME FilingInv PROVE FiledAndAudited
    OBVIOUS
  <2>1. ASSUME NEW s \in Submission, pc[s] = "filing" PROVE ThisRow(s) \notin requests
    <3> SUFFICES ASSUME ThisRow(s) \in requests PROVE FALSE
      OBVIOUS
    <3>1. ThisRow(s).try = try[s] /\ ThisRow(s).sub = s /\ try[s] \in Nat
      BY DEF ThisRow, FilingInv, ComplianceTypeOK
    <3>2. ThisRow(s).try < try[ThisRow(s).sub]
      BY <2>1, <3>1 DEF FilingInv, RowsWereAttempted
    <3>3. QED
      BY <3>1, <3>2
  <2>2. ASSUME NEW s \in Submission, Filed(s) # {}
        PROVE  \/ By[s].role \in HR \cup {"AUDITOR"}
               \/ By[s].role = "EMPLOYEE" /\ Asked[s] \in {None, By[s].emp}
    <3>1. Acceptable(s)
      BY <2>2 DEF Filed, FilingInv, RowsWereAttempted
    <3>2. QED
      BY <3>1, AcceptableMeans
  <2>3. QED
    BY <2>1, <2>2 DEF FiledAndAudited, FilingInv, RowsWereAttempted
<1>2. QED
  BY <1>1, FilingCorrect, PTL

-----------------------------------------------------------------------------
(* The newest rows beyond one that is not among them are as many as an     *)
(* export takes.                                                           *)
LEMMA NewestBeyond ==
  ASSUME NEW n \in Nat, NEW i \in 1..n, i \notin Newest(n)
  PROVE  Cardinality({j \in Newest(n) : j > i}) = ExportLimit
<1>1. ExportLimit \in Nat \ {0}
  BY ComplianceAssumption
<1>2. i + ExportLimit <= n
  BY <1>1 DEF Newest
<1>3. {j \in Newest(n) : j > i} = (n - ExportLimit + 1)..n
  <2>1. ASSUME NEW j \in Int
        PROVE  (j \in Newest(n) /\ j > i) <=> j \in (n - ExportLimit + 1)..n
    BY <1>1, <1>2 DEF Newest
  <2>2. Newest(n) \subseteq Int
    BY DEF Newest
  <2>3. QED
    BY <2>1, <2>2
<1>4. Cardinality((n - ExportLimit + 1)..n) = n - (n - ExportLimit + 1) + 1
  <2>1. n - ExportLimit + 1 \in Int /\ n \in Int /\ ~(n - ExportLimit + 1 > n)
    BY <1>1
  <2>2. QED
    BY <2>1, FS_Interval
<1>5. n - (n - ExportLimit + 1) + 1 = ExportLimit
  BY <1>1
<1>6. QED
  BY <1>3, <1>4, <1>5

(* An export covers what was known of the employee when it was filed.      *)
LEMMA ExportCovers ==
  ASSUME FilingInv, ExportInv, NEW s \in Submission, Export(s)
  PROVE  Covered(s)'
<1>1. /\ pc[s] = "exporting"
      /\ answer'[s] = ExportOf(s)
      /\ UNCHANGED <<facts, before>>
  BY DEF Export, FilingInv, ComplianceTypeOK
<1>2. /\ Subject(s) \in Employee
      /\ By[s].role \in HR \cup {"AUDITOR"} \/ By[s].role = "EMPLOYEE"
  BY <1>1, AcceptableMeans DEF FilingInv, RowsWereAttempted
<1>3. ASSUME NEW t \in Tables
      PROVE  /\ ExportOf(s)[t] \subseteq 1..facts[Subject(s)][t]
             /\ IF t = "audit_logs" /\ By[s].role = "EMPLOYEE"
                THEN ExportOf(s)[t] = {}
                ELSE \A i \in 1..before[s][t] :
                       \/ i \in ExportOf(s)[t]
                       \/ Cardinality({j \in ExportOf(s)[t] : j > i}) = ExportLimit
  <2> DEFINE n == facts[Subject(s)][t]
  <2>1. n \in Nat /\ before[s][t] \in Nat /\ before[s][t] <= n
    BY <1>1, <1>2, ComplianceAssumption DEF FilingInv, ComplianceTypeOK, ExportInv
  <2>2. ExportOf(s)[t] = IF t = "audit_logs" /\ By[s].role \notin HR \cup {"AUDITOR"} THEN {}
                         ELSE Newest(n)
    BY DEF ExportOf
  <2> HIDE DEF n
  <2>3. Newest(n) \subseteq 1..n
    BY DEF Newest
  <2>4. \A i \in 1..before[s][t] :
          i \in Newest(n) \/ Cardinality({j \in Newest(n) : j > i}) = ExportLimit
    <3>1. \A i \in 1..before[s][t] : i \in 1..n
      BY <2>1
    <3>2. QED
      BY <2>1, <3>1, NewestBeyond
  <2>5. CASE t = "audit_logs" /\ By[s].role = "EMPLOYEE"
    BY <2>2, <2>5 DEF HR
  <2>6. CASE ~(t = "audit_logs" /\ By[s].role = "EMPLOYEE")
    <3>1. ExportOf(s)[t] = Newest(n)
      BY <1>2, <2>2, <2>6
    <3>2. QED
      BY <2>3, <2>4, <2>6, <3>1 DEF n
  <2>7. QED
    BY <2>5, <2>6
<1>4. Subject(s)' = Subject(s)
  BY DEF Subject
<1>5. QED
  BY <1>1, <1>3, <1>4 DEF Covered

(* What is learnt later takes nothing away from an export.                 *)
LEMMA StaysCovered ==
  ASSUME FilingInv, NEW s \in Submission, Covered(s), Subject(s) \in Employee,
         FilingInv', answer'[s] = answer[s], before'[s] = before[s],
         \A x \in Employee, t \in Tables : facts[x][t] <= facts'[x][t]
  PROVE  Covered(s)'
<1>1. ASSUME NEW t \in Tables
      PROVE  answer'[s][t] \subseteq 1..facts'[Subject(s)][t]
  <2>1. /\ facts[Subject(s)][t] <= facts'[Subject(s)][t]
        /\ facts[Subject(s)][t] \in Nat /\ facts'[Subject(s)][t] \in Nat
    BY ComplianceAssumption DEF FilingInv, ComplianceTypeOK
  <2>2. 1..facts[Subject(s)][t] \subseteq 1..facts'[Subject(s)][t]
    BY <2>1
  <2>3. QED
    BY <2>2 DEF Covered
<1>2. Subject(s)' = Subject(s)
  BY DEF Subject
<1>3. QED
  BY <1>1, <1>2 DEF Covered

(* Exports stay covered by every step.                                     *)
LEMMA ExportStep ==
  ASSUME FilingInv, FilingInv', ExportInv, [Next]_vars
  PROVE  ExportInv'
<1> DEFINE Growing == \A x \in Employee, t \in Tables : facts[x][t] <= facts'[x][t]
<1>1. ASSUME Growing, NEW s \in Submission,
             pc'[s] \in {"exporting", "answered"} => pc'[s] = pc[s],
             answer'[s] = answer[s], before'[s] = before[s]
      PROVE  /\ pc'[s] = "exporting" => \A t \in Tables : before'[s][t] <= facts'[Subject(s)][t]
             /\ pc'[s] = "answered" /\ Kind[s] = "DATA_EXPORT" => Covered(s)'
  <2>1. CASE pc'[s] = "exporting"
    <3>1. pc[s] = "exporting" /\ Subject(s) \in Employee
      BY <1>1, <2>1, AcceptableMeans DEF FilingInv, RowsWereAttempted
    <3>2. ASSUME NEW t \in Tables PROVE before'[s][t] <= facts'[Subject(s)][t]
      <4>1. before[s][t] <= facts[Subject(s)][t] /\ facts[Subject(s)][t] <= facts'[Subject(s)][t]
        BY <1>1, <3>1 DEF ExportInv
      <4>2. before[s][t] \in Nat /\ facts[Subject(s)][t] \in Nat /\ facts'[Subject(s)][t] \in Nat
        BY <3>1, ComplianceAssumption DEF FilingInv, ComplianceTypeOK
      <4>3. QED
        BY <1>1, <4>1, <4>2
    <3>3. QED
      BY <2>1, <3>2
  <2>2. CASE pc'[s] = "answered" /\ Kind[s] = "DATA_EXPORT"
    <3>1. pc[s] = "answered" /\ Subject(s) \in Employee
      BY <1>1, <2>2, AcceptableMeans DEF FilingInv, RowsWereAttempted
    <3>2. Covered(s)
      BY <2>2, <3>1 DEF ExportInv
    <3>3. QED
      BY <1>1, <2>2, <3>1, <3>2, StaysCovered
  <2>3. QED
    BY <2>1, <2>2
<1>2. UNCHANGED facts => Growing
  BY ComplianceAssumption DEF FilingInv, ComplianceTypeOK
<1> HIDE DEF Growing
<1> DEFINE StillKnown(s) == /\ pc'[s] \in {"exporting", "answered"} => pc'[s] = pc[s]
                            /\ answer'[s] = answer[s] /\ before'[s] = before[s]
           Good(s) == /\ pc'[s] = "exporting" =>
                           \A t \in Tables : before'[s][t] <= facts'[Subject(s)][t]
                      /\ pc'[s] = "answered" /\ Kind[s] = "DATA_EXPORT" => Covered(s)'
<1>3. \A s \in Submission : Growing /\ StillKnown(s) => Good(s)
  BY <1>1
<1>4. (\A s \in Submission : Good(s)) => ExportInv'
  BY DEF ExportInv, Subject
<1> HIDE DEF Good
<1>5. ASSUME NEW u \in Submission, Submit(u) \/ Fail(u) PROVE ExportInv'
  <2>1. UNCHANGED facts /\ \A s \in Submission : StillKnown(s)
    BY <1>5 DEF Submit, Fail, Goto, FilingInv, ComplianceTypeOK
  <2>2. QED
    BY <1>2, <1>3, <1>4, <2>1
<1>6. ASSUME NEW u \in Submission, Export(u) PROVE ExportInv'
  <2>1. UNCHANGED facts /\ \A s \in Submission \ {u} : StillKnown(s)
    BY <1>6 DEF Export, Goto, FilingInv, ComplianceTypeOK
  <2>2. pc'[u] = "answered" /\ Covered(u)'
    BY <1>6, ExportCovers DEF Export, Goto, FilingInv, ComplianceTypeOK
  <2>3. Good(u)
    BY <2>2 DEF Good
  <2>4. QED
    BY <1>2, <1>3, <1>4, <2>1, <2>3
<1>7. ASSUME NEW u \in Submission, NEW seen \in BOOLEAN, Commit(u, seen) PROVE ExportInv'
  <2>1. UNCHANGED facts /\ \A s \in Submission \ {u} : StillKnown(s)
    BY <1>7 DEF Commit, Goto, FilingInv, ComplianceTypeOK
  <2>2. Subject(u) \in Employee
    BY <1>7, AcceptableMeans DEF Commit, FilingInv, RowsWereAttempted
  <2>3. \A t \in Tables : facts[Subject(u)][t] \in Nat
    BY <2>2, ComplianceAssumption DEF FilingInv, ComplianceTypeOK
  <2>4. /\ pc'[u] = "exporting" => before'[u] = facts[Subject(u)]
        /\ ~(pc'[u] = "answered" /\ Kind[u] = "DATA_EXPORT")
    BY <1>7 DEF Commit, Goto, FilingInv, ComplianceTypeOK
  <2>5. Good(u)
    BY <2>1, <2>3, <2>4 DEF Good
  <2>6. QED
    BY <1>2, <1>3, <1>4, <2>1, <2>5
<1>8. ASSUME NEW e \in Employee, NEW t \in Tables, Learn(e, t) PROVE ExportInv'
  <2>1. Growing
    BY <1>8, LearnKeepsInv DEF Growing
  <2>2. \A s \in Submission : StillKnown(s)
    BY <1>8 DEF Learn
  <2>3. QED
    BY <1>3, <1>4, <2>1, <2>2
<1>9. CASE UNCHANGED complianceVars
  <2>1. UNCHANGED facts /\ \A s \in Submission : StillKnown(s)
    BY <1>9 DEF complianceVars
  <2>2. QED
    BY <1>2, <1>3, <1>4, <2>1
<1>10. QED
  BY <1>5, <1>6, <1>7, <1>8, <1>9 DEF Next, ComplianceNext, vars

(* An export holds whatever was known when it was filed, up to its limit.  *)
THEOREM ExportCorrect == Spec => []ExportCoversFiling
<1>1. Init => ExportInv
  BY DEF Init, ComplianceInit, ExportInv
<1>2. ExportInv => ExportCoversFiling
  BY DEF ExportInv, ExportCoversFiling, Covered
<1>3. FilingInv /\ FilingInv' /\ ExportInv /\ [Next]_vars => ExportInv'
  BY ExportStep
<1>4. QED
  BY <1>1, <1>2, <1>3, FilingCorrect, PTL DEF Spec

-----------------------------------------------------------------------------
(* Exporters: what one has read is of its snapshot, which was a state of   *)
(* the database.                                                           *)
TableNames == {"user_sessions", "audit_logs", "user_accounts", "compliance_requests"}

SnapshotOf(b) ==
  /\ snap[b].compliance_requests.row = snap[b].audit_logs.row
  /\ snap[b].user_sessions = [c \in {"refresh_token_jti"} |-> secret[c]]
  /\ snap[b].user_accounts = [c \in {"password_hash", "mfa_secret"} |-> secret[c]]

ReadOf(b) ==
  /\ DOMAIN saw[b] \subseteq TableNames
  /\ \A t \in DOMAIN saw[b] : saw[b][t] = Serialized(t, snap[b][t])

BackupInv ==
  /\ DOMAIN snap = Exporter /\ DOMAIN saw = Exporter /\ DOMAIN bpc = Exporter
  /\ \A b \in Exporter : ReadOf(b) /\ (bpc[b] = "idle" => DOMAIN saw[b] = {})
                                   /\ (bpc[b] # "idle" => SnapshotOf(b))

(* There are four tables, and who has read four of them has read them all. *)
LEMMA FourTables ==
  /\ IsFiniteSet(TableNames) /\ Cardinality(TableNames) = 4
  /\ \A T \in SUBSET TableNames : /\ IsFiniteSet(T)
                                  /\ Cardinality(T) \in Nat
                                  /\ Cardinality(T) = 4 => T = TableNames
<1>1. IsFiniteSet({}) /\ Cardinality({}) = 0
  BY FS_EmptySet
<1>2. IsFiniteSet({"user_sessions"}) /\ Cardinality({"user_sessions"}) = 1
  <2>1. {"user_sessions"} = {} \cup {"user_sessions"}
    OBVIOUS
  <2>2. QED
    BY <1>1, <2>1, FS_AddElement
<1>3. /\ IsFiniteSet({"user_sessions", "audit_logs"})
      /\ Cardinality({"user_sessions", "audit_logs"}) = 2
  <2>1. {"user_sessions", "audit_logs"} = {"user_sessions"} \cup {"audit_logs"}
    OBVIOUS
  <2>2. "audit_logs" \notin {"user_sessions"}
    OBVIOUS
  <2>3. QED
    BY <1>2, <2>1, <2>2, FS_AddElement
<1>4. /\ IsFiniteSet({"user_sessions", "audit_logs", "user_accounts"})
      /\ Cardinality({"user_sessions", "audit_logs", "user_accounts"}) = 3
  <2>1. {"user_sessions", "audit_logs", "user_accounts"}
          = {"user_sessions", "audit_logs"} \cup {"user_accounts"}
    OBVIOUS
  <2>2. "user_accounts" \notin {"user_sessions", "audit_logs"}
    OBVIOUS
  <2>3. QED
    BY <1>3, <2>1, <2>2, FS_AddElement
<1>5. IsFiniteSet(TableNames) /\ Cardinality(TableNames) = 4
  <2>1. TableNames = {"user_sessions", "audit_logs", "user_accounts"} \cup {"compliance_requests"}
    BY DEF TableNames
  <2>2. "compliance_requests" \notin {"user_sessions", "audit_logs", "user_accounts"}
    OBVIOUS
  <2>3. QED
    BY <1>4, <2>1, <2>2, FS_AddElement
<1>6. QED
  BY <1>5, FS_Subset, FS_CardinalityType

(* There are four models to be read.                                       *)
LEMMA FourModels ==
  /\ Len(BackupModels) = 4
  /\ \A n \in 1..4 : BackupModels[n] \in TableNames
BY DEF BackupModels, TableNames

(* Reading a table adds it to what was read, as the snapshot shows it.     *)
LEMMA ReadingReads ==
  ASSUME BackupInv, NEW b \in Exporter, NEW shown,
         Cardinality(DOMAIN saw[b]) < 4, Reading(b, shown)
  PROVE  /\ DOMAIN saw' = Exporter
         /\ \A x \in Exporter \ {b} : saw'[x] = saw[x]
         /\ DOMAIN saw'[b] \subseteq TableNames
         /\ \A t \in DOMAIN saw'[b] :
              saw'[b][t] = IF t \in DOMAIN saw[b] /\ t # NextTable(b)
                           THEN saw[b][t] ELSE Serialized(t, shown[t])
<1> DEFINE t == NextTable(b)
           more == [x \in DOMAIN saw[b] \cup {t} |->
                      IF x = t THEN Serialized(t, shown[t]) ELSE saw[b][x]]
<1>1. DOMAIN saw[b] \subseteq TableNames /\ DOMAIN saw = Exporter
  BY DEF BackupInv, ReadOf
<1>2. Cardinality(DOMAIN saw[b]) + 1 \in 1..4
  <2>1. Cardinality(DOMAIN saw[b]) \in Nat
    BY <1>1, FourTables
  <2>2. QED
    BY <2>1
<1>3. t \in TableNames
  BY <1>2, FourModels DEF NextTable
<1>4. saw' = [saw EXCEPT ![b] = more]
  BY DEF Reading
<1>5. saw'[b] = more /\ DOMAIN saw' = Exporter /\ \A x \in Exporter \ {b} : saw'[x] = saw[x]
  BY <1>1, <1>4
<1>6. DOMAIN more = DOMAIN saw[b] \cup {t}
  OBVIOUS
<1>7. \A x \in DOMAIN more : more[x] = IF x \in DOMAIN saw[b] /\ x # t
                                       THEN saw[b][x] ELSE Serialized(x, shown[x])
  OBVIOUS
<1>8. QED
  BY <1>1, <1>3, <1>5, <1>6, <1>7

(* Exporters do not read for each other.                                   *)
LEMMA OthersUntouched ==
  ASSUME NEW x \in Exporter, saw'[x] = saw[x], snap'[x] = snap[x]
  PROVE  /\ ReadOf(x) => ReadOf(x)'
         /\ SnapshotOf(x) => SnapshotOf(x)'
<1>1. ReadOf(x) => ReadOf(x)'
  BY DEF ReadOf, Serialized, Redaction
<1>2. SnapshotOf(x) => SnapshotOf(x)'
  BY DEF SnapshotOf
<1>3. QED
  BY <1>1, <1>2

(* What was read stays what the snapshot shows.                            *)
LEMMA BackupStep ==
  ASSUME BackupInv, RowsWereAttempted, [Next]_vars
  PROVE  BackupInv'
<1>1. ASSUME NEW b \in Exporter, Begin(b) PROVE BackupInv'
  <2>1. /\ bpc[b] = "idle" /\ bpc' = [bpc EXCEPT ![b] = "reading"]
        /\ snap' = [snap EXCEPT ![b] = Database]
        /\ Reading(b, Database)
    BY <1>1 DEF Begin, AtBackup
  <2>2. DOMAIN saw[b] = {} /\ Cardinality(DOMAIN saw[b]) < 4
    BY <2>1, FS_EmptySet DEF BackupInv
  <2>3. /\ DOMAIN saw' = Exporter
        /\ \A x \in Exporter \ {b} : saw'[x] = saw[x]
        /\ DOMAIN saw'[b] \subseteq TableNames
        /\ \A t \in DOMAIN saw'[b] : saw'[b][t] = Serialized(t, Database[t])
    BY <2>1, <2>2, ReadingReads
  <2>4. /\ snap'[b] = Database /\ bpc'[b] = "reading"
        /\ \A x \in Exporter \ {b} : snap'[x] = snap[x] /\ bpc'[x] = bpc[x]
        /\ DOMAIN snap' = Exporter /\ DOMAIN bpc' = Exporter
    BY <2>1 DEF BackupInv
  <2>5. SnapshotOf(b)'
    BY <2>4 DEF SnapshotOf, Database, Records, RowsWereAttempted
  <2>6. ReadOf(b)'
    BY <2>3, <2>4 DEF ReadOf, Serialized, Redaction
  <2>7. \A x \in Exporter \ {b} : (ReadOf(x) => ReadOf(x)') /\ (SnapshotOf(x) => SnapshotOf(x)')
    BY <2>3, <2>4, OthersUntouched
  <2>8. QED
    BY <2>3, <2>4, <2>5, <2>6, <2>7 DEF BackupInv
<1>2. ASSUME NEW b \in Exporter, ReadTable(b) PROVE BackupInv'
  <2>1. /\ bpc[b] = "reading" /\ UNCHANGED <<bpc, snap>>
        /\ Cardinality(DOMAIN saw[b]) < 4
        /\ Reading(b, snap[b])
    BY <1>2, FourModels DEF ReadTable, Shown
  <2>2. /\ DOMAIN saw' = Exporter
        /\ \A x \in Exporter \ {b} : saw'[x] = saw[x]
        /\ DOMAIN saw'[b] \subseteq TableNames
        /\ \A t \in DOMAIN saw'[b] : saw'[b][t] = Serialized(t, snap[b][t])
    BY <2>1, ReadingReads DEF BackupInv, ReadOf
  <2>3. ReadOf(b)'
    BY <2>1, <2>2 DEF ReadOf, Serialized, Redaction
  <2>4. SnapshotOf(b) => SnapshotOf(b)'
    BY <2>1 DEF SnapshotOf
  <2>5. \A x \in Exporter \ {b} : (ReadOf(x) => ReadOf(x)') /\ (SnapshotOf(x) => SnapshotOf(x)')
    BY <2>1, <2>2, OthersUntouched
  <2>6. QED
    BY <2>1, <2>2, <2>3, <2>4, <2>5 DEF BackupInv
<1>3. ASSUME NEW b \in Exporter, Open(b) \/ Write(b) \/ Tear(b) PROVE BackupInv'
  <2>1. UNCHANGED <<snap, saw>>
    BY <1>3 DEF Open, Write, Tear
  <2>2. bpc[b] # "idle" /\ \E there \in {"open", "done", "torn"} : bpc' = [bpc EXCEPT ![b] = there]
    BY <1>3 DEF Open, Write, Tear, AtBackup
  <2>3. \A x \in Exporter : (ReadOf(x) => ReadOf(x)') /\ (SnapshotOf(x) => SnapshotOf(x)')
    BY <2>1 DEF ReadOf, SnapshotOf, Serialized, Redaction
  <2>4. QED
    BY <2>1, <2>2, <2>3 DEF BackupInv
<1>4. CASE UNCHANGED backupVars
  BY <1>4 DEF backupVars, BackupInv, ReadOf, SnapshotOf, Serialized, Redaction
<1>5. QED
  BY <1>1, <1>2, <1>3, <1>4 DEF Next, BackupNext, vars

(* A backup holds a state the database was in, and no secret.              *)
THEOREM BackupCorrect == Spec => []BackupIsConsistent
<1>1. Init => BackupInv
  BY DEF Init, BackupInv, ReadOf, Empty
<1>2. BackupInv => BackupIsConsistent
  <2> SUFFICES ASSUME BackupInv, NEW b \in Whole
               PROVE  /\ saw[b].compliance_requests.row = saw[b].audit_logs.row
                      /\ \A c \in {"password_hash", "mfa_secret"} :
                           saw[b].user_accounts[c] \in {None, Redacted}
                      /\ saw[b].user_sessions["refresh_token_jti"] \in {None, Redacted}
    BY DEF BackupIsConsistent
  <2>1. b \in Exporter /\ DOMAIN saw[b] = TableNames
    BY FourTables, FourModels DEF Whole, BackupInv, ReadOf
  <2>2. bpc[b] # "idle"
    BY <2>1 DEF BackupInv, TableNames
  <2>3. SnapshotOf(b)
    BY <2>1, <2>2 DEF BackupInv
  <2>4. /\ saw[b].compliance_requests.row = snap[b].compliance_requests.row
        /\ saw[b].audit_logs.row = snap[b].audit_logs.row
        /\ saw[b].user_accounts = Redaction(snap[b].user_accounts)
        /\ saw[b].user_sessions = Redaction(snap[b].user_sessions)
    BY <2>1 DEF BackupInv, ReadOf, TableNames, Serialized
  <2>5. QED
    BY <2>3, <2>4 DEF SnapshotOf, Redaction
<1>3. FilingInv => RowsWereAttempted
  BY DEF FilingInv
<1>4. BackupInv /\ RowsWereAttempted /\ [Next]_vars => BackupInv'
  BY BackupStep
<1>5. QED
  BY <1>1, <1>2, <1>3, <1>4, FilingCorrect, PTL DEF Spec

-----------------------------------------------------------------------------
(* The file: who has it open with nobody beside it found it empty, and a   *)
(* success leaves the whole of its backup, which stays until the file is   *)
(* opened again.                                                           *)
Cell == [by : Exporter, last : BOOLEAN]

(* What an exporter has to write is of a finite table and of all of them.  *)
TextsAreWhole ==
  /\ file \in Seq(Cell) /\ shared \subseteq Exporter
  /\ IsFiniteSet(requests)
  /\ \A b \in Exporter :
       /\ bpc[b] # "idle" => IsFiniteSet(snap[b].compliance_requests.row)
       /\ bpc[b] \in {"open", "done", "torn"} => DOMAIN saw[b] = TableNames

(* The last to open it, with no other beside it, has it for itself.        *)
OneHasItOpen ==
  \A b \in Exporter \ shared :
    /\ bpc[b] = "open" => latest = b /\ file = <<>>
    /\ bpc[b] = "done" /\ latest = b => file = Cells(b)
    /\ latest = b => \A o \in Exporter \ {b} : bpc[o] # "open"

StartsWith(s, text) == Len(text) <= Len(s) /\ \A i \in 1..Len(text) : s[i] = text[i]

(* Unless a write failed beside another, the file is too short to verify,  *)
(* or starts with the whole of a backup.                                   *)
FileStarts ==
  \/ \E b \in shared : bpc[b] = "torn"
  \/ file = <<>>
  \/ Len(file) = 1 /\ ~file[1].last
  \/ \E b \in Exporter : bpc[b] = "done" /\ StartsWith(file, Cells(b))

FileInv == TextsAreWhole /\ OneHasItOpen /\ FileStarts

(* The text of a backup closes at its end and nowhere before, and has more *)
(* than one cell.                                                          *)
LEMMA CellsAre ==
  ASSUME BackupInv, TextsAreWhole, NEW b \in Exporter, bpc[b] \in {"open", "done", "torn"}
  PROVE  /\ Cells(b) \in Seq(Cell)
         /\ Len(Cells(b)) \in Nat /\ Len(Cells(b)) >= 2
         /\ \A i \in 1..Len(Cells(b)) : /\ Cells(b)[i].by = b
                                        /\ Cells(b)[i].last <=> i = Len(Cells(b))
<1> DEFINE size == 2 + Cardinality(saw[b].compliance_requests.row)
<1>1. saw[b].compliance_requests.row = snap[b].compliance_requests.row
  BY DEF BackupInv, ReadOf, TextsAreWhole, TableNames, Serialized
<1>2. Cardinality(saw[b].compliance_requests.row) \in Nat
  BY <1>1, FS_CardinalityType DEF TextsAreWhole
<1>3. size \in Nat /\ size >= 2
  BY <1>2
<1>4. Cells(b) = [i \in 1..size |-> [by |-> b, last |-> i = size]]
  BY DEF Cells
<1> HIDE DEF size
<1>5. Cells(b) \in [1..size -> Cell]
  BY <1>4 DEF Cell
<1>6. Cells(b) \in Seq(Cell) /\ Len(Cells(b)) = size
  BY <1>3, <1>4, <1>5
<1>7. \A i \in 1..size : Cells(b)[i] = [by |-> b, last |-> i = size]
  BY <1>4
<1>8. ASSUME NEW i \in 1..size
      PROVE  Cells(b)[i].by = b /\ (Cells(b)[i].last <=> i = size)
  <2>1. Cells(b)[i] = [by |-> b, last |-> i = size]
    BY <1>7
  <2>2. Cells(b)[i].by = b
    BY <2>1
  <2>3. Cells(b)[i].last = (i = size)
    BY <2>1
  <2>4. QED
    BY <2>2, <2>3
<1>9. QED
  BY <1>3, <1>6, <1>8

(* Writing over the start of a file leaves what is written at its start,   *)
(* and nothing else if it was empty.                                       *)
LEMMA OverStarts ==
  ASSUME NEW text \in Seq(Cell), NEW old \in Seq(Cell)
  PROVE  /\ Over(text, old) \in Seq(Cell)
         /\ StartsWith(Over(text, old), text)
         /\ old = <<>> => Over(text, old) = text
<1> DEFINE n == IF Len(old) > Len(text) THEN Len(old) ELSE Len(text)
<1>1. /\ Len(text) \in Nat /\ Len(old) \in Nat /\ n \in Nat
      /\ Len(text) <= n /\ Len(old) <= n /\ n \in {Len(old), Len(text)}
      /\ old = <<>> => n = Len(text)
  OBVIOUS
<1>2. Over(text, old) = [i \in 1..n |-> IF i <= Len(text) THEN text[i] ELSE old[i]]
  BY DEF Over
<1> HIDE DEF n
<1>3. \A i \in 1..n : (IF i <= Len(text) THEN text[i] ELSE old[i]) \in Cell
  <2>1. \A i \in 1..Len(text) : text[i] \in Cell
    OBVIOUS
  <2>2. \A i \in 1..Len(old) : old[i] \in Cell
    OBVIOUS
  <2>3. QED
    BY <1>1, <2>1, <2>2
<1>4. Over(text, old) \in [1..n -> Cell]
  BY <1>2, <1>3
<1>5. Over(text, old) \in Seq(Cell) /\ Len(Over(text, old)) = n
  BY <1>1, <1>2, <1>4
<1>6. StartsWith(Over(text, old), text)
  BY <1>1, <1>2, <1>5 DEF StartsWith
<1>7. ASSUME old = <<>> PROVE Over(text, old) = text
  <2>1. n = Len(text)
    BY <1>1, <1>7
  <2>2. \A i \in 1..n : Over(text, old)[i] = text[i]
    BY <1>2, <2>1, <1>1
  <2>3. text = [i \in 1..n |-> text[i]]
    BY <2>1
  <2>4. QED
    BY <1>2, <2>1, <2>3, <1>1
<1>8. QED
  BY <1>5, <1>6, <1>7

(* A file that starts with a whole backup and parses is that backup.       *)
LEMMA ParsedIsWhole ==
  ASSUME BackupInv, TextsAreWhole, NEW b \in Exporter, bpc[b] = "done",
         StartsWith(file, Cells(b)), Parses
  PROVE  file = Cells(b)
<1> DEFINE n == Len(Cells(b))
<1>1. /\ Cells(b) \in Seq(Cell) /\ n \in Nat /\ n >= 2
      /\ Cells(b)[n].last
  BY CellsAre
<1>2. file \in Seq(Cell) /\ Len(file) \in Nat /\ n <= Len(file) /\ file[n] = Cells(b)[n]
  BY <1>1 DEF TextsAreWhole, StartsWith
<1>3. n = Len(file)
  BY <1>1, <1>2 DEF Parses
<1>4. \A i \in 1..n : file[i] = Cells(b)[i]
  BY DEF StartsWith
<1>5. QED
  BY <1>1, <1>2, <1>3, <1>4

(* The whole of a backup verifies.                                         *)
LEMMA WholeVerifies ==
  ASSUME BackupInv, TextsAreWhole, BackupIsConsistent, NEW b \in Exporter, bpc[b] = "done",
         file = Cells(b)
  PROVE  Verified
<1>1. /\ Len(file) \in Nat /\ Len(file) >= 2
      /\ \A i \in 1..Len(file) : file[i].by = b /\ (file[i].last <=> i = Len(file))
  BY CellsAre
<1>2. Parses
  <2>1. file # <<>>
    BY <1>1
  <2>2. QED
    BY <1>1, <2>1 DEF Parses
<1>3. DOMAIN saw[b] = TableNames
  BY DEF TextsAreWhole
<1>4. TableNames = ToSet(BackupModels)
  BY DEF TableNames, ToSet, BackupModels
<1>5. b \in Whole
  BY <1>3, FourTables, FourModels DEF Whole
<1>6. bpc[b] # "idle" /\ SnapshotOf(b)
  BY DEF BackupInv
<1>7. saw[b].user_accounts = Redaction(snap[b].user_accounts)
  BY <1>3 DEF BackupInv, ReadOf, TableNames, Serialized
<1>8. saw[b].user_accounts["password_hash"] = Redacted
  BY <1>6, <1>7 DEF SnapshotOf, Redaction
<1>9. /\ saw[b].user_accounts["mfa_secret"] \in {None, Redacted}
      /\ saw[b].user_sessions["refresh_token_jti"] \in {None, Redacted}
  BY <1>5 DEF BackupIsConsistent
<1>10. QED
  BY <1>1, <1>2, <1>3, <1>4, <1>8, <1>9 DEF Verified

(* A step of an exporter is one of four: it reads, opens, writes or fails. *)
LEMMA ExporterMoves ==
  ASSUME BackupInv, TextsAreWhole, NEW b \in Exporter,
         Begin(b) \/ ReadTable(b) \/ Open(b) \/ Write(b) \/ Tear(b)
  PROVE  /\ \A x \in Exporter \ {b} : bpc'[x] = bpc[x] /\ saw'[x] = saw[x] /\ snap'[x] = snap[x]
         /\ \/ /\ bpc[b] \in {"idle", "reading"} /\ bpc'[b] = "reading"
               /\ snap'[b] \in {snap[b], Database} /\ (bpc[b] = "idle" => snap'[b] = Database)
               /\ UNCHANGED <<file, latest, shared>>
            \/ /\ UNCHANGED <<snap, saw>>
               /\ \/ /\ bpc[b] = "reading" /\ bpc'[b] = "open" /\ DOMAIN saw[b] = TableNames
                     /\ file' = <<>> /\ latest' = b
                     /\ \/ shared' = shared /\ \A o \in Exporter : bpc[o] # "open"
                        \/ /\ shared' = shared \cup {o \in Exporter : bpc[o] = "open"} \cup {b}
                           /\ \E o \in Exporter : bpc[o] = "open"
                  \/ /\ bpc[b] = "open" /\ bpc'[b] = "done"
                     /\ file' = Over(Cells(b), file) /\ UNCHANGED <<latest, shared>>
                  \/ /\ bpc[b] = "open" /\ bpc'[b] = "torn"
                     /\ \E n \in 0..1 : file' = Over(SubSeq(Cells(b), 1, n), file)
                     /\ UNCHANGED <<latest, shared>>
<1>1. DOMAIN bpc = Exporter /\ DOMAIN saw = Exporter /\ DOMAIN snap = Exporter
  BY DEF BackupInv
<1>2. CASE Begin(b)
  <2>1. /\ bpc[b] = "idle" /\ bpc' = [bpc EXCEPT ![b] = "reading"]
        /\ snap' = [snap EXCEPT ![b] = Database]
        /\ UNCHANGED <<file, latest, shared>>
    BY <1>2 DEF Begin, AtBackup
  <2>2. Cardinality(DOMAIN saw[b]) < 4
    BY <2>1, FS_EmptySet DEF BackupInv
  <2>3. \A x \in Exporter \ {b} : saw'[x] = saw[x]
    BY <1>2, <2>2, ReadingReads DEF Begin
  <2>4. /\ bpc'[b] = "reading" /\ snap'[b] = Database
        /\ \A x \in Exporter \ {b} : bpc'[x] = bpc[x] /\ snap'[x] = snap[x]
    BY <1>1, <2>1
  <2>5. QED
    BY <2>1, <2>3, <2>4
<1>3. CASE ReadTable(b)
  <2>1. /\ bpc[b] = "reading" /\ Cardinality(DOMAIN saw[b]) < 4
        /\ Reading(b, snap[b])
        /\ UNCHANGED <<bpc, snap, file, latest, shared>>
    BY <1>3, FourModels DEF ReadTable, Shown
  <2>2. \A x \in Exporter \ {b} : saw'[x] = saw[x]
    BY <2>1, ReadingReads
  <2>3. QED
    BY <2>1, <2>2
<1>4. CASE Open(b)
  <2> DEFINE others == {o \in Exporter : bpc[o] = "open"}
  <2>1. /\ Cardinality(DOMAIN saw[b]) = 4
        /\ bpc[b] = "reading" /\ bpc' = [bpc EXCEPT ![b] = "open"]
        /\ file' = <<>> /\ latest' = b
        /\ UNCHANGED <<snap, saw>>
        /\ shared' = IF others = {} THEN shared ELSE shared \cup others \cup {b}
    BY <1>4, FourModels DEF Open, AtBackup, Emptied, HasOpen
  <2>2. DOMAIN saw[b] = TableNames
    BY <2>1, FourTables DEF BackupInv, ReadOf
  <2>3. \/ shared' = shared /\ \A o \in Exporter : bpc[o] # "open"
        \/ shared' = shared \cup others \cup {b} /\ \E o \in Exporter : bpc[o] = "open"
    BY <2>1
  <2>4. bpc'[b] = "open" /\ \A x \in Exporter \ {b} : bpc'[x] = bpc[x]
    BY <1>1, <2>1
  <2>5. QED
    BY <2>1, <2>2, <2>3, <2>4
<1>5. CASE Write(b)
  BY <1>1, <1>5 DEF Write, AtBackup
<1>6. CASE Tear(b)
  BY <1>1, <1>6 DEF Tear, AtBackup
<1>7. QED
  BY <1>2, <1>3, <1>4, <1>5, <1>6

(* What begins with the start of a backup that is not whole is too short   *)
(* to verify.                                                              *)
LEMMA TornIsShort ==
  ASSUME BackupInv, TextsAreWhole, NEW b \in Exporter, bpc[b] = "open", NEW n \in 0..1
  PROVE  LET torn == SubSeq(Cells(b), 1, n)
         IN  /\ torn \in Seq(Cell)
             /\ torn = <<>> \/ (Len(torn) = 1 /\ ~torn[1].last)
<1>1. /\ Cells(b) \in Seq(Cell) /\ Len(Cells(b)) \in Nat /\ Len(Cells(b)) >= 2
      /\ ~Cells(b)[1].last
  BY CellsAre
<1>2. CASE n = 0
  <2>1. SubSeq(Cells(b), 1, 0) = <<>>
    BY <1>1
  <2>2. QED
    BY <1>2, <2>1
<1>3. CASE n = 1
  <2>1. /\ SubSeq(Cells(b), 1, 1) \in Seq(Cell) /\ Len(SubSeq(Cells(b), 1, 1)) = 1
        /\ SubSeq(Cells(b), 1, 1)[1] = Cells(b)[1]
    BY <1>1
  <2>2. QED
    BY <1>1, <1>3, <2>1
<1>4. QED
  BY <1>2, <1>3

(* Requests stay finite, and what is written is of whole tables.           *)
LEMMA TextsStep ==
  ASSUME BackupInv, TextsAreWhole, [Next]_vars
  PROVE  TextsAreWhole'
<1>1. CASE ComplianceNext /\ UNCHANGED backupVars
  <2>1. requests' = requests \/ \E row : requests' = requests \cup {row}
    BY <1>1 DEF ComplianceNext, Submit, Fail, Export, Commit, File, Learn
  <2>2. IsFiniteSet(requests')
    BY <2>1, FS_AddElement DEF TextsAreWhole
  <2>3. QED
    BY <1>1, <2>2 DEF TextsAreWhole, backupVars
<1>2. ASSUME NEW b \in Exporter, UNCHANGED complianceVars,
             Begin(b) \/ ReadTable(b) \/ Open(b) \/ Write(b) \/ Tear(b)
      PROVE  TextsAreWhole'
  <2>1. requests' = requests /\ Database.compliance_requests.row = requests
    BY <1>2 DEF complianceVars, Database, Records
  <2>2. /\ \A x \in Exporter \ {b} : bpc'[x] = bpc[x] /\ saw'[x] = saw[x] /\ snap'[x] = snap[x]
        /\ bpc'[b] # "idle" => IsFiniteSet(snap'[b].compliance_requests.row)
        /\ bpc'[b] \in {"open", "done", "torn"} => DOMAIN saw'[b] = TableNames
    BY <1>2, <2>1, ExporterMoves DEF TextsAreWhole
  <2>3. file' \in Seq(Cell)
    <3>1. CASE file' = file \/ file' = <<>>
      <4>1. <<>> \in Seq(Cell)
        OBVIOUS
      <4>2. QED
        BY <3>1, <4>1 DEF TextsAreWhole
    <3>2. CASE bpc[b] = "open" /\ file' = Over(Cells(b), file)
      BY <3>2, CellsAre, OverStarts DEF TextsAreWhole
    <3>3. ASSUME bpc[b] = "open", NEW n \in 0..1, file' = Over(SubSeq(Cells(b), 1, n), file)
          PROVE  file' \in Seq(Cell)
      BY <3>3, TornIsShort, OverStarts DEF TextsAreWhole
    <3>4. QED
      BY <1>2, <3>1, <3>2, <3>3, ExporterMoves
  <2>4. shared' \subseteq Exporter
    BY <1>2, ExporterMoves DEF TextsAreWhole
  <2>5. QED
    BY <2>1, <2>2, <2>3, <2>4 DEF TextsAreWhole
<1>3. CASE UNCHANGED vars
  BY <1>3 DEF vars, complianceVars, backupVars, TextsAreWhole
<1>4. QED
  BY <1>1, <1>2, <1>3 DEF Next, BackupNext

(* Who has the file for himself is not disturbed, for another that opens   *)
(* it is seen by both.                                                     *)
LEMMA OneHasItOpenStep ==
  ASSUME BackupInv, TextsAreWhole, OneHasItOpen, [Next]_vars
  PROVE  OneHasItOpen'
<1>1. ASSUME NEW b \in Exporter, Begin(b) \/ ReadTable(b) \/ Open(b) \/ Write(b) \/ Tear(b)
      PROVE  OneHasItOpen'
  <2>1. \A x \in Exporter \ {b} : bpc'[x] = bpc[x] /\ Cells(x)' = Cells(x)
    BY <1>1, ExporterMoves DEF Cells
  <2>2. CASE /\ bpc[b] \in {"idle", "reading"} /\ bpc'[b] = "reading"
             /\ UNCHANGED <<file, latest, shared>>
    BY <2>1, <2>2 DEF OneHasItOpen
  <2>3. CASE /\ bpc[b] = "reading" /\ bpc'[b] = "open"
             /\ file' = <<>> /\ latest' = b
             /\ \/ shared' = shared /\ \A o \in Exporter : bpc[o] # "open"
                \/ /\ shared' = shared \cup {o \in Exporter : bpc[o] = "open"} \cup {b}
                   /\ \E o \in Exporter : bpc[o] = "open"
    <3>1. \A x \in Exporter \ shared' : bpc'[x] = "open" => x = b
      BY <2>1, <2>3
    <3>2. b \notin shared' => \A o \in Exporter \ {b} : bpc'[o] # "open"
      BY <2>1, <2>3
    <3>3. QED
      BY <2>3, <3>1, <3>2 DEF OneHasItOpen
  <2>4. CASE bpc[b] = "open" /\ bpc'[b] \in {"done", "torn"} /\ UNCHANGED <<latest, shared, saw>>
    <3>1. ASSUME NEW x \in Exporter \ shared', x # b
          PROVE  /\ bpc'[x] # "open"
                 /\ latest' # x
      BY <2>1, <2>4, <3>1 DEF OneHasItOpen
    <3>2. ASSUME b \notin shared
          PROVE  \A o \in Exporter \ {b} : bpc'[o] # "open"
      BY <2>1, <2>4, <3>2 DEF OneHasItOpen
    <3>3. ASSUME b \notin shared, bpc'[b] = "done"
          PROVE  file' = Cells(b)'
      <4>1. file = <<>>
        BY <2>4, <3>3 DEF OneHasItOpen
      <4>2. file' = Over(Cells(b), file)
        BY <1>1, <2>4, <3>3, ExporterMoves
      <4>3. Cells(b) \in Seq(Cell) /\ file \in Seq(Cell)
        BY <2>4, CellsAre DEF TextsAreWhole
      <4>4. file' = Cells(b)
        BY <4>1, <4>2, <4>3, OverStarts
      <4>5. Cells(b)' = Cells(b)
        BY <2>4 DEF Cells
      <4>6. QED
        BY <4>4, <4>5
    <3>4. QED
      BY <2>4, <3>1, <3>2, <3>3 DEF OneHasItOpen
  <2>5. QED
    BY <1>1, <2>2, <2>3, <2>4, ExporterMoves
<1>2. CASE UNCHANGED backupVars
  BY <1>2 DEF backupVars, OneHasItOpen, Cells
<1>3. QED
  BY <1>1, <1>2 DEF Next, BackupNext, vars

(* The file starts with a whole backup or is too short, but for a failure. *)
LEMMA FileStartsStep ==
  ASSUME BackupInv, TextsAreWhole, OneHasItOpen, FileStarts, [Next]_vars
  PROVE  FileStarts'
<1>1. ASSUME NEW b \in Exporter, Begin(b) \/ ReadTable(b) \/ Open(b) \/ Write(b) \/ Tear(b)
      PROVE  FileStarts'
  <2>1. \A x \in Exporter \ {b} : bpc'[x] = bpc[x] /\ Cells(x)' = Cells(x)
    BY <1>1, ExporterMoves DEF Cells
  <2>2. CASE bpc[b] \in {"idle", "reading"} /\ UNCHANGED <<file, shared>>
    <3>1. \A x \in shared : bpc[x] = "torn" => bpc'[x] = "torn"
      BY <2>1, <2>2 DEF TextsAreWhole
    <3>2. \A x \in Exporter : bpc[x] = "done" => bpc'[x] = "done" /\ Cells(x)' = Cells(x)
      BY <2>1, <2>2
    <3>3. QED
      BY <2>2, <3>1, <3>2 DEF FileStarts, StartsWith
  <2>3. CASE file' = <<>>
    BY <2>3 DEF FileStarts
  <2>4. CASE /\ bpc[b] = "open" /\ bpc'[b] = "done"
             /\ file' = Over(Cells(b), file) /\ UNCHANGED <<shared, saw>>
    <3>1. Cells(b) \in Seq(Cell) /\ file \in Seq(Cell)
      BY <2>4, CellsAre DEF TextsAreWhole
    <3>2. StartsWith(file', Cells(b))
      BY <2>4, <3>1, OverStarts
    <3>3. Cells(b)' = Cells(b)
      BY <2>4 DEF Cells
    <3>4. StartsWith(file, Cells(b))'
      BY <3>2, <3>3 DEF StartsWith
    <3>5. QED
      BY <2>4, <3>4 DEF FileStarts
  <2>5. ASSUME NEW n \in 0..1, bpc[b] = "open", bpc'[b] = "torn",
               file' = Over(SubSeq(Cells(b), 1, n), file), UNCHANGED shared
        PROVE  FileStarts'
    <3>1. CASE b \in shared
      BY <2>5, <3>1 DEF FileStarts
    <3>2. CASE b \notin shared
      <4>1. file = <<>> /\ file \in Seq(Cell)
        BY <2>5, <3>2 DEF OneHasItOpen, TextsAreWhole
      <4>2. file' = SubSeq(Cells(b), 1, n)
        BY <2>5, <4>1, TornIsShort, OverStarts
      <4>3. file' = <<>> \/ (Len(file') = 1 /\ ~file'[1].last)
        BY <2>5, <4>2, TornIsShort
      <4>4. QED
        BY <4>3 DEF FileStarts
    <3>3. QED
      BY <3>1, <3>2
  <2>6. CASE /\ bpc[b] = "open" /\ bpc'[b] = "torn" /\ UNCHANGED shared
             /\ \E n \in 0..1 : file' = Over(SubSeq(Cells(b), 1, n), file)
    BY <2>5, <2>6
  <2>7. \/ bpc[b] \in {"idle", "reading"} /\ UNCHANGED <<file, shared>>
        \/ file' = <<>>
        \/ /\ bpc[b] = "open" /\ bpc'[b] = "done"
           /\ file' = Over(Cells(b), file) /\ UNCHANGED <<shared, saw>>
        \/ /\ bpc[b] = "open" /\ bpc'[b] = "torn" /\ UNCHANGED shared
           /\ \E n \in 0..1 : file' = Over(SubSeq(Cells(b), 1, n), file)
    BY <1>1, ExporterMoves
  <2>8. QED
    BY <2>2, <2>3, <2>4, <2>6, <2>7
<1>2. CASE UNCHANGED backupVars
  <2>1. \A x \in Exporter : Cells(x)' = Cells(x)
    BY <1>2 DEF backupVars, Cells
  <2>2. UNCHANGED <<file, shared, bpc>>
    BY <1>2 DEF backupVars
  <2>3. QED
    BY <2>1, <2>2 DEF FileStarts, StartsWith
<1>3. QED
  BY <1>1, <1>2 DEF Next, BackupNext, vars

(* A file that verifies is the whole of one backup, unless a process       *)
(* failed while another had the file open beside it; and after a success   *)
(* the file verifies until it is opened again.                             *)
THEOREM VerifiedCorrect == Spec => []VerifiedIsWhole
<1>1. Init => BackupInv /\ FileInv
  <2> SUFFICES ASSUME Init PROVE BackupInv /\ FileInv
    OBVIOUS
  <2>1. BackupInv
    BY DEF Init, BackupInv, ReadOf, Empty
  <2>2. <<>> \in Seq(Cell)
    OBVIOUS
  <2>3. TextsAreWhole
    BY <2>2, FS_EmptySet DEF Init, ComplianceInit, TextsAreWhole
  <2>4. OneHasItOpen /\ FileStarts
    BY DEF Init, OneHasItOpen, FileStarts
  <2>5. QED
    BY <2>1, <2>3, <2>4 DEF FileInv
<1>2. BackupInv /\ FileInv /\ RowsWereAttempted /\ [Next]_vars => BackupInv' /\ FileInv'
  BY BackupStep, TextsStep, OneHasItOpenStep, FileStartsStep DEF FileInv
<1>3. BackupInv /\ FileInv /\ BackupIsConsistent => VerifiedIsWhole
  <2> SUFFICES ASSUME BackupInv, TextsAreWhole, OneHasItOpen, FileStarts, BackupIsConsistent
               PROVE  VerifiedIsWhole
    BY DEF FileInv
  <2>1. ASSUME Verified
        PROVE  \/ \E b \in Exporter : bpc[b] = "done" /\ file = Cells(b)
               \/ \E b \in shared : bpc[b] = "torn"
    <3>1. Parses
      BY <2>1 DEF Verified
    <3>2. file # <<>> /\ ~(Len(file) = 1 /\ ~file[1].last)
      BY <3>1 DEF Parses
    <3>3. QED
      BY <3>1, <3>2, ParsedIsWhole DEF FileStarts
  <2>2. ASSUME NEW b \in Exporter \ shared, bpc[b] = "done", latest = b
        PROVE  file = Cells(b) /\ Verified
    BY <2>2, WholeVerifies DEF OneHasItOpen
  <2>3. QED
    BY <2>1, <2>2 DEF VerifiedIsWhole
<1>4. FilingInv => RowsWereAttempted
  BY DEF FilingInv
<1>5. QED
  BY <1>1, <1>2, <1>3, <1>4, FilingCorrect, BackupCorrect, PTL DEF Spec
==============================================================================
