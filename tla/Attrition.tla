------------------------------ MODULE Attrition ------------------------------
(***************************************************************************)
(* Attrition predictions: the task that makes them (tasks.py), the reports *)
(* that count them (services/reports.py) and the profile that shows the    *)
(* latest one (services/employees.py).                                     *)
(*                                                                         *)
(* A run of the task reads the employees and their latest reviews against  *)
(* one snapshot, stamps a prediction for each as it goes along, and        *)
(* commits them together.  Runs may overlap: nothing keeps the same task   *)
(* from being queued or delivered twice.  Reports take, for each employee, *)
(* the predictions with the largest time stamp.                            *)
(***************************************************************************)
EXTENDS Staff, Integers, Sequences, FiniteSetsExt

CONSTANTS Run,        \* runs of the task; each is made once
          Scores,     \* Scores[e]: the scores of e's reviews, in the order they
                      \* are written; a sequence
          Target,     \* Target[d]: headcount_target, 0 if none is set
          MaxTime     \* bounds the clock

ASSUME AttritionAssumption ==
  /\ Target \in [Department -> Nat]
  /\ MaxRows \in 1..500 /\ MaxTime \in Nat

VARIABLES dept,      \* dept[e]: employees.department_id
          active,    \* employees whose status is Active
          reviews,   \* reviews[e]: how many reviews of e are in the table
          now,       \* the clock, in the resolution of ml_predictions.run_at
          run,       \* run[r]: what run r has read and stamped
          preds,     \* rows of ml_predictions
          overlap    \* history: runs that were in progress at the same time

attritionVars == <<dept, active, reviews, now, run, preds, overlap>>

(* A row: of whom, by which run, from how many reviews, and its run_at.    *)
Prediction == [emp : Employee, run : Run, rev : Nat, at : 0..MaxTime]

(* rev: reviews as the run's snapshot has them; at: what it stamped;       *)
(* todo: employees it has yet to come to.                                  *)
NotStarted == [pc |-> "new", todo |-> {}, rev |-> [e \in Employee |-> 0],
               at |-> [e \in {} |-> 0]]

AttritionTypeOK ==
  /\ dept \in [Employee -> Department]
  /\ active \subseteq Employee
  /\ reviews \in [Employee -> Nat]
  /\ now \in 0..MaxTime
  /\ \A r \in Run :
       /\ run[r].pc \in {"new", "running", "done"}
       /\ run[r].todo \subseteq Employee
       /\ run[r].rev \in [Employee -> Nat]
       /\ DOMAIN run[r].at \subseteq Employee
  /\ preds \subseteq Prediction
  /\ overlap \subseteq Run \X Run

AttritionInit ==
  /\ dept = HomeOf /\ active = Employee
  /\ reviews = [e \in Employee |-> 0]
  /\ now = 0
  /\ run = [r \in Run |-> NotStarted]
  /\ preds = {} /\ overlap = {}

-----------------------------------------------------------------------------
(* A review is written (the program only reads them), an employee moves or *)
(* leaves.                                                                 *)
Review(e) ==
  /\ reviews[e] < Len(Scores[e])
  /\ reviews' = [reviews EXCEPT ![e] = @ + 1]
  /\ UNCHANGED <<dept, active, now, run, preds, overlap>>

Move(e, d) ==
  /\ dept[e] # d
  /\ dept' = [dept EXCEPT ![e] = d]
  /\ UNCHANGED <<active, reviews, now, run, preds, overlap>>

Deactivate(e) ==
  /\ e \in active
  /\ active' = active \ {e}
  /\ UNCHANGED <<dept, reviews, now, run, preds, overlap>>

Tick ==
  /\ now < MaxTime
  /\ now' = now + 1
  /\ UNCHANGED <<dept, active, reviews, run, preds, overlap>>

Running == {r \in Run : run[r].pc = "running"}

(* run_attrition_predictions reads up to 500 active employees, and with    *)
(* them fixes the snapshot the reviews are read from.                      *)
Start(r) ==
  /\ run[r].pc = "new"
  /\ \E chosen \in SUBSET active :
       /\ Cardinality(chosen) = Min({Cardinality(active), 500})
       /\ run' = [run EXCEPT ![r] = [NotStarted EXCEPT !.pc = "running", !.todo = chosen,
                                                       !.rev = reviews]]
  /\ overlap' = overlap \cup ({r} \X Running) \cup (Running \X {r})
  /\ UNCHANGED <<dept, active, reviews, now, preds>>

(* A slip: local time, east of Greenwich.                                  *)
RunAtLocal == now + 1

RunAt == now

(* The loop comes to the next employee: run_at is the time it does so.     *)
Stamp(r) ==
  /\ run[r].pc = "running"
  /\ \E e \in run[r].todo :
       run' = [run EXCEPT ![r].todo = @ \ {e},
                          ![r].at = [x \in DOMAIN @ \cup {e} |-> IF x = e THEN RunAt ELSE @[x]]]
  /\ UNCHANGED <<dept, active, reviews, now, preds, overlap>>

(* One transaction for all of them.                                        *)
Commit(r) ==
  /\ run[r].pc = "running" /\ run[r].todo = {}
  /\ preds' = preds \cup {[emp |-> e, run |-> r, rev |-> run[r].rev[e], at |-> run[r].at[e]] :
                            e \in DOMAIN run[r].at}
  /\ run' = [run EXCEPT ![r].pc = "done"]
  /\ UNCHANGED <<dept, active, reviews, now, overlap>>

(* The worker dies and takes the transaction with it.                      *)
Die(r) ==
  /\ run[r].pc = "running"
  /\ run' = [run EXCEPT ![r].pc = "done"]
  /\ UNCHANGED <<dept, active, reviews, now, preds, overlap>>

AttritionNext ==
  \/ Tick
  \/ \E e \in Employee : Review(e) \/ Deactivate(e) \/ \E d \in Department : Move(e, d)
  \/ \E r \in Run : Start(r) \/ Stamp(r) \/ Commit(r) \/ Die(r)

AttritionSpec == AttritionInit /\ [][AttritionNext]_attritionVars

-----------------------------------------------------------------------------
(* What is read of these tables.  Probabilities are in percent.            *)
ScoreAt(e, n) == Scores[e][n]

(* _deterministic_attrition_score of the latest review, if there is one.   *)
Probability(p) ==
  LET score == ScoreAt(p.emp, p.rev)
  IN  CASE p.rev = 0 -> 50
        [] p.rev > 0 /\ score >= 90 -> 18
        [] p.rev > 0 /\ 80 <= score /\ score < 90 -> 35
        [] p.rev > 0 /\ 70 <= score /\ score < 80 -> 55
        [] OTHER -> 76

Tier(p) ==
  CASE Probability(p) > 70 -> "HIGH"
    [] 40 <= Probability(p) /\ Probability(p) <= 70 -> "MEDIUM"
    [] OTHER -> "LOW"

PredictionsOf(e) == {p \in preds : p.emp = e}
(* A slip: the time stamps are sorted the other way.                       *)
LatestTimeAscending(e) == Min({MaxTime} \cup {p.at : p \in PredictionsOf(e)})
LatestTime(e) == Max({0} \cup {p.at : p \in PredictionsOf(e)})

(* The join with latest_runs: every prediction of the employee's latest    *)
(* run_at, whatever the status of the employee.                            *)
Latest == {p \in preds : p.at = LatestTime(p.emp)}

InScope(d) == {p \in Latest : dept[p.emp] = d}

(* A slip: LIMIT without an order.                                         *)
ReportRowsAny(d) ==
  {rows \in SUBSET InScope(d) : Cardinality(rows) = Min({Cardinality(InScope(d)), MaxRows})}

(* The query of the attrition report for department d: LIMIT keeps the     *)
(* likeliest leavers, in any order among equals.                           *)
ReportRows(d) ==
  {rows \in SUBSET InScope(d) :
     /\ Cardinality(rows) = Min({Cardinality(InScope(d)), MaxRows})
     /\ \A p \in rows, q \in InScope(d) \ rows : Probability(p) >= Probability(q)}

(* More than n percent of the rows are HIGH; none are if there are none.   *)
ShareOver(n, rows) ==
  100 * Cardinality({p \in rows : Tier(p) = "HIGH"}) > n * Cardinality(rows)

(* Average of the latest review scores of those reviewed, in hundredths.   *)
Reviewed(people) == {e \in people : reviews[e] > 0}
Total(people) == MapThenSumSet(LAMBDA e : ScoreAt(e, reviews[e]), Reviewed(people))
Average(people) ==
  LET n == Cardinality(Reviewed(people)) IN (200 * Total(people) + n) \div (2 * n)

Members(d) == {e \in Employee : dept[e] = d}

(* The department's average trails the company's by more than 10 points.   *)
Trails(d) == Average(Members(d)) < Average(Employee) - 1000

(* Hundredths of the headcount target, rounded as the ratio is.            *)
Ratio(d) == (200 * Cardinality(Members(d) \cap active) + Target[d]) \div (2 * Target[d])

(* _health_score: what is taken off 100 for headcount, performance and     *)
(* attrition.                                                              *)
HeadcountPenalty(d) ==
  CASE Target[d] = 0 -> 5
    [] Target[d] > 0 /\ Ratio(d) \notin 80..120 -> 25
    [] OTHER -> 0

PerformancePenalty(d) ==
  CASE Reviewed(Members(d)) = {} -> 5
    [] Reviewed(Members(d)) # {} /\ Trails(d) -> 25
    [] OTHER -> 0

AttritionPenalty(rows) ==
  CASE ShareOver(35, rows) -> 35
    [] ShareOver(20, rows) /\ ~ShareOver(35, rows) -> 20
    [] OTHER -> 0

Light(d, rows) ==
  LET score == 100 - HeadcountPenalty(d) - PerformancePenalty(d) - AttritionPenalty(rows)
  IN  CASE score >= 75 -> "GREEN"
        [] score \in 45..74 -> "YELLOW"
        [] OTHER -> "RED"

(* The lights generate_department_health_check may show for d.             *)
Health(d) == {Light(d, rows) : rows \in ReportRows(d)}

(* fetch_employee_profile shows the prediction with the largest run_at,    *)
(* and of several the one that was inserted last.                          *)
MayBeShown(e) == {p \in PredictionsOf(e) : p.at = LatestTime(e)}

-----------------------------------------------------------------------------
(* What the health check would say if it counted people, not rows.         *)
HighRisk(d) == {e \in Members(d) : \E p \in MayBeShown(e) : Tier(p) = "HIGH"}
Predicted(d) == {e \in Members(d) : PredictionsOf(e) # {}}
OverByPeople(n, d) == 100 * Cardinality(HighRisk(d)) > n * Cardinality(Predicted(d))

LightByPeople(d) ==
  LET score == 100 - HeadcountPenalty(d) - PerformancePenalty(d)
                   - (IF OverByPeople(35, d) THEN 35 ELSE IF OverByPeople(20, d) THEN 20 ELSE 0)
  IN  IF score >= 75 THEN "GREEN" ELSE IF score >= 45 THEN "YELLOW" ELSE "RED"

Severity == [GREEN |-> 0, YELLOW |-> 1, RED |-> 2]

(* The health check of a department counts the rows LIMIT leaves of the    *)
(* attrition report.  They are the likeliest leavers, so a small limit may *)
(* raise an alarm but never hides one, as long as nobody in the department *)
(* has two predictions of the same time stamp (reports.py, lines 26-62,    *)
(* 177-192).                                                               *)
LimitOnlyAlarms ==
  \A d \in Department :
    (\A e \in Members(d) : Cardinality(MayBeShown(e)) <= 1) =>
      /\ \A light \in Health(d) : Severity[light] >= Severity[LightByPeople(d)]
      /\ Cardinality(Predicted(d)) <= MaxRows => Health(d) = {LightByPeople(d)}

(* The prediction shown for an employee is from a review no older than     *)
(* that of any other prediction, unless two runs overlapped (one reads,    *)
(* the other reads and stamps, the first stamps later) or stamped at the   *)
(* same time (tasks.py, lines 15-50).                                      *)
NewestReviewShown ==
  \A e \in Employee : \A p \in MayBeShown(e), q \in PredictionsOf(e) :
    \/ q.rev <= p.rev
    \/ <<p.run, q.run>> \in overlap
    \/ p.at = q.at
=============================================================================
