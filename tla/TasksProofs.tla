----------------------------- MODULE TasksProofs -----------------------------
(***************************************************************************)
(* Proofs about the two background tasks, SearchIndex and Attrition, for   *)
(* any employees, departments, tasks and runs.                             *)
(***************************************************************************)
EXTENDS SearchIndex, Attrition, FiniteSetTheorems, WellFoundedInduction, TLAPS

(* A copy is a row as it is or was: never ahead of it, and the row itself  *)
(* unless the row was changed since.                                       *)
CopyOf(doc, original) ==
  /\ doc.edits <= original.edits
  /\ doc.edits = original.edits => doc = original

Copies ==
  /\ \A e \in Employee : index[e] # None => CopyOf(index[e], row[e])
  /\ \A t \in Task : \A e \in DOMAIN task[t] : CopyOf(task[t][e], row[e])

(* A task that was always alone at work still is, and what it has yet to   *)
(* send is no older than what the index has.                               *)
AloneIsNewer ==
  \A t \in Working \ mixed :
    /\ Working = {t}
    /\ \A e \in DOMAIN task[t] : index[e] = None \/ index[e].edits <= task[t][e].edits

SearchInv == TypeOK /\ Copies /\ AloneIsNewer

-----------------------------------------------------------------------------
(* What a task holds is a document for each of some employees.             *)
LEMMA TaskTyped ==
  ASSUME TypeOK, NEW t \in Task, NEW e \in DOMAIN task[t]
  PROVE  /\ e \in Employee
         /\ task[t][e] \in Document
<1>1. PICK some \in SUBSET Employee : task[t] \in [some -> Document]
  BY DEF TypeOK
<1>2. QED
  BY <1>1

(* A task that has sent or lost a document holds the others.               *)
LEMMA WithoutTyped ==
  ASSUME TypeOK, NEW t \in Task, NEW e \in DOMAIN task[t],
         task' = [task EXCEPT ![t] = Without(@, e)]
  PROVE  /\ task' \in [Task -> UNION {[some -> Document] : some \in SUBSET Employee}]
         /\ \A u \in Task \ {t} : task'[u] = task[u]
         /\ DOMAIN task'[t] = DOMAIN task[t] \ {e}
         /\ \A x \in DOMAIN task'[t] : task'[t][x] = task[t][x]
         /\ Working' \subseteq Working
         /\ t \in Working
<1>1. PICK some \in SUBSET Employee : task[t] \in [some -> Document]
  BY DEF TypeOK
<1>2. /\ task'[t] = [x \in DOMAIN task[t] \ {e} |-> task[t][x]]
      /\ \A u \in Task \ {t} : task'[u] = task[u]
      /\ DOMAIN task' = Task
  BY DEF TypeOK, Without
<1>3. task'[t] \in [some \ {e} -> Document]
  BY <1>1, <1>2
<1>5. \A u \in Task : task'[u] \in UNION {[s -> Document] : s \in SUBSET Employee}
  <2>1. some \ {e} \in SUBSET Employee
    OBVIOUS
  <2>2. task'[t] \in UNION {[s -> Document] : s \in SUBSET Employee}
    BY <1>3, <2>1
  <2>3. QED
    BY <1>2, <2>2 DEF TypeOK
<1>6. task' = [u \in Task |-> task'[u]]
  BY DEF TypeOK
<1>7. t \in Working
  BY DEF Working, Idle
<1>8. Working' \subseteq Working
  BY <1>2, <1>7 DEF Working
<1>9. QED
  BY <1>2, <1>5, <1>6, <1>7, <1>8

(* Updating a row leaves every copy a copy.                                *)
LEMMA TransferKeepsInv ==
  ASSUME SearchInv, NEW e \in Employee, NEW d \in Department, Transfer(e, d)
  PROVE  SearchInv'
<1>1. /\ row[e] \in Document /\ row[e].edits + 1 \in 0..MaxEdits
      /\ row' = [row EXCEPT ![e] = [dept |-> d, edits |-> row[e].edits + 1]]
      /\ UNCHANGED <<index, task, mixed, faults>>
  BY SearchAssumption DEF Transfer, SearchInv, TypeOK, Document
<1>2. TypeOK'
  BY <1>1 DEF SearchInv, TypeOK, Document
<1>3. ASSUME NEW x \in Employee, NEW doc \in Document, CopyOf(doc, row[x])
      PROVE  CopyOf(doc, row'[x])
  BY <1>1, <1>3 DEF SearchInv, TypeOK, Document, CopyOf
<1>4. Copies'
  <2>1. \A x \in Employee : index[x] # None => CopyOf(index[x], row'[x])
    BY <1>3 DEF SearchInv, Copies, TypeOK
  <2>2. \A t \in Task : \A x \in DOMAIN task[t] : CopyOf(task[t][x], row'[x])
    BY <1>3, TaskTyped DEF SearchInv, Copies
  <2>3. QED
    BY <1>1, <2>1, <2>2 DEF Copies, CopyOf
<1>5. AloneIsNewer'
  BY <1>1 DEF SearchInv, AloneIsNewer, Working
<1>6. QED
  BY <1>2, <1>4, <1>5 DEF SearchInv

(* A task copies rows, and is marked if it is not the only one at work.    *)
LEMMA PrepareKeepsInv ==
  ASSUME SearchInv, NEW t \in Task, Prepare(t)
  PROVE  SearchInv'
<1>1. PICK some \in SUBSET Employee : task' = [task EXCEPT ![t] = [e \in some |-> row[e]]]
  BY DEF Prepare
<1>2. /\ UNCHANGED <<row, index, faults>>
      /\ mixed' = IF Working = {} THEN mixed \ {t} ELSE mixed \cup Working \cup {t}
      /\ t \notin Working
  BY DEF Prepare, Working
<1>3. /\ task'[t] = [e \in some |-> row[e]]
      /\ \A u \in Task \ {t} : task'[u] = task[u]
      /\ task' = [u \in Task |-> task'[u]]
  BY <1>1 DEF SearchInv, TypeOK
<1>4. TypeOK'
  <2>1. task'[t] \in [some -> Document]
    BY <1>3 DEF SearchInv, TypeOK
  <2>2. task'[t] \in UNION {[s -> Document] : s \in SUBSET Employee}
    BY <2>1
  <2>3. \A u \in Task : task'[u] \in UNION {[s -> Document] : s \in SUBSET Employee}
    BY <1>3, <2>2 DEF SearchInv, TypeOK
  <2>4. mixed' \subseteq Task
    BY <1>2 DEF SearchInv, TypeOK, Working
  <2>5. QED
    BY <1>2, <1>3, <2>3, <2>4 DEF SearchInv, TypeOK
<1>5. Copies'
  <2>1. \A e \in Employee : index'[e] # None => CopyOf(index'[e], row'[e])
    BY <1>2 DEF SearchInv, Copies, CopyOf
  <2>2. \A e \in DOMAIN task'[t] : CopyOf(task'[t][e], row'[e])
    BY <1>2, <1>3 DEF SearchInv, TypeOK, Document, CopyOf
  <2>3. \A u \in Task \ {t} : \A e \in DOMAIN task'[u] : CopyOf(task'[u][e], row'[e])
    BY <1>2, <1>3 DEF SearchInv, Copies, CopyOf
  <2>4. QED
    BY <2>1, <2>2, <2>3 DEF Copies
<1>6. AloneIsNewer'
  <2>1. Working' \subseteq Working \cup {t}
    BY <1>3 DEF Working
  <2>2. CASE Working = {}
    <3>1. ASSUME NEW u \in Working' PROVE u = t
      BY <2>1, <2>2, <3>1
    <3>2. ASSUME NEW e \in DOMAIN task'[t]
          PROVE  index'[e] = None \/ index'[e].edits <= task'[t][e].edits
      BY <1>2, <1>3 DEF SearchInv, Copies, CopyOf
    <3>3. QED
      BY <3>1, <3>2 DEF AloneIsNewer
  <2>3. CASE Working # {}
    BY <1>2, <2>1, <2>3 DEF AloneIsNewer
  <2>4. QED
    BY <2>2, <2>3
<1>7. QED
  BY <1>4, <1>5, <1>6 DEF SearchInv

(* Sending writes the copy the task holds.                                 *)
LEMMA SendKeepsInv ==
  ASSUME SearchInv, NEW t \in Task, Send(t)
  PROVE  SearchInv'
<1>1. PICK e \in DOMAIN task[t] : /\ index' = [index EXCEPT ![e] = task[t][e]]
                                  /\ task' = [task EXCEPT ![t] = Without(@, e)]
  BY DEF Send
<1>2. UNCHANGED <<row, mixed, faults>>
  BY DEF Send
<1>3. e \in Employee /\ task[t][e] \in Document
  BY TaskTyped DEF SearchInv
<1>4. /\ task' \in [Task -> UNION {[some -> Document] : some \in SUBSET Employee}]
      /\ \A u \in Task \ {t} : task'[u] = task[u]
      /\ DOMAIN task'[t] = DOMAIN task[t] \ {e}
      /\ \A x \in DOMAIN task'[t] : task'[t][x] = task[t][x]
      /\ Working' \subseteq Working
      /\ t \in Working
  BY <1>1, WithoutTyped DEF SearchInv
<1>5. /\ index'[e] = task[t][e]
      /\ \A x \in Employee \ {e} : index'[x] = index[x]
  BY <1>1, <1>3 DEF SearchInv, TypeOK
<1>6. TypeOK'
  BY <1>1, <1>2, <1>3, <1>4 DEF SearchInv, TypeOK
<1>7. Copies'
  <2>1. \A x \in Employee : index'[x] # None => CopyOf(index'[x], row'[x])
    BY <1>2, <1>5 DEF SearchInv, Copies, CopyOf
  <2>2. \A u \in Task : \A x \in DOMAIN task'[u] : CopyOf(task'[u][x], row'[x])
    BY <1>2, <1>4 DEF SearchInv, Copies, CopyOf
  <2>3. QED
    BY <2>1, <2>2 DEF Copies
<1>8. AloneIsNewer'
  <2> SUFFICES ASSUME NEW u \in Working' \ mixed'
               PROVE  /\ Working' = {u}
                      /\ \A x \in DOMAIN task'[u] :
                           index'[x] = None \/ index'[x].edits <= task'[u][x].edits
    BY DEF AloneIsNewer
  <2>1. u \in Working \ mixed
    BY <1>2, <1>4
  <2>2. Working = {u} /\ u = t
    BY <1>4, <2>1 DEF SearchInv, AloneIsNewer
  <2>3. \A x \in DOMAIN task[t] : index[x] = None \/ index[x].edits <= task[t][x].edits
    BY <2>1, <2>2 DEF SearchInv, AloneIsNewer
  <2>4. \A x \in DOMAIN task[t] : x \in Employee
    BY TaskTyped DEF SearchInv
  <2>5. ASSUME NEW x \in DOMAIN task'[t]
        PROVE  index'[x] = None \/ index'[x].edits <= task'[t][x].edits
    <3>1. x \in DOMAIN task[t] /\ x # e /\ task'[t][x] = task[t][x]
      BY <1>4
    <3>2. index'[x] = index[x]
      BY <1>5, <2>4, <3>1
    <3>3. QED
      BY <2>3, <3>1, <3>2
  <2>6. QED
    BY <1>4, <2>2, <2>5
<1>9. QED
  BY <1>6, <1>7, <1>8 DEF SearchInv

(* A refused document is not written and not sent again.                   *)
LEMMA RejectKeepsInv ==
  ASSUME SearchInv, NEW t \in Task, Reject(t)
  PROVE  SearchInv'
<1>1. PICK e \in DOMAIN task[t] : task' = [task EXCEPT ![t] = Without(@, e)]
  BY DEF Reject
<1>2. /\ UNCHANGED <<row, index, mixed>>
      /\ faults' \in 0..MaxFaults
  BY SearchAssumption DEF Reject, SearchInv, TypeOK
<1>4. /\ task' \in [Task -> UNION {[some -> Document] : some \in SUBSET Employee}]
      /\ \A u \in Task \ {t} : task'[u] = task[u]
      /\ DOMAIN task'[t] = DOMAIN task[t] \ {e}
      /\ \A x \in DOMAIN task'[t] : task'[t][x] = task[t][x]
      /\ Working' \subseteq Working
  BY <1>1, WithoutTyped DEF SearchInv
<1>5. TypeOK'
  BY <1>2, <1>4 DEF SearchInv, TypeOK
<1>6. Copies'
  BY <1>2, <1>4 DEF SearchInv, Copies, CopyOf
<1>7. AloneIsNewer'
  BY <1>2, <1>4 DEF SearchInv, AloneIsNewer, Working
<1>8. QED
  BY <1>5, <1>6, <1>7 DEF SearchInv

(* A task that fails forgets what it held.                                 *)
LEMMA AbortKeepsInv ==
  ASSUME SearchInv, NEW t \in Task, Abort(t)
  PROVE  SearchInv'
<1>1. /\ task' = [task EXCEPT ![t] = Idle]
      /\ UNCHANGED <<row, index, mixed>>
      /\ faults' \in 0..MaxFaults
  BY SearchAssumption DEF Abort, SearchInv, TypeOK
<1>2. /\ task'[t] = Idle
      /\ \A u \in Task \ {t} : task'[u] = task[u]
      /\ task' = [u \in Task |-> task'[u]]
  BY <1>1 DEF SearchInv, TypeOK
<1>3. TypeOK'
  <2>1. Idle \in [{} -> Document]
    BY DEF Idle
  <2>2. Idle \in UNION {[some -> Document] : some \in SUBSET Employee}
    BY <2>1
  <2>3. \A u \in Task : task'[u] \in UNION {[some -> Document] : some \in SUBSET Employee}
    BY <1>2, <2>2 DEF SearchInv, TypeOK
  <2>4. QED
    BY <1>1, <1>2, <2>3 DEF SearchInv, TypeOK
<1>4. Copies'
  BY <1>1, <1>2 DEF SearchInv, Copies, CopyOf, Idle
<1>5. AloneIsNewer'
  BY <1>1, <1>2 DEF SearchInv, AloneIsNewer, Working
<1>6. QED
  BY <1>3, <1>4, <1>5 DEF SearchInv

(* Documents are copies, and a task alone at work holds the newer ones.    *)
THEOREM CopiesCorrect == Spec => []SearchInv
<1>1. Init => SearchInv
  <2> SUFFICES ASSUME Init PROVE SearchInv
    OBVIOUS
  <2>1. Idle \in [{} -> Document]
    BY DEF Idle
  <2>2. Idle \in UNION {[some -> Document] : some \in SUBSET Employee}
    BY <2>1
  <2>3. TypeOK
    BY <2>2, StaffAssumption, SearchAssumption DEF Init, TypeOK, Document
  <2>4. Copies /\ AloneIsNewer
    BY DEF Init, Copies, AloneIsNewer, Working, Idle
  <2>5. QED
    BY <2>3, <2>4 DEF SearchInv
<1>2. SearchInv /\ [Next]_vars => SearchInv'
  <2> SUFFICES ASSUME SearchInv, [Next]_vars PROVE SearchInv'
    OBVIOUS
  <2>1. CASE UNCHANGED vars
    BY <2>1 DEF vars, SearchInv, TypeOK, Copies, CopyOf, AloneIsNewer, Working
  <2>2. CASE Next
    BY <2>2, TransferKeepsInv, PrepareKeepsInv, SendKeepsInv, RejectKeepsInv, AbortKeepsInv
       DEF Next
  <2>3. QED
    BY <2>1, <2>2
<1>3. QED
  BY <1>1, <1>2, PTL DEF Spec

(* Every variable keeps its type.                                          *)
THEOREM TypeCorrect == Spec => []TypeOK
<1>1. SearchInv => TypeOK
  BY DEF SearchInv
<1>2. QED
  BY <1>1, CopiesCorrect, PTL

(* Auditors aside, the database finds what the caller may read; the index, *)
(* as far as its documents are up to date, nothing else but what the       *)
(* caller's id is a token of, and all of it if the ids in the filters are  *)
(* tokens of themselves.                                                   *)
THEOREM RightsKept == Spec => []SearchKeepsToRights
<1>1. SearchInv => SearchKeepsToRights
  <2> SUFFICES ASSUME SearchInv, NEW c \in Contexts, NEW e \in Employee
               PROVE  /\ c.role # "AUDITOR" =>
                           (e \in FoundInDatabase(c) <=> MayReadEmployee(c, e, row[e].dept))
                      /\ UpToDate(e) /\ e \in FoundInIndex(c) =>
                           e \in FoundInDatabase(c) \/ NamedInPart(c, e)
                      /\ UpToDate(e) /\ e \in FoundInDatabase(c)
                           /\ TermMatches(Org, Org) /\ TermMatches(e, e)
                           => e \in FoundInIndex(c)
    BY DEF SearchKeepsToRights
  <2>1. c.role \in Roles
    BY DEF Contexts
  <2>2. UpToDate(e) => index[e] # None /\ index[e].dept = row[e].dept
    BY DEF UpToDate, SearchInv, Copies, CopyOf
  <2>3. CASE c.role = "DEPT_HEAD"
    BY <2>2, <2>3 DEF FoundInIndex, FoundInDatabase, MayReadEmployee, HR, Heads, IsSelf
  <2>4. CASE c.role = "EMPLOYEE"
    BY <2>2, <2>4
       DEF FoundInIndex, FoundInDatabase, NamedInPart, MayReadEmployee, HR, Heads, IsSelf
  <2>5. CASE c.role \notin {"DEPT_HEAD", "EMPLOYEE"}
    BY <2>1, <2>2, <2>5
       DEF FoundInIndex, FoundInDatabase, MayReadEmployee, HR, Heads, IsSelf, Roles
  <2>6. QED
    BY <2>3, <2>4, <2>5
<1>2. QED
  BY <1>1, CopiesCorrect, PTL

(* A document is never lost, and goes back to an older row only by a task  *)
(* that was at work beside another one.                                    *)
THEOREM OlderCorrect == Spec => OlderOnlyByOverlap
<1> DEFINE Older == \A e \in Employee : index[e] # None =>
                      /\ index'[e] # None
                      /\ index'[e].edits < index[e].edits =>
                           \E t \in mixed : e \in DOMAIN task[t] \ DOMAIN task'[t]
<1>1. SearchInv /\ [Next]_vars => [Older]_vars
  <2> SUFFICES ASSUME SearchInv, [Next]_vars PROVE Older
    OBVIOUS
  <2>1. CASE UNCHANGED index
    BY <2>1 DEF SearchInv, TypeOK, Document
  <2>2. ASSUME NEW t \in Task, Send(t) PROVE Older
    <3>1. PICK e \in DOMAIN task[t] : /\ index' = [index EXCEPT ![e] = task[t][e]]
                                      /\ task' = [task EXCEPT ![t] = Without(@, e)]
      BY <2>2 DEF Send
    <3>2. e \in Employee /\ task[t][e] \in Document
      BY TaskTyped DEF SearchInv
    <3>3. DOMAIN task'[t] = DOMAIN task[t] \ {e} /\ t \in Working
      BY <3>1, WithoutTyped DEF SearchInv
    <3>4. ASSUME NEW x \in Employee, index[x] # None
          PROVE  /\ index'[x] # None
                 /\ index'[x].edits < index[x].edits =>
                      \E u \in mixed : x \in DOMAIN task[u] \ DOMAIN task'[u]
      <4>1. CASE x # e
        BY <3>1, <3>4, <4>1 DEF SearchInv, TypeOK, Document
      <4>2. CASE x = e
        <5>1. index'[x] = task[t][x] /\ index[x] \in Document
          BY <3>1, <3>2, <3>4, <4>2 DEF SearchInv, TypeOK
        <5>2. task[t][x] # None
          BY <3>2, <4>2, SearchAssumption DEF Document
        <5>3. t \notin mixed => index[x].edits <= task[t][x].edits
          BY <3>3, <3>4, <4>2 DEF SearchInv, AloneIsNewer
        <5>4. QED
          BY <3>2, <3>3, <4>2, <5>1, <5>2, <5>3 DEF Document
      <4>3. QED
        BY <4>1, <4>2
    <3>5. QED
      BY <3>4
  <2>3. QED
    BY <2>1, <2>2 DEF Next, Transfer, Prepare, Reject, Abort, vars
<1>2. QED
  BY <1>1, CopiesCorrect, PTL DEF Spec, OlderOnlyByOverlap

-----------------------------------------------------------------------------
(* Attrition: what a run stamps is of the past, and runs that did not      *)
(* overlap read and stamped one after the other.                           *)
Stamps == UNION {[some -> 0..MaxTime] : some \in SUBSET Employee}

RunRecord == [pc : {"new", "running", "done"}, todo : SUBSET Employee,
              rev : [Employee -> Nat], at : Stamps]

RunsTyped == AttritionTypeOK /\ run \in [Run -> RunRecord] /\ IsFiniteSet(preds)

(* Nothing is read or stamped before its time.                             *)
RunsSawThePast ==
  \A r \in Run :
    /\ \A e \in Employee : run[r].rev[e] <= reviews[e]
    /\ \A e \in DOMAIN run[r].at : run[r].at[e] <= now

PredictionsOfRuns ==
  \A p \in preds :
    /\ run[p.run].pc = "done" /\ p.emp \in DOMAIN run[p.run].at
    /\ p.rev = run[p.run].rev[p.emp] /\ p.at = run[p.run].at[p.emp]

(* r was over before s began.                                              *)
Before(r, s) ==
  /\ run[r].pc = "done"
  /\ \A e \in Employee : run[r].rev[e] <= run[s].rev[e]
  /\ \A e \in DOMAIN run[r].at, x \in DOMAIN run[s].at : run[r].at[e] <= run[s].at[x]

Started == {r \in Run : run[r].pc # "new"}

RunsInTurn ==
  \A r, s \in Started : r = s \/ <<r, s>> \in overlap \/ Before(r, s) \/ Before(s, r)

RunsInv == RunsTyped /\ RunsSawThePast /\ PredictionsOfRuns /\ RunsInTurn

(* What a run holds has its type.                                          *)
LEMMA RunHolds ==
  ASSUME RunsTyped, NEW r \in Run
  PROVE  /\ run[r] \in RunRecord
         /\ run[r].pc \in {"new", "running", "done"} /\ run[r].todo \subseteq Employee
         /\ \A e \in Employee : run[r].rev[e] \in Nat
         /\ run[r].rev \in [Employee -> Nat]
         /\ DOMAIN run[r].at \subseteq Employee
         /\ \A e \in DOMAIN run[r].at : run[r].at[e] \in 0..MaxTime
<1>1. run[r] \in RunRecord
  BY DEF RunsTyped
<1>2. PICK some \in SUBSET Employee : run[r].at \in [some -> 0..MaxTime]
  BY <1>1 DEF RunRecord, Stamps
<1>3. DOMAIN run[r].at \subseteq Employee /\ \A e \in DOMAIN run[r].at : run[r].at[e] \in 0..MaxTime
  BY <1>2
<1>4. QED
  BY <1>1, <1>3 DEF RunRecord

(* A run that starts reads the reviews as they are.                        *)
LEMMA StartMoves ==
  ASSUME RunsTyped, NEW r \in Run, Start(r)
  PROVE  /\ run' \in [Run -> RunRecord]
         /\ run[r].pc = "new" /\ run'[r].pc = "running"
         /\ run'[r].rev = reviews /\ DOMAIN run'[r].at = {}
         /\ \A s \in Run \ {r} : run'[s] = run[s]
<1>1. PICK chosen \in SUBSET active :
        run' = [run EXCEPT ![r] = [NotStarted EXCEPT !.pc = "running", !.todo = chosen,
                                                     !.rev = reviews]]
  BY DEF Start
<1> DEFINE begun == [NotStarted EXCEPT !.pc = "running", !.todo = chosen, !.rev = reviews]
<1>2. [e \in {} |-> 0] \in [{} -> 0..MaxTime]
  OBVIOUS
<1>3. [e \in {} |-> 0] \in Stamps
  BY <1>2 DEF Stamps
<1>4. NotStarted \in RunRecord
  BY <1>3 DEF NotStarted, RunRecord
<1>5. /\ begun \in RunRecord /\ begun.pc = "running"
      /\ begun.rev = reviews /\ begun.at = [e \in {} |-> 0]
  <2>1. NotStarted.at = [e \in {} |-> 0]
    BY DEF NotStarted
  <2>2. chosen \in SUBSET Employee /\ reviews \in [Employee -> Nat]
    BY DEF RunsTyped, AttritionTypeOK
  <2>3. QED
    BY <1>4, <2>1, <2>2 DEF RunRecord
<1>6. run' = [run EXCEPT ![r] = begun]
  BY <1>1
<1> HIDE DEF begun
<1>7. run' \in [Run -> RunRecord] /\ run'[r] = begun /\ \A s \in Run \ {r} : run'[s] = run[s]
  BY <1>5, <1>6 DEF RunsTyped
<1>8. run[r].pc = "new"
  BY DEF Start
<1>9. QED
  BY <1>5, <1>7, <1>8

(* A run that comes to an employee stamps the time of it.                  *)
LEMMA StampMoves ==
  ASSUME RunsTyped, NEW r \in Run, Stamp(r)
  PROVE  /\ run' \in [Run -> RunRecord]
         /\ run[r].pc = "running" /\ run'[r].pc = "running" /\ run'[r].rev = run[r].rev
         /\ \A e \in DOMAIN run'[r].at :
              run'[r].at[e] = now \/ (e \in DOMAIN run[r].at /\ run'[r].at[e] = run[r].at[e])
         /\ \A s \in Run \ {r} : run'[s] = run[s]
<1>1. PICK e \in run[r].todo :
        run' = [run EXCEPT ![r].todo = @ \ {e},
                           ![r].at = [x \in DOMAIN @ \cup {e} |-> IF x = e THEN RunAt ELSE @[x]]]
  BY DEF Stamp
<1> DEFINE stamped == [x \in DOMAIN run[r].at \cup {e} |-> IF x = e THEN now ELSE run[r].at[x]]
           goneOn == [run[r] EXCEPT !.todo = run[r].todo \ {e}, !.at = stamped]
<1>2. run' = [run EXCEPT ![r] = goneOn]
  BY <1>1 DEF RunsTyped, RunRecord, RunAt
<1>3. /\ now \in 0..MaxTime /\ e \in Employee
      /\ DOMAIN run[r].at \subseteq Employee
      /\ \A x \in DOMAIN run[r].at : run[r].at[x] \in 0..MaxTime
  BY RunHolds DEF RunsTyped, AttritionTypeOK
<1>4. stamped \in [DOMAIN run[r].at \cup {e} -> 0..MaxTime]
  BY <1>3
<1>5. stamped \in Stamps
  BY <1>3, <1>4 DEF Stamps
<1>6. \A x \in DOMAIN stamped :
        stamped[x] = now \/ (x \in DOMAIN run[r].at /\ stamped[x] = run[r].at[x])
  OBVIOUS
<1> HIDE DEF stamped
<1>7. goneOn \in RunRecord
  BY <1>5, RunHolds DEF RunRecord
<1>8. goneOn.pc = run[r].pc /\ goneOn.rev = run[r].rev /\ goneOn.at = stamped
  BY RunHolds DEF RunRecord
<1> HIDE DEF goneOn
<1>9. run' \in [Run -> RunRecord] /\ run'[r] = goneOn /\ \A s \in Run \ {r} : run'[s] = run[s]
  BY <1>2, <1>7 DEF RunsTyped
<1>10. run[r].pc = "running"
  BY DEF Stamp
<1>11. QED
  BY <1>6, <1>8, <1>9, <1>10

(* A run that ends keeps what it has.                                      *)
LEMMA EndMoves ==
  ASSUME RunsTyped, NEW r \in Run, Commit(r) \/ Die(r)
  PROVE  /\ run' \in [Run -> RunRecord]
         /\ run[r].pc = "running" /\ run'[r].pc = "done"
         /\ run'[r].rev = run[r].rev /\ run'[r].at = run[r].at
         /\ \A s \in Run \ {r} : run'[s] = run[s]
<1> DEFINE ended == [run[r] EXCEPT !.pc = "done"]
<1>1. run' = [run EXCEPT ![r] = ended] /\ run[r].pc = "running"
  BY DEF Commit, Die, RunsTyped
<1>2. ended \in RunRecord
  BY RunHolds DEF RunRecord
<1>3. ended.pc = "done" /\ ended.rev = run[r].rev /\ ended.at = run[r].at
  BY RunHolds DEF RunRecord
<1> HIDE DEF ended
<1>4. run' \in [Run -> RunRecord] /\ run'[r] = ended /\ \A s \in Run \ {r} : run'[s] = run[s]
  BY <1>1, <1>2 DEF RunsTyped
<1>5. QED
  BY <1>1, <1>3, <1>4

(* All other steps leave runs and predictions alone, and only add reviews  *)
(* and time.                                                               *)
LEMMA QuietMoves ==
  ASSUME RunsTyped,
         \/ Tick \/ UNCHANGED attritionVars
         \/ \E e \in Employee : Review(e) \/ Deactivate(e) \/ \E d \in Department : Move(e, d)
  PROVE  /\ UNCHANGED <<run, preds, overlap>>
         /\ dept' \in [Employee -> Department] /\ active' \subseteq Employee
         /\ reviews' \in [Employee -> Nat] /\ \A e \in Employee : reviews[e] <= reviews'[e]
         /\ now' \in 0..MaxTime /\ now <= now'
<1>1. CASE Tick
  BY <1>1, AttritionAssumption DEF Tick, RunsTyped, AttritionTypeOK
<1>2. CASE UNCHANGED attritionVars
  BY <1>2 DEF attritionVars, RunsTyped, AttritionTypeOK
<1>3. ASSUME NEW e \in Employee, Review(e) \/ Deactivate(e) \/ \E d \in Department : Move(e, d)
      PROVE  /\ UNCHANGED <<run, preds, overlap, now>>
             /\ dept' \in [Employee -> Department] /\ active' \subseteq Employee
             /\ reviews' \in [Employee -> Nat] /\ \A x \in Employee : reviews[x] <= reviews'[x]
  <2>1. CASE Review(e)
    BY <2>1 DEF Review, RunsTyped, AttritionTypeOK
  <2>2. CASE Deactivate(e)
    BY <2>2 DEF Deactivate, RunsTyped, AttritionTypeOK
  <2>3. ASSUME NEW d \in Department, Move(e, d)
        PROVE  /\ UNCHANGED <<run, preds, overlap, now, active, reviews>>
               /\ dept' \in [Employee -> Department]
    BY <2>3 DEF Move, RunsTyped, AttritionTypeOK
  <2>4. QED
    BY <1>3, <2>1, <2>2, <2>3 DEF RunsTyped, AttritionTypeOK
<1>4. QED
  BY <1>1, <1>2, <1>3 DEF RunsTyped, AttritionTypeOK

(* A commit adds finitely many predictions.                                *)
LEMMA CommitAdds ==
  ASSUME RunsTyped, NEW r \in Run, Commit(r)
  PROVE  /\ preds' \subseteq Prediction /\ IsFiniteSet(preds')
         /\ \A p \in preds' \ preds : /\ p.run = r /\ p.emp \in DOMAIN run[r].at
                                      /\ p.rev = run[r].rev[p.emp] /\ p.at = run[r].at[p.emp]
<1> DEFINE D == DOMAIN run[r].at
           rowOf == [e \in D |-> [emp |-> e, run |-> r, rev |-> run[r].rev[e], at |-> run[r].at[e]]]
           rows == {[emp |-> e, run |-> r, rev |-> run[r].rev[e], at |-> run[r].at[e]] : e \in D}
<1>1. preds' = preds \cup rows
  BY DEF Commit
<1>2. IsFiniteSet(D)
  BY StaffAssumption, RunHolds, FS_Subset
<1>3. rowOf \in Surjection(D, rows)
  BY DEF Surjection
<1>4. IsFiniteSet(rows)
  BY <1>2, <1>3, FS_Surjection
<1>5. rows \subseteq Prediction
  BY RunHolds DEF Prediction
<1>6. IsFiniteSet(preds) /\ preds \subseteq Prediction
  BY DEF RunsTyped, AttritionTypeOK
<1>7. \A p \in rows : /\ p.run = r /\ p.emp \in DOMAIN run[r].at
                      /\ p.rev = run[r].rev[p.emp] /\ p.at = run[r].at[p.emp]
  OBVIOUS
<1> HIDE DEF rows
<1>8. IsFiniteSet(preds')
  BY <1>1, <1>4, <1>6, FS_Union
<1>9. QED
  BY <1>1, <1>5, <1>6, <1>7, <1>8

(* Every variable keeps its type.                                          *)
LEMMA RunsTypedStep ==
  ASSUME RunsTyped, [AttritionNext]_attritionVars
  PROVE  RunsTyped'
<1>1. ASSUME RunsTyped, run' \in [Run -> RunRecord],
             dept' \in [Employee -> Department], active' \subseteq Employee,
             reviews' \in [Employee -> Nat], now' \in 0..MaxTime,
             preds' \subseteq Prediction, IsFiniteSet(preds'), overlap' \subseteq Run \X Run
      PROVE  RunsTyped'
  <2>1. ASSUME NEW r \in Run
        PROVE  /\ run'[r].pc \in {"new", "running", "done"}
               /\ run'[r].todo \subseteq Employee
               /\ run'[r].rev \in [Employee -> Nat]
               /\ DOMAIN run'[r].at \subseteq Employee
    <3>1. run'[r] \in RunRecord
      BY <1>1
    <3>2. PICK some \in SUBSET Employee : run'[r].at \in [some -> 0..MaxTime]
      BY <3>1 DEF RunRecord, Stamps
    <3>3. QED
      BY <3>1, <3>2 DEF RunRecord
  <2>2. QED
    BY <1>1, <2>1 DEF RunsTyped, AttritionTypeOK
<1>2. CASE \/ Tick \/ UNCHANGED attritionVars
           \/ \E e \in Employee : Review(e) \/ Deactivate(e) \/ \E d \in Department : Move(e, d)
  BY <1>1, <1>2, QuietMoves DEF RunsTyped, AttritionTypeOK
<1>3. ASSUME NEW r \in Run, Start(r) PROVE RunsTyped'
  <2>1. run' \in [Run -> RunRecord]
    BY <1>3, StartMoves
  <2>2. /\ overlap' = overlap \cup ({r} \X Running) \cup (Running \X {r})
        /\ UNCHANGED <<dept, active, reviews, now, preds>>
    BY <1>3 DEF Start
  <2>3. overlap' \subseteq Run \X Run
    BY <2>2 DEF Running, RunsTyped, AttritionTypeOK
  <2>4. QED
    BY <1>1, <2>1, <2>2, <2>3 DEF RunsTyped, AttritionTypeOK
<1>4. ASSUME NEW r \in Run, Stamp(r) \/ Die(r) PROVE RunsTyped'
  <2>1. run' \in [Run -> RunRecord]
    BY <1>4, StampMoves, EndMoves
  <2>2. UNCHANGED <<dept, active, reviews, now, preds, overlap>>
    BY <1>4 DEF Stamp, Die
  <2>3. QED
    BY <1>1, <2>1, <2>2 DEF RunsTyped, AttritionTypeOK
<1>5. ASSUME NEW r \in Run, Commit(r) PROVE RunsTyped'
  <2>1. run' \in [Run -> RunRecord]
    BY <1>5, EndMoves
  <2>2. UNCHANGED <<dept, active, reviews, now, overlap>>
    BY <1>5 DEF Commit
  <2>3. QED
    BY <1>1, <1>5, <2>1, <2>2, CommitAdds DEF RunsTyped, AttritionTypeOK
<1>6. QED
  BY <1>2, <1>3, <1>4, <1>5 DEF AttritionNext

(* What was read and stamped stays in the past.                            *)
LEMMA PastStep ==
  ASSUME RunsTyped, RunsSawThePast, [AttritionNext]_attritionVars
  PROVE  RunsSawThePast'
<1>1. now \in Nat /\ \A e \in Employee : reviews[e] \in Nat
  BY AttritionAssumption DEF RunsTyped, AttritionTypeOK
<1>2. CASE \/ Tick \/ UNCHANGED attritionVars
           \/ \E e \in Employee : Review(e) \/ Deactivate(e) \/ \E d \in Department : Move(e, d)
  <2>1. /\ UNCHANGED <<run, preds, overlap>>
        /\ \A e \in Employee : reviews'[e] \in Nat /\ reviews[e] <= reviews'[e]
        /\ now' \in Nat /\ now <= now'
    BY <1>2, QuietMoves, AttritionAssumption
  <2>2. ASSUME NEW r \in Run
        PROVE  /\ \A e \in Employee : run[r].rev[e] <= reviews'[e]
               /\ \A e \in DOMAIN run[r].at : run[r].at[e] <= now'
    <3>1. ASSUME NEW e \in Employee PROVE run[r].rev[e] <= reviews'[e]
      <4>1. run[r].rev[e] \in Nat /\ run[r].rev[e] <= reviews[e]
        BY RunHolds DEF RunsSawThePast
      <4>2. QED
        BY <1>1, <2>1, <4>1
    <3>2. ASSUME NEW e \in DOMAIN run[r].at PROVE run[r].at[e] <= now'
      <4>1. run[r].at[e] \in Int /\ run[r].at[e] <= now
        BY RunHolds DEF RunsSawThePast
      <4>2. QED
        BY <1>1, <2>1, <4>1
    <3>3. QED
      BY <3>1, <3>2
  <2>3. QED
    BY <2>1, <2>2 DEF RunsSawThePast
<1>3. ASSUME NEW r \in Run, Start(r) \/ Stamp(r) \/ Commit(r) \/ Die(r)
      PROVE  RunsSawThePast'
  <2>1. UNCHANGED <<now, reviews>> /\ \A s \in Run \ {r} : run'[s] = run[s]
    BY <1>3, StartMoves, StampMoves, EndMoves DEF Start, Stamp, Commit, Die
  <2>2. \A e \in Employee : run'[r].rev[e] <= reviews[e]
    BY <1>1, <1>3, StartMoves, StampMoves, EndMoves DEF RunsSawThePast
  <2>3. \A e \in DOMAIN run'[r].at : run'[r].at[e] <= now
    BY <1>1, <1>3, StartMoves, StampMoves, EndMoves DEF RunsSawThePast
  <2>4. QED
    BY <2>1, <2>2, <2>3 DEF RunsSawThePast
<1>4. QED
  BY <1>2, <1>3 DEF AttritionNext

(* The rows of a run are what it read and stamped, for good.               *)
LEMMA PredictionsStep ==
  ASSUME RunsTyped, PredictionsOfRuns, [AttritionNext]_attritionVars
  PROVE  PredictionsOfRuns'
<1>1. \A p \in preds : p.run \in Run
  BY DEF RunsTyped, AttritionTypeOK, Prediction
<1>2. CASE \/ Tick \/ UNCHANGED attritionVars
           \/ \E e \in Employee : Review(e) \/ Deactivate(e) \/ \E d \in Department : Move(e, d)
  BY <1>2, QuietMoves DEF PredictionsOfRuns
<1>3. ASSUME NEW r \in Run, Start(r) \/ Stamp(r) \/ Die(r) PROVE PredictionsOfRuns'
  <2>1. /\ preds' = preds /\ run[r].pc # "done"
        /\ \A s \in Run \ {r} : run'[s] = run[s]
    BY <1>3, StartMoves, StampMoves, EndMoves DEF Start, Stamp, Die
  <2>2. QED
    BY <1>1, <2>1 DEF PredictionsOfRuns
<1>4. ASSUME NEW r \in Run, Commit(r) PROVE PredictionsOfRuns'
  <2>1. /\ run[r].pc # "done" /\ run'[r].pc = "done"
        /\ run'[r].rev = run[r].rev /\ run'[r].at = run[r].at
        /\ \A s \in Run \ {r} : run'[s] = run[s]
    BY <1>4, EndMoves
  <2>2. \A p \in preds' \ preds : /\ p.run = r /\ p.emp \in DOMAIN run[r].at
                                  /\ p.rev = run[r].rev[p.emp] /\ p.at = run[r].at[p.emp]
    BY <1>4, CommitAdds
  <2>3. QED
    BY <1>1, <2>1, <2>2 DEF PredictionsOfRuns
<1>5. QED
  BY <1>2, <1>3, <1>4 DEF AttritionNext

(* A run that starts does so after those that are over and beside those    *)
(* that are not; and a stamp is later than all there are.                  *)
LEMMA InTurnStep ==
  ASSUME RunsTyped, RunsSawThePast, RunsInTurn, [AttritionNext]_attritionVars
  PROVE  RunsInTurn'
<1>1. CASE UNCHANGED <<run, overlap>>
  <2>1. Started' = Started /\ \A s, u \in Started : Before(s, u) => Before(s, u)'
    BY <1>1 DEF Started, Before
  <2>2. QED
    BY <1>1, <2>1 DEF RunsInTurn
<1>2. ASSUME NEW r \in Run, Start(r) PROVE RunsInTurn'
  <2>1. /\ run[r].pc = "new" /\ run'[r].pc = "running"
        /\ run'[r].rev = reviews /\ DOMAIN run'[r].at = {}
        /\ \A s \in Run \ {r} : run'[s] = run[s]
    BY <1>2, StartMoves
  <2>2. overlap' = overlap \cup ({r} \X Running) \cup (Running \X {r})
    BY <1>2 DEF Start
  <2>3. ASSUME NEW s \in Started
        PROVE  (<<s, r>> \in overlap' /\ <<r, s>> \in overlap') \/ Before(s, r)'
    <3>1. s \in Run \ {r} /\ run'[s] = run[s] /\ run[s].pc \in {"running", "done"}
      BY <2>1, RunHolds DEF Started
    <3>2. CASE run[s].pc = "running"
      BY <2>2, <3>1, <3>2 DEF Running
    <3>3. CASE run[s].pc = "done"
      <4>1. \A e \in Employee : run'[s].rev[e] <= run'[r].rev[e]
        BY <2>1, <3>1 DEF RunsSawThePast
      <4>2. QED
        BY <2>1, <3>1, <3>3, <4>1 DEF Before
    <3>4. QED
      BY <3>1, <3>2, <3>3
  <2>4. \A s, u \in Started : Before(s, u) => Before(s, u)'
    BY <2>1 DEF Started, Before
  <2>5. Started' = Started \cup {r}
    BY <2>1 DEF Started
  <2>6. \A s, u \in Started : s = u \/ <<s, u>> \in overlap' \/ Before(s, u)' \/ Before(u, s)'
    BY <2>2, <2>4 DEF RunsInTurn
  <2>7. \A s, u \in Started' : s = u \/ <<s, u>> \in overlap' \/ Before(s, u)' \/ Before(u, s)'
    BY <2>3, <2>5, <2>6
  <2>8. QED
    BY <2>7 DEF RunsInTurn
<1>3. ASSUME NEW r \in Run, Stamp(r) \/ Commit(r) \/ Die(r) PROVE RunsInTurn'
  <2>1. /\ run[r].pc = "running" /\ run'[r].pc \in {"running", "done"}
        /\ run'[r].rev = run[r].rev
        /\ \A e \in DOMAIN run'[r].at :
             run'[r].at[e] = now \/ (e \in DOMAIN run[r].at /\ run'[r].at[e] = run[r].at[e])
        /\ \A s \in Run \ {r} : run'[s] = run[s]
        /\ overlap' = overlap
    BY <1>3, StampMoves, EndMoves DEF Stamp, Commit, Die
  <2>2. Started' = Started
    BY <2>1 DEF Started
  <2>3. ASSUME NEW s \in Started, NEW u \in Started, Before(s, u) PROVE Before(s, u)'
    <3>1. s \in Run \ {r} /\ u \in Run /\ run'[s] = run[s]
      BY <2>1, <2>3 DEF Before, Started
    <3>2. CASE u # r
      BY <2>1, <2>3, <3>1, <3>2 DEF Before
    <3>3. CASE u = r
      <4>1. ASSUME NEW e \in DOMAIN run[s].at, NEW x \in DOMAIN run'[r].at
            PROVE  run[s].at[e] <= run'[r].at[x]
        <5>1. run[s].at[e] <= now
          BY <3>1 DEF RunsSawThePast
        <5>2. x \in DOMAIN run[r].at => run[s].at[e] <= run[r].at[x]
          BY <2>3, <3>3 DEF Before
        <5>3. QED
          BY <2>1, <5>1, <5>2
      <4>2. QED
        BY <2>1, <2>3, <3>1, <3>3, <4>1 DEF Before
    <3>4. QED
      BY <3>2, <3>3
  <2>4. QED
    BY <2>1, <2>2, <2>3 DEF RunsInTurn
<1>4. CASE \/ Tick \/ UNCHANGED attritionVars
           \/ \E e \in Employee : Review(e) \/ Deactivate(e) \/ \E d \in Department : Move(e, d)
  BY <1>1, <1>4, QuietMoves
<1>5. QED
  BY <1>2, <1>3, <1>4 DEF AttritionNext

(* Runs read and stamp the past, commit what they read and stamped, and    *)
(* those that did not overlap do so one after the other.                   *)
THEOREM RunsCorrect == AttritionSpec => []RunsInv
<1>1. AttritionInit => RunsInv
  <2> SUFFICES ASSUME AttritionInit PROVE RunsInv
    OBVIOUS
  <2>1. [e \in {} |-> 0] \in [{} -> 0..MaxTime]
    OBVIOUS
  <2>2. [e \in {} |-> 0] \in Stamps
    BY <2>1 DEF Stamps
  <2>3. NotStarted \in RunRecord
    BY <2>2 DEF NotStarted, RunRecord
  <2>4. run = [r \in Run |-> NotStarted] /\ preds = {} /\ overlap = {}
    BY DEF AttritionInit
  <2>5. /\ NotStarted.pc = "new" /\ NotStarted.todo = {}
        /\ NotStarted.rev = [e \in Employee |-> 0] /\ NotStarted.at = [e \in {} |-> 0]
    BY DEF NotStarted
  <2>6. RunsTyped
    <3>1. AttritionTypeOK
      BY <2>4, <2>5, StaffAssumption, AttritionAssumption DEF AttritionInit, AttritionTypeOK
    <3>2. QED
      BY <2>3, <2>4, <3>1, FS_EmptySet DEF RunsTyped
  <2>7. RunsSawThePast
    BY <2>4, <2>5 DEF RunsSawThePast, AttritionInit
  <2>8. PredictionsOfRuns /\ RunsInTurn
    BY <2>4, <2>5 DEF PredictionsOfRuns, RunsInTurn, Started
  <2>9. QED
    BY <2>6, <2>7, <2>8 DEF RunsInv
<1>2. RunsInv /\ [AttritionNext]_attritionVars => RunsInv'
  BY RunsTypedStep, PastStep, PredictionsStep, InTurnStep DEF RunsInv
<1>3. QED
  BY <1>1, <1>2, PTL DEF AttritionSpec

(* Every variable of Attrition keeps its type.                             *)
THEOREM AttritionTypeCorrect == AttritionSpec => []AttritionTypeOK
<1>1. RunsInv => AttritionTypeOK
  BY DEF RunsInv, RunsTyped
<1>2. QED
  BY <1>1, RunsCorrect, PTL

-----------------------------------------------------------------------------
(* A set of times has a latest.                                            *)
LEMMA MaxOfTimes ==
  ASSUME NEW S \in SUBSET (0..MaxTime), S # {}
  PROVE  Max(S) \in S /\ \A x \in S : x <= Max(S)
<1>1. MaxTime \in Nat
  BY AttritionAssumption
<1> DEFINE left == {MaxTime - x : x \in S}
           R == OpToRel(<, Nat)
<1>2. left \subseteq Nat /\ left # {}
  <2>1. \A x \in S : MaxTime - x \in Nat
    BY <1>1
  <2>2. QED
    BY <2>1
<1>3. PICK n \in left : \A m \in left : n <= m
  <2>1. IsWellFoundedOn(R, Nat)
    BY NatLessThanWellFounded
  <2>2. \A m, n \in Nat : m < n => <<m, n>> \in R
    BY DEF OpToRel
  <2> HIDE DEF R, left
  <2>3. PICK n \in left : \A m \in left : <<m, n>> \notin R
    BY <1>2, <2>1, WFMin, Zenon
  <2>4. \A m \in left : n \in Nat /\ m \in Nat /\ ~(m < n)
    BY <1>2, <2>2, <2>3
  <2>5. QED
    BY <2>4
<1>4. PICK x \in S : n = MaxTime - x
  BY <1>3
<1>5. \A y \in S : x >= y
  <2>1. ASSUME NEW y \in S PROVE x >= y
    <3>1. MaxTime - y \in left
      OBVIOUS
    <3>2. MaxTime - x <= MaxTime - y /\ x \in Int /\ y \in Int
      BY <1>3, <1>4, <3>1
    <3>3. QED
      BY <1>1, <3>2
  <2>2. QED
    BY <2>1
<1>6. Max(S) \in S /\ \A y \in S : Max(S) >= y
  BY <1>4, <1>5 DEF Max
<1>7. QED
  BY <1>1, <1>6

(* The latest time of an employee is that of a prediction, if there is one.*)
LEMMA LatestIs ==
  ASSUME RunsTyped, NEW e
  PROVE  /\ \A p \in PredictionsOf(e) : p.at \in Nat /\ p.at <= LatestTime(e)
         /\ PredictionsOf(e) # {} => MayBeShown(e) # {}
<1> DEFINE times == {0} \cup {p.at : p \in PredictionsOf(e)}
<1>1. \A p \in PredictionsOf(e) : p.at \in 0..MaxTime
  BY DEF PredictionsOf, RunsTyped, AttritionTypeOK, Prediction
<1>2. times \in SUBSET (0..MaxTime) /\ times # {}
  BY <1>1, AttritionAssumption
<1>3. Max(times) \in times /\ \A x \in times : x <= Max(times)
  BY <1>2, MaxOfTimes
<1>4. LatestTime(e) = Max(times)
  BY DEF LatestTime
<1>5. \A p \in PredictionsOf(e) : p.at \in Nat /\ p.at <= LatestTime(e)
  BY <1>1, <1>3, <1>4
<1>6. ASSUME NEW p \in PredictionsOf(e) PROVE MayBeShown(e) # {}
  <2>1. CASE LatestTime(e) = 0
    BY <1>5, <2>1 DEF MayBeShown
  <2>2. CASE LatestTime(e) # 0
    BY <1>3, <1>4, <2>2 DEF MayBeShown
  <2>3. QED
    BY <2>1, <2>2
<1>7. QED
  BY <1>5, <1>6

(* The prediction that is shown is from the newest review, but for runs    *)
(* that overlapped or stamped at the same time.                            *)
THEOREM NewestCorrect == AttritionSpec => []NewestReviewShown
<1>1. RunsInv => NewestReviewShown
  <2> SUFFICES ASSUME RunsInv, NEW e \in Employee, NEW p \in MayBeShown(e),
                      NEW q \in PredictionsOf(e), <<p.run, q.run>> \notin overlap, p.at # q.at
               PROVE  q.rev <= p.rev
    BY DEF NewestReviewShown
  <2>1. /\ p \in preds /\ q \in preds /\ p.emp = e /\ q.emp = e
        /\ p \in Prediction /\ q \in Prediction /\ p.at = LatestTime(e)
    BY DEF MayBeShown, PredictionsOf, RunsInv, RunsTyped, AttritionTypeOK
  <2>2. p.run \in Run /\ q.run \in Run /\ p.rev \in Nat /\ q.rev \in Nat
        /\ p.at \in Nat /\ q.at \in Nat
    BY <2>1 DEF Prediction
  <2>3. q.at <= p.at
    BY <2>1, LatestIs DEF RunsInv
  <2>4. /\ p.run \in Started /\ q.run \in Started
        /\ e \in DOMAIN run[p.run].at /\ e \in DOMAIN run[q.run].at
        /\ p.rev = run[p.run].rev[e] /\ p.at = run[p.run].at[e]
        /\ q.rev = run[q.run].rev[e] /\ q.at = run[q.run].at[e]
    BY <2>1, <2>2 DEF RunsInv, PredictionsOfRuns, Started
  <2>5. CASE p.run = q.run
    BY <2>2, <2>4, <2>5
  <2>6. CASE Before(q.run, p.run)
    BY <2>4, <2>6 DEF Before
  <2>7. CASE Before(p.run, q.run)
    <3>1. p.at <= q.at
      BY <2>4, <2>7 DEF Before
    <3>2. QED
      BY <2>2, <2>3, <3>1
  <2>8. QED
    BY <2>4, <2>5, <2>6, <2>7 DEF RunsInv, RunsInTurn
<1>2. QED
  BY <1>1, RunsCorrect, PTL

-----------------------------------------------------------------------------
(* The lesser of two numbers.                                              *)
LEMMA LesserOfTwo ==
  ASSUME NEW a \in Nat, NEW b \in Nat
  PROVE  Min({a, b}) = IF a <= b THEN a ELSE b
<1>1. \E x \in {a, b} : \A y \in {a, b} : x <= y
  <2>1. CASE a <= b
    BY <2>1
  <2>2. CASE b <= a
    BY <2>2
  <2>3. QED
    BY <2>1, <2>2
<1>2. Min({a, b}) \in {a, b} /\ \A y \in {a, b} : Min({a, b}) <= y
  BY <1>1 DEF Min
<1>3. QED
  BY <1>2

(* What can be counted of a finite set of rows.                            *)
LEMMA RowsCount ==
  ASSUME NEW S, IsFiniteSet(S), NEW T \in SUBSET S
  PROVE  /\ IsFiniteSet(T) /\ Cardinality(T) \in Nat /\ Cardinality(S) \in Nat
         /\ Cardinality(T) <= Cardinality(S)
         /\ Cardinality(S) = Cardinality(T) => S = T
BY FS_Subset, FS_CardinalityType

(* Where nobody has two rows, there are as many people as rows.            *)
LEMMA PeopleOfRows ==
  ASSUME NEW S, IsFiniteSet(S), \A p, q \in S : p.emp = q.emp => p = q
  PROVE  Cardinality({p.emp : p \in S}) = Cardinality(S)
<1> DEFINE T == {p.emp : p \in S}
           f == [p \in S |-> p.emp]
<1>1. f \in Surjection(S, T)
  BY DEF Surjection
<1>2. f \in Injection(S, T)
  BY DEF Injection, IsInjective
<1>3. QED
  BY <1>1, <1>2, FS_Surjection

(* The rows in the scope of a report are of members of the department, and *)
(* are what is shown of them.                                              *)
LEMMA ScopeIs ==
  ASSUME RunsTyped, NEW d \in Department
  PROVE  /\ IsFiniteSet(InScope(d))
         /\ \A p \in InScope(d) : p.emp \in Members(d) /\ p \in MayBeShown(p.emp) /\ p.rev \in Nat
         /\ \A e \in Members(d) : MayBeShown(e) \subseteq InScope(d)
<1>1. InScope(d) \subseteq preds
  BY DEF InScope, Latest
<1>2. IsFiniteSet(InScope(d))
  BY <1>1, FS_Subset DEF RunsTyped
<1>3. \A p \in preds : p.emp \in Employee /\ p.rev \in Nat
  BY DEF RunsTyped, AttritionTypeOK, Prediction
<1>4. QED
  BY <1>1, <1>2, <1>3 DEF InScope, Latest, Members, MayBeShown, PredictionsOf

(* Nobody has two rows of the same time.                                   *)
OneRowEach(d) == \A e \in Members(d) : Cardinality(MayBeShown(e)) <= 1

(* Then the health check counts people when it counts all rows in scope.   *)
LEMMA PeopleInScope ==
  ASSUME RunsTyped, NEW d \in Department, OneRowEach(d)
  PROVE  /\ Cardinality(Predicted(d)) = Cardinality(InScope(d))
         /\ Cardinality(HighRisk(d)) = Cardinality({p \in InScope(d) : Tier(p) = "HIGH"})
<1> DEFINE High == {p \in InScope(d) : Tier(p) = "HIGH"}
<1>1. \A p, q \in InScope(d) : p.emp = q.emp => p = q
  <2> SUFFICES ASSUME NEW p \in InScope(d), NEW q \in InScope(d), p.emp = q.emp, p # q
               PROVE  FALSE
    OBVIOUS
  <2>1. p.emp \in Members(d) /\ {p, q} \subseteq MayBeShown(p.emp) /\ MayBeShown(p.emp) \subseteq InScope(d)
    BY ScopeIs
  <2>2. IsFiniteSet(MayBeShown(p.emp))
    BY <2>1, ScopeIs, FS_Subset
  <2>3. Cardinality({p, q}) <= Cardinality(MayBeShown(p.emp))
    BY <2>1, <2>2, FS_Subset
  <2>4. Cardinality({p, q}) = 2
    <3>1. IsFiniteSet({p}) /\ Cardinality({p}) = 1
      BY FS_Singleton
    <3>2. {p, q} = {p} \cup {q} /\ q \notin {p}
      OBVIOUS
    <3>3. Cardinality({p} \cup {q}) = Cardinality({p}) + 1
      BY <3>1, <3>2, FS_AddElement
    <3>4. QED
      BY <3>1, <3>2, <3>3
  <2>5. Cardinality(MayBeShown(p.emp)) \in Nat /\ Cardinality(MayBeShown(p.emp)) <= 1
    BY <2>1, <2>2, FS_CardinalityType DEF OneRowEach
  <2>6. QED
    BY <2>3, <2>4, <2>5
<1>2. Predicted(d) = {p.emp : p \in InScope(d)}
  <2>1. ASSUME NEW e \in Predicted(d) PROVE e \in {p.emp : p \in InScope(d)}
    <3>1. e \in Members(d) /\ MayBeShown(e) # {}
      BY LatestIs DEF Predicted
    <3>2. PICK p \in MayBeShown(e) : TRUE
      BY <3>1
    <3>3. p \in InScope(d) /\ p.emp = e
      BY <3>1, ScopeIs DEF MayBeShown, PredictionsOf
    <3>4. QED
      BY <3>3
  <2>2. ASSUME NEW p \in InScope(d) PROVE p.emp \in Predicted(d)
    BY ScopeIs DEF Predicted, MayBeShown
  <2>3. Predicted(d) \subseteq {p.emp : p \in InScope(d)}
    BY <2>1
  <2>4. QED
    BY <2>2, <2>3
<1>3. HighRisk(d) = {p.emp : p \in High}
  <2>1. ASSUME NEW e \in HighRisk(d) PROVE e \in {p.emp : p \in High}
    <3>1. PICK p \in MayBeShown(e) : Tier(p) = "HIGH"
      BY DEF HighRisk
    <3>2. p \in InScope(d) /\ p.emp = e
      BY ScopeIs DEF HighRisk, MayBeShown, PredictionsOf
    <3>3. QED
      BY <3>1, <3>2
  <2>2. ASSUME NEW p \in High PROVE p.emp \in HighRisk(d)
    BY ScopeIs DEF HighRisk
  <2>3. HighRisk(d) \subseteq {p.emp : p \in High}
    BY <2>1
  <2>4. QED
    BY <2>2, <2>3
<1>4. IsFiniteSet(InScope(d)) /\ IsFiniteSet(High)
  BY ScopeIs, FS_Subset
<1>5. \A p, q \in High : p.emp = q.emp => p = q
  BY <1>1
<1> HIDE DEF High
<1>6. QED
  BY <1>1, <1>2, <1>3, <1>4, <1>5, PeopleOfRows DEF High

(* A row is of high risk if its probability is over 70 percent.            *)
LEMMA TierIs ==
  ASSUME NEW p, p.rev \in Nat
  PROVE  Probability(p) \in Int /\ (Tier(p) = "HIGH" <=> Probability(p) > 70)
<1>1. Probability(p) \in {50, 18, 35, 55, 76}
  <2>1. CASE p.rev = 0
    BY <2>1 DEF Probability
  <2>2. CASE p.rev > 0
    BY <2>2 DEF Probability
  <2>3. QED
    BY <2>1, <2>2
<1>2. CASE Probability(p) > 70
  BY <1>1, <1>2 DEF Tier
<1>3. CASE ~(Probability(p) > 70)
  <2>1. Tier(p) \in {"MEDIUM", "LOW"}
    BY <1>1, <1>3 DEF Tier
  <2>2. QED
    BY <1>3, <2>1, <1>1
<1>4. QED
  BY <1>1, <1>2, <1>3

(* The likeliest leavers are of high risk to no smaller share than all.    *)
LEMMA LimitKeepsShare ==
  ASSUME RunsTyped, NEW d \in Department, NEW rows \in ReportRows(d), NEW n \in 0..99,
         ShareOver(n, InScope(d))
  PROVE  ShareOver(n, rows)
<1> DEFINE S == InScope(d)
           HighIn(s) == {p \in s : Tier(p) = "HIGH"}
           h == Cardinality(HighIn(rows))
           H == Cardinality(HighIn(S))
           k == Cardinality(rows)
           N == Cardinality(S)
<1>1. /\ IsFiniteSet(S) /\ rows \subseteq S
      /\ k = Min({N, MaxRows})
      /\ \A p \in rows, q \in S \ rows : Probability(p) >= Probability(q)
      /\ 100 * H > n * N
  BY ScopeIs DEF ReportRows, ShareOver
<1>2. IsFiniteSet(rows)
  BY <1>1, FS_Subset
<1>3. /\ h \in Nat /\ H \in Nat /\ k \in Nat /\ N \in Nat
      /\ h <= k /\ H <= N /\ k <= N
  <2>1. HighIn(rows) \subseteq rows /\ HighIn(S) \subseteq S
    OBVIOUS
  <2> HIDE DEF HighIn
  <2>2. QED
    BY <1>1, <1>2, <2>1, RowsCount
<1>4. HighIn(S) \subseteq rows \/ rows \subseteq HighIn(S)
  <2> SUFFICES ASSUME NEW q \in HighIn(S) \ rows, NEW p \in rows
               PROVE  p \in HighIn(S)
    OBVIOUS
  <2>1. p \in S /\ q \in S /\ p.rev \in Nat /\ q.rev \in Nat
    BY <1>1, ScopeIs
  <2>2. Probability(p) >= Probability(q) /\ Probability(q) > 70
    BY <1>1, <2>1, TierIs
  <2>3. Probability(p) \in Int /\ Probability(q) \in Int
    BY <2>1, TierIs
  <2>4. Tier(p) = "HIGH"
    BY <2>1, <2>2, <2>3, TierIs
  <2>5. QED
    BY <2>1, <2>4
<1>5. CASE HighIn(S) \subseteq rows
  <2>1. HighIn(rows) = HighIn(S)
    BY <1>1, <1>5
  <2>2. h = H
    BY <2>1
  <2> HIDE DEF h, H, k, N
  <2>3. n * k <= n * N
    BY <1>3
  <2>4. 100 * h > n * k
    BY <1>1, <1>3, <2>2, <2>3
  <2>5. QED
    BY <2>4 DEF ShareOver, h, k
<1>6. CASE rows \subseteq HighIn(S)
  <2>1. HighIn(rows) = rows
    BY <1>6
  <2>2. h = k
    BY <2>1
  <2>3. MaxRows \in Nat /\ MaxRows >= 1
    BY AttritionAssumption
  <2> HIDE DEF h, H, k, N
  <2>4. H >= 1
    <3>1. n * N >= 0
      BY <1>3
    <3>2. QED
      BY <1>1, <1>3, <3>1
  <2>5. k = IF N <= MaxRows THEN N ELSE MaxRows
    BY <1>1, <1>3, <2>3, LesserOfTwo
  <2>6. k >= 1
    BY <1>3, <2>3, <2>4, <2>5
  <2>7. n * k <= 99 * k
    BY <1>3
  <2>8. 100 * h > n * k
    BY <1>3, <2>2, <2>6, <2>7
  <2>9. QED
    BY <2>8 DEF ShareOver, h, k
<1>7. QED
  BY <1>4, <1>5, <1>6

(* What is taken off for anything but attrition.                           *)
LEMMA OtherPenalties ==
  ASSUME NEW d \in Department
  PROVE  HeadcountPenalty(d) \in {0, 5, 25} /\ PerformancePenalty(d) \in {0, 5, 25}
<1>1. Target[d] \in Nat
  BY AttritionAssumption
<1>2. HeadcountPenalty(d) \in {0, 5, 25}
  <2>1. CASE Target[d] = 0
    BY <2>1 DEF HeadcountPenalty
  <2>2. CASE Target[d] > 0
    BY <2>2 DEF HeadcountPenalty
  <2>3. QED
    BY <1>1, <2>1, <2>2
<1>3. PerformancePenalty(d) \in {0, 5, 25}
  <2>1. CASE Reviewed(Members(d)) = {}
    BY <2>1 DEF PerformancePenalty
  <2>2. CASE Reviewed(Members(d)) # {}
    BY <2>2 DEF PerformancePenalty
  <2>3. QED
    BY <2>1, <2>2
<1>4. QED
  BY <1>2, <1>3

(* What is taken off for attrition.                                        *)
LEMMA AttritionPenaltyIs ==
  ASSUME NEW rows
  PROVE  AttritionPenalty(rows) = IF ShareOver(35, rows) THEN 35
                                  ELSE IF ShareOver(20, rows) THEN 20 ELSE 0
<1>1. CASE ShareOver(35, rows)
  BY <1>1 DEF AttritionPenalty
<1>2. CASE ~ShareOver(35, rows)
  BY <1>2 DEF AttritionPenalty
<1>3. QED
  BY <1>1, <1>2

LightFor(score) == IF score >= 75 THEN "GREEN" ELSE IF score >= 45 THEN "YELLOW" ELSE "RED"

(* A light is that of its score.                                           *)
LEMMA LightIs ==
  ASSUME NEW d \in Department, NEW rows
  PROVE  /\ AttritionPenalty(rows) \in Int
         /\ Light(d, rows) = LightFor(100 - HeadcountPenalty(d) - PerformancePenalty(d)
                                          - AttritionPenalty(rows))
<1> DEFINE score == 100 - HeadcountPenalty(d) - PerformancePenalty(d) - AttritionPenalty(rows)
<1>1. AttritionPenalty(rows) \in Int
  BY AttritionPenaltyIs
<1>2. score \in Int
  BY <1>1, OtherPenalties
<1>3. Light(d, rows) = CASE score >= 75 -> "GREEN"
                         [] score \in 45..74 -> "YELLOW"
                         [] OTHER -> "RED"
  BY DEF Light
<1> HIDE DEF score
<1>4. Light(d, rows) = LightFor(score)
  <2>1. CASE score >= 75
    BY <1>2, <1>3, <2>1 DEF LightFor
  <2>2. CASE score \in 45..74
    BY <1>2, <1>3, <2>2 DEF LightFor
  <2>3. CASE score < 45
    BY <1>2, <1>3, <2>3 DEF LightFor
  <2>4. QED
    BY <1>2, <2>1, <2>2, <2>3
<1>5. QED
  BY <1>1, <1>4 DEF score

(* The lower the score, the worse the light.                               *)
LEMMA LowerIsWorse ==
  ASSUME NEW low \in Int, NEW high \in Int, low <= high
  PROVE  Severity[LightFor(low)] >= Severity[LightFor(high)]
<1>1. Severity["GREEN"] = 0 /\ Severity["YELLOW"] = 1 /\ Severity["RED"] = 2
  BY DEF Severity
<1>2. QED
  BY <1>1 DEF LightFor

(* The health check shows no light better than it would for people, and    *)
(* that very light if the limit takes nothing from it.                     *)
THEOREM LimitCorrect == AttritionSpec => []LimitOnlyAlarms
<1> DEFINE byPeople(d) == IF OverByPeople(35, d) THEN 35 ELSE IF OverByPeople(20, d) THEN 20 ELSE 0
           base(d) == 100 - HeadcountPenalty(d) - PerformancePenalty(d)
<1>1. ASSUME RunsTyped, NEW d \in Department, OneRowEach(d)
      PROVE  /\ \A light \in Health(d) : Severity[light] >= Severity[LightByPeople(d)]
             /\ Cardinality(Predicted(d)) <= MaxRows => Health(d) = {LightByPeople(d)}
  <2>1. \A n : OverByPeople(n, d) <=> ShareOver(n, InScope(d))
    BY <1>1, PeopleInScope DEF OverByPeople, ShareOver
  <2>2. byPeople(d) = AttritionPenalty(InScope(d)) /\ base(d) \in Int
    BY <2>1, AttritionPenaltyIs, OtherPenalties
  <2>3. LightByPeople(d) = LightFor(base(d) - byPeople(d))
    BY DEF LightByPeople, LightFor
  <2>4. \A rows : Light(d, rows) = LightFor(base(d) - AttritionPenalty(rows))
                  /\ AttritionPenalty(rows) \in Int
    BY LightIs
  <2> HIDE DEF base, byPeople
  <2>5. ASSUME NEW rows \in ReportRows(d)
        PROVE  Severity[Light(d, rows)] >= Severity[LightByPeople(d)]
    <3>1. /\ ShareOver(35, InScope(d)) => ShareOver(35, rows)
          /\ ShareOver(20, InScope(d)) => ShareOver(20, rows)
      BY <1>1, LimitKeepsShare
    <3>2. /\ AttritionPenalty(rows) \in Int /\ AttritionPenalty(InScope(d)) \in Int
          /\ AttritionPenalty(InScope(d)) <= AttritionPenalty(rows)
      BY <3>1, AttritionPenaltyIs
    <3>3. /\ base(d) - AttritionPenalty(rows) \in Int /\ base(d) - byPeople(d) \in Int
          /\ base(d) - AttritionPenalty(rows) <= base(d) - byPeople(d)
      BY <2>2, <3>2
    <3>4. QED
      BY <2>3, <2>4, <3>3, LowerIsWorse
  <2>6. ASSUME Cardinality(Predicted(d)) <= MaxRows
        PROVE  Health(d) = {LightByPeople(d)}
    <3>1. /\ IsFiniteSet(InScope(d)) /\ Cardinality(InScope(d)) \in Nat
          /\ Cardinality(InScope(d)) <= MaxRows /\ MaxRows \in Nat
      <4>1. IsFiniteSet(InScope(d))
        BY <1>1, ScopeIs
      <4>2. Cardinality(InScope(d)) \in Nat
        BY <4>1, FS_CardinalityType
      <4>3. Cardinality(InScope(d)) <= MaxRows
        BY <1>1, <2>6, PeopleInScope
      <4>4. QED
        BY <4>1, <4>2, <4>3, AttritionAssumption
    <3>2. Min({Cardinality(InScope(d)), MaxRows}) = Cardinality(InScope(d))
      BY <3>1, LesserOfTwo
    <3>3. ReportRows(d) = {InScope(d)}
      <4>1. InScope(d) \in ReportRows(d)
        BY <3>2 DEF ReportRows
      <4>2. ASSUME NEW rows \in ReportRows(d) PROVE rows = InScope(d)
        BY <3>1, <3>2, RowsCount DEF ReportRows
      <4>3. QED
        BY <4>1, <4>2
    <3>4. Health(d) = {Light(d, InScope(d))}
      BY <3>3 DEF Health
    <3>5. QED
      BY <2>2, <2>3, <2>4, <3>4
  <2>7. QED
    BY <2>5, <2>6 DEF Health
<1>2. RunsInv => LimitOnlyAlarms
  BY <1>1 DEF RunsInv, LimitOnlyAlarms, OneRowEach
<1>3. QED
  BY <1>2, RunsCorrect, PTL
==============================================================================
