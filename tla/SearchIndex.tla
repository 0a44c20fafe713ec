----------------------------- MODULE SearchIndex -----------------------------
(***************************************************************************)
(* Employee search: services/search.py and the task that fills its index.  *)
(*                                                                         *)
(* Elasticsearch holds a copy of the employees, written by a task that     *)
(* reads the rows and then sends the documents one after another.  Nothing *)
(* updates the copy when a row is updated, nothing removes a document, and *)
(* two tasks may be at work at once.  A search asks Elasticsearch and, if  *)
(* that fails, the database; both limit what they find by the claims of    *)
(* the caller, each with a filter of its own.                              *)
(***************************************************************************)
EXTENDS Staff, AccessControl, Naturals, FiniteSetsExt

CONSTANTS Task,      \* workers that may run the task
          Org,       \* the organization, by its id
          TokensOf,  \* TokensOf[i]: what the analyzer makes of the id i
          MaxEdits,  \* bounds the updates of a row
          MaxFaults  \* bounds what goes wrong with Elasticsearch or a worker

ASSUME SearchAssumption ==
  /\ None \notin Employee \cup Department
  /\ None \notin [dept : Department, edits : Nat]
  /\ None \notin UNION {TokensOf[i] : i \in Employee \cup {Org}}
  /\ MaxRows \in Nat \ {0} /\ MaxEdits \in Nat /\ MaxFaults \in Nat

VARIABLES row,    \* row[e]: the department of e, and how often it was changed
          index,  \* index[e]: the document of e, or None
          task,   \* task[t]: the documents t has prepared and not yet sent
          mixed,  \* history: the tasks that were at work beside another one
          faults  \* how many faults there were

vars == <<row, index, task, mixed, faults>>

Document == [dept : Department, edits : 0..MaxEdits]

Idle == [e \in {} |-> None]

TypeOK ==
  /\ row \in [Employee -> Document]
  /\ index \in [Employee -> Document \cup {None}]
  /\ task \in [Task -> UNION {[some -> Document] : some \in SUBSET Employee}]
  /\ mixed \subseteq Task
  /\ faults \in 0..MaxFaults

Init ==
  /\ row = [e \in Employee |-> [dept |-> HomeOf[e], edits |-> 0]]
  /\ index = [e \in Employee |-> None]
  /\ task = [t \in Task |-> Idle]
  /\ mixed = {}
  /\ faults = 0

-----------------------------------------------------------------------------
(* update_employee moves an employee; the index is not told.               *)
Transfer(e, d) ==
  /\ d # row[e].dept /\ row[e].edits < MaxEdits
  /\ row' = [row EXCEPT ![e] = [dept |-> d, edits |-> @.edits + 1]]
  /\ UNCHANGED <<index, task, mixed, faults>>

(* employee_search_documents: LIMIT without an order.                      *)
Prepared(docs) == Cardinality(DOMAIN docs) = Min({Cardinality(Employee), MaxRows})

Working == {t \in Task : task[t] # Idle}

Prepare(t) ==
  /\ task[t] = Idle
  /\ \E some \in SUBSET Employee :
       LET docs == [e \in some |-> row[e]]
       IN  Prepared(docs) /\ task' = [task EXCEPT ![t] = docs]
  /\ mixed' = IF Working = {} THEN mixed \ {t} ELSE mixed \cup Working \cup {t}
  /\ UNCHANGED <<row, index, faults>>

Without(docs, e) == [x \in DOMAIN docs \ {e} |-> docs[x]]

(* A slip: what was sent before is thrown away, as if the index were made  *)
(* anew for each document.                                                 *)
SendAlone(t) ==
  /\ \E e \in DOMAIN task[t] :
       /\ index' = [x \in Employee |->
                     IF x = e THEN task[t][e]
                     ELSE IF x \in DOMAIN task[t] THEN index[x] ELSE None]
       /\ task' = [task EXCEPT ![t] = Without(@, e)]
  /\ UNCHANGED <<row, mixed, faults>>

(* A slip: after the first document the rest is dropped.                   *)
SendFirst(t) ==
  /\ \E e \in DOMAIN task[t] :
       /\ index' = [index EXCEPT ![e] = task[t][e]]
       /\ task' = [task EXCEPT ![t] = Idle]
  /\ UNCHANGED <<row, mixed, faults>>

(* helpers.bulk sends the next document, which replaces the one of the     *)
(* same id whatever it says.                                               *)
Send(t) ==
  /\ \E e \in DOMAIN task[t] :
       /\ index' = [index EXCEPT ![e] = task[t][e]]
       /\ task' = [task EXCEPT ![t] = Without(@, e)]
  /\ UNCHANGED <<row, mixed, faults>>

(* One document is refused: raise_on_error is off, the others follow.      *)
Reject(t) ==
  /\ faults < MaxFaults /\ faults' = faults + 1
  /\ \E e \in DOMAIN task[t] : task' = [task EXCEPT ![t] = Without(@, e)]
  /\ UNCHANGED <<row, index, mixed>>

(* Elasticsearch fails altogether, or the worker is gone.                  *)
Abort(t) ==
  /\ task[t] # Idle
  /\ faults < MaxFaults /\ faults' = faults + 1
  /\ task' = [task EXCEPT ![t] = Idle]
  /\ UNCHANGED <<row, index, mixed>>

Next ==
  \/ \E e \in Employee, d \in Department : Transfer(e, d)
  \/ \E t \in Task : Prepare(t) \/ Send(t) \/ Reject(t) \/ Abort(t)

(* A worker sends what it has prepared: helpers.bulk loops to the end.     *)
(* That the task is ever run is not assumed, for nothing here schedules it.*)
Spec == Init /\ [][Next]_vars /\ \A t \in Task : WF_vars(Send(t))

-----------------------------------------------------------------------------
Contexts ==
  [role : Roles, dept : Department \cup {None}, emp : Employee \cup {None}]

(* A `term` filter on a string.  Nothing maps the fields of the index, so  *)
(* strings are analyzed, and the filter compares with each of the tokens:  *)
(* 'org-demo' is none of those of "org-demo".  Numbers compare as such.    *)
TermMatches(i, value) == i \in TokensOf[value]

(* A slip: a head is given the whole company, as auditors are.             *)
FoundInIndexByAll(c) ==
  {e \in Employee :
     /\ index[e] # None /\ TermMatches(Org, Org)
     /\ c.role = "EMPLOYEE" => TermMatches(c.emp, e)}

(* The filters of _search_with_elasticsearch; the match with the words of  *)
(* the query and the size of the answer are left out.                      *)
FoundInIndex(c) ==
  {e \in Employee :
     /\ index[e] # None
     /\ TermMatches(Org, Org)
     /\ CASE c.role = "DEPT_HEAD" -> index[e].dept = c.dept
          [] c.role = "EMPLOYEE" -> TermMatches(c.emp, e)
          [] OTHER -> c.role \in {"SUPER_ADMIN", "HR_MANAGER", "AUDITOR"}}

(* The filters of _search_with_sql.                                        *)
FoundInDatabase(c) ==
  {e \in Employee :
     CASE c.role = "DEPT_HEAD" -> row[e].dept = c.dept
       [] c.role = "EMPLOYEE" -> e = c.emp
       [] OTHER -> c.role \in {"SUPER_ADMIN", "HR_MANAGER", "AUDITOR"}}

UpToDate(e) == index[e] # None /\ index[e].edits = row[e].edits

(* The id c is filtered by is a part of that of somebody else.             *)
NamedInPart(c, e) == c.role = "EMPLOYEE" /\ c.emp # e /\ TermMatches(c.emp, e)

(* What the database finds is what the caller may read, but for the        *)
(* auditor, who may search and not open a profile (search.py:179-184,      *)
(* auth.py:95).  A document that is up to date is found for nobody else,   *)
(* an employee apart whose id is a token of the id found; and it is found  *)
(* for all those if the ids the filters use are tokens of themselves       *)
(* (search.py:91-97).                                                      *)
SearchKeepsToRights ==
  \A c \in Contexts, e \in Employee :
    /\ c.role # "AUDITOR" =>
         (e \in FoundInDatabase(c) <=> MayReadEmployee(c, e, row[e].dept))
    /\ UpToDate(e) /\ e \in FoundInIndex(c) =>
         e \in FoundInDatabase(c) \/ NamedInPart(c, e)
    /\ UpToDate(e) /\ e \in FoundInDatabase(c)
         /\ TermMatches(Org, Org) /\ TermMatches(e, e) => e \in FoundInIndex(c)

(* A document never disappears, and it goes back to an older row only by   *)
(* a task that was at work beside another one (lines 38-60: documents      *)
(* carry no version and are never deleted).                                *)
OlderOnlyByOverlap ==
  [][\A e \in Employee : index[e] # None =>
       /\ index'[e] # None
       /\ index'[e].edits < index[e].edits =>
            \E t \in mixed : e \in DOMAIN task[t] \ DOMAIN task'[t]]_vars

(* The document of e is made from a row changed n times or more.           *)
NoOlder(e, n) == index[e] # None /\ index[e].edits >= n

(* What a task prepared while no other was at work reaches the index and   *)
(* is never displaced by anything older, once there are no more faults,    *)
(* whatever is transferred and whichever tasks start later (lines 50-56).  *)
LoneTaskPrevails ==
  \A t \in Task, e \in Employee, n \in 0..MaxEdits :
    (/\ faults = MaxFaults /\ Working = {t}
     /\ e \in DOMAIN task[t] /\ task[t][e].edits = n)
      ~> []NoOlder(e, n)
=============================================================================
