------------------------ MODULE EmployeeUpdateProofs ------------------------
(***************************************************************************)
(* What EmployeeUpdate guarantees for any number of employees, requests    *)
(* and updates.                                                            *)
(***************************************************************************)
EXTENDS EmployeeUpdate, TLAPS

(* What is asked for by anybody but HR names no privileged column: decided *)
(* when the request is read, relied upon when it commits.                  *)
RequestsAuthorized ==
  \A r \in Request : req[r] # Idle /\ req[r].by # HR
    => DOMAIN req[r].new \subseteq {"name", "email"}

(* Value v was held by field f of e: loaded, or put there by an entry.     *)
Held(v, e, f) == v = first[e][f] \/ \E j \in Entries(audit, e, f) : audit[j].new[f] = v

(* What is in a row, and what a request has read of it, was held.          *)
ValuesHeld ==
  /\ \A e \in Employee, f \in AllFields : Held(rows[e][f], e, f)
  /\ \A r \in Request : req[r] # Idle =>
       \A f \in DOMAIN req[r].old : Held(req[r].old[f], req[r].emp, f)

(* A change fits the row it was validated on.                              *)
SeenMatches ==
  \A r \in Request : req[r] # Idle =>
    /\ seen[r] \in Row
    /\ RoleDept[Target(seen[r], req[r].new, "role")] = Target(seen[r], req[r].new, "dept")

UpdateInv ==
  /\ TypeOK
  /\ AuditReplays
  /\ EmailsUnique
  /\ RequestsAuthorized
  /\ PrivilegedByHR
  /\ ValuesHeld
  /\ OldValuesWereHeld
  /\ SeenMatches

-----------------------------------------------------------------------------
(* A busy slot holds a change. *)
LEMMA BusyIsChange ==
  ASSUME TypeOK, NEW r \in Request, req[r] # Idle
  PROVE  req[r] \in Change
  BY DEF TypeOK

(* Part of a typed row or body is a body. *)
LEMMA PickTyped ==
  ASSUME NEW values, NEW fields, fields \subseteq DOMAIN values,
         DOMAIN values \subseteq AllFields, Typed(values)
  PROVE  Pick(values, fields) \in Body
<1> DEFINE p == Pick(values, fields)
<1>1. /\ DOMAIN p = fields
      /\ \A f \in fields : p[f] = values[f] /\ p[f] \in ValueOf(f)
  BY DEF Pick, Typed
<1>2. \A f \in fields : p[f] \in Value
  BY <1>1 DEF Value
<1>3. p \in [fields -> Value]
  BY <1>2 DEF Pick
<1>4. Typed(p)
  BY <1>1 DEF Typed
<1> QED
  BY <1>3, <1>4 DEF Body

(* The values of a body have the types of their fields. *)
LEMMA BodyFields ==
  ASSUME NEW p \in Body
  PROVE  /\ DOMAIN p \subseteq AllFields
         /\ Typed(p)
  BY DEF Body

(* The columns of a row have their types. *)
LEMMA RowFields ==
  ASSUME NEW row \in Row
  PROVE  /\ DOMAIN row = AllFields
         /\ Typed(row)
         /\ \A f \in AllFields : row[f] \in ValueOf(f)
  BY DEF Row, Typed

(* Writing a typed body over a row gives a row. *)
LEMMA OverlayTyped ==
  ASSUME NEW row \in Row, NEW p \in Body
  PROVE  Overlay(row, p) \in Row
<1> DEFINE t == Overlay(row, p)
<1>1. \A f \in AllFields : t[f] \in ValueOf(f)
  <2> TAKE f \in AllFields
  <2>1. t[f] = Target(row, p, f)
    BY DEF Overlay
  <2>2. CASE f \in DOMAIN p
    BY <2>1, <2>2, BodyFields DEF Target, Typed
  <2>3. CASE f \notin DOMAIN p
    BY <2>1, <2>3, RowFields DEF Target
  <2> QED
    BY <2>2, <2>3
<1>2. DOMAIN t = AllFields
  BY DEF Overlay
<1>3. t \in [AllFields -> Value]
  BY <1>1 DEF Overlay, Value
<1> QED
  BY <1>1, <1>2, <1>3 DEF Row, Typed

-----------------------------------------------------------------------------
(* The rows as loaded, with no request and no entry, satisfy the invariant. *)
LEMMA InitInv == Init => UpdateInv
<1> SUFFICES ASSUME Init PROVE UpdateInv
  OBVIOUS
<1>1. TypeOK
  BY DEF Init, TypeOK
<1>2. \A e \in Employee, f \in AllFields : Entries(audit, e, f) = {}
  BY DEF Init, Entries
<1> QED
  BY <1>1, <1>2 DEF Init, UpdateInv, AuditReplays, EmailsUnique,
                    RequestsAuthorized, PrivilegedByHR, ValuesHeld, Held,
                    OldValuesWereHeld, SeenMatches

(* A request that passed the checks holds a change its caller may make. *)
LEMMA ReadKeepsInv ==
  ASSUME UpdateInv, NEW r \in Request, NEW e \in Employee, NEW by \in Caller,
         NEW payload \in Sent, Read(r, e, by, payload)
  PROVE  UpdateInv'
<1> DEFINE c == Changes(e, by, payload)
<1> DEFINE changed == {f \in DOMAIN payload : payload[f] # rows[e][f]}
<1>1. payload \in Body
  BY DEF Sent
<1>2. c = [emp |-> e, by |-> by, old |-> Pick(rows[e], changed),
           new |-> Pick(payload, changed), at |-> None]
  BY DEF Changes
<1>3. changed \subseteq DOMAIN payload /\ DOMAIN payload \subseteq AllFields
  BY <1>1, BodyFields
<1>4. Pick(payload, changed) \in Body
  BY <1>1, <1>3, BodyFields, PickTyped
<1>5. rows[e] \in Row
  BY DEF UpdateInv, TypeOK
<1>6. Pick(rows[e], changed) \in Body
  BY <1>3, <1>5, RowFields, PickTyped
<1>7. c \in Change
  BY <1>2, <1>4, <1>6 DEF Change
<1>8. /\ req' = [req EXCEPT ![r] = c]
      /\ seen' = [seen EXCEPT ![r] = rows[e]]
      /\ rows' = rows /\ audit' = audit /\ now' = now /\ first' = first
  BY DEF Read
<1>9. TypeOK'
  BY <1>5, <1>7, <1>8 DEF UpdateInv, TypeOK
<1>10. by # HR => DOMAIN c.new \subseteq {"name", "email"}
  <2>1. DOMAIN c.new = changed
    BY <1>2 DEF Pick
  <2> QED
    BY <1>3, <2>1 DEF Read, Authorized
<1>11. RequestsAuthorized'
  <2> SUFFICES ASSUME NEW s \in Request, req'[s] # Idle, req'[s].by # HR
               PROVE  DOMAIN req'[s].new \subseteq {"name", "email"}
    BY DEF RequestsAuthorized
  <2>1. CASE s = r
    BY <1>2, <1>8, <1>10, <2>1 DEF UpdateInv, TypeOK
  <2>2. CASE s # r
    BY <1>8, <2>2 DEF UpdateInv, RequestsAuthorized, TypeOK
  <2> QED
    BY <2>1, <2>2
<1>12. (AuditReplays /\ EmailsUnique /\ PrivilegedByHR /\ OldValuesWereHeld)'
  BY <1>8 DEF UpdateInv, AuditReplays, EmailsUnique, PrivilegedByHR, OldValuesWereHeld, Entries, Crossed
<1>13. ASSUME NEW v, NEW b, NEW f PROVE Held(v, b, f)' <=> Held(v, b, f)
  BY <1>8 DEF Held, Entries
<1>14. ValuesHeld'
  <2>1. \A b \in Employee, f \in AllFields : Held(rows[b][f], b, f)
    BY DEF UpdateInv, ValuesHeld
  <2>2. \A b \in Employee, f \in AllFields : Held(rows[b][f], b, f)'
    BY <1>8, <2>1 DEF Held, Entries
  <2>3. ASSUME NEW s \in Request, req'[s] # Idle, NEW f \in DOMAIN req'[s].old
        PROVE  Held(req[s].old[f], req[s].emp, f)'
    <3>1. CASE s = r
      <4>1. req'[s] = c
        BY <1>8, <3>1 DEF UpdateInv, TypeOK
      <4>2. f \in changed /\ c.old[f] = rows[e][f] /\ c.emp = e
        BY <1>2, <2>3, <4>1 DEF Pick
      <4>3. f \in AllFields
        BY <1>3, <4>2
      <4> QED
        BY <1>8, <2>1, <4>1, <4>2, <4>3 DEF Held, Entries
    <3>2. CASE s # r
      <4>1. req'[s] = req[s]
        BY <1>8, <3>2 DEF UpdateInv, TypeOK
      <4>2. Held(req[s].old[f], req[s].emp, f)
        BY <2>3, <4>1 DEF UpdateInv, ValuesHeld
      <4> QED
        BY <1>8, <4>1, <4>2 DEF Held, Entries
    <3> QED
      BY <3>1, <3>2
  <2> QED
    BY <2>2, <2>3 DEF ValuesHeld
<1>15. SeenMatches'
  <2>1. \A f \in {"role", "dept"} : Target(rows[e], c.new, f) = Target(rows[e], payload, f)
    BY DEF Changes, Pick, Target
  <2>2. RoleDept[Target(rows[e], payload, "role")] = Target(rows[e], payload, "dept")
    BY DEF Read, Valid
  <2> SUFFICES ASSUME NEW s \in Request, req'[s] # Idle
               PROVE  /\ seen'[s] \in Row
                      /\ RoleDept[Target(seen'[s], req'[s].new, "role")]
                           = Target(seen'[s], req'[s].new, "dept")
    BY DEF SeenMatches, Target
  <2>3. CASE s = r
    <3>1. req'[s] = c /\ seen'[s] = rows[e]
      BY <1>8, <2>3 DEF UpdateInv, TypeOK
    <3> HIDE DEF c
    <3> QED
      BY <1>5, <2>1, <2>2, <3>1
  <2>4. CASE s # r
    <3>1. req'[s] = req[s] /\ seen'[s] = seen[s]
      BY <1>8, <2>4 DEF UpdateInv, TypeOK
    <3> QED
      BY <3>1 DEF UpdateInv, SeenMatches
  <2> QED
    BY <2>3, <2>4
<1> QED
  BY <1>9, <1>11, <1>12, <1>14, <1>15 DEF UpdateInv

(* A slot that is answered leaves the others as they were. *)
LEMMA AnswerKeepsRequests ==
  ASSUME UpdateInv, NEW r \in Request, Answer(r)
  PROVE  /\ RequestsAuthorized'
         /\ SeenMatches'
         /\ req' \in [Request -> {Idle} \cup Change]
         /\ seen' \in [Request -> {Idle} \cup Row]
         /\ \A s \in Request : req'[s] # Idle => s # r /\ req'[s] = req[s]
<1>1. TypeOK /\ req' = [req EXCEPT ![r] = Idle] /\ seen' = [seen EXCEPT ![r] = Idle]
  BY DEF UpdateInv, Answer
<1>2. \A s \in Request : req'[s] # Idle => s # r /\ req'[s] = req[s] /\ seen'[s] = seen[s]
  BY <1>1 DEF TypeOK
<1>3. RequestsAuthorized'
  BY <1>2 DEF UpdateInv, RequestsAuthorized
<1>4. SeenMatches'
  BY <1>2 DEF UpdateInv, SeenMatches, Target
<1> QED
  BY <1>1, <1>2, <1>3, <1>4 DEF TypeOK

(* A request that ends without a write. *)
LEMMA NoWriteKeepsInv ==
  ASSUME UpdateInv, NEW r \in Request, Answer(r), UNCHANGED <<rows, audit, now, first>>
  PROVE  UpdateInv'
<1>1. TypeOK'
  BY AnswerKeepsRequests DEF UpdateInv, TypeOK
<1>2. (AuditReplays /\ EmailsUnique /\ PrivilegedByHR /\ OldValuesWereHeld)'
  BY DEF UpdateInv, AuditReplays, EmailsUnique, PrivilegedByHR, OldValuesWereHeld, Entries, Crossed
<1>3. ValuesHeld'
  <2>1. \A b \in Employee, f \in AllFields : Held(rows[b][f], b, f)'
    BY DEF UpdateInv, ValuesHeld, Held, Entries
  <2>2. ASSUME NEW s \in Request, req'[s] # Idle, NEW f \in DOMAIN req'[s].old
        PROVE  Held(req[s].old[f], req[s].emp, f)'
    <3>1. req'[s] = req[s]
      BY <2>2, AnswerKeepsRequests
    <3>2. Held(req[s].old[f], req[s].emp, f)
      BY <2>2, <3>1 DEF UpdateInv, ValuesHeld
    <3> QED
      BY <3>1, <3>2 DEF Held, Entries
  <2> QED
    BY <2>1, <2>2 DEF ValuesHeld
<1> QED
  BY <1>1, <1>2, <1>3, AnswerKeepsRequests DEF UpdateInv

(* Giving an entry its time stamp changes nothing else of it. *)
LEMMA FlushKeepsInv ==
  ASSUME UpdateInv, NEW r \in Request, Flush(r)
  PROVE  UpdateInv'
<1> DEFINE c == [req[r] EXCEPT !.at = now']
<1>1. TypeOK /\ req[r] \in Change /\ now' \in Nat
  BY BusyIsChange, UpdateAssumption DEF UpdateInv, TypeOK, Flush
<1>2. /\ c \in Change /\ c # Idle
      /\ c.emp = req[r].emp /\ c.by = req[r].by /\ c.old = req[r].old /\ c.new = req[r].new
  BY <1>1 DEF Change, Idle
<1>3. /\ req' = [req EXCEPT ![r] = c]
      /\ seen' = seen /\ rows' = rows /\ audit' = audit /\ first' = first
  BY DEF Flush
<1>4. \A s \in Request : req'[s] = IF s = r THEN c ELSE req[s]
  BY <1>1, <1>3 DEF TypeOK
<1>5. req[r] # Idle
  BY DEF Flush
<1> HIDE DEF c
<1>6. TypeOK'
  BY <1>1, <1>2, <1>3 DEF TypeOK
<1>7. (AuditReplays /\ EmailsUnique /\ PrivilegedByHR /\ OldValuesWereHeld)'
  BY <1>3 DEF UpdateInv, AuditReplays, EmailsUnique, PrivilegedByHR, OldValuesWereHeld, Entries, Crossed
<1>8. RequestsAuthorized'
  BY <1>2, <1>4, <1>5 DEF UpdateInv, RequestsAuthorized
<1>9. SeenMatches'
  BY <1>2, <1>3, <1>4, <1>5 DEF UpdateInv, SeenMatches, Target
<1>10. ValuesHeld'
  <2>1. \A b \in Employee, f \in AllFields : Held(rows[b][f], b, f)'
    BY <1>3 DEF UpdateInv, ValuesHeld, Held, Entries
  <2>2. ASSUME NEW s \in Request, req'[s] # Idle, NEW f \in DOMAIN req'[s].old
        PROVE  Held(req[s].old[f], req[s].emp, f)'
    <3>1. req'[s].old = req[s].old /\ req'[s].emp = req[s].emp /\ req[s] # Idle
      BY <1>2, <1>4, <1>5, <2>2
    <3>2. Held(req[s].old[f], req[s].emp, f)
      BY <2>2, <3>1 DEF UpdateInv, ValuesHeld
    <3> QED
      BY <1>3, <3>1, <3>2 DEF Held, Entries
  <2> QED
    BY <2>1, <2>2 DEF ValuesHeld
<1> QED
  BY <1>6, <1>7, <1>8, <1>9, <1>10 DEF UpdateInv

(* What writing a change does to a field. *)
LEMMA FieldWritten ==
  ASSUME NEW table \in [Employee -> Row], NEW c \in Change,
         NEW e \in Employee, NEW f \in AllFields
  PROVE  [table EXCEPT ![c.emp] = Overlay(@, c.new)][e][f]
           = IF c.emp = e /\ f \in DOMAIN c.new THEN c.new[f] ELSE table[e][f]
  BY DEF Overlay, Target, Change

(* What is in a log comes before what is appended to it. *)
LEMMA BeforeNext ==
  ASSUME NEW n \in Nat, NEW j \in Nat, j <= n
  PROVE  j < n + 1
  OBVIOUS

(* A commit that is not rolled back keeps every part of the invariant. *)
LEMMA WriteKeepsInv ==
  ASSUME UpdateInv, NEW r \in Request, req[r] # Idle, ~EmailTaken(req[r]),
         rows' = [rows EXCEPT ![req[r].emp] = Overlay(@, req[r].new)],
         audit' = Append(audit, req[r]),
         Answer(r),
         now' = now, first' = first
  PROVE  UpdateInv'
<1> DEFINE c == req[r]
<1>1. TypeOK /\ c \in Change
  BY BusyIsChange DEF UpdateInv
<1>2. c.emp \in Employee /\ c.new \in Body
  BY <1>1 DEF Change
<1>w. \A e \in Employee, f \in AllFields :
        rows'[e][f] = IF c.emp = e /\ f \in DOMAIN c.new THEN c.new[f] ELSE rows[e][f]
  BY <1>1, FieldWritten DEF TypeOK
<1>a. audit \in Seq(Change) /\ audit' = Append(audit, c)
  BY <1>1 DEF TypeOK
<1>n. /\ DOMAIN audit = 1..Len(audit)
      /\ DOMAIN audit' = 1..(Len(audit) + 1)
      /\ Len(audit) \in Nat
      /\ \A i \in DOMAIN audit : audit'[i] = audit[i]
      /\ audit'[Len(audit) + 1] = c
  BY <1>1, <1>a
<1>e. \A e \in Employee, f \in AllFields :
        /\ c.emp = e /\ f \in DOMAIN c.new =>
             Entries(audit', e, f) = Entries(audit, e, f) \cup {Len(audit) + 1}
        /\ ~(c.emp = e /\ f \in DOMAIN c.new) =>
             Entries(audit', e, f) = Entries(audit, e, f)
        /\ \A i \in Entries(audit, e, f) :
             i \in Nat /\ i <= Len(audit) /\ audit'[i] = audit[i]
  BY <1>n DEF Entries
<1>3. TypeOK'
  <2>1. rows' \in [Employee -> Row]
    BY <1>1, <1>2, OverlayTyped DEF TypeOK
  <2>2. audit' \in Seq(Change)
    BY <1>1 DEF TypeOK
  <2> QED
    BY <1>1, <2>1, <2>2, AnswerKeepsRequests DEF TypeOK
<1>4. AuditReplays'
  <2> DEFINE Replays(e, f) ==
        LET trail == Entries(audit, e, f) IN
        /\ trail = {} => rows[e][f] = first[e][f]
        /\ \A i \in trail : (\A j \in trail : audit[j].at <= audit[i].at) =>
             \E k \in trail : /\ rows[e][f] = audit[k].new[f]
                             /\ \/ k = i
                                \/ Crossed(k, i) /\ \A j \in trail : j <= k
  <2> SUFFICES ASSUME NEW e \in Employee, NEW f \in AllFields
               PROVE  Replays(e, f)'
    BY DEF AuditReplays
  <2> DEFINE trail == Entries(audit, e, f)
  <2>1. CASE c.emp = e /\ f \in DOMAIN c.new
    <3>0. PICK n : n = Len(audit) + 1
      OBVIOUS
    <3>1. trail' = trail \cup {n} /\ rows'[e][f] = c.new[f] /\ audit'[n] = c
      BY <1>w, <1>e, <1>n, <2>1, <3>0
    <3>2. n \in Nat /\ \A i \in trail : i \in Nat /\ i < n
      BY <1>e, <1>n, <3>0
    <3>3. n \in trail' /\ rows'[e][f] = audit'[n].new[f]
      BY <3>1
    <3>4. \A j \in trail' : j <= n
      BY <3>1, <3>2
    <3>5. ASSUME NEW i \in trail', \A j \in trail' : audit'[j].at <= audit'[i].at
          PROVE  n = i \/ Crossed(n, i)'
      <4>1. i = n \/ i < n
        BY <3>1, <3>2
      <4>2. audit'[n].at <= audit'[i].at
        BY <3>3, <3>5
      <4> QED
        BY <4>1, <4>2 DEF Crossed
    <3>6. Entries(audit', e, f) = trail'
      OBVIOUS
    <3> HIDE DEF trail, c
    <3> QED
      BY <3>3, <3>4, <3>5, <3>6
  <2>2. CASE ~(c.emp = e /\ f \in DOMAIN c.new)
    <3>1. trail' = trail /\ rows'[e][f] = rows[e][f] /\ first' = first
      BY <1>w, <1>e, <2>2
    <3>2. \A i \in trail : audit'[i] = audit[i]
      BY <1>e
    <3>3. Replays(e, f)
      BY DEF UpdateInv, AuditReplays
    <3> HIDE DEF c, trail
    <3>4. \A k, i \in trail : Crossed(k, i)' <=> Crossed(k, i)
      BY <3>2 DEF Crossed
    <3> QED
      BY <3>1, <3>2, <3>3, <3>4 DEF trail
  <2> QED
    BY <2>1, <2>2
<1>5. EmailsUnique'
  <2> SUFFICES ASSUME NEW e \in Employee, NEW d \in Employee, e # d
               PROVE  rows'[e]["email"] # rows'[d]["email"]
    BY DEF EmailsUnique, EmailsDiffer
  <2>1. \A b \in Employee :
          rows'[b]["email"] = IF b = c.emp /\ "email" \in DOMAIN c.new
                                THEN c.new["email"] ELSE rows[b]["email"]
    BY <1>w DEF AllFields
  <2>2. "email" \in DOMAIN c.new =>
          \A b \in Employee \ {c.emp} : rows[b]["email"] # c.new["email"]
    BY DEF EmailTaken
  <2>3. rows[e]["email"] # rows[d]["email"]
    BY DEF UpdateInv, EmailsUnique, EmailsDiffer
  <2> QED
    BY <2>1, <2>2, <2>3
<1>6. PrivilegedByHR'
  <2> SUFFICES ASSUME NEW e \in Employee, NEW f \in AllFields \ {"name", "email"},
                      rows'[e][f] # first[e][f]
               PROVE  \E i \in Entries(audit', e, f) :
                        audit'[i].by = HR /\ audit'[i].new[f] = rows'[e][f]
    BY ZenonT(60) DEF PrivilegedByHR
  <2>1. CASE c.emp = e /\ f \in DOMAIN c.new
    <3>1. c.by = HR
      BY <2>1 DEF UpdateInv, RequestsAuthorized
    <3>2. /\ Len(audit) + 1 \in Entries(audit', e, f)
          /\ audit'[Len(audit) + 1] = c
          /\ rows'[e][f] = c.new[f]
      BY <1>w, <1>e, <1>n, <2>1
    <3> QED
      BY <3>1, <3>2
  <2>2. CASE ~(c.emp = e /\ f \in DOMAIN c.new)
    <3>1. Entries(audit', e, f) = Entries(audit, e, f) /\ rows'[e][f] = rows[e][f]
      BY <1>w, <1>e, <2>2
    <3>2. \A i \in Entries(audit, e, f) : audit'[i] = audit[i]
      BY <1>e
    <3>3. \E i \in Entries(audit, e, f) : audit[i].by = HR /\ audit[i].new[f] = rows[e][f]
      BY <3>1 DEF UpdateInv, PrivilegedByHR
    <3> QED
      BY <3>1, <3>2, <3>3
  <2> QED
    BY <2>1, <2>2
(* What was held is held, and so is what the change writes.                *)
<1>k. \A e \in Employee, f \in AllFields : \A j \in Entries(audit, e, f) :
        /\ j \in Entries(audit', e, f) /\ audit'[j] = audit[j]
        /\ j \in Nat /\ j <= Len(audit)
  BY <1>e
<1>h. ASSUME NEW v, NEW e \in Employee, NEW f \in AllFields, Held(v, e, f)
      PROVE  v = first'[e][f] \/ \E j \in Entries(audit', e, f) : audit'[j].new[f] = v
  BY <1>h, <1>k DEF Held
<1>7. ValuesHeld'
  <2>1. ASSUME NEW e \in Employee, NEW f \in AllFields
        PROVE  Held(rows[e][f], e, f)'
    <3>1. CASE c.emp = e /\ f \in DOMAIN c.new
      <4>1. /\ Len(audit) + 1 \in Entries(audit', e, f)
            /\ audit'[Len(audit) + 1].new[f] = rows'[e][f]
        BY <1>w, <1>e, <1>n, <3>1
      <4> QED
        BY <4>1 DEF Held
    <3>2. CASE ~(c.emp = e /\ f \in DOMAIN c.new)
      <4>1. rows'[e][f] = rows[e][f] /\ Held(rows[e][f], e, f)
        BY <1>w, <3>2 DEF UpdateInv, ValuesHeld
      <4>2. \/ rows[e][f] = first'[e][f]
            \/ \E j \in Entries(audit', e, f) : audit'[j].new[f] = rows[e][f]
        BY <1>h, <4>1
      <4> QED
        BY <4>1, <4>2 DEF Held
    <3> QED
      BY <3>1, <3>2
  <2>2. ASSUME NEW s \in Request, req'[s] # Idle, NEW f \in DOMAIN req'[s].old
        PROVE  Held(req[s].old[f], req[s].emp, f)'
    <3>1. req'[s] = req[s] /\ req[s] # Idle
      BY <2>2, AnswerKeepsRequests
    <3>2. req[s] \in Change
      BY <1>1, <3>1, BusyIsChange
    <3>3. req[s].emp \in Employee /\ req[s].old \in Body
      BY <3>2 DEF Change
    <3>4. f \in AllFields
      BY <2>2, <3>1, <3>3, BodyFields
    <3>5. Held(req[s].old[f], req[s].emp, f)
      BY <2>2, <3>1 DEF UpdateInv, ValuesHeld
    <3>6. \/ req[s].old[f] = first'[req[s].emp][f]
          \/ \E j \in Entries(audit', req[s].emp, f) : audit'[j].new[f] = req[s].old[f]
      BY <1>h, <3>3, <3>4, <3>5
    <3> QED
      BY <3>1, <3>6 DEF Held
  <2> QED
    BY <2>1, <2>2 DEF ValuesHeld
<1>8. OldValuesWereHeld'
  <2> SUFFICES ASSUME NEW i \in DOMAIN audit', NEW f \in DOMAIN audit'[i].old
               PROVE  \/ audit'[i].old[f] = first[audit'[i].emp][f]
                      \/ \E j \in Entries(audit', audit'[i].emp, f) :
                            j < i /\ audit'[j].new[f] = audit'[i].old[f]
    BY DEF OldValuesWereHeld
  <2>t. audit'[i] \in Change
    BY <1>3 DEF TypeOK
  <2>f. audit'[i].emp \in Employee /\ f \in AllFields
    <3>1. audit'[i].emp \in Employee /\ audit'[i].old \in Body
      BY <2>t DEF Change
    <3> QED
      BY <3>1, BodyFields
  <2>1. CASE i \in DOMAIN audit
    <3>1. audit'[i] = audit[i]
      BY <1>n, <2>1
    <3>2. \/ audit[i].old[f] = first[audit[i].emp][f]
          \/ \E j \in Entries(audit, audit[i].emp, f) :
                j < i /\ audit[j].new[f] = audit[i].old[f]
      BY <2>1, <3>1 DEF UpdateInv, OldValuesWereHeld
    <3>3. \A j \in Entries(audit, audit[i].emp, f) :
            j \in Entries(audit', audit[i].emp, f) /\ audit'[j] = audit[j]
      BY <1>e, <2>f, <3>1
    <3> QED
      BY <3>1, <3>2, <3>3
  <2>2. CASE i = Len(audit) + 1
    <3>1. audit'[i] = c
      BY <1>n, <2>2
    <3>2. Held(c.old[f], c.emp, f)
      BY <3>1 DEF UpdateInv, ValuesHeld
    <3>3. \A j \in Entries(audit, c.emp, f) :
            j \in Entries(audit', c.emp, f) /\ j < i /\ audit'[j] = audit[j]
      <4>1. c.emp \in Employee /\ f \in AllFields
        BY <1>2, <2>f
      <4>2. Len(audit) \in Nat
        BY <1>n
      <4> HIDE DEF c
      <4>3. \A j \in Entries(audit, c.emp, f) :
              /\ j \in Entries(audit', c.emp, f) /\ audit'[j] = audit[j]
              /\ j \in Nat /\ j <= Len(audit)
        BY <1>k, <4>1
      <4>4. \A j \in Entries(audit, c.emp, f) : j < i
        BY <2>2, <4>2, <4>3, BeforeNext
      <4> QED
        BY <4>3, <4>4
    <3> HIDE DEF c
    <3> QED
      BY <3>1, <3>2, <3>3 DEF Held
  <2>3. i \in DOMAIN audit \/ i = Len(audit) + 1
    BY <1>n
  <2> QED
    BY <2>1, <2>2, <2>3
<1> QED
  BY <1>3, <1>4, <1>5, <1>6, <1>7, <1>8, AnswerKeepsRequests DEF UpdateInv

(* Every step keeps the invariant. *)
LEMMA InvStep == UpdateInv /\ [Next]_vars => UpdateInv'
<1> SUFFICES ASSUME UpdateInv, [Next]_vars PROVE UpdateInv'
  OBVIOUS
<1>1. ASSUME NEW r \in Request, NEW e \in Employee, NEW by \in Caller,
             NEW payload \in Sent, Read(r, e, by, payload)
      PROVE  UpdateInv'
  BY <1>1, ReadKeepsInv
<1>2. ASSUME NEW r \in Request, Commit(r) PROVE UpdateInv'
  <2>1. CASE EmailTaken(req[r])
    BY <1>2, <2>1, NoWriteKeepsInv DEF Commit
  <2>2. CASE ~EmailTaken(req[r])
    BY <1>2, <2>2, WriteKeepsInv DEF Commit
  <2> QED
    BY <2>1, <2>2
<1>3. ASSUME NEW r \in Request, Crash(r) PROVE UpdateInv'
  BY <1>3, NoWriteKeepsInv DEF Crash
<1>4. ASSUME NEW r \in Request, Flush(r) PROVE UpdateInv'
  BY <1>4, FlushKeepsInv
<1>5. CASE UNCHANGED vars
  BY <1>5 DEF vars, UpdateInv, TypeOK, AuditReplays, Crossed, EmailsUnique,
              RequestsAuthorized, PrivilegedByHR, Entries, ValuesHeld, Held,
              OldValuesWereHeld, SeenMatches, Target
<1> QED
  BY <1>1, <1>2, <1>3, <1>4, <1>5 DEF Next

(* The inductive invariant holds in every state. *)
THEOREM UpdateInvCorrect == Spec => []UpdateInv
  BY InitInv, InvStep, PTL DEF Spec

(* The rows, requests and entries keep their types.                        *)
THEOREM TypeCorrect == Spec => []TypeOK
  BY UpdateInvCorrect, PTL DEF UpdateInv

(* No entry of the audit trail names an old value that the column never    *)
(* held, whatever updates overtake one another or are rolled back.         *)
THEOREM OldValuesCorrect == Spec => []OldValuesWereHeld
  BY UpdateInvCorrect, PTL DEF UpdateInv

(* The audit trail, read by its time stamps, accounts for the record but   *)
(* for updates open at once: failed and rolled back ones included.         *)
THEOREM AuditCorrect == Spec => []AuditReplays
  BY UpdateInvCorrect, PTL DEF UpdateInv

(* No two employees ever share an e-mail, although the check of            *)
(* _validate_employee_update_payload and the UPDATE are not atomic.        *)
THEOREM EmailsCorrect == Spec => []EmailsUnique
  BY UpdateInvCorrect, PTL DEF UpdateInv

(* authorize_employee_write, checked before the commit, binds what the     *)
(* commit writes: no self-service request reaches a privileged column.     *)
THEOREM PrivilegeCorrect == Spec => []PrivilegedByHR
  BY UpdateInvCorrect, PTL DEF UpdateInv

-----------------------------------------------------------------------------
(* A commit whose request saw the role and the department it finds writes  *)
(* a row that matches.                                                     *)
LEMMA UndisturbedWrite ==
  ASSUME UpdateInv, NEW r \in Request, Commit(r), NEW e \in Employee,
         Matches(rows[e]), ~Matches(rows'[e])
  PROVE  Overtaken(r, e)
<1> DEFINE c == req[r]
<1>1. c # Idle /\ TypeOK /\ c \in Change
  BY BusyIsChange DEF UpdateInv, Commit
<1>2. rows' = [rows EXCEPT ![c.emp] = Overlay(@, c.new)]
  BY <1>1 DEF Commit
<1>3. c.emp = e
  BY <1>1, <1>2 DEF TypeOK, Matches
<1>4. \A f \in {"role", "dept"} : rows'[e][f] = Target(rows[e], c.new, f)
  BY <1>1, <1>2, <1>3 DEF TypeOK, Overlay, AllFields
<1>5. RoleDept[Target(seen[r], c.new, "role")] = Target(seen[r], c.new, "dept")
  BY <1>1 DEF UpdateInv, SeenMatches
<1>6. \E f \in {"role", "dept"} : seen[r][f] # rows[e][f]
  <2> SUFFICES ASSUME \A f \in {"role", "dept"} : seen[r][f] = rows[e][f] PROVE FALSE
    OBVIOUS
  <2>1. \A f \in {"role", "dept"} : Target(seen[r], c.new, f) = Target(rows[e], c.new, f)
    BY DEF Target
  <2> QED
    BY <1>4, <1>5, <2>1 DEF Matches
<1>7. req'[r] = Idle
  BY <1>1 DEF Commit, Answer, TypeOK
<1> QED
  BY <1>1, <1>3, <1>6, <1>7 DEF Overtaken

(* A role of another department needs one update to overtake another: the  *)
(* validation is against the row as read, the write is not.                *)
THEOREM MixedCorrect == Spec => MixedOnlyByOvertaking
<1> DEFINE NoMix == \A e \in Employee : Matches(rows[e]) /\ ~Matches(rows'[e])
                      => \E r \in Request : Overtaken(r, e)
<1>1. UpdateInv /\ [Next]_vars => [NoMix]_vars
  <2> SUFFICES ASSUME UpdateInv, [Next]_vars, NEW e \in Employee,
                      Matches(rows[e]), ~Matches(rows'[e])
               PROVE  \E r \in Request : Overtaken(r, e)
    OBVIOUS
  <2>1. rows' # rows
    BY DEF Matches
  <2>2. \E r \in Request : Commit(r)
    BY <2>1 DEF Next, Read, Flush, Crash, vars
  <2> QED
    BY <2>2, UndisturbedWrite
<1> QED
  BY <1>1, UpdateInvCorrect, PTL DEF Spec, MixedOnlyByOvertaking
=============================================================================
