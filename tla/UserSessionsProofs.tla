------------------------- MODULE UserSessionsProofs -------------------------
(***************************************************************************)
(* Proofs about UserSessions, for any sets of sessions, request slots and  *)
(* token identifiers.                                                      *)
(***************************************************************************)
EXTENDS UserSessions, FiniteSetTheorems, TLAPS

(* A session without a row has no token and no request. *)
AbsentIsBlank ==
  /\ \A s \in Session : status[s] = "absent" => jti[s] = NoJti
  /\ \A t \in issued : status[t.sid] # "absent"
  /\ \A r \in Request : req[r] # Idle => status[req[r].sid] # "absent"

(* Identifiers are drawn once, and a row's identifier was drawn for it. *)
JtiDrawnOnce ==
  /\ \A t, u \in issued : t.jti = u.jti => t = u
  /\ \A s \in Session : jti[s] # NoJti => \E t \in issued : t.sid = s /\ t.jti = jti[s]
  /\ \A s \in Session : status[s] = "active" => jti[s] # NoJti

(* What was logged out is revoked, and latecomers never got past the check. *)
LateIsDenied ==
  /\ \A s \in loggedOut : status[s] = "revoked"
  /\ \A r \in late : /\ req[r] # Idle
                     /\ req[r].sid \in loggedOut
                     /\ req[r].pc \in {"arrived", "denied"}

SessionInv == TypeOK /\ AbsentIsBlank /\ JtiDrawnOnce /\ LateIsDenied

-----------------------------------------------------------------------------
(* uuid4 gives an identifier nobody holds yet. *)
LEMMA NewJtiIsFresh ==
  ASSUME FreshJti # {}
  PROVE  /\ NewJti \in Jti
         /\ \A t \in issued : t.jti # NewJti
<1>1. NewJti \in FreshJti
  BY DEF NewJti
<1>2. QED
  BY <1>1 DEF FreshJti, UsedJti

(* A request that has reached the server is a record of InFlight. *)
LEMMA BusyIsInFlight ==
  ASSUME TypeOK, NEW r \in Request, req[r] # Idle
  PROVE  /\ req[r] \in InFlight
         /\ req[r].sid \in Session
         /\ req[r].jti \in Jti \cup {NoJti}
BY DEF TypeOK, InFlight

(* The variables have their types in every reachable state. *)
LEMMA TypeStep == TypeOK /\ [Next]_vars => TypeOK'
<1> SUFFICES ASSUME TypeOK, [Next]_vars PROVE TypeOK'
  OBVIOUS
<1> USE NoJtiAssumption DEF TypeOK, InFlight, Idle, Op, AuditEvent, RefreshToken
<1>1. CASE \E s \in Session : IssueSession(s)
  BY <1>1, NewJtiIsFresh DEF IssueSession, RecordAudit
<1>2. ASSUME NEW r \in Request, NEW o \in Op, NEW s \in Session,
             NEW j \in Jti \cup {NoJti}, Arrive(r, o, s, j)
      PROVE  TypeOK'
  BY <1>2 DEF Arrive
<1>3. ASSUME NEW r \in Request, Check(r) PROVE TypeOK'
  BY <1>3 DEF Check
<1>4. ASSUME NEW r \in Request, CommitRefresh(r) PROVE TypeOK'
  <2>1. /\ req[r] \in InFlight
        /\ FreshJti # {}
    BY <1>4 DEF CommitRefresh
  <2>2. NewJti \in Jti
    BY <2>1, NewJtiIsFresh
  <2>3. req' \in [Request -> {Idle} \cup InFlight]
    BY <1>4, <2>1, <2>2 DEF CommitRefresh
  <2>4. issued' \in SUBSET RefreshToken
    BY <1>4, <2>1, <2>2 DEF CommitRefresh
  <2>5. audit' \in [Session -> [AuditEvent -> Nat]]
    BY <1>4, <2>1 DEF CommitRefresh, RecordAudit
  <2>6. QED
    BY <1>4, <2>1, <2>2, <2>3, <2>4, <2>5 DEF CommitRefresh
<1>5. ASSUME NEW r \in Request, CommitLogout(r) PROVE TypeOK'
  <2>1. req[r] \in InFlight
    BY <1>5 DEF CommitLogout
  <2>2. audit' \in [Session -> [AuditEvent -> Nat]]
    BY <1>5, <2>1 DEF CommitLogout, RecordAudit
  <2>3. req' \in [Request -> {Idle} \cup InFlight]
    BY <1>5, <2>1 DEF CommitLogout
  <2>4. QED
    BY <1>5, <2>1, <2>2, <2>3 DEF CommitLogout
<1>6. ASSUME NEW r \in Request, ServeCall(r) PROVE TypeOK'
  BY <1>6 DEF ServeCall
<1>7. ASSUME NEW r \in Request, Leave(r) PROVE TypeOK'
  BY <1>7 DEF Leave
<1>8. CASE UNCHANGED vars
  BY <1>8 DEF vars
<1>9. QED
  BY <1>1, <1>2, <1>3, <1>4, <1>5, <1>6, <1>7, <1>8 DEF Next

(* Every variable keeps its type: no row, token or request record is ever  *)
(* written with a value the columns of UserSession do not have.            *)
THEOREM TypeCorrect == Spec => []TypeOK
<1>1. Init => TypeOK
  BY DEF Init, TypeOK, RefreshToken, AuditEvent
<1>2. QED
  BY <1>1, TypeStep, PTL DEF Spec

-----------------------------------------------------------------------------
(* The strengthening is kept by every step; one lemma per operation. *)
LEMMA IssueKeepsInv ==
  ASSUME SessionInv, TypeOK', NEW s \in Session, IssueSession(s)
  PROVE  SessionInv'
<1> DEFINE tok == [sid |-> s, jti |-> NewJti, from |-> NoJti]
<1>1. /\ NewJti \in Jti
      /\ \A t \in issued : t.jti # NewJti
      /\ NewJti # NoJti
  BY NewJtiIsFresh, NoJtiAssumption DEF IssueSession
<1>2. /\ status[s] = "absent"
      /\ status' = [status EXCEPT ![s] = "active"]
      /\ jti' = [jti EXCEPT ![s] = NewJti]
      /\ issued' = issued \cup {tok}
      /\ UNCHANGED <<req, loggedOut, late>>
  BY DEF IssueSession
<1>3. tok.sid = s /\ tok.jti = NewJti
  OBVIOUS
<1> HIDE DEF tok
<1>4. AbsentIsBlank'
  BY <1>2, <1>3 DEF SessionInv, TypeOK, AbsentIsBlank
<1>5. JtiDrawnOnce'
  <2>1. \A t, u \in issued' : t.jti = u.jti => t = u
    BY <1>1, <1>2, <1>3 DEF SessionInv, JtiDrawnOnce
  <2>2. ASSUME NEW u \in Session, jti'[u] # NoJti
        PROVE  \E t \in issued' : t.sid = u /\ t.jti = jti'[u]
    <3>1. CASE u = s
      BY <1>2, <1>3, <3>1 DEF SessionInv, TypeOK
    <3>2. CASE u # s
      <4>1. jti'[u] = jti[u]
        BY <1>2, <3>2 DEF SessionInv, TypeOK
      <4>2. QED
        BY <1>2, <2>2, <4>1 DEF SessionInv, JtiDrawnOnce
    <3>3. QED
      BY <3>1, <3>2
  <2>3. \A u \in Session : status'[u] = "active" => jti'[u] # NoJti
    BY <1>1, <1>2 DEF SessionInv, TypeOK, JtiDrawnOnce
  <2>4. QED
    BY <2>1, <2>2, <2>3 DEF JtiDrawnOnce
<1>6. LateIsDenied'
  BY <1>2 DEF SessionInv, TypeOK, LateIsDenied
<1>7. QED
  BY <1>4, <1>5, <1>6 DEF SessionInv

(* A request arriving keeps it: one that comes after a logout is marked.   *)
LEMMA ArriveKeepsInv ==
  ASSUME SessionInv, TypeOK', NEW r \in Request, NEW o \in Op, NEW s \in Session,
         NEW j \in Jti \cup {NoJti}, Arrive(r, o, s, j)
  PROVE  SessionInv'
<1>1. status[s] # "absent"
  BY DEF Arrive, Presentable, SessionInv, AbsentIsBlank
<1>2. /\ req[r] = Idle
      /\ req' = [req EXCEPT ![r] = [pc |-> "arrived", op |-> o, sid |-> s,
                                    jti |-> j, new |-> NoJti]]
      /\ late' = IF s \in loggedOut THEN late \cup {r} ELSE late
      /\ UNCHANGED <<status, jti, issued, audit, loggedOut>>
  BY DEF Arrive
<1>3. req'[r].pc = "arrived" /\ req'[r].sid = s /\ r \notin late
  BY <1>2 DEF SessionInv, TypeOK, LateIsDenied
<1>4. \A q \in Request : q # r => req'[q] = req[q]
  BY <1>2 DEF SessionInv, TypeOK
<1>5. AbsentIsBlank'
  BY <1>1, <1>2, <1>3, <1>4 DEF SessionInv, AbsentIsBlank
<1>6. JtiDrawnOnce'
  BY <1>2 DEF SessionInv, JtiDrawnOnce
<1>7. LateIsDenied'
  BY <1>2, <1>3, <1>4 DEF SessionInv, LateIsDenied, TypeOK, Idle
<1>8. QED
  BY <1>5, <1>6, <1>7 DEF SessionInv

(* The blocklist query keeps it: a late request finds the session revoked. *)
LEMMA CheckKeepsInv ==
  ASSUME SessionInv, TypeOK', NEW r \in Request, Check(r)
  PROVE  SessionInv'
<1>1. /\ req[r] # Idle /\ req[r] \in InFlight
      /\ req[r].pc = "arrived"
      /\ req' = [req EXCEPT ![r].pc =
                   IF TokenRevoked(req[r].sid, req[r].jti) THEN "denied" ELSE "checked"]
      /\ UNCHANGED <<status, jti, issued, audit, loggedOut, late>>
  BY DEF Check, SessionInv, TypeOK, Idle
<1>2. /\ req'[r] # Idle
      /\ req'[r].sid = req[r].sid
      /\ req'[r].pc = IF TokenRevoked(req[r].sid, req[r].jti) THEN "denied" ELSE "checked"
  BY <1>1 DEF SessionInv, TypeOK, InFlight, Idle
<1>3. \A q \in Request : q # r => req'[q] = req[q]
  BY <1>1 DEF SessionInv, TypeOK
<1>4. AbsentIsBlank'
  BY <1>1, <1>2, <1>3 DEF SessionInv, AbsentIsBlank
<1>5. JtiDrawnOnce'
  BY <1>1 DEF SessionInv, JtiDrawnOnce
<1>6. LateIsDenied'
  <2>1. r \in late => req'[r].pc = "denied"
    BY <1>2 DEF SessionInv, LateIsDenied, TokenRevoked
  <2>2. QED
    BY <1>1, <1>2, <1>3, <2>1 DEF SessionInv, LateIsDenied, TypeOK
<1>7. QED
  BY <1>4, <1>5, <1>6 DEF SessionInv

(* A refresh may commit on a session that was revoked in the meantime: the *)
(* row gets an identifier again but stays revoked.                         *)
LEMMA RefreshKeepsInv ==
  ASSUME SessionInv, TypeOK', NEW r \in Request, CommitRefresh(r)
  PROVE  SessionInv'
<1> DEFINE s == req[r].sid
           tok == [sid |-> s, jti |-> NewJti, from |-> req[r].jti]
<1>1. /\ NewJti \in Jti
      /\ \A t \in issued : t.jti # NewJti
      /\ NewJti # NoJti
  BY NewJtiIsFresh, NoJtiAssumption DEF CommitRefresh
<1>2. /\ req[r] # Idle /\ req[r] \in InFlight /\ req[r].pc = "checked"
      /\ s \in Session
      /\ jti' = [jti EXCEPT ![s] = NewJti]
      /\ issued' = issued \cup {tok}
      /\ req' = [req EXCEPT ![r].pc = "ok", ![r].new = NewJti]
      /\ UNCHANGED <<status, loggedOut, late>>
  BY DEF CommitRefresh, SessionInv, TypeOK, Idle, InFlight
<1>3. status[s] # "absent"
  BY <1>2 DEF SessionInv, AbsentIsBlank
<1>4. tok.sid = s /\ tok.jti = NewJti
  OBVIOUS
<1>5. req'[r].sid = s
  BY <1>2 DEF SessionInv, TypeOK, InFlight
<1>6. \A q \in Request : q # r => req'[q] = req[q]
  BY <1>2 DEF SessionInv, TypeOK
<1> HIDE DEF tok, s
<1>7. AbsentIsBlank'
  <2>1. \A u \in Session : status'[u] = "absent" => jti'[u] = NoJti
    BY <1>2, <1>3 DEF SessionInv, TypeOK, AbsentIsBlank
  <2>2. \A t \in issued' : status'[t.sid] # "absent"
    BY <1>2, <1>3, <1>4 DEF SessionInv, AbsentIsBlank
  <2>3. \A q \in Request : req'[q] # Idle => status'[req'[q].sid] # "absent"
    BY <1>2, <1>3, <1>5, <1>6 DEF SessionInv, AbsentIsBlank
  <2>4. QED
    BY <2>1, <2>2, <2>3 DEF AbsentIsBlank
<1>8. JtiDrawnOnce'
  <2>1. \A t, u \in issued' : t.jti = u.jti => t = u
    BY <1>1, <1>2, <1>4 DEF SessionInv, JtiDrawnOnce
  <2>2. ASSUME NEW u \in Session, jti'[u] # NoJti
        PROVE  \E t \in issued' : t.sid = u /\ t.jti = jti'[u]
    <3>1. CASE u = s
      BY <1>2, <1>4, <3>1 DEF SessionInv, TypeOK
    <3>2. CASE u # s
      <4>1. jti'[u] = jti[u]
        BY <1>2, <3>2 DEF SessionInv, TypeOK
      <4>2. QED
        BY <1>2, <2>2, <4>1 DEF SessionInv, JtiDrawnOnce
    <3>3. QED
      BY <3>1, <3>2
  <2>3. \A u \in Session : status'[u] = "active" => jti'[u] # NoJti
    BY <1>1, <1>2 DEF SessionInv, TypeOK, JtiDrawnOnce
  <2>4. QED
    BY <2>1, <2>2, <2>3 DEF JtiDrawnOnce
<1>9. LateIsDenied'
  BY <1>2, <1>6 DEF SessionInv, LateIsDenied, TypeOK
<1>10. QED
  BY <1>7, <1>8, <1>9 DEF SessionInv

(* A logout committing keeps it: the row is revoked before the answer.     *)
LEMMA LogoutKeepsInv ==
  ASSUME SessionInv, TypeOK', NEW r \in Request, CommitLogout(r)
  PROVE  SessionInv'
<1> DEFINE s == req[r].sid
<1>1. /\ req[r] # Idle /\ req[r] \in InFlight /\ req[r].pc = "checked"
      /\ s \in Session
      /\ status' = [status EXCEPT ![s] = "revoked"]
      /\ jti' = [jti EXCEPT ![s] = NoJti]
      /\ req' = [req EXCEPT ![r].pc = "ok"]
      /\ loggedOut' = loggedOut \cup {s}
      /\ UNCHANGED <<issued, late>>
  BY DEF CommitLogout, SessionInv, TypeOK, Idle, InFlight
<1>2. /\ req'[r].sid = s
      /\ \A q \in Request : q # r => req'[q] = req[q]
  BY <1>1 DEF SessionInv, TypeOK, InFlight
<1> HIDE DEF s
<1>3. AbsentIsBlank'
  <2>1. \A u \in Session : status'[u] = "absent" => jti'[u] = NoJti
    BY <1>1 DEF SessionInv, TypeOK, AbsentIsBlank
  <2>2. \A t \in issued' : status'[t.sid] # "absent"
    BY <1>1 DEF SessionInv, TypeOK, AbsentIsBlank
  <2>3. \A q \in Request : req'[q] # Idle => status'[req'[q].sid] # "absent"
    BY <1>1, <1>2 DEF SessionInv, TypeOK, AbsentIsBlank
  <2>4. QED
    BY <2>1, <2>2, <2>3 DEF AbsentIsBlank
<1>4. JtiDrawnOnce'
  <2>1. \A u \in Session : jti'[u] # NoJti => jti'[u] = jti[u]
    BY <1>1 DEF SessionInv, TypeOK
  <2>2. \A u \in Session : status'[u] = "active" => status[u] = "active" /\ jti'[u] = jti[u]
    BY <1>1 DEF SessionInv, TypeOK
  <2>3. QED
    BY <1>1, <2>1, <2>2 DEF SessionInv, JtiDrawnOnce
<1>5. LateIsDenied'
  BY <1>1, <1>2 DEF SessionInv, LateIsDenied, TypeOK
<1>6. QED
  BY <1>3, <1>4, <1>5 DEF SessionInv

(* Serving a call writes no row, so it keeps it.                           *)
LEMMA CallKeepsInv ==
  ASSUME SessionInv, TypeOK', NEW r \in Request, ServeCall(r)
  PROVE  SessionInv'
<1>1. /\ req[r] # Idle /\ req[r] \in InFlight /\ req[r].pc = "checked"
      /\ req' = [req EXCEPT ![r].pc = "ok"]
      /\ UNCHANGED <<status, jti, issued, audit, loggedOut, late>>
  BY DEF ServeCall, SessionInv, TypeOK, Idle
<1>2. /\ req'[r].sid = req[r].sid
      /\ \A q \in Request : q # r => req'[q] = req[q]
  BY <1>1 DEF SessionInv, TypeOK, InFlight
<1>3. AbsentIsBlank' /\ JtiDrawnOnce'
  BY <1>1, <1>2 DEF SessionInv, AbsentIsBlank, JtiDrawnOnce
<1>4. LateIsDenied'
  BY <1>1, <1>2 DEF SessionInv, LateIsDenied, TypeOK
<1>5. QED
  BY <1>3, <1>4 DEF SessionInv

(* A finished request leaving keeps it.                                    *)
LEMMA LeaveKeepsInv ==
  ASSUME SessionInv, TypeOK', NEW r \in Request, Leave(r)
  PROVE  SessionInv'
<1>1. /\ req' = [req EXCEPT ![r] = Idle]
      /\ late' = late \ {r}
      /\ UNCHANGED <<status, jti, issued, audit, loggedOut>>
      /\ \A q \in Request : q # r => req'[q] = req[q]
      /\ req'[r] = Idle
  BY DEF Leave, SessionInv, TypeOK
<1>2. QED
  BY <1>1 DEF SessionInv, AbsentIsBlank, JtiDrawnOnce, LateIsDenied, TypeOK

(* Every step of the service keeps the strengthening.                      *)
LEMMA InvStep == SessionInv /\ [Next]_vars => SessionInv'
<1> SUFFICES ASSUME SessionInv, [Next]_vars PROVE SessionInv'
  OBVIOUS
<1>1. TypeOK'
  BY TypeStep DEF SessionInv
<1>2. CASE UNCHANGED vars
  BY <1>1, <1>2 DEF vars, SessionInv, AbsentIsBlank, JtiDrawnOnce, LateIsDenied
<1>3. CASE Next
  BY <1>1, <1>3, IssueKeepsInv, ArriveKeepsInv, CheckKeepsInv, RefreshKeepsInv,
     LogoutKeepsInv, CallKeepsInv, LeaveKeepsInv DEF Next
<1>4. QED
  BY <1>2, <1>3

(* The strengthening holds in every reachable state: rows never issued are *)
(* blank, an identifier is drawn once, and a request that came after its   *)
(* session was logged out is denied.                                       *)
THEOREM InvCorrect == Spec => []SessionInv
<1>1. Init => SessionInv
  <2>1. Init => TypeOK
    BY DEF Init, TypeOK, RefreshToken, AuditEvent
  <2>2. QED
    BY <2>1 DEF Init, SessionInv, AbsentIsBlank, JtiDrawnOnce, LateIsDenied
<1>2. QED
  BY <1>1, InvStep, PTL DEF Spec

-----------------------------------------------------------------------------
(* No request that arrives after a session's logout was answered is ever   *)
(* answered with success, for any number of requests racing it.            *)
THEOREM LogoutHolds == Spec => []LoggedOutStaysOut
<1>1. SessionInv => LoggedOutStaysOut
  BY DEF SessionInv, LateIsDenied, LoggedOutStaysOut
<1>2. QED
  BY <1>1, InvCorrect, PTL

(* An active session always has one refresh token that will be accepted,   *)
(* and no other row holds its identifier.                                  *)
THEOREM RefreshableHolds == Spec => []ActiveSessionRefreshable
<1>1. SessionInv => ActiveSessionRefreshable
  <2> SUFFICES ASSUME SessionInv, NEW s \in Session, status[s] = "active"
               PROVE  \E t \in issued : /\ t.sid = s
                                        /\ \A u \in Session : jti[u] = t.jti <=> u = s
    BY DEF ActiveSessionRefreshable
  <2>1. PICK t \in issued : t.sid = s /\ t.jti = jti[s]
    BY DEF SessionInv, JtiDrawnOnce
  <2>2. t.jti # NoJti
    BY <2>1 DEF SessionInv, JtiDrawnOnce
  <2>3. ASSUME NEW u \in Session, jti[u] = t.jti PROVE u = s
    <3>1. PICK v \in issued : v.sid = u /\ v.jti = jti[u]
      BY <2>2, <2>3 DEF SessionInv, JtiDrawnOnce
    <3>2. v = t
      BY <2>3, <3>1 DEF SessionInv, JtiDrawnOnce
    <3>3. QED
      BY <2>1, <3>1, <3>2
  <2>4. QED
    BY <2>1, <2>3
<1>2. QED
  BY <1>1, InvCorrect, PTL

(* What a step can do to a row: give it a fresh identifier, revoke it with *)
(* its identifier cleared, or nothing.  A revoked row stays revoked.       *)
LEMMA RowStep ==
  ASSUME SessionInv, [Next]_vars, NEW s \in Session, status[s] # "absent"
  PROVE  /\ status'[s] = status[s] \/ status'[s] = "revoked"
         /\ jti'[s] = jti[s] \/ jti'[s] = NoJti \/ \A t \in issued : t.jti # jti'[s]
<1>1. CASE \E u \in Session : IssueSession(u)
  <2>1. PICK u \in Session : IssueSession(u)
    BY <1>1
  <2>2. status'[s] = status[s] /\ jti'[s] = jti[s]
    BY <2>1 DEF IssueSession, SessionInv, TypeOK
  <2>3. QED
    BY <2>2
<1>2. CASE \E r \in Request : CommitRefresh(r)
  <2>1. PICK r \in Request : CommitRefresh(r)
    BY <1>2
  <2>2. /\ jti' = [jti EXCEPT ![req[r].sid] = NewJti]
        /\ status' = status
        /\ \A t \in issued : t.jti # NewJti
    BY <2>1, NewJtiIsFresh DEF CommitRefresh
  <2>3. QED
    BY <2>2 DEF SessionInv, TypeOK
<1>3. CASE \E r \in Request : CommitLogout(r)
  <2>1. PICK r \in Request : CommitLogout(r)
    BY <1>3
  <2>2. /\ status' = [status EXCEPT ![req[r].sid] = "revoked"]
        /\ jti' = [jti EXCEPT ![req[r].sid] = NoJti]
    BY <2>1 DEF CommitLogout
  <2>3. QED
    BY <2>2 DEF SessionInv, TypeOK
<1>4. CASE UNCHANGED <<status, jti>>
  BY <1>4
<1>5. QED
  BY <1>1, <1>2, <1>3, <1>4 DEF Next, Arrive, Check, ServeCall, Leave, vars

(* Rotated or revoked once, a refresh token is dead for good.              *)
THEOREM DeadHolds == Spec => DeadTokenStaysDead
<1>1. SessionInv /\ [Next]_vars => [\A t \in issued : ~Accepted(t) => ~Accepted(t)']_vars
  <2> SUFFICES ASSUME SessionInv, [Next]_vars, NEW t \in issued, ~Accepted(t)
               PROVE  ~Accepted(t)'
    OBVIOUS
  <2>1. /\ t.sid \in Session /\ t.jti \in Jti /\ t.jti # NoJti
        /\ status[t.sid] # "absent"
    BY NoJtiAssumption DEF SessionInv, TypeOK, RefreshToken, AbsentIsBlank
  <2>2. CASE status[t.sid] = "revoked"
    <3>1. status'[t.sid] = "revoked"
      BY <2>1, <2>2, RowStep
    <3>2. QED
      BY <3>1 DEF Accepted, TokenRevoked
  <2>3. CASE status[t.sid] = "active" /\ jti[t.sid] # t.jti
    <3>1. jti'[t.sid] # t.jti
      BY <2>1, <2>3, RowStep
    <3>2. QED
      BY <2>1, <3>1 DEF Accepted, TokenRevoked
  <2>4. QED
    BY <2>1, <2>2, <2>3 DEF Accepted, TokenRevoked, SessionInv, TypeOK
<1>2. QED
  BY <1>1, InvCorrect, PTL DEF Spec, DeadTokenStaysDead

-----------------------------------------------------------------------------
(* The audit trail, with what is needed to count it.                       *)
RefreshHasToken ==
  \A r \in Request : req[r] # Idle /\ req[r].op = "refresh" => req[r].jti \in Jti

Exchanged(tokens, s) == {t \in tokens : t.sid = s /\ t.from # NoJti}

Audited(s) ==
  /\ audit[s]["LOGIN"] = (IF status[s] = "absent" THEN 0 ELSE 1)
  /\ audit[s]["token_refresh"] = Cardinality(Exchanged(issued, s))
  /\ audit[s]["LOGOUT"] > 0 <=> status[s] = "revoked"

AuditInv ==
  /\ IsFiniteSet(issued)
  /\ RefreshHasToken
  /\ \A s \in Session : Audited(s)

(* One more token counts once, for its session, if it was exchanged.       *)
LEMMA OneMoreExchanged ==
  ASSUME NEW tokens, NEW more, NEW tok, NEW s, IsFiniteSet(tokens), tok \notin tokens,
         more = tokens \cup {tok}
  PROVE  /\ IsFiniteSet(more)
         /\ Cardinality(Exchanged(more, s)) =
              Cardinality(Exchanged(tokens, s))
                + (IF tok.sid = s /\ tok.from # NoJti THEN 1 ELSE 0)
         /\ Cardinality(Exchanged(tokens, s)) \in Nat
<1>1. IsFiniteSet(more)
  BY FS_AddElement
<1>2. Exchanged(tokens, s) \subseteq tokens
  BY DEF Exchanged
<1>3. /\ IsFiniteSet(Exchanged(tokens, s))
      /\ Cardinality(Exchanged(tokens, s)) \in Nat
  BY <1>2, FS_Subset, FS_CardinalityType
<1>4. CASE tok.sid = s /\ tok.from # NoJti
  <2>1. Exchanged(more, s) = Exchanged(tokens, s) \cup {tok}
    BY <1>4 DEF Exchanged
  <2>2. tok \notin Exchanged(tokens, s)
    BY <1>2
  <2>3. Cardinality(Exchanged(tokens, s) \cup {tok}) = Cardinality(Exchanged(tokens, s)) + 1
    BY <1>3, <2>2, FS_AddElement
  <2>4. QED
    BY <1>1, <1>3, <1>4, <2>1, <2>3
<1>5. CASE ~(tok.sid = s /\ tok.from # NoJti)
  <2>1. Exchanged(more, s) = Exchanged(tokens, s)
    BY <1>5 DEF Exchanged
  <2>2. QED
    BY <1>1, <1>3, <1>5, <2>1
<1>6. QED
  BY <1>4, <1>5

(* Only arrivals put a request in a slot, and one that is to refresh has   *)
(* the identifier of a refresh token.                                      *)
LEMMA RefreshTokenStep ==
  ASSUME SessionInv, RefreshHasToken, [Next]_vars
  PROVE  RefreshHasToken'
<1> USE DEF SessionInv, TypeOK, InFlight, Idle, RefreshHasToken
<1>1. ASSUME NEW r \in Request, NEW o \in Op, NEW s \in Session,
             NEW j \in Jti \cup {NoJti}, Arrive(r, o, s, j)
      PROVE  RefreshHasToken'
  <2>1. o = "refresh" => j \in Jti
    BY <1>1 DEF Arrive, Presentable, RefreshToken
  <2>2. QED
    BY <1>1, <2>1 DEF Arrive
<1>2. ASSUME NEW r \in Request, Check(r) \/ CommitRefresh(r) \/ CommitLogout(r) \/ ServeCall(r)
      PROVE  RefreshHasToken'
  BY <1>2 DEF Check, CommitRefresh, CommitLogout, ServeCall
<1>3. ASSUME NEW r \in Request, Leave(r) PROVE RefreshHasToken'
  BY <1>3 DEF Leave
<1>4. CASE UNCHANGED req
  BY <1>4
<1>5. QED
  BY <1>1, <1>2, <1>3, <1>4 DEF Next, IssueSession, vars

(* Signing in writes the LOGIN row of a session that had no row.           *)
LEMMA IssueAudited ==
  ASSUME SessionInv, AuditInv, NEW u \in Session, IssueSession(u)
  PROVE  IsFiniteSet(issued') /\ \A s \in Session : Audited(s)'
<1> DEFINE tok == [sid |-> u, jti |-> NewJti, from |-> NoJti]
<1>1. /\ status[u] = "absent"
      /\ status' = [status EXCEPT ![u] = "active"]
      /\ audit' = [audit EXCEPT ![u]["LOGIN"] = @ + 1]
      /\ issued' = issued \cup {tok}
      /\ tok \notin issued
      /\ tok.from = NoJti
  BY NewJtiIsFresh DEF IssueSession, RecordAudit
<1> HIDE DEF tok
<1>2. \A s \in Session :
        /\ IsFiniteSet(issued')
        /\ Cardinality(Exchanged(issued', s)) = Cardinality(Exchanged(issued, s)) + 0
        /\ Cardinality(Exchanged(issued, s)) \in Nat
  BY <1>1, OneMoreExchanged DEF AuditInv
<1>3. ASSUME NEW s \in Session PROVE Audited(s)'
  <2>1. Audited(s) /\ audit[s] \in [AuditEvent -> Nat]
    BY DEF AuditInv, SessionInv, TypeOK
  <2>2. audit'[s] = IF s = u THEN [audit[s] EXCEPT !["LOGIN"] = @ + 1] ELSE audit[s]
    BY <1>1 DEF SessionInv, TypeOK
  <2>3. status'[s] = IF s = u THEN "active" ELSE status[s]
    BY <1>1 DEF SessionInv, TypeOK
  <2>4. Cardinality(Exchanged(issued', s)) = Cardinality(Exchanged(issued, s))
    BY <1>2
  <2>5. QED
    BY <1>1, <2>1, <2>2, <2>3, <2>4 DEF Audited, AuditEvent
<1>4. QED
  BY <1>1, <1>2, <1>3, FS_AddElement DEF AuditInv

(* A refresh writes one token_refresh row, with the token it mints.        *)
LEMMA RefreshAudited ==
  ASSUME SessionInv, AuditInv, NEW r \in Request, CommitRefresh(r)
  PROVE  IsFiniteSet(issued') /\ \A s \in Session : Audited(s)'
<1> DEFINE u == req[r].sid
           tok == [sid |-> u, jti |-> NewJti, from |-> req[r].jti]
<1>0. req[r] # Idle /\ req[r].op = "refresh"
  BY DEF CommitRefresh, Idle
<1>1. /\ u \in Session
      /\ status' = status
      /\ audit' = [audit EXCEPT ![u]["token_refresh"] = @ + 1]
      /\ issued' = issued \cup {tok}
      /\ tok \notin issued
      /\ tok.sid = u
      /\ tok.from # NoJti
  BY <1>0, NewJtiIsFresh, BusyIsInFlight, NoJtiAssumption
     DEF CommitRefresh, RecordAudit, SessionInv, AuditInv, RefreshHasToken
<1> HIDE DEF tok, u
<1>2. \A s \in Session :
        /\ IsFiniteSet(issued')
        /\ Cardinality(Exchanged(issued', s)) =
             Cardinality(Exchanged(issued, s)) + (IF u = s THEN 1 ELSE 0)
        /\ Cardinality(Exchanged(issued, s)) \in Nat
  BY <1>1, OneMoreExchanged DEF AuditInv
<1>3. ASSUME NEW s \in Session PROVE Audited(s)'
  <2>1. Audited(s) /\ audit[s] \in [AuditEvent -> Nat]
    BY DEF AuditInv, SessionInv, TypeOK
  <2>2. audit'[s] = IF s = u THEN [audit[s] EXCEPT !["token_refresh"] = @ + 1] ELSE audit[s]
    BY <1>1 DEF SessionInv, TypeOK
  <2>3. status'[s] = status[s]
    BY <1>1
  <2>4. Cardinality(Exchanged(issued', s)) =
          Cardinality(Exchanged(issued, s)) + (IF u = s THEN 1 ELSE 0)
    BY <1>2
  <2>5. QED
    BY <1>1, <1>2, <2>1, <2>2, <2>3, <2>4 DEF Audited, AuditEvent
<1>4. QED
  BY <1>1, <1>2, <1>3

(* A logout writes a LOGOUT row, also on a session already revoked.        *)
LEMMA LogoutAudited ==
  ASSUME SessionInv, AuditInv, NEW r \in Request, CommitLogout(r)
  PROVE  IsFiniteSet(issued') /\ \A s \in Session : Audited(s)'
<1> DEFINE u == req[r].sid
<1>1. /\ u \in Session /\ status[u] # "absent"
      /\ status' = [status EXCEPT ![u] = "revoked"]
      /\ audit' = [audit EXCEPT ![u]["LOGOUT"] = @ + 1]
      /\ issued' = issued
  BY BusyIsInFlight DEF CommitLogout, RecordAudit, SessionInv, AbsentIsBlank, Idle
<1> HIDE DEF u
<1>2. ASSUME NEW s \in Session PROVE Audited(s)'
  <2>1. Audited(s) /\ audit[s] \in [AuditEvent -> Nat]
    BY DEF AuditInv, SessionInv, TypeOK
  <2>2. audit'[s] = IF s = u THEN [audit[s] EXCEPT !["LOGOUT"] = @ + 1] ELSE audit[s]
    BY <1>1 DEF SessionInv, TypeOK
  <2>3. status'[s] = IF s = u THEN "revoked" ELSE status[s]
    BY <1>1 DEF SessionInv, TypeOK
  <2>4. QED
    BY <1>1, <2>1, <2>2, <2>3 DEF Audited, AuditEvent
<1>3. QED
  BY <1>1, <1>2 DEF AuditInv

(* However requests race, every commit leaves its audit row with it: one   *)
(* LOGIN row per session, one token_refresh row per exchanged token, and   *)
(* LOGOUT rows exactly for the revoked sessions.                           *)
THEOREM AuditCorrect == Spec => []AuditComplete
<1>1. Init => AuditInv
  <2>1. Init => \A s \in Session : Exchanged(issued, s) = {}
    BY DEF Init, Exchanged
  <2>2. Cardinality({}) = 0 /\ IsFiniteSet({})
    BY FS_EmptySet
  <2>3. SUFFICES ASSUME Init PROVE AuditInv
    OBVIOUS
  <2>4. ASSUME NEW s \in Session PROVE Audited(s)
    <3>1. /\ status[s] = "absent"
          /\ audit[s] = [e \in AuditEvent |-> 0]
      BY <2>3 DEF Init
    <3>2. /\ audit[s]["LOGIN"] = 0
          /\ audit[s]["token_refresh"] = 0
          /\ audit[s]["LOGOUT"] = 0
      BY <3>1 DEF AuditEvent
    <3>3. Cardinality(Exchanged(issued, s)) = 0
      BY <2>1, <2>2, <2>3
    <3>4. QED
      BY <3>1, <3>2, <3>3 DEF Audited
  <2>5. RefreshHasToken
    BY <2>3 DEF Init, RefreshHasToken
  <2>6. QED
    BY <2>2, <2>3, <2>4, <2>5 DEF Init, AuditInv
<1>2. SessionInv /\ AuditInv /\ [Next]_vars => AuditInv'
  <2> SUFFICES ASSUME SessionInv, AuditInv, [Next]_vars PROVE AuditInv'
    OBVIOUS
  <2>1. RefreshHasToken'
    BY RefreshTokenStep DEF AuditInv
  <2>2. CASE UNCHANGED <<status, issued, audit>>
    <3>1. IsFiniteSet(issued') /\ \A s \in Session : Audited(s)'
      BY <2>2 DEF AuditInv, Audited
    <3>2. QED
      BY <2>1, <3>1 DEF AuditInv
  <2>3. CASE \/ \E s \in Session : IssueSession(s)
             \/ \E r \in Request : CommitRefresh(r) \/ CommitLogout(r)
    <3>1. IsFiniteSet(issued') /\ \A s \in Session : Audited(s)'
      BY <2>3, IssueAudited, RefreshAudited, LogoutAudited
    <3>2. QED
      BY <2>1, <3>1 DEF AuditInv
  <2>4. QED
    BY <2>2, <2>3 DEF Next, Arrive, Check, ServeCall, Leave, vars
<1>3. AuditInv => AuditComplete
  BY DEF AuditInv, Audited, AuditComplete, Exchanged
<1>4. QED
  BY <1>1, <1>2, <1>3, InvCorrect, PTL DEF Spec

-----------------------------------------------------------------------------
(* The service implements the abstract life cycle of a session.  A refresh *)
(* that commits after the logout it raced wastes its token: revoked_at     *)
(* hides the identifier it left in the row.                                *)
LEMMA LifecycleStart == Init => Lifecycle!LifecycleInit
BY DEF Init, Lifecycle!LifecycleInit, LiveToken, UsedJti

(* Minting a pair adds its identifier, and nothing else, to those used.    *)
LEMMA MintingUses ==
  ASSUME NEW s, NEW f, FreshJti # {},
         issued' = issued \cup {[sid |-> s, jti |-> NewJti, from |-> f]}
  PROVE  /\ NewJti \in Jti \ UsedJti
         /\ UsedJti' = UsedJti \cup {NewJti}
<1> DEFINE tok == [sid |-> s, jti |-> NewJti, from |-> f]
<1>1. tok.jti = NewJti
  OBVIOUS
<1>2. issued' = issued \cup {tok}
  OBVIOUS
<1> HIDE DEF tok
<1>3. UsedJti' = UsedJti \cup {NewJti}
  BY <1>1, <1>2 DEF UsedJti
<1>4. NewJti \in Jti \ UsedJti
  BY NewJtiIsFresh DEF UsedJti
<1>5. QED
  BY <1>3, <1>4

(* Signing in opens the session.                                           *)
LEMMA IssueOpens ==
  ASSUME SessionInv, SessionInv', NEW s \in Session, IssueSession(s)
  PROVE  Lifecycle!Open(s)
<1>1. /\ NewJti \in Jti \ UsedJti
      /\ UsedJti' = UsedJti \cup {NewJti}
  BY MintingUses DEF IssueSession
<1>2. LiveToken' = [LiveToken EXCEPT ![s] = NewJti]
  BY DEF IssueSession, LiveToken, SessionInv, TypeOK
<1>3. status[s] = "absent" /\ status' = [status EXCEPT ![s] = "active"]
  BY DEF IssueSession
<1>4. QED
  BY <1>1, <1>2, <1>3 DEF Lifecycle!Open

(* A refresh rotates a live session and wastes its token on a revoked one. *)
LEMMA RefreshRotates ==
  ASSUME SessionInv, SessionInv', NEW r \in Request, CommitRefresh(r)
  PROVE  Lifecycle!Rotate(req[r].sid) \/ Lifecycle!Waste
<1> DEFINE s == req[r].sid
<1>1. /\ NewJti \in Jti \ UsedJti
      /\ UsedJti' = UsedJti \cup {NewJti}
  BY MintingUses DEF CommitRefresh
<1>2. /\ s \in Session
      /\ status' = status
      /\ jti' = [jti EXCEPT ![s] = NewJti]
  BY DEF CommitRefresh, SessionInv, TypeOK, InFlight, Idle
<1> HIDE DEF s
<1>3. CASE status[s] = "active"
  <2>1. LiveToken' = [LiveToken EXCEPT ![s] = NewJti]
    BY <1>2, <1>3 DEF LiveToken, SessionInv, TypeOK
  <2>2. QED
    BY <1>1, <1>2, <1>3, <2>1 DEF Lifecycle!Rotate, s
<1>4. CASE status[s] # "active"
  <2>1. LiveToken' = LiveToken
    BY <1>2, <1>4 DEF LiveToken, SessionInv, TypeOK
  <2>2. QED
    BY <1>1, <1>2, <2>1 DEF Lifecycle!Waste
<1>5. QED
  BY <1>3, <1>4

(* A logout revokes a live session and stutters on one already revoked.    *)
LEMMA LogoutRevokes ==
  ASSUME SessionInv, SessionInv', NEW r \in Request, CommitLogout(r)
  PROVE  Lifecycle!Revoke(req[r].sid) \/ UNCHANGED Lifecycle!lifecycleVars
<1> DEFINE s == req[r].sid
<1>1. /\ s \in Session
      /\ status[s] # "absent"
      /\ status' = [status EXCEPT ![s] = "revoked"]
      /\ jti' = [jti EXCEPT ![s] = NoJti]
      /\ issued' = issued
  BY DEF CommitLogout, SessionInv, TypeOK, AbsentIsBlank, InFlight, Idle
<1>2. UsedJti' = UsedJti
  BY <1>1 DEF UsedJti
<1> HIDE DEF s
<1>3. LiveToken' = [LiveToken EXCEPT ![s] = NoJti]
  BY <1>1 DEF LiveToken, SessionInv, TypeOK
<1>4. CASE status[s] = "active"
  BY <1>1, <1>2, <1>3, <1>4 DEF Lifecycle!Revoke, s
<1>5. CASE status[s] = "revoked"
  <2>1. status' = status /\ LiveToken' = LiveToken
    BY <1>1, <1>3, <1>5 DEF LiveToken, SessionInv, TypeOK
  <2>2. QED
    BY <1>2, <2>1 DEF Lifecycle!lifecycleVars
<1>6. QED
  BY <1>1, <1>4, <1>5 DEF SessionInv, TypeOK

(* The service implements the life cycle a session promises: it opens,     *)
(* rotates through identifiers never used before, and once revoked stays   *)
(* revoked.                                                                *)
THEOREM LifecycleImplemented == Spec => ImplementsLifecycle
<1>1. SessionInv /\ SessionInv' /\ [Next]_vars
        => [Lifecycle!LifecycleNext]_(Lifecycle!lifecycleVars)
  <2> SUFFICES ASSUME SessionInv, SessionInv', [Next]_vars
               PROVE  Lifecycle!LifecycleNext \/ UNCHANGED Lifecycle!lifecycleVars
    OBVIOUS
  <2>1. CASE \E s \in Session : IssueSession(s)
    BY <2>1, IssueOpens DEF Lifecycle!LifecycleNext
  <2>2. ASSUME NEW r \in Request, CommitRefresh(r)
        PROVE  Lifecycle!LifecycleNext
    <3>1. req[r].sid \in Session
      BY <2>2 DEF CommitRefresh, SessionInv, TypeOK, InFlight, Idle
    <3>2. QED
      BY <2>2, <3>1, RefreshRotates DEF Lifecycle!LifecycleNext
  <2>3. ASSUME NEW r \in Request, CommitLogout(r)
        PROVE  Lifecycle!LifecycleNext \/ UNCHANGED Lifecycle!lifecycleVars
    <3>1. req[r].sid \in Session
      BY <2>3 DEF CommitLogout, SessionInv, TypeOK, InFlight, Idle
    <3>2. QED
      BY <2>3, <3>1, LogoutRevokes DEF Lifecycle!LifecycleNext
  <2>4. CASE UNCHANGED <<status, jti, issued>>
    BY <2>4 DEF Lifecycle!lifecycleVars, LiveToken, UsedJti
  <2>5. QED
    BY <2>1, <2>2, <2>3, <2>4 DEF Next, Arrive, Check, ServeCall, Leave, vars
<1>2. QED
  BY <1>1, LifecycleStart, InvCorrect, PTL
     DEF Spec, ImplementsLifecycle, Lifecycle!LifecycleSpec
=============================================================================
