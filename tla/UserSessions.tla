---------------------------- MODULE UserSessions ----------------------------
(***************************************************************************)
(* The persisted sessions of workforceiq/services/authentication.py and    *)
(* the JWT blocklist of workforceiq/__init__.py.                           *)
(*                                                                         *)
(* Requests run concurrently (gunicorn workers x threads).  Each one is a  *)
(* single InnoDB transaction under REPEATABLE READ: its snapshot is taken  *)
(* by its first SELECT, which for an authenticated route is the blocklist  *)
(* query, and its commit writes only the columns the handler changed to    *)
(* the row as it then is.  Nothing compares the row with the snapshot, so  *)
(* the re-check in _session_from_claims sees what the blocklist saw and    *)
(* the handler acts on a row that may have changed since.                  *)
(***************************************************************************)
EXTENDS Naturals, FiniteSets

\* Next to some definitions stand variants of them with one plausible slip
\* (NewJtiUniqueInColumn, CommitLogoutKeepsActive, ...).  Spec uses none of
\* them: put in place of the definition they follow the name of, they show
\* that the properties below notice the slip.

CONSTANTS Session,   \* session_uuid values a sign-in may draw
          Request,   \* slots for requests in flight: workers x threads
          Jti,       \* identifiers of refresh tokens, drawn once each
          NoJti      \* refresh_token_jti IS NULL; the jti of an access token

ASSUME NoJtiAssumption == NoJti \notin Jti

VARIABLES
  status,     \* status[s]: no row yet, revoked_at IS NULL, or revoked
  jti,        \* jti[s]: refresh_token_jti of the row
  issued,     \* refresh tokens minted by committed requests
  req,        \* req[r]: the request in slot r
  audit,      \* audit[s][e]: committed audit rows of event e on session s
  loggedOut,  \* history: sessions whose logout was answered with success
  late        \* history: requests that arrived for a session in loggedOut

vars == <<status, jti, issued, req, audit, loggedOut, late>>

Op == {"refresh", "logout", "call"}
AuditEvent == {"LOGIN", "token_refresh", "LOGOUT"}

(* A refresh token names its session; `from` is the token it was exchanged *)
(* for, NoJti when a sign-in minted it.                                    *)
RefreshToken == [sid : Session, jti : Jti, from : Jti \cup {NoJti}]

Idle == [pc |-> "idle"]

(* A request presents the token <<sid, jti>>, jti = NoJti for an access    *)
(* token.  "checked": the blocklist let it pass and the snapshot is taken; *)
(* "ok" and "denied" are its answers, `new` the refresh token it returns.  *)
InFlight == [pc : {"arrived", "checked", "ok", "denied"}, op : Op,
             sid : Session, jti : Jti \cup {NoJti}, new : Jti \cup {NoJti}]

TypeOK ==
  /\ status \in [Session -> {"absent", "active", "revoked"}]
  /\ jti \in [Session -> Jti \cup {NoJti}]
  /\ issued \in SUBSET RefreshToken
  /\ req \in [Request -> {Idle} \cup InFlight]
  /\ audit \in [Session -> [AuditEvent -> Nat]]
  /\ loggedOut \in SUBSET Session
  /\ late \in SUBSET Request

Init ==
  /\ status = [s \in Session |-> "absent"]
  /\ jti = [s \in Session |-> NoJti]
  /\ issued = {}
  /\ req = [r \in Request |-> Idle]
  /\ audit = [s \in Session |-> [e \in AuditEvent |-> 0]]
  /\ loggedOut = {}
  /\ late = {}

-----------------------------------------------------------------------------
UsedJti == {t.jti : t \in issued}
FreshJti == Jti \ UsedJti

(* create_refresh_token draws a uuid4: any identifier not drawn before, and *)
(* which one does not matter.                                               *)
NewJtiUniqueInColumn == CHOOSE j \in Jti \ {jti[s] : s \in Session} : TRUE
NewJti == CHOOSE j \in FreshJti : TRUE

RecordAuditFlag(s, e) == audit' = [audit EXCEPT ![s][e] = 1]
RecordAudit(s, e) == audit' = [audit EXCEPT ![s][e] = @ + 1]

TokenRevokedJtiOnly(s, j) == status[s] = "absent" \/ (j # NoJti /\ jti[s] # j)

(* is_token_revoked, the blocklist query, on the row as it is now. *)
TokenRevoked(s, j) ==
  \/ status[s] # "active"
  \/ j # NoJti /\ jti[s] # j

(* What a client may send: a refresh token it was given, to refresh or to  *)
(* log out; an access token of an existing session, to log out or to call. *)
Presentable(o, s, j) ==
  \/ o \in {"refresh", "logout"} /\ \E t \in issued : t.sid = s /\ t.jti = j
  \/ o \in {"logout", "call"} /\ j = NoJti /\ status[s] # "absent"

-----------------------------------------------------------------------------
(* login_user and exchange_oidc_token, the part that opens a session: the  *)
(* row, its first refresh token and the LOGIN audit row in one commit.     *)
IssueSession(s) ==
  /\ status[s] = "absent"
  /\ FreshJti # {}
  /\ status' = [status EXCEPT ![s] = "active"]
  /\ jti' = [jti EXCEPT ![s] = NewJti]
  /\ issued' = issued \cup {[sid |-> s, jti |-> NewJti, from |-> NoJti]}
  /\ RecordAudit(s, "LOGIN")
  /\ UNCHANGED <<req, loggedOut, late>>

(* A request reaches the server and waits for a thread. *)
Arrive(r, o, s, j) ==
  /\ req[r] = Idle
  /\ Presentable(o, s, j)
  /\ req' = [req EXCEPT ![r] = [pc |-> "arrived", op |-> o, sid |-> s,
                                jti |-> j, new |-> NoJti]]
  /\ late' = IF s \in loggedOut THEN late \cup {r} ELSE late
  /\ UNCHANGED <<status, jti, issued, audit, loggedOut>>

(* jwt_required: the blocklist query opens the transaction. *)
Check(r) ==
  /\ req[r].pc = "arrived"
  /\ req' = [req EXCEPT ![r].pc =
               IF TokenRevoked(req[r].sid, req[r].jti) THEN "denied" ELSE "checked"]
  /\ UNCHANGED <<status, jti, issued, audit, loggedOut, late>>

CommitRefreshWholeRow(r) ==
  LET s == req[r].sid IN
  /\ req[r].pc = "checked" /\ req[r].op = "refresh" /\ FreshJti # {}
  /\ status' = [status EXCEPT ![s] = "active"]
  /\ jti' = [jti EXCEPT ![s] = NewJti]
  /\ issued' = issued \cup {[sid |-> s, jti |-> NewJti, from |-> req[r].jti]}
  /\ RecordAudit(s, "token_refresh")
  /\ req' = [req EXCEPT ![r].pc = "ok", ![r].new = NewJti]
  /\ UNCHANGED <<loggedOut, late>>

(* refresh_user_session: the new jti and the audit row are committed.  The *)
(* UPDATE leaves revoked_at out: the handler did not change it.            *)
CommitRefresh(r) ==
  LET s == req[r].sid IN
  /\ req[r].pc = "checked"
  /\ req[r].op = "refresh"
  /\ FreshJti # {}
  /\ jti' = [jti EXCEPT ![s] = NewJti]
  /\ issued' = issued \cup {[sid |-> s, jti |-> NewJti, from |-> req[r].jti]}
  /\ RecordAudit(s, "token_refresh")
  /\ req' = [req EXCEPT ![r].pc = "ok", ![r].new = NewJti]
  /\ UNCHANGED <<status, loggedOut, late>>

CommitLogoutKeepsActive(r) ==
  LET s == req[r].sid IN
  /\ req[r].pc = "checked" /\ req[r].op = "logout"
  /\ jti' = [jti EXCEPT ![s] = NoJti]
  /\ RecordAudit(s, "LOGOUT")
  /\ req' = [req EXCEPT ![r].pc = "ok"]
  /\ loggedOut' = loggedOut \cup {s}
  /\ UNCHANGED <<status, issued, late>>

(* logout_user_session, by access or by refresh token. *)
CommitLogout(r) ==
  LET s == req[r].sid IN
  /\ req[r].pc = "checked"
  /\ req[r].op = "logout"
  /\ status' = [status EXCEPT ![s] = "revoked"]
  /\ jti' = [jti EXCEPT ![s] = NoJti]
  /\ RecordAudit(s, "LOGOUT")
  /\ req' = [req EXCEPT ![r].pc = "ok"]
  /\ loggedOut' = loggedOut \cup {s}
  /\ UNCHANGED <<issued, late>>

(* Any other authenticated route: past the blocklist it is served. *)
ServeCall(r) ==
  /\ req[r].pc = "checked"
  /\ req[r].op = "call"
  /\ req' = [req EXCEPT ![r].pc = "ok"]
  /\ UNCHANGED <<status, jti, issued, audit, loggedOut, late>>

(* The answer leaves the server (the client may or may not receive it), or *)
(* the worker is killed before its commit and the transaction rolls back.  *)
Leave(r) ==
  /\ req[r] # Idle
  /\ req' = [req EXCEPT ![r] = Idle]
  /\ late' = late \ {r}
  /\ UNCHANGED <<status, jti, issued, audit, loggedOut>>

Next ==
  \/ \E s \in Session : IssueSession(s)
  \/ \E r \in Request :
       \/ \E o \in Op, s \in Session, j \in Jti \cup {NoJti} : Arrive(r, o, s, j)
       \/ Check(r)
       \/ CommitRefresh(r)
       \/ CommitLogout(r)
       \/ ServeCall(r)
       \/ Leave(r)

Spec == Init /\ [][Next]_vars

-----------------------------------------------------------------------------
(* Would the server exchange refresh token t if it were presented now *)
Accepted(t) == ~TokenRevoked(t.sid, t.jti)

(* A request for a session that arrives after a logout of that session was *)
(* answered is never answered with success, whatever was in flight when    *)
(* the logout committed (test_logout_revokes_session_and_access_token).    *)
LoggedOutStaysOut == \A r \in late : req[r].pc \in {"arrived", "denied"}

(* A refresh token the server has once stopped accepting, because it was   *)
(* rotated or its session revoked, is never accepted again.                *)
DeadTokenStaysDead ==
  [][\A t \in issued : ~Accepted(t) => ~Accepted(t)']_vars

(* However refreshes race, an active session is always one refresh away    *)
(* from going on: the row's jti is that of a token somebody was given, and *)
(* no other session's row has it (the column is UNIQUE).                   *)
ActiveSessionRefreshable ==
  \A s \in Session : status[s] = "active" =>
    \E t \in issued : /\ t.sid = s
                      /\ \A u \in Session : jti[u] = t.jti <=> u = s

(* Every committed change has its audit row: one token_refresh row per     *)
(* exchanged token, and LOGOUT rows exactly for the revoked sessions.      *)
AuditComplete ==
  \A s \in Session :
    /\ audit[s]["LOGIN"] = (IF status[s] = "absent" THEN 0 ELSE 1)
    /\ audit[s]["token_refresh"] =
         Cardinality({t \in issued : t.sid = s /\ t.from # NoJti})
    /\ audit[s]["LOGOUT"] > 0 <=> status[s] = "revoked"

(* A refresh token is exchanged at most once                               *)
(* (test_refresh_token_rotation_rejects_reuse).                            *)
RefreshTokenSingleUse ==
  \A t, u \in issued : t.from = u.from /\ t.from # NoJti => t = u

-----------------------------------------------------------------------------
(* The token the server would accept for s, if any. *)
LiveToken == [s \in Session |-> IF status[s] = "active" THEN jti[s] ELSE NoJti]

Lifecycle == INSTANCE SessionLifecycle
               WITH phase <- status, live <- LiveToken, used <- UsedJti

(* The service is the abstract session life cycle: every commit opens,     *)
(* rotates or revokes one session, or wastes a token; nothing else does.   *)
ImplementsLifecycle == Lifecycle!LifecycleSpec
=============================================================================
