# WorkforceIQ in TLA+

WorkforceIQ is an HR platform: a Flask service over MySQL (`workforceiq/`), a
desktop client with an offline queue (`apps/workforceiq_client/`), a Next.js
portal that proxies to the service (`apps/web/`). This directory models the
parts in which something can go wrong that a unit test hardly reaches, checks
them with TLC on small instances, and proves the central invariants with TLAPS
for every number of requests, processes, workers, tasks, sessions and employees.

1. [The system](#1-the-system) - 2. [Modules](#2-modules) -
3. [Runs](#3-runs) - 4. [Proofs](#4-proofs) - 5. [Findings](#5-findings) -
6. [Not modelled](#6-not-modelled) - 7. [Plan](#7-plan)

## 1. The system

| component | source | state it keeps | operations | what makes it correct |
|---|---|---|---|---|
| session service | `services/authentication.py`, `__init__.py` (blocklist) | `user_sessions` rows: `refresh_token_jti`, `revoked_at` | open, refresh, log out; every authenticated call passes the blocklist | logout is final; a dead refresh token stays dead; an active session can always go on; every change is audited |
| accounts | `services/authentication.py`, `security/mfa.py` | `user_accounts` rows: failure count, lock, provider and subject, MFA secret and flag | password sign-in, SSO exchange (bind, auto-provision), MFA setup and verification | guessing is bounded; a lock stands; an identity once bound stays; MFA only with a proven secret |
| employee records | `services/employees.py`, `audit.py`, `auth.py` | `employees`, `audit_logs` | profile, update | role belongs to department; e-mail unique; the audit accounts for the record; self-service stays in its columns |
| RBAC | `auth.py` | none (claims of the token) | five read and write rules | each rule admits the roles documented for it |
| rate limiter | `rate_limit.py` | Redis counters, per-worker dictionaries | hit | no more than the limit per window and caller |
| OIDC verification | `security/oidc.py` | JWKS document, cached for the life of the process | verify an ID token | a token is accepted only if signed by a current key |
| predictions and reports | `tasks.py`, `services/reports.py` | `ml_predictions` | predict, attrition report, department health | the newest review decides; a row limit hides no alarm |
| search | `services/search.py`, `tasks.py` | Elasticsearch index | search, index | a search finds what its caller may read; what a task sends is not displaced by older copies |
| compliance | `services/compliance.py` | `compliance_requests` | file (and export), list | what is answered is filed, what is filed is audited; an export is complete |
| backup | `maintenance.py`, `__init__.py` | one file | backup, verify | a backup is one state of the database without its secrets; a file that verifies is whole |
| configuration | `config.py`, `__init__.py` | none | start | settings refused at start-up rather than at use |
| operations, routes, errors, logging | `services/operations.py`, `api/routes.py`, `errors.py`, `logging_config.py` | none | | |
| desktop client core | `core/sync.py`, `offline_store.py`, `auth.py`, `api.py` | SQLite: `sync_queue`, `cached_documents`, `auth_session` | queue, flush, pull, sign in, refresh, sign out | synced means applied; rotation does not lock the client out; flushes end; mutations get their turn |
| CLI and GUI | `cli/`, `gui/` | none of their own | call the core, possibly at the same time | |
| web portal | `apps/web/lib`, `app/api`, `app/auth` | four cookies per browser | proxy with refresh, sign in, sign out | signed out is out; the token that continues a session is lost only in known ways; a retry repeats nothing |

**How they interact.** Gunicorn runs two workers of two threads by default, so
requests are concurrent both within and across processes. The service's shared
state is the database: one SQLAlchemy session, one transaction per request,
InnoDB's REPEATABLE READ. The desktop client and the portal hold tokens that the
session service rotates; the desktop client's processes share one SQLite file. Celery workers run
tasks at any time, any number at once, on the same tables; the rate limiter stands before every request and
counts in Redis, or in the memory of a worker whose threads share it.

**What is hard.**

* *Reads that are old by the time they are used.* The first SELECT of a request
  fixes its snapshot; for an authenticated route that is the blocklist query in
  `is_token_revoked`. `_session_from_claims` asks the same questions again in the
  same snapshot, so it can never see a revocation that committed in between.
* *Writes that do not look.* SQLAlchemy's UPDATE sets the columns whose value the
  handler changed, on the row as it is then; there is no version column. This
  is both the cause of the lost updates in section 5 and the reason why a refresh
  cannot revive a revoked session: it does not write `revoked_at`.
* *Answers that are lost.* A PATCH or a token rotation may be carried out without
  its caller knowing. `urlopen` raises a bare `TimeoutError` for that, which
  `flush` does not catch.
* *Times taken before a lock is waited for.* The end of a lockout and the time stamp of an audit entry are computed before the
  UPDATE that may have to wait for its row, so they need not be in the order of the commits.
* *Two processes on one store.* The GUI and the CLI may flush at the same time, two backups write one file,
  two tasks one index.
* *Copies that grow old.* Search documents, predictions, exports and backups are made from a snapshot
  and stored or sent later, while the rows they were made from change.
* *Calls that fail half way.* The rate limiter's INCR takes effect and its answer is lost; a request is committed
  and its export fails; a write of the backup is torn.
* *Answers that overtake one another.* A page of the portal sends its calls in parallel, each with the cookies of
  that moment, and each answer may set or clear all of them.

## 2. Modules

| module | models | extends or instantiates |
|---|---|---|
| `SessionLifecycle` | what the session service promises: a session opens, rotates one live token, is revoked for good | |
| `UserSessions` | the session service and the blocklist, request by request | instantiates `SessionLifecycle` (refinement mapping) |
| `AccountLogin` | everything that writes a `user_accounts` row | |
| `EmployeeUpdate` | `update_employee`, its validation, authorization and audit entry | |
| `OfflineSync` | the desktop client's queue, token store and flush, and of the server one field and the good tokens | |
| `WebPortal` | the portal's proxy, cookies, sign-in and sign-out for one browser | instantiates `SessionLifecycle` as the service behind it |
| `Settings` | what `create_app` makes of its environment, or refuses | |
| `RateLimiter` | the counters of Redis and of the workers, and the requests that go through them | extends `Settings` |
| `AccessControl` | roles, and who may read an employee or file a request | |
| `Staff` | employees, their departments and the row limit that tasks, reports and search share | |
| `SearchIndex` | the tasks that fill the index, and both backends of the search | extends `Staff`, `AccessControl` |
| `Attrition` | the prediction task, the attrition report, the health check and the prediction of a profile | extends `Staff` |
| `Compliance` | requests, their audit rows, exports | extends `AccessControl` |
| `Backup` | backups of the database that `Compliance` writes to, and their check | extends `Compliance` |
| `MCUserSessions`, `MCAccountLogin`, `MCEmployeeUpdate`, `MCOfflineSync`, `MCWebPortal`, `MCRateLimiter`, `MCSearchIndex`, `MCAttrition`, `MCBackup` | model values, symmetry, bounds | the module they are named for |
| `UserSessionsProofs`, `AccountLoginProofs`, `EmployeeUpdateProofs`, `OfflineSyncProofs`, `WebPortalProofs`, `RateLimiterProofs`, `BackupProofs` | theorems | the module they are named for, `TLAPS` |
| `TasksProofs` | theorems about what background tasks make | `SearchIndex`, `Attrition`, `TLAPS` |

Next to some definitions stands a variant with one plausible slip
(`CommitFailWholeRow`, `ListedOfAnyStatus`, ...). No specification uses them: put in
the place of the definition they vary, they make a stated property fail, which
shows that the property speaks of the code.

### UserSessions

A request goes through `arrived`, `checked` (the blocklist let it pass; its
snapshot is taken) and its commit, and any number of other requests may do so
between two of its steps.

| TLA+ | code |
|---|---|
| `status`, `jti` | `revoked_at` (or no row), `refresh_token_jti` of the `user_sessions` row |
| `issued` | refresh tokens handed out by committed requests; `from` is the token exchanged |
| `audit` | rows of `audit_logs`, by session and event |
| `loggedOut`, `late` | history: sessions whose logout was answered; requests that came after |
| `IssueSession` | the end of `login_user` and `exchange_oidc_token` |
| `Arrive`, `Check` | routing; `is_token_revoked` |
| `CommitRefresh`, `CommitLogout`, `ServeCall` | `refresh_user_session`, `logout_user_session`, any other authenticated route |
| `Leave` | the answer leaves, or the worker dies and its transaction is rolled back |

`_session_from_claims` has no action of its own: within the snapshot its checks repeat
those of the blocklist. `uuid4` is a fresh member of `Jti`. Access-token expiry only
removes behaviours and is left out, as are development tokens (no `session_id`, refused
in production).

### AccountLogin

A request reads the row, decides, and commits later (`Read...`, `Commit...`). What it
holds in between is the row as it was read (`seen`). `Written` is SQLAlchemy's rule: a
column assigned the value it was loaded with is left out of the UPDATE. `_reject_if_locked`,
the password and the code are part of the decision; `wrong` and `verified` are history.
`Tick` moves the clock that `AUTH_LOCKOUT_MINUTES` is measured on. A failed attempt that reaches the threshold
computes `locked_until` in a step of its own (`TakeTime`, kept in `until`) before `CommitFail` writes it: the flush between them may
wait for the row, with other commits and the clock going on. `CommitBind` and
`CommitProvision` end in an `IntegrityError`, rolled back and answered 400, when a unique
constraint is hit. `is_active` is never changed by the program and is left out.

### EmployeeUpdate

`Read` is `update_employee` up to the commit, all of it against one snapshot: authorization,
validation, the loop that collects old and new values. `Flush` INSERTs the audit entry, which has its time stamp from then on
(`at`), and then waits for the row; `Commit` is the UPDATE of the changed columns with the commit, or rolls both back when `uq_employees_org_email` is hit. `name` stands for
`name`, `status` and `hire_date`, columns validated on their own. `roles.department_id` is
written by no operation and is the constant `RoleDept`. Callers are HR roles or employees: every
other role is denied by `authorize_employee_write`. Entries of `audit` are in commit order, while the program shows them by their stamps (`routes.py`, ORDER BY
timestamp): `AuditReplays` reads them that way. `first` (the rows as they were loaded)
and `seen` (the row a request in flight has read) are history.

### OfflineSync

`StartFlush` lists the queue; then one action per call of `build_authenticated_client`, `_execute_mutation`, `refresh_session`, `_cache_response` and `mark_mutation_...`, because
every access to SQLite and every HTTP call is a point where the other process, the server
or a fault may come in. `proc[p].client` is the token the flush began with: the code keeps
using it for the rest of the list after a refresh.

| TLA+ | code |
|---|---|
| `status`, `cache`, `pair` | `sync_queue.status`, `cached_documents`, `auth_session` |
| `field`, `valid`, `live` | server: the column all mutations set, good refresh tokens, good access tokens |
| `session` | the session a pair is of: a sign-in opens one, a refresh stays in it and replaces its one good refresh token |
| `OpenClient` | `build_authenticated_client`, before the loop and after a 401 |
| `Send`, `Resend` | the two `request_json` calls of `_execute_mutation` |
| `Refresh`, `Persist` | `refresh_session` up to the call of the service, `_persist_session` after its answer |
| `CheckToken`, `Rotate`, `RotateFails` | the service's side of it: the blocklist, and the commit of the new pair in a later step, whatever has become of the token since |
| `Unanswered`, `RefreshUnanswered` | the server acted and the answer was lost |
| `Expire`, `RivalEdit` | time passes; somebody else edits the employee |

`attempts`, `last_error` and `sync_state` are written and never read by the program, and are left out.
`spoilt` is history: the sessions in which the answer to a refresh was not stored, or one token was exchanged twice. A sign-in is
one step, as nothing of the store is read before its answer is saved. What the service does for a client that has given up waiting
is the `Unanswered` of that step: nothing more of it comes to the client later.
Logout and the Cognito fallback of `refresh_session` are not modelled.

### WebPortal

The portal's server keeps nothing between requests; all its state is the browser's cookies (`jar`, `access`) and the
session service. The service is the abstract `SessionLifecycle`, which `UserSessions` is proved to implement: a sign-in is `Open`,
a sign-out `Revoke`, and the commit of a refresh `Rotate` or, after a revocation, `Waste`. The check of a refresh is a step of its own
(`CheckRefresh`), because the real service can pass two of them before either commits.

| TLA+ | code |
|---|---|
| `jar`, `access` | the cookies; `wf_access_token` lives 15 minutes, the other three 30 days, and without any one of them there is no session |
| `lapsed` | expired access tokens; the lifetime is a setting, so `Lapse` and `CookieExpires` are independent |
| `call[c].held`, `fresh` | the pair a request was sent with, the pair it fetched |
| `SendProxied`, `Ask`, `CheckRefresh`, `CommitRefresh`, `Retry` | `proxyRequest` |
| `AskFails`, `RefreshFails`, `RetryFails` | a `fetch` that throws, a refusal; the second and third inside the `try` |
| `Exchange`, `RevokeBestEffort` | the callback and the sign-out route |
| `Deliver` | the answer's `Set-Cookie` headers, in the order answers arrive |
| `Abandon` | the page is left, the portal stops, the answer is lost |

`forfeited` records the sessions given up. It is written where a session's only live token is dropped by a fault, by a sign-out the service
did not take, or by an answer that sets or clears cookies other than those its call was sent with.

### Settings and RateLimiter

`Boot(e)` is `create_app` on the environment `e`: the profile by `WORKFORCEIQ_CONFIG`, `FLASK_ENV` or production, its `Defaults`,
`apply_runtime_settings` with its floors and ceilings (`Resolve`), and `validate_runtime_config` (`Insecure`). The limiter runs with the
settings of any environment that is not refused.

| TLA+ | code |
|---|---|
| `counter[k, w]` | the Redis key of caller `k` and window `w`; `until` is set by EXPIRE |
| `buckets[p][k, w]` | `memory_buckets` of worker `p` |
| `Arrive` | `apply_request_guards` and the choice of backend in `hit` |
| `Incr`, `Expire` | the two calls of `_redis_hit`; EXPIRE is sent for the first hit only |
| `RedisFails` | either of them raises, carried out or not: refused in production with the backend `redis`, else counted by the worker |
| `Read`, `Store`, `Decide` | lines 45-49 of `_memory_hit`: the bucket is read, written, and read again, with other threads in between |
| `Restart` | a worker is replaced: its buckets are gone |

`order` is the number Redis gave to a request, `late` whether it came more than the grace after its window; `disturbed` is history:
buckets in which a hit was overwritten or that were dropped by a thread of a later window. How a caller's key is made from token and
address is left out: `Key` is what comes out of it.

### AccessControl and SearchIndex

A document is the department of the row it was made from and how often that row had been changed. `Prepare` is
`employee_search_documents`, any `MaxRows` rows of one snapshot in any order; `Send`, `Reject` are the steps of `helpers.bulk`, `Abort` what ends it;
`Transfer` is an update of the row, which tells the index nothing. `FoundInIndex` and `FoundInDatabase` are the
filters of the two backends as sets of employees. Nothing in the repository maps the fields of the index, so strings are analyzed when a
document is sent, while a `term` filter compares with the tokens as it is given: `TermMatches(i, value)` asks whether `i` is one of
`TokensOf[value]`, which is a constant, any at all. The department is a number and compares as such. `mixed` is history: the tasks that were at work beside another one.
Claims of callers are any: they come from the account's row, which no operation keeps in step with the employee's.

### Attrition

`Start` reads up to 500 active employees and thereby fixes the snapshot of the reviews; `Stamp` takes the next employee, with
`run_at` as the clock is by then; `Commit` inserts all predictions. `Review`, `Move`, `Deactivate` change what runs and reports read.
The rest are pure operators over these tables: `Probability` and `Tier` (in percent), `Latest` and `ReportRows` (the attrition report as
the set of row sets its LIMIT may leave), `Average`, `Ratio` and the three penalties (`_health_score`), `Health` (the lights a department may be given),
`MayBeShown` (the predictions a profile may show: of those with the latest time stamp any, where the code takes the largest id).
`LightByPeople` is the reference definition that counts people. Scores are whole numbers here; the thresholds are compared as in the code. The specification is `AttritionSpec`: the search and the predictions are
proved about in one module, so their names differ.

### Compliance and Backup

| TLA+ | code |
|---|---|
| `Submit`, `Commit`, `Export` | `create_compliance_request`: validation, the commit of request and audit row, the export in a transaction of its own |
| `Commit(s, FALSE)`, `Fail` | the commit is carried out and its answer lost; anything else raises |
| `try` | the caller sends again after an error; each attempt files a row of its own |
| `facts`, `Learn` | rows about an employee, numbered in the order they are committed (the export sorts by time stamp, which racing writers may draw in another order) |
| `Begin`, `ReadTable` | the SELECTs of `export_database_backup`, in the order of `BACKUP_MODELS`, against the snapshot of the first |
| `Open`, `Write`, `Tear` | `write_text`: the file is emptied, then written, wholly or in part |
| `Parses`, `Verified` | `verify_database_backup` |

The file is a sequence of cells that say which exporter wrote them and whether they are the last of its text. Two exporters that have the file
open at once write over one another from the start, as `write_text` on one path does; `shared` is history.
Of the tables, those are modelled that are related (requests and their audit rows) or hold a secret. A table of records is its column `metadata` and
its rows but for that (`Records`): `Serialized` replaces the former by `Catalogue`, the text of the `MetaData` object that SQLAlchemy keeps in the attribute of
that name.

## 3. Runs

| run | instance | shows |
|---|---|---|
| `UserSessions_race` | 2 sessions, 3 requests, 3 identifiers | logout is final for whatever arrives after it (`LoggedOutStaysOut`), tokens die once (`DeadTokenStaysDead`), an active session can be refreshed (`ActiveSessionRefreshable`), the audit is complete, the life cycle is implemented |
| `UserSessions_single_use` | 1 session, 2 requests | violation, section 5 |
| `AccountLogin_race` | 1 account, there or not, 2 requests, threshold 3, clock 0..2, 2 subjects, 2 secrets | `GuessesBounded`, `LockStands`, `SignUpIsFinal`, and that the two hazards of binding and MFA need a request that decided on a row changed since |
| `EmployeeUpdate_race` | 2 employees, 2 requests, 3 e-mails, 2 departments, a role each, 2 updates, stamps 0..1 | `AuditReplays`: the trail by its stamps, with updates that cross; `OldValuesWereHeld`, `EmailsUnique`, `PrivilegedByHR`, `MixedOnlyByOvertaking` |
| `OfflineSync_one` | 1 process, 4 mutations, the first always refused, lists of 3, 3 token pairs, every fault | `SyncedStaysSynced`, `OvertakenOnlyWhenFailed`, `FlushTerminates`, `EventuallyTried` |
| `OfflineSync_two` | 2 processes, 2 mutations, 3 pairs, every fault | `SyncedMeansApplied`, `StoredPairUsable` |
| `OfflineSync_starved` | 1 process, 2 mutations, the first always refused, lists of 1, no fault | violation, section 5 |
| `WebPortal_race` | 2 sessions, 4 token pairs, 2 requests in flight, every fault | `CarriedOutOnce`, `SignedOutMeansOut`, `Custody` |
| `RateLimiter_race` | 2 workers, 3 requests of one caller, limits of 1 and 2, 3 windows, every environment that differs from a sound one in one variable | `AdmittedWithinLimit`, `OverLimitOnlyByLostHits`, `RefusedForCause` |
| `SearchIndex_two_tasks` | 2 employees, one id a token of the other, 2 departments, 2 tasks, 2 updates of a row, 1 fault, all roles and claims | `SearchKeepsToRights`, `OlderOnlyByOverlap`, `LoneTaskPrevails` |
| `Attrition_overlap` | 3 employees, one of them ever reviewed, 2 departments, 2 runs, clock 0..1, a report of 1 row | `NewestReviewShown`, `LimitOnlyAlarms` |
| `Compliance_backup` | 3 submissions (an employee's, tried twice; HR's; one without the right), exports of 1 row, 2 rows about the employee, 2 exporters | `FiledAndAudited`, `ExportCoversFiling`, `BackupIsConsistent`, `VerifiedIsWhole` |

**Bounds, and why they are enough.** Every hazard of the session service needs two
requests that overlap on one session; the third request and the second session show that a third
party changes nothing and that identifiers are not confused across rows. Three identifiers allow a sign-in
and two rotations, which is what a race of two refreshes uses. `AccountLogin` needs a count that
can be set back and still reach the threshold: three with two slots, where `GuessesBounded` states the limit
exactly: below `MostGuesses`, the number of ways in which `K` request slots can hold old counts below threshold `T`, and TLC reaches
the last value below it. `MCAccountLogin` has TLC compare that number with the binomial `choose(T + K - 1, K)` for thresholds up to 5
and up to 4 slots. With the default four slots and threshold five, 69 wrong guesses are possible, not 4. `MaxFailed` and `MaxTime` bound the counter and the clock. Two sign-ups with
different subjects race for the one account, or with a binding of it; more accounts and requests are left to `SignUpCorrect`. Two updates in flight and two in the audit are the least with which
columns mix; self-service needs the e-mail column and a privileged one. Two stamps suffice for
updates that cross, the one stamped first committed last; longer trails are left to `AuditCorrect`. No employee of the instance has a
manager (`NoManagers`), and no update sends one, so managers would only multiply the states.
`OfflineSync` uses four mutations with one process and lists of three, to have some failed, one overtaking and one waiting outside the
list, and two mutations with two processes because what two flushes disturb is a single mutation and the token pair. `MaxPair` bounds
rotations; a refresh beyond it is refused, as the service may do (429), so the bound adds no behaviour the client does not have.
`WebPortal` needs two requests, for an answer that overtakes another, two sessions, for one that puts back the session
before, and four pairs, for a sign-in and two racing refreshes with one to spare; its three safety properties are also proved for any number.
`RateLimiter` needs one request more than the limit, two of them to overwrite one another, and two windows ahead for a bucket to be dropped
under its thread; callers do not share counters, so one is enough. Its `Sound` environment has the limit 2, and the variations of it
include limits below 1 and settings that production refuses. `SearchIndex` needs two tasks with an update between their reads. In `Attrition_overlap` the first employee is reviewed between two
runs, so a newer review that is overtaken occurs, and the clock of two values gives equal and different time stamps. With that review one of three
employees is likely to leave, whom a report of one row shows alone: a share between the thresholds of 20 and 35 percent becomes one of
100, and the light differs from that of the whole department. At most one of the three is away from the department or has left at a time (`OneAway`). With so few
reviews no department trails the company's average: that branch of the score rests on `LimitCorrect`. `Compliance_backup` has no export asked for by an employee of himself: that branch rests on `ExportCorrect`. `Compliance_backup` has an export limit below the number of rows, and two exporters
with texts of different length, which is what a mixture of two backups takes.
`CHECK_DEADLOCK FALSE` is set where something is bounded that the system does not stop at: the clock (an account locked at the end of time can
do nothing more), requests and runs that are made once, attempts, rows.

**Fairness.** `OfflineSync` and `SearchIndex` have liveness. `WF(FlushStep)` says that a process in a flush goes on: each of its
calls returns or times out, as `request_timeout_seconds` sets a timeout on every request and SQLite has one
of its own. A process may still be killed at any time. `WF(StartFlush)` is an assumption about the user, who flushes
again and again; `EventuallyTried` rests on it, and `QueuedIsSent` fails in spite of it. In `SearchIndex`, `WF(Send)` says that a worker goes on sending
what it prepared, as `helpers.bulk` loops to its end; that the task is ever run is not assumed, because nothing in the repository schedules or
enqueues it. `LoneTaskPrevails` speaks of a task that has prepared its documents and meets no more faults. Nothing is assumed of the server, of tokens or of the network.

## 4. Proofs

All of it is for arbitrary constants, under the assumptions named in the modules.

* **`UserSessionsProofs`.** `SessionInv` strengthens the type invariant with three facts: a row that was never
  issued is blank (`AbsentIsBlank`); an identifier is drawn once, and the identifier of a row belongs to a token
  issued for that row (`JtiDrawnOnce`); a request that arrived after its session's logout was answered is waiting or denied,
  and the session is revoked (`LateIsDenied`). `JtiDrawnOnce` is what makes a refresh of one session unable to bring back the
  token of another, and it needs the first to cover the sign-in. From it follow `LogoutHolds`, `RefreshableHolds`, `DeadHolds`
  and `LifecycleImplemented`: step by step, `IssueSession` is `Open`, `CommitRefresh` is `Rotate` on an active
  session and `Waste` on a revoked one, `CommitLogout` is `Revoke` once and a stutter afterwards. `AuditCorrect` rests on `AuditInv`, which counts the
  exchanged tokens of a session, a finite set that grows by the token of each refresh.
* **`AccountLoginProofs`.** `AccountInv` says of rows that a local account has no subject and that no lock reaches beyond now plus the lock time, and of
  requests what they may rely on at their commit (`RequestSound`): the row they found is still there; an account that is local now was local then; a
  bind fits the row it found. What a locking attempt has computed (`until`) is within the same bound, so one that puts an earlier end in place of a lock in
force took its time before and had read the row as it was then (`LockCorrect`); the second is why only a request that is itself
  overtaken binds a bound account (`ReboundCorrect`) or leaves MFA on with an unproven secret (`VerifiedCorrect`). `SignUpCorrect` adds `SignedUpInv`: who has read a
  signed-up account has seen its identity. Each commit has an effect lemma, from which the theorems take what they need.
  `GuessesCorrect` bounds the guesses for any threshold and any finite number of slots. What slot `r` can set the count back to is
  `Reach(a)[r]`; for every `v` below the threshold, the slots that reach at most `v` are counted (`SlotState`), and these vectors are ordered lexicographically.
  A wrong guess moves its slot up and nobody at or below it down (`Advance`), every other step moves slots up or leaves them (`Rise`), so
  a guess leads to a state not seen since the last sign-in: `GuessInv` says that the wrong guesses are no more than the states that are past
  (`PastStates`). It needs to know that a failed attempt has not seen the lock it sets, or SQLAlchemy would leave the column out (`GuessLocks`).
* **`EmployeeUpdateProofs`.** `UpdateInv` adds to the checked invariants that a request in flight holds a change its
  caller may make (`RequestsAuthorized`): authorization is decided at `Read` and used at `Commit`; that the values it has seen were held (`ValuesHeld`);
  and that its change fits the row it has seen (`SeenMatches`), from which `MixedCorrect` follows. The invariants hold
  for any number of concurrent requests. The step that matters for `AuditCorrect` is a commit: it is the latest by its stamp, or every entry with a later
  or equal stamp is one it crossed (`WriteKeepsInv`).
* **`OfflineSyncProofs`.** `SyncInv` is the type invariant with a non-empty list for every busy process, `SyncedMeansApplied` with
  "a process past the server's success answer is at an applied mutation", and `StoredPairUsable` with: a session has one good pair at most
  (`OneGoodPair`), tokens sent to the service were issued (`SentWasIssued`), and a pair about to be stored is good unless its session is spoilt, and is
  neither stored nor sent nor about to be stored by another process (`PersistIsFresh`). The last is what a rotation needs: what it makes useless is the pair
  it came from, or a session that is spoilt by it.
  `OrderInv` is about the order of the queue: what a flush has still to do is open, and has all that is pending before it (`ListIsOpen`); before a mutation is carried out,
  all earlier ones were tried (`AppliedInOrder`). From it `SyncedStaysCorrect` and `OvertakenCorrect`, under `OneProcess`: with two processes one of them
  marks failed, or sends again, what the other has synced since the list was made, and both properties are false.
* **`WebPortalProofs`.** `PortalInv` says of each request that it was not carried out while unanswered and that the pair it was sent with is
  *spent* once a refresh of it was granted or refused (`CallOK`); of sign-outs that no cookies are left and the sessions the service was told of are
  revoked (`OutOK`). Spent pairs carry the argument for `Custody`: an answer that clears the cookies it was sent with clears a pair that is of
  no use any more, so the live pair must be with another request. `Onward` collects what no step undoes, which is what requests that
  do not move rely on. From `PortalInv` follow `OnceCorrect`, `SignedOutCorrect` and `CustodyCorrect`.
* **`RateLimiterProofs`.** `NumberInv`: the hits that Redis counted on a bucket in time have different numbers, from 1 to its count, and a counter that was
  given a time to live keeps it until the grace after its window is over. So those admitted have different numbers up to the limit, and there are no more of
  them than that (`AdmittedCorrect`). The limit is positive in every configuration that is not refused (`LimitIsPositive`). The lemmas on windows
  and multiplication are what the prover cannot find alone. `HitsInv` does the same for a worker's dictionary: a bucket nobody disturbed holds the number of the
  hits written to it, so the last one admitted found at most the limit (`LostHitsCorrect`). `CauseInv`: where a hit is counted, in Redis, in a dictionary or in
  what a thread has read of it, a request of that caller and of that window or a later one made it, and where two are counted there are two. With a positive limit, whoever is
  refused is the second (`RefusedCorrect`).
* **`TasksProofs`.** For the search, `SearchInv`: documents, sent or prepared, are copies of their rows as they are or were (`Copies`), and a task that has always been alone at work
  holds nothing older than the index (`AloneIsNewer`). The first gives `RightsKept`, for any ids and any tokens of them, the second `OlderCorrect`. For the predictions, `RunsInv`: a run knows no review that
  is not there yet (`RunsSawThePast`), a prediction is of a run, with that run's review and stamp (`PredictionsOfRuns`), and of two runs that did not overlap
  one read and stamped no later than the other (`RunsInTurn`), from which `NewestCorrect`. `LimitCorrect` is about the operators: each member has one row, the rows LIMIT leaves are
  the likeliest, so their average and their share of likely leavers are no lower than those of the department, and the score no higher. The set of employees is
  finite (`StaffAssumption`), as a table is.
* **`BackupProofs`.** `FilingInv`: requests and audit rows are equal, and each is of an attempt of an acceptable submission. `ExportInv`: what was known at filing is still there.
  `BackupInv`: what an exporter has read is what its snapshot has, serialized, and in a snapshot requests and audit rows are equal; so they are
  in the backup, but for their metadata (`BackupCorrect`).
  `FileInv`: the text of a backup closes at its end and nowhere before (`TextsAreWhole`); while nobody shares the file at most one process has it open (`OneHasItOpen`); and the file is too short to
  verify or starts with a whole backup, unless a write was torn beside another (`FileStarts`). A file that verifies has its only closing cell at the end, so it is the
  backup it starts with (`VerifiedCorrect`).

Every invariant and every action property of the passing runs is a theorem. Only model-checked are the liveness properties (`FlushTerminates`, `EventuallyTried`,
`LoneTaskPrevails`), which are out of the prover's reach, and that `MostGuesses` is the binomial coefficient, an induction over data that
the prover cannot do; `SyncedStaysSynced` and `OvertakenOnlyWhenFailed` hold, and are proved, for one process only.
The invariants the proofs rest on were checked by TLC on the instances of section 3 before they were proved.

## 5. Findings

Counterexamples of runs, each against a statement of the repository:

1. **A refresh token can be exchanged twice** (`UserSessions_single_use`). Two refreshes pass the blocklist before
   either commits. Both answer 200; the pair of the first to commit is dead on arrival. The test of rotation uses the
   token a second time only after the first use was answered.
2. **A queued mutation may never be sent** (`OfflineSync_starved`). As many permanently refused mutations as `list_pending_mutations` returns fill
   the list of every flush; `docs/desktop-client.md` promises that a flush sends what is queued.

Known without a run of their own, each within what a stated property excepts:

* *Accounts.* Two first SSO sign-ins of a local account with different subjects both find it unbound, and the second commit replaces the first
  (`ReboundOnlyByOvertaking`). MFA is enabled with an unverified secret when setup and verification overtake one another
  (`UnverifiedOnlyByOvertaking`). Lost failure counts are what `GuessesBounded` measures. Of two
  failures that lock, the one that took its time first may commit last and shorten the lock (`LockStands`).
* *Sessions.* A refresh that commits after the logout it raced leaves an identifier in the revoked row, which the blocklist ignores (`Waste`).
* *Employees.* One update changes the department together with the role, another the role alone; each is valid on what it read, and together they leave a role of
  another department (`MixedOnlyByOvertaking`). Old values in the audit need not be the ones replaced (`OldValuesWereHeld`). Where two updates
  crossed, the trail sorted by time stamps ends with the one that was overwritten (`AuditReplays`).
* *Desktop client.* When both processes refresh the stored token at once, the service may exchange it twice, and the pair saved last may
  be the dead one (`spoilt` in `StoredPairUsable`). `flush` stores the acknowledgement of a PATCH where the cached profile was. A second process may mark a synced mutation failed.
* *Portal* (exceptions of `Custody` and `SignedOutMeansOut`). Parallel calls that refresh leave the cookies empty or with a dead pair, depending on which answer arrives last;
  a refresh followed by a failed second request throws the new pair away; a sign-out with an expired access token leaves the session open at the service,
  and an older answer may then sign the browser in again; with the deployed lifetime of access tokens (15 minutes, that of
  their cookie) the proxy finds no session at about the time a refresh would be due, and clears the refresh token.
* *Rate limiter.* Each worker that falls back to its memory has a limit of its own, and its threads lose hits (`OverLimitOnlyByLostHits`). Production falls back as well while
  `RATE_LIMIT_BACKEND` is left at `auto`; only `redis` refuses instead. A thread stalled for two windows finds its bucket dropped and answers 500.
* *Search.* The filters on `organization_id` and `id` compare analyzed text with whole ids: `org-demo` and `EMP-0841` are no tokens of themselves, match
  no document, and an empty answer is not made good by the database (`SearchKeepsToRights` promises a find only for ids that are). Two tasks at once put older documents over newer ones; documents are never removed; with more employees than `MAX_EXPORT_ROWS` nothing says
  that each is ever indexed, and nothing schedules the task. Where an id is a token of another (`0841` of `EMP-0841`), the filter of the one finds the other
  (`NamedInPart` in `SearchKeepsToRights`).
* *Predictions.* Of two overlapping runs the one with the older scores may stamp later, and is shown. Two predictions of one employee with the same time stamp are
  both counted. A limit below the size of a department can turn its light worse, never better.
* *Compliance and backup.* Every backup loses the columns `metadata`, of audit rows what changed, from what, to what, and verification does not
  notice (`Catalogue`; `BackupIsConsistent` speaks of the other columns). A repeated submission files a second request. Two backups at once, one of them torn, can leave a file that verifies
  and is no one's backup.

## 6. Not modelled

* `security/oidc.py`: signature and claim checks are a library's; its cached key document would need the provider's rotation of keys as an actor.
* `services/operations.py`, `send_scheduled_reports`, the lists of requests and audit rows: read-only, or no effect. The access rules only they use are left out with them.
* Of the reports: money figures, medians, deviations, texts, and staleness marks. Of the search: words, relevance, page size.
* `api/routes.py`, errors, logging, CLI, GUI, portal pages: glue and presentation.
* `infra/`, `cloud/`, `migrations/`, `scripts/`: deployment, schema history, tooling.
* The desktop client's logout and the Cognito fallback of `refresh_session`.
* Cryptography (password hashes, JWT and OIDC signatures, TOTP arithmetic): a token or a code is good or not.

## 7. Plan

What is left, in this order:

1. `OfflineSync`: logout and the Cognito fallback.
2. The OIDC key cache with the provider's rotation; the access rules of reports and audit logs in `AccessControl`.
3. Proofs: an exact account of what two processes on one store may do to `SyncedStaysSynced`, as a weaker property that holds for any number; the operators of
   `Settings` for every environment, where now `LimitIsPositive` is all that is proved of them.
