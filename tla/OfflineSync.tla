----------------------------- MODULE OfflineSync -----------------------------
(***************************************************************************)
(* The desktop client's offline queue: apps/workforceiq_client/core.       *)
(*                                                                         *)
(* Processes of one user (the GUI, commands of the CLI) share a SQLite     *)
(* file that holds the queue, the cached profile and the token pair.  A    *)
(* flush lists the unsynced mutations, sends them one by one and records   *)
(* what became of each; every access to the file is a transaction of its   *)
(* own.  All mutations here update the same field of one employee.         *)
(*                                                                         *)
(* Of the server the model keeps that field and which tokens are good: a   *)
(* refresh there passes the blocklist in one step and commits in another.  *)
(***************************************************************************)
EXTENDS Naturals, FiniteSets

\* CurrentIsNewest, ResendTakenForSynced, ... vary the definition they stand
\* before by one plausible slip; Spec uses none of them.

CONSTANTS Proc,         \* processes of the client
          LastMutation, \* bound on the number of mutations queued
          Want,         \* Want[m]: the value mutation m sets
          Value,        \* values of the field
          Forbidden,    \* mutations the server refuses (RBAC, validation)
          Limit,        \* flush(limit)
          MaxPair,      \* bound on the token pairs issued; a refresh beyond it
                        \* is answered with an error
          Fault         \* what may go wrong, of AllFaults

Mutation == 1..LastMutation
Pair == 1..MaxPair

(* unavailable: URLError before anything was sent, or an answer 429 or 5xx *)
(* that changed nothing.  unanswered: the server did what it was asked and *)
(* its answer never came; what urlopen raises then is no URLError.         *)
AllFaults == {"unavailable", "unanswered", "crash", "expire", "rival"}

ASSUME SyncAssumption ==
  /\ LastMutation \in Nat /\ MaxPair \in Nat \ {0} /\ Limit \in Nat \ {0}
  /\ Want \in [Mutation -> Value]
  /\ Forbidden \subseteq Mutation
  /\ Fault \subseteq AllFaults

VARIABLES
  status,   \* status[m]: sync_queue.status
  cache,    \* the cached document of the employee
  pair,     \* the token pair in auth_session
  proc,     \* proc[p]: where p is in a flush
  field,    \* server: the field
  session,  \* server: the session of a pair, named by its first pair
  valid,    \* server: pairs whose refresh token is good
  live,     \* server: pairs whose access token is good
  issued,   \* server: number of pairs issued
  applied,  \* history: mutations some PATCH of which was carried out
  spoilt    \* history: sessions in which the answer to a refresh was not
            \* stored, or one refresh token was exchanged twice

store == <<status, cache, pair>>
tokens == <<session, valid, live, issued>>
server == <<field, tokens>>
vars == <<status, cache, pair, proc, field, session, valid, live, issued, applied, spoilt>>

(* pc is the step p takes next, todo what is left of the list, client the  *)
(* pair of the flush's api_client, fresh that of a refreshed client, sent  *)
(* the pair whose refresh token is being exchanged.                        *)
Idle == [pc |-> "idle", todo |-> {}, client |-> 0, fresh |-> 0, sent |-> 0]

Stage == {"idle", "open", "send", "reopen", "renew", "check", "rotate", "persist",
          "resend", "cache", "synced", "failed"}

ProcState == [pc : Stage, todo : SUBSET Mutation,
              client : 0..MaxPair, fresh : 0..MaxPair, sent : 0..MaxPair]

TypeOK ==
  /\ status \in [Mutation -> {"absent", "pending", "failed", "synced"}]
  /\ cache \in {"none", "profile", "ack"}
  /\ pair \in Pair
  /\ proc \in [Proc -> ProcState]
  /\ field \in Value
  /\ session \in [Pair -> Pair]
  /\ valid \subseteq Pair /\ live \subseteq Pair
  /\ issued \in Pair
  /\ applied \subseteq Mutation
  /\ spoilt \subseteq Pair

Init ==
  /\ status = [m \in Mutation |-> "absent"]
  /\ cache = "none"
  /\ pair = 1
  /\ proc = [p \in Proc |-> Idle]
  /\ field \in Value
  /\ session = [k \in Pair |-> k]
  /\ valid = {1} /\ live = {1} /\ issued = 1
  /\ applied = {}
  /\ spoilt = {}

-----------------------------------------------------------------------------
(* Between flushes. *)

(* queue_employee_update: AUTOINCREMENT numbers the mutations. *)
Enqueue(p, m) ==
  /\ proc[p] = Idle
  /\ status[m] = "absent"
  /\ \A n \in Mutation : n < m => status[n] # "absent"
  /\ status' = [status EXCEPT ![m] = "pending"]
  /\ UNCHANGED <<cache, pair, proc, server, applied, spoilt>>

ListedOfAnyStatus == {m \in Mutation : status[m] # "absent"}

Listed == {m \in Mutation : status[m] \in {"pending", "failed"}}

(* list_pending_mutations: the Limit lowest ids. *)
Todo == {m \in Listed : Cardinality({n \in Listed : n < m}) < Limit}

(* flush reads the list. *)
StartFlush(p) ==
  /\ proc[p] = Idle
  /\ Todo # {}
  /\ proc' = [proc EXCEPT ![p] = [Idle EXCEPT !.pc = "open", !.todo = Todo]]
  /\ UNCHANGED <<store, server, applied, spoilt>>

(* pull_employee: without an answer it falls back on the cache. *)
Pull(p) ==
  /\ proc[p] = Idle
  /\ pair \in live
  /\ cache' = "profile"
  /\ UNCHANGED <<status, pair, proc, server, applied, spoilt>>

(* The next pair is issued in session k: user_sessions has room for one    *)
(* refresh_token_jti, so it replaces what was good there.                  *)
IssuePair(k) ==
  /\ issued < MaxPair
  /\ issued' = issued + 1
  /\ session' = [session EXCEPT ![issued + 1] = k]
  /\ valid' = {v \in valid : session[v] # k} \cup {issued + 1}
  /\ live' = live \cup {issued + 1}

(* login_with_password opens a session of its own. *)
Login(p) ==
  /\ proc[p] = Idle
  /\ IssuePair(issued + 1)
  /\ pair' = issued + 1
  /\ UNCHANGED <<status, cache, proc, field, applied, spoilt>>

-----------------------------------------------------------------------------
CurrentIsNewest(p) == CHOOSE m \in proc[p].todo : \A n \in proc[p].todo : n <= m

(* The mutation the loop is at: the list is in the order of the ids. *)
Current(p) == CHOOSE m \in proc[p].todo : \A n \in proc[p].todo : m <= n

(* The server's side of a PATCH: update_employee refuses a payload that    *)
(* changes nothing.                                                        *)
Accepted(p, token) ==
  token \in live /\ Current(p) \notin Forbidden /\ Want[Current(p)] # field

Patch(p, token) ==
  IF Accepted(p, token)
    THEN /\ field' = Want[Current(p)]
         /\ applied' = applied \cup {Current(p)}
    ELSE UNCHANGED <<field, applied>>

Goto(p, stage) == proc' = [proc EXCEPT ![p].pc = stage]

Abort(p) == proc' = [proc EXCEPT ![p] = Idle]

Unavailable == "unavailable" \in Fault

(* request_json of _execute_mutation: the first try, with the token the    *)
(* flush began with.  Every answer other than 401 decides.                 *)
Send(p) ==
  /\ proc[p].pc = "send"
  /\ LET token == proc[p].client IN
     \/ Unavailable /\ Goto(p, "failed") /\ UNCHANGED <<field, applied>>
     \/ /\ Patch(p, token)
        /\ Goto(p, IF token \notin live THEN "reopen"
                   ELSE IF Accepted(p, token) THEN "cache" ELSE "failed")
  /\ UNCHANGED <<store, tokens, spoilt>>

ResendAgainRefreshes(p) ==
  /\ proc[p].pc = "resend"
  /\ LET token == proc[p].fresh IN
     \/ Unavailable /\ Goto(p, "failed") /\ UNCHANGED <<field, applied>>
     \/ /\ Patch(p, token)
        /\ Goto(p, IF token \notin live THEN "reopen"
                   ELSE IF Accepted(p, token) THEN "cache" ELSE "failed")
  /\ UNCHANGED <<store, tokens, spoilt>>

ResendTakenForSynced(p) ==
  /\ proc[p].pc = "resend"
  /\ Patch(p, proc[p].fresh)
  /\ Goto(p, "cache")
  /\ UNCHANGED <<store, tokens, spoilt>>

(* The second try: its 401 counts as a failure. *)
Resend(p) ==
  /\ proc[p].pc = "resend"
  /\ \/ Unavailable /\ Goto(p, "failed") /\ UNCHANGED <<field, applied>>
     \/ /\ Patch(p, proc[p].fresh)
        /\ Goto(p, IF Accepted(p, proc[p].fresh) THEN "cache" ELSE "failed")
  /\ UNCHANGED <<store, tokens, spoilt>>

(* The PATCH is carried out or refused and the answer does not come: the   *)
(* exception is none flush catches, and the mutation keeps its status.     *)
Unanswered(p) ==
  /\ "unanswered" \in Fault
  /\ \/ proc[p].pc = "send" /\ Patch(p, proc[p].client)
     \/ proc[p].pc = "resend" /\ Patch(p, proc[p].fresh)
  /\ Abort(p)
  /\ UNCHANGED <<store, tokens, spoilt>>

(* build_authenticated_client reads the stored access token: before the    *)
(* loop, and once more after a 401.                                        *)
OpenClient(p) ==
  /\ \/ /\ proc[p].pc = "open"
        /\ proc' = [proc EXCEPT ![p].pc = "send", ![p].client = pair]
     \/ /\ proc[p].pc = "reopen"
        /\ proc' = [proc EXCEPT ![p].pc = "renew", ![p].fresh = pair]
  /\ UNCHANGED <<store, server, applied, spoilt>>

(* refresh_session reads the stored refresh token and sends it. *)
Refresh(p) ==
  /\ proc[p].pc = "renew"
  /\ proc' = [proc EXCEPT ![p].pc = "check", ![p].sent = pair]
  /\ UNCHANGED <<store, server, applied, spoilt>>

(* The second try without a refresh: its refusal is swallowed. *)
GiveUpRefresh(p) == proc' = [proc EXCEPT ![p].pc = "resend", ![p].sent = 0]

(* The service looks the token up in the blocklist. *)
CheckToken(p) ==
  /\ proc[p].pc = "check"
  /\ \/ proc[p].sent \in valid /\ Goto(p, "rotate")
     \/ (proc[p].sent \notin valid \/ Unavailable) /\ GiveUpRefresh(p)
  /\ UNCHANGED <<store, server, applied, spoilt>>

(* It commits a new pair, whatever has become of the token since: then two *)
(* pairs came of it, and the client may keep the one that is not good.     *)
Rotate(p) ==
  /\ proc[p].pc = "rotate"
  /\ IssuePair(session[proc[p].sent])
  /\ spoilt' = IF proc[p].sent \in valid THEN spoilt
               ELSE spoilt \cup {session[proc[p].sent]}
  /\ proc' = [proc EXCEPT ![p].pc = "persist", ![p].fresh = issued + 1, ![p].sent = 0]
  /\ UNCHANGED <<store, field, applied>>

RotateFails(p) ==
  /\ proc[p].pc = "rotate"
  /\ Unavailable \/ issued = MaxPair
  /\ GiveUpRefresh(p)
  /\ UNCHANGED <<store, server, applied, spoilt>>

(* The service is done with the refresh and its answer does not come. *)
RefreshUnanswered(p) ==
  /\ "unanswered" \in Fault
  /\ proc[p].pc = "rotate"
  /\ IssuePair(session[proc[p].sent])
  /\ spoilt' = spoilt \cup {session[proc[p].sent]}
  /\ Abort(p)
  /\ UNCHANGED <<store, field, applied>>

PersistNothing(p) ==
  /\ proc[p].pc = "persist"
  /\ Goto(p, "resend")
  /\ UNCHANGED <<store, server, applied, spoilt>>

(* _persist_session *)
Persist(p) ==
  /\ proc[p].pc = "persist"
  /\ pair' = proc[p].fresh
  /\ Goto(p, "resend")
  /\ UNCHANGED <<status, cache, server, applied, spoilt>>

(* _cache_response: what is stored is the answer to the PATCH. *)
CacheAnswer(p) ==
  /\ proc[p].pc = "cache"
  /\ cache' = "ack"
  /\ Goto(p, "synced")
  /\ UNCHANGED <<status, pair, server, applied, spoilt>>

(* On to the next mutation of the list, or out of the loop. *)
Advance(p) ==
  LET rest == proc[p].todo \ {Current(p)} IN
  proc' = [proc EXCEPT ![p] =
             IF rest = {} THEN Idle
             ELSE [pc |-> "send", todo |-> rest,
                   client |-> proc[p].client, fresh |-> 0, sent |-> 0]]

(* mark_mutation_synced *)
MarkSynced(p) ==
  /\ proc[p].pc = "synced"
  /\ status' = [status EXCEPT ![Current(p)] = "synced"]
  /\ Advance(p)
  /\ UNCHANGED <<cache, pair, server, applied, spoilt>>

MarkFailedRetries(p) ==
  /\ proc[p].pc = "failed"
  /\ status' = [status EXCEPT ![Current(p)] = "failed"]
  /\ Goto(p, "send")
  /\ UNCHANGED <<cache, pair, server, applied, spoilt>>

MarkFailedAsError(p) ==
  /\ proc[p].pc = "failed"
  /\ status' = [status EXCEPT ![Current(p)] = "error"]
  /\ Advance(p)
  /\ UNCHANGED <<cache, pair, server, applied, spoilt>>

(* mark_mutation_failed: whatever the status has become. *)
MarkFailed(p) ==
  /\ proc[p].pc = "failed"
  /\ status' = [status EXCEPT ![Current(p)] = "failed"]
  /\ Advance(p)
  /\ UNCHANGED <<cache, pair, server, applied, spoilt>>

(* The process is killed; a new pair it was about to store is lost. *)
Crash(p) ==
  /\ "crash" \in Fault
  /\ proc[p] # Idle
  /\ spoilt' = IF proc[p].pc = "persist" THEN spoilt \cup {session[proc[p].fresh]}
               ELSE spoilt
  /\ Abort(p)
  /\ UNCHANGED <<store, server, applied>>

-----------------------------------------------------------------------------
(* Elsewhere. *)

(* An access token expires. *)
Expire ==
  /\ "expire" \in Fault
  /\ \E t \in live : live' = live \ {t}
  /\ UNCHANGED <<store, proc, field, session, valid, issued, applied, spoilt>>

(* Another user edits the employee. *)
RivalEdit ==
  /\ "rival" \in Fault
  /\ field' \in Value \ {field}
  /\ UNCHANGED <<store, proc, tokens, applied, spoilt>>

FlushStep(p) ==
  \/ OpenClient(p)
  \/ Send(p)
  \/ Resend(p)
  \/ Unanswered(p)
  \/ Refresh(p)
  \/ CheckToken(p)
  \/ Rotate(p)
  \/ RotateFails(p)
  \/ RefreshUnanswered(p)
  \/ Persist(p)
  \/ CacheAnswer(p)
  \/ MarkSynced(p)
  \/ MarkFailed(p)

Next ==
  \/ \E p \in Proc :
       \/ \E m \in Mutation : Enqueue(p, m)
       \/ StartFlush(p)
       \/ Pull(p)
       \/ Login(p)
       \/ FlushStep(p)
       \/ Crash(p)
  \/ Expire
  \/ RivalEdit

Spec == Init /\ [][Next]_vars

(* A process in a flush goes on: every call it makes returns or times out  *)
(* (request_timeout_seconds).                                              *)
FlushSpec == Spec /\ \A p \in Proc : WF_vars(FlushStep(p))

(* Besides, the user flushes again and again. *)
RepeatSpec == FlushSpec /\ \A p \in Proc : WF_vars(StartFlush(p))

-----------------------------------------------------------------------------
(* A mutation the queue calls synced was carried out by the server,        *)
(* whatever was lost, retried or run twice.                                *)
SyncedMeansApplied ==
  \A m \in Mutation : status[m] = "synced" => m \in applied

(* The client is never locked out by its own rotations and sign-ins: the   *)
(* stored refresh token is good, or its successor is about to be stored.   *)
(* Only a session is excepted in which an answer was lost, or one token    *)
(* was exchanged twice, which the service lets happen.                     *)
StoredPairUsable ==
  \/ pair \in valid
  \/ session[pair] \in spoilt
  \/ \E p \in Proc : /\ proc[p].pc = "persist"
                   /\ session[proc[p].fresh] = session[pair]

(* A mutation that is synced is done with: no flush of this process takes  *)
(* it up again or reports it failed.                                       *)
SyncedStaysSynced ==
  [][\A m \in Mutation : status[m] = "synced" => status'[m] = "synced"]_vars

(* Mutations are carried out in the order they were queued, except that    *)
(* one the queue has marked failed may be overtaken.                       *)
OvertakenOnlyWhenFailed ==
  [][\A m \in Mutation :
       (\E p \in Proc : /\ proc[p].pc \in {"send", "resend"}
                        /\ proc'[p] # proc[p]
                        /\ Current(p) = m
                        /\ field' # field)
       /\ (\E n \in applied : n > m)
         => status[m] = "failed"]_vars

(* A flush ends. *)
FlushTerminates == \A p \in Proc : proc[p].pc # "idle" ~> proc[p].pc = "idle"

(* Every queued mutation gets its turn, whatever becomes of the others:    *)
(* unless flushes are cut short for ever, by lost answers or by being      *)
(* killed, it does not stay pending.  The exception is the one the limit   *)
(* of the list makes: mutations that failed fill it for good.              *)
Interrupted == \E p \in Proc : Unanswered(p) \/ RefreshUnanswered(p) \/ Crash(p)

Crowded(m) ==
  Cardinality({n \in Mutation : n < m /\ status[n] = "failed"}) >= Limit

EventuallyTried ==
  (\A m \in Mutation :
     status[m] = "pending" ~> (status[m] # "pending" \/ []Crowded(m)))
    \/ []<><<Interrupted>>_vars

(* "sync-flush sends queued mutations back through the WorkforceIQ API"    *)
(* (docs/desktop-client.md): flushed again and again by a client of which  *)
(* nothing fails, every queued mutation is sent.                           *)
QueuedIsSent == \A m \in Mutation : status[m] = "pending" ~> status[m] # "pending"
=============================================================================
