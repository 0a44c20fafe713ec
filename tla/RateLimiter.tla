----------------------------- MODULE RateLimiter -----------------------------
(***************************************************************************)
(* The rate limiter: workforceiq/rate_limit.py and the guard that asks it  *)
(* before every request.                                                   *)
(*                                                                         *)
(* Hits are counted per caller and window of the clock.  Redis counts for  *)
(* all workers: INCR, then EXPIRE by whoever made the first hit, both      *)
(* remote calls that may fail before or after they take effect.  Without a *)
(* client, or when a call fails, a worker counts in a dictionary of its    *)
(* own, which its threads read and write without a lock.                   *)
(*                                                                         *)
(* Redis keeps its counters over a restart (it is deployed with            *)
(* --appendonly yes).                                                      *)
(***************************************************************************)
EXTENDS Settings, FiniteSets

CONSTANTS Environment,  \* environments a server may be started in
          Key,          \* organization:user of a caller
          Worker,       \* gunicorn worker processes
          Request,      \* requests; each is made once
          Window,       \* window_seconds, in ticks of the model's clock
          Grace,        \* ticks Redis keeps a counter longer than a window
          MaxTime       \* bounds the clock

(* What the limiter reads of the settings of each server that starts.      *)
Servers ==
  {[env |-> s.env, testing |-> s.testing, backend |-> s.backend, limit |-> s.limit] :
     s \in {Boot(e) : e \in Environment} \ {Refused}}

ASSUME RateAssumption ==
  /\ Window \in Nat \ {0} /\ Grace \in Nat /\ MaxTime \in Nat
  /\ \A e \in Environment : e.limit \in Int \cup {Unset}

VARIABLES server,    \* the settings of the running server
          client,    \* a Redis client could be built
          now,       \* the clock, which all machines share
          counter,   \* counter[k, w]: Redis; until is when EXPIRE removes it
          buckets,   \* buckets[p][k, w]: memory_buckets of worker p; 0 if none
          req,       \* req[r]: what request r is doing
          disturbed  \* history: buckets of a worker in which a hit was lost or
                     \* that were pruned

vars == <<server, client, now, counter, buckets, req, disturbed>>

Windows == 0 .. MaxTime \div Window
NoTTL == -1  \* what Redis says of a counter that has no EXPIRE

(* Request r has not arrived; is about to INCR or to EXPIRE; to read, to   *)
(* write or to read again its bucket; was answered; or its worker died.    *)
Stage == {"new", "incr", "expire", "read", "store", "decide", "done", "gone"}

(* by says who decided.  order is the value the INCR of r produced, 0 if   *)
(* it had none, and seen the one it read from its worker's bucket.         *)
RequestState ==
  [pc : Stage, worker : Worker, key : Key, win : Windows, order : Nat, seen : Nat,
   late : BOOLEAN, ok : BOOLEAN,
   by : {"nobody", "redis", "memory", "unavailable", "error", "unguarded"}]

TypeOK ==
  /\ server \in Servers
  /\ client \in BOOLEAN
  /\ now \in 0..MaxTime
  /\ counter \in [Key \X Windows -> [count : Nat, until : Nat \cup {NoTTL}]]
  /\ buckets \in [Worker -> [Key \X Windows -> Nat]]
  /\ req \in [Request -> RequestState]
  /\ disturbed \subseteq Worker \X (Key \X Windows)

NoCounter == [count |-> 0, until |-> NoTTL]
NoBuckets == [b \in Key \X Windows |-> 0]

(* _build_redis_client: no client for the memory backend, nor when the     *)
(* package is missing or the URL is bad.  Building it connects to nothing. *)
Init ==
  /\ server \in Servers
  /\ client \in BOOLEAN /\ (server.backend = "memory" => ~client)
  /\ now = 0
  /\ counter = [b \in Key \X Windows |-> NoCounter]
  /\ buckets = [p \in Worker |-> NoBuckets]
  /\ req \in [Request -> {[pc |-> "new", worker |-> p, key |-> k, win |-> 0, order |-> 0,
                           seen |-> 0, late |-> FALSE, ok |-> FALSE,
                           by |-> "nobody"] : p \in Worker, k \in Key}]
  /\ disturbed = {}

-----------------------------------------------------------------------------
ThisWindow == now \div Window
Bucket(r) == <<req[r].key, req[r].win>>

(* Redis answers as if a counter past its time were not there.             *)
Expired(b) == counter[b].until # NoTTL /\ counter[b].until <= now
Kept(b) == IF Expired(b) THEN NoCounter ELSE counter[b]

Answered(r, by, ok) == [req EXCEPT ![r].pc = "done", ![r].by = by, ![r].ok = ok]

(* The guard of a request and the first line of _redis_hit or _memory_hit, *)
(* which takes the window from the clock.                                  *)
Arrive(r) ==
  /\ req[r].pc = "new"
  /\ req' = IF server.testing THEN Answered(r, "unguarded", TRUE)
            ELSE [req EXCEPT ![r].pc = IF client THEN "incr" ELSE "read", ![r].win = ThisWindow]
  /\ UNCHANGED <<server, client, now, counter, buckets, disturbed>>

Counted(b) == [counter EXCEPT ![b] = [Kept(b) EXCEPT !.count = @ + 1]]

IsLate(r) == now >= (req[r].win + 1) * Window + Grace

Numbered(r) == [req EXCEPT ![r].order = Kept(Bucket(r)).count + 1, ![r].late = IsLate(r)]

(* A slip: one hit too many.                                               *)
WithinLimitOneMore(n) == n - 1 <= server.limit
WithinLimit(n) == n <= server.limit

(* INCR.  Only the first hit of a window goes on to EXPIRE.                *)
Incr(r) ==
  LET n == Kept(Bucket(r)).count + 1
  IN  /\ req[r].pc = "incr"
      /\ counter' = Counted(Bucket(r))
      /\ req' = [Numbered(r) EXCEPT
                   ![r].pc = IF n = 1 THEN "expire" ELSE "done",
                   ![r].by = IF n = 1 THEN @ ELSE "redis",
                   ![r].ok = n # 1 /\ WithinLimit(n)]
      /\ UNCHANGED <<server, client, now, buckets, disturbed>>

(* A slip: the counter lives as long as the window, not five seconds more. *)
KeepUntilNoGrace(t) == t + Window
KeepUntil(t) == t + Window + Grace

Expire(r) ==
  /\ req[r].pc = "expire"
  /\ counter' = [counter EXCEPT ![Bucket(r)].until = KeepUntil(now)]
  /\ req' = Answered(r, "redis", WithinLimit(1))
  /\ UNCHANGED <<server, client, now, buckets, disturbed>>

(* The call raises: it was not carried out, or its answer was lost.  In    *)
(* production with the backend "redis" the hit is refused, otherwise the   *)
(* worker counts it itself, by its clock.                                  *)
FailsClosed == server.env = "production" /\ server.backend = "redis"

RedisFails(r) ==
  /\ req[r].pc \in {"incr", "expire"}
  /\ \E effect \in BOOLEAN :
       LET done == effect /\ req[r].pc = "incr"
           numbered == IF done THEN Numbered(r) ELSE req
       IN  /\ counter' = CASE done -> Counted(Bucket(r))
                           [] effect /\ ~done -> [counter EXCEPT ![Bucket(r)].until = KeepUntil(now)]
                           [] OTHER -> counter
           /\ req' = IF FailsClosed
                     THEN [numbered EXCEPT ![r].pc = "done", ![r].by = "unavailable"]
                     ELSE [numbered EXCEPT ![r].pc = "read", ![r].win = ThisWindow, ![r].order = 0]
  /\ UNCHANGED <<server, client, now, buckets, disturbed>>

(* _memory_hit, first half of line 45: the dictionary is read ...          *)
Read(r) ==
  /\ req[r].pc = "read"
  /\ req' = [req EXCEPT ![r].pc = "store", ![r].seen = buckets[req[r].worker][Bucket(r)]]
  /\ UNCHANGED <<server, client, now, counter, buckets, disturbed>>

Outdated(b, w) == b[2] < w - 1

(* ... and written, one more than was read; buckets of windows before the  *)
(* last are dropped.  What another thread added in between is lost.        *)
Store(r) ==
  LET p == req[r].worker
      old == buckets[p]
      dropped == {b \in Key \X Windows : Outdated(b, req[r].win) /\ old[b] > 0}
  IN  /\ req[r].pc = "store"
      /\ buckets' = [buckets EXCEPT ![p] =
                       [b \in Key \X Windows |->
                          CASE b = Bucket(r) -> req[r].seen + 1
                            [] b \in dropped -> 0
                            [] OTHER -> old[b]]]
      /\ disturbed' = disturbed \cup {<<p, b>> : b \in dropped}
                        \cup IF old[Bucket(r)] = req[r].seen THEN {} ELSE {<<p, Bucket(r)>>}
      /\ req' = [req EXCEPT ![r].pc = "decide"]
      /\ UNCHANGED <<server, client, now, counter>>

(* Line 49 reads the bucket once more.  It is gone if a thread two windows *)
(* ahead has dropped it: a KeyError, answered 500.                         *)
Decide(r) ==
  LET n == buckets[req[r].worker][Bucket(r)]
  IN  /\ req[r].pc = "decide"
      /\ req' = IF n = 0 THEN Answered(r, "error", FALSE)
                ELSE Answered(r, "memory", WithinLimit(n))
      /\ UNCHANGED <<server, client, now, counter, buckets, disturbed>>

(* A worker is replaced: its dictionary is lost with the requests in it.   *)
(* History is told of the new process only.                                *)
Restart(p) ==
  /\ \E r \in Request : req[r].worker = p /\ req[r].pc \notin {"new", "gone"}
  /\ buckets' = [buckets EXCEPT ![p] = NoBuckets]
  /\ req' = [r \in Request |->
               IF /\ req[r].worker = p /\ req[r].pc \notin {"new", "gone"}
                  /\ req[r].by # "redis"
               THEN [req[r] EXCEPT !.pc = "gone", !.by = "nobody", !.ok = FALSE]
               ELSE req[r]]
  /\ disturbed' = {d \in disturbed : d[1] # p}
  /\ UNCHANGED <<server, client, now, counter>>

Tick ==
  /\ now < MaxTime
  /\ now' = now + 1
  /\ UNCHANGED <<server, client, counter, buckets, req, disturbed>>

Next ==
  \/ Tick
  \/ \E p \in Worker : Restart(p)
  \/ \E r \in Request : \/ Arrive(r) \/ Incr(r) \/ Expire(r) \/ RedisFails(r)
                        \/ Read(r) \/ Store(r) \/ Decide(r)

Spec == Init /\ [][Next]_vars

-----------------------------------------------------------------------------
AdmittedByRedis(b) ==
  {r \in Request : req[r].by = "redis" /\ req[r].ok /\ ~req[r].late /\ Bucket(r) = b}

(* No more requests of a caller are admitted on a Redis counter than the   *)
(* limit of one window, whichever workers they came to and whatever calls  *)
(* failed, unless they stalled until the counter was gone: those that      *)
(* reach Redis within the grace after their window are still counted on it *)
(* (lines 35-40).                                                          *)
AdmittedWithinLimit ==
  \A b \in Key \X Windows : Cardinality(AdmittedByRedis(b)) <= server.limit

AdmittedByMemory(p, b) ==
  {r \in Request : req[r].by = "memory" /\ req[r].ok /\ req[r].worker = p /\ Bucket(r) = b}

(* A worker that counts for itself admits more than the limit only where   *)
(* two of its threads wrote over each other's hit, or one of a later       *)
(* window dropped the bucket under them (lines 42-50).                     *)
OverLimitOnlyByLostHits ==
  \A p \in Worker, b \in Key \X Windows :
    <<p, b>> \in disturbed \/ Cardinality(AdmittedByMemory(p, b)) <= server.limit

(* Nobody is refused for nothing: whoever gets a 429 shares the window     *)
(* with another request of the same caller, or Redis failed and the        *)
(* settings say that nothing is admitted then.  A setting from which a     *)
(* limit of zero could come would refuse everybody.                        *)
RefusedForCause ==
  \A r \in Request :
    req[r].by \in {"redis", "memory", "unavailable"} /\ ~req[r].ok =>
      \/ req[r].by = "unavailable" /\ FailsClosed
      \/ \E other \in Request \ {r} :
           req[other].pc # "new" /\ req[other].key = req[r].key /\ req[other].win >= req[r].win
=============================================================================
