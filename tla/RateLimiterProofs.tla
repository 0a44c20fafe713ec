-------------------------- MODULE RateLimiterProofs --------------------------
(***************************************************************************)
(* Proofs about RateLimiter, for any accepted environments, callers,       *)
(* workers, requests, windows and grace.                                   *)
(***************************************************************************)
EXTENDS RateLimiter, FiniteSetTheorems, TLAPS

(* The time from which Redis may have forgotten the counter of bucket b.   *)
End(b) == (b[2] + 1) * Window + Grace

-----------------------------------------------------------------------------
(* The window of a time starts no later than the time, and the windows go  *)
(* in the order of their times.                                            *)
LEMMA WindowOf ==
  ASSUME NEW w \in Nat \ {0}, NEW m \in Nat, NEW n \in 0..m
  PROVE  /\ n \div w \in 0..(m \div w)
         /\ (n \div w) * w <= n
<1>1. n \div w \in Int /\ m \div w \in Int
  OBVIOUS
<1>2. (n \div w) * w <= n /\ n < (n \div w) * w + w
  OBVIOUS
<1>3. (m \div w) * w <= m /\ m < (m \div w) * w + w
  OBVIOUS
<1>4. ASSUME NEW a \in Int, NEW b \in Int, a * w <= n, m < b * w + w
      PROVE  a <= b
  <2>1. a * w < b * w + w
    BY <1>4
  <2>2. CASE a >= b + 1
    <3>1. (b + 1) * w <= a * w
      BY <2>2
    <3>2. QED
      BY <2>1, <3>1
  <2>3. QED
    BY <2>2
<1>5. n \div w >= 0
  OBVIOUS
<1>6. QED
  BY <1>1, <1>2, <1>3, <1>4, <1>5

(* A counter that is kept from a time in its window on outlives the window *)
(* by the grace.                                                           *)
LEMMA KeptLongEnough ==
  ASSUME NEW w \in Nat, NEW g \in Nat, NEW v \in Nat, NEW t \in Nat, v * w <= t
  PROVE  (v + 1) * w + g <= t + w + g
<1>1. (v + 1) * w = v * w + w
  OBVIOUS
<1>2. v * w \in Nat
  OBVIOUS
<1>3. QED
  BY <1>1, <1>2

(* A server that starts has a limit of one hit at least.                   *)
LEMMA LimitIsPositive ==
  ASSUME NEW s \in Servers
  PROVE  s.limit \in Nat \ {0}
<1>1. PICK e \in Environment :
        /\ Boot(e) # Refused
        /\ s = [env |-> Boot(e).env, testing |-> Boot(e).testing,
                backend |-> Boot(e).backend, limit |-> Boot(e).limit]
  BY DEF Servers
<1> DEFINE d == Defaults(ProfileName(e))
<1>2. Boot(e) = Resolve(e, d)
  BY <1>1 DEF Boot
<1>3. Resolve(e, d).limit = AtLeast(1, Given(e, d, "limit"))
  BY DEF Resolve, Defaults
<1>4. Given(e, d, "limit") \in Int
  BY RateAssumption DEF Given, Defaults
<1>5. QED
  BY <1>1, <1>2, <1>3, <1>4 DEF AtLeast

(* The window of the clock is one the model has.                           *)
LEMMA ThisWindowTyped ==
  ASSUME TypeOK
  PROVE  ThisWindow \in Windows /\ ThisWindow * Window <= now
BY RateAssumption, WindowOf DEF TypeOK, ThisWindow, Windows

-----------------------------------------------------------------------------
(* What a step does to the request it is about; the others stay.           *)
LEMMA OneRequest ==
  ASSUME TypeOK, NEW r \in Request, NEW state \in RequestState, req' = [req EXCEPT ![r] = state]
  PROVE  /\ req' \in [Request -> RequestState]
         /\ req'[r] = state
         /\ \A q \in Request \ {r} : req'[q] = req[q]
BY DEF TypeOK

(* A bucket is one of a caller and a window.                               *)
LEMMA BucketTyped ==
  ASSUME TypeOK, NEW r \in Request
  PROVE  /\ Bucket(r) \in Key \X Windows
         /\ Bucket(r)[2] = req[r].win
         /\ req[r] \in RequestState
BY DEF TypeOK, Bucket, RequestState

(* A counter holds a number, and one more when a hit was counted.          *)
LEMMA CountedTyped ==
  ASSUME TypeOK, NEW b \in Key \X Windows
  PROVE  /\ Kept(b) \in [count : Nat, until : Nat \cup {NoTTL}]
         /\ Counted(b) \in [Key \X Windows -> [count : Nat, until : Nat \cup {NoTTL}]]
         /\ Counted(b)[b].count = Kept(b).count + 1
         /\ Counted(b)[b].until = Kept(b).until
         /\ \A c \in Key \X Windows : c # b => Counted(b)[c] = counter[c]
<1>1. Kept(b) \in [count : Nat, until : Nat \cup {NoTTL}]
  BY DEF Kept, NoCounter, TypeOK
<1>2. [Kept(b) EXCEPT !.count = @ + 1] \in [count : Nat, until : Nat \cup {NoTTL}]
  BY <1>1
<1>3. QED
  BY <1>1, <1>2 DEF Counted, TypeOK

(* A time to live is a time.                                               *)
LEMMA ExpiryTyped ==
  ASSUME TypeOK, NEW b \in Key \X Windows
  PROVE  LET after == [counter EXCEPT ![b].until = KeepUntil(now)] IN
         /\ after \in [Key \X Windows -> [count : Nat, until : Nat \cup {NoTTL}]]
         /\ after[b].until = KeepUntil(now)
         /\ after[b].count = counter[b].count
         /\ \A c \in Key \X Windows : c # b => after[c] = counter[c]
<1>1. KeepUntil(now) \in Nat
  BY RateAssumption DEF KeepUntil, TypeOK
<1>2. QED
  BY <1>1 DEF TypeOK

(* INCR, with or without its answer.                                       *)
LEMMA NumberedTyped ==
  ASSUME TypeOK, NEW r \in Request
  PROVE  /\ Numbered(r) \in [Request -> RequestState]
         /\ Numbered(r)[r].order = Kept(Bucket(r)).count + 1
         /\ Numbered(r)[r].late = IsLate(r)
         /\ Numbered(r)[r].pc = req[r].pc /\ Numbered(r)[r].by = req[r].by
         /\ Numbered(r)[r].ok = req[r].ok
         /\ Numbered(r)[r].key = req[r].key /\ Numbered(r)[r].win = req[r].win
         /\ \A q \in Request \ {r} : Numbered(r)[q] = req[q]
<1>1. Kept(Bucket(r)).count + 1 \in Nat
  BY BucketTyped, CountedTyped
<1>2. IsLate(r) \in BOOLEAN
  BY DEF IsLate
<1>3. req \in [Request -> RequestState]
  BY DEF TypeOK
<1> DEFINE n == Kept(Bucket(r)).count + 1
           l == IsLate(r)
<1>4. Numbered(r) = [req EXCEPT ![r] = [req[r] EXCEPT !.order = n, !.late = l]]
  BY <1>3 DEF Numbered
<1> HIDE DEF n, l
<1> DEFINE state == [req[r] EXCEPT !.order = n, !.late = l]
<1>5. /\ state \in RequestState
      /\ state.order = n /\ state.late = l
      /\ state.pc = req[r].pc /\ state.by = req[r].by /\ state.ok = req[r].ok
      /\ state.key = req[r].key /\ state.win = req[r].win
  BY <1>1, <1>2, <1>3 DEF RequestState, n, l
<1>6. /\ Numbered(r)[r] = state
      /\ Numbered(r) \in [Request -> RequestState]
      /\ \A q \in Request \ {r} : Numbered(r)[q] = req[q]
  BY <1>3, <1>4, <1>5
<1>7. QED
  BY <1>5, <1>6 DEF n, l


-----------------------------------------------------------------------------
(* The steps, as far as the proofs look at them.                           *)

(* A request that does not come near Redis.                                *)
Aside(r) ==
  /\ UNCHANGED <<server, now, counter>>
  /\ req' \in [Request -> RequestState]
  /\ \A q \in Request \ {r} : req'[q] = req[q]
  /\ req'[r].order = req[r].order /\ req'[r].late = req[r].late
  /\ req[r].pc \in {"new", "read", "store", "decide"}
  /\ IF req[r].pc = "new"
     THEN /\ req'[r].pc = "incr" => req'[r].win = ThisWindow
          /\ req'[r].pc \in {"incr", "read", "done"}
          /\ req'[r].by \in {req[r].by, "unguarded"}
          /\ req'[r].pc = "incr" => req'[r].by = req[r].by
     ELSE /\ req'[r].pc \in {"store", "decide", "done"}
          /\ req'[r].key = req[r].key /\ req'[r].win = req[r].win
          /\ \/ req'[r].by = req[r].by /\ req'[r].ok = req[r].ok
             \/ req'[r].by \in {"memory", "error"}

(* Arriving, and counting in the worker.                                   *)
LEMMA ArriveIsAside ==
  ASSUME TypeOK, NEW r \in Request, Arrive(r)
  PROVE  Aside(r)
<1>1. req[r] \in RequestState /\ ThisWindow \in Windows
  BY ThisWindowTyped DEF TypeOK
<1>2. CASE server.testing
  <2> DEFINE state == [req[r] EXCEPT !.pc = "done", !.by = "unguarded", !.ok = TRUE]
  <2>1. req' = [req EXCEPT ![r] = state]
    BY <1>1, <1>2 DEF Arrive, Answered, TypeOK
  <2>2. /\ state \in RequestState /\ state.pc = "done" /\ state.by = "unguarded"
        /\ state.order = req[r].order /\ state.late = req[r].late
    BY <1>1 DEF RequestState, Stage
  <2> HIDE DEF state
  <2>3. QED
    BY <2>1, <2>2, OneRequest DEF Arrive, Aside
<1>3. CASE ~server.testing
  <2> DEFINE there == IF client THEN "incr" ELSE "read"
             state == [req[r] EXCEPT !.pc = there, !.win = ThisWindow]
  <2>0. there \in {"incr", "read"}
    OBVIOUS
  <2>1. req' = [req EXCEPT ![r] = state]
    BY <1>1, <1>3 DEF Arrive, TypeOK
  <2> HIDE DEF there
  <2>2. /\ state \in RequestState /\ state.pc = there /\ state.by = req[r].by
        /\ state.order = req[r].order /\ state.late = req[r].late
        /\ state.win = ThisWindow
    BY <1>1, <2>0 DEF RequestState, Stage
  <2> HIDE DEF state
  <2>3. QED
    BY <2>0, <2>1, <2>2, OneRequest DEF Arrive, Aside
<1>4. QED
  BY <1>2, <1>3

(* Reading the worker's bucket.                                            *)
LEMMA ReadIsAside ==
  ASSUME TypeOK, NEW r \in Request, Read(r)
  PROVE  Aside(r)
<1> DEFINE n == buckets[req[r].worker][Bucket(r)]
           state == [req[r] EXCEPT !.pc = "store", !.seen = n]
<1>1. req[r] \in RequestState /\ n \in Nat
  BY BucketTyped DEF TypeOK, RequestState
<1>2. req' = [req EXCEPT ![r] = state]
  BY <1>1 DEF Read, TypeOK
<1> HIDE DEF n
<1>3. /\ state \in RequestState /\ state.pc = "store" /\ state.by = req[r].by
      /\ state.order = req[r].order /\ state.late = req[r].late
      /\ state.ok = req[r].ok /\ state.key = req[r].key /\ state.win = req[r].win
  BY <1>1 DEF RequestState, Stage
<1> HIDE DEF state
<1>4. QED
  BY <1>2, <1>3, OneRequest DEF Read, Aside

(* Writing it.                                                             *)
LEMMA StoreIsAside ==
  ASSUME TypeOK, NEW r \in Request, Store(r)
  PROVE  /\ Aside(r)
         /\ buckets' \in [Worker -> [Key \X Windows -> Nat]]
         /\ disturbed' \subseteq Worker \X (Key \X Windows)
<1> DEFINE state == [req[r] EXCEPT !.pc = "decide"]
           p == req[r].worker
           dropped == {b \in Key \X Windows : Outdated(b, req[r].win) /\ buckets[p][b] > 0}
           table == [b \in Key \X Windows |->
                       CASE b = Bucket(r) -> req[r].seen + 1
                         [] b \in dropped -> 0
                         [] OTHER -> buckets[p][b]]
<1>1. /\ req[r] \in RequestState /\ p \in Worker /\ req[r].seen + 1 \in Nat
      /\ Bucket(r) \in Key \X Windows
  BY BucketTyped DEF RequestState
<1>2. req' = [req EXCEPT ![r] = state]
  BY <1>1 DEF Store, TypeOK
<1>3. /\ state \in RequestState /\ state.pc = "decide" /\ state.by = req[r].by
      /\ state.order = req[r].order /\ state.late = req[r].late
      /\ state.ok = req[r].ok /\ state.key = req[r].key /\ state.win = req[r].win
  BY <1>1 DEF RequestState, Stage
<1> HIDE DEF state
<1>4. Aside(r)
  BY <1>2, <1>3, OneRequest DEF Store, Aside
<1>5. buckets' = [buckets EXCEPT ![p] = table]
  BY DEF Store
<1>6. buckets[p] \in [Key \X Windows -> Nat]
  BY <1>1 DEF TypeOK
<1>7. table \in [Key \X Windows -> Nat]
  BY <1>1, <1>6
<1>8. disturbed' \subseteq Worker \X (Key \X Windows)
  <2>1. disturbed' \subseteq disturbed \cup {<<p, b>> : b \in dropped} \cup {<<p, Bucket(r)>>}
    BY DEF Store
  <2>2. QED
    BY <1>1, <2>1 DEF TypeOK
<1> HIDE DEF table, p
<1>9. QED
  BY <1>1, <1>4, <1>5, <1>7, <1>8 DEF TypeOK

(* Deciding by it.                                                         *)
LEMMA DecideIsAside ==
  ASSUME TypeOK, NEW r \in Request, Decide(r)
  PROVE  Aside(r)
<1>1. req[r] \in RequestState
  BY BucketTyped
<1>2. PICK by \in {"memory", "error"}, ok \in BOOLEAN : req' = Answered(r, by, ok)
  <2> DEFINE n == buckets[req[r].worker][Bucket(r)]
  <2>1. CASE n = 0
    <3>1. req' = Answered(r, "error", FALSE)
      BY <2>1 DEF Decide
    <3>2. QED
      BY <3>1
  <2>2. CASE n # 0
    <3>1. req' = Answered(r, "memory", WithinLimit(n))
      BY <2>2 DEF Decide
    <3>2. WithinLimit(n) \in BOOLEAN
      BY DEF WithinLimit
    <3>3. QED
      BY <3>1, <3>2
  <2>3. QED
    BY <2>1, <2>2
<1> DEFINE state == [req[r] EXCEPT !.pc = "done", !.by = by, !.ok = ok]
<1>3. req' = [req EXCEPT ![r] = state]
  BY <1>1, <1>2 DEF Answered, TypeOK
<1>4. /\ state \in RequestState /\ state.pc = "done" /\ state.by = by
      /\ state.order = req[r].order /\ state.late = req[r].late
      /\ state.key = req[r].key /\ state.win = req[r].win
  BY <1>1 DEF RequestState, Stage
<1> HIDE DEF state
<1>5. req[r].pc = "decide" /\ UNCHANGED <<server, now, counter>>
  BY DEF Decide
<1>6. QED
  BY <1>3, <1>4, <1>5, OneRequest DEF Aside


Hit(r) ==
  /\ req[r].pc = "incr" /\ counter' = Counted(Bucket(r))
  /\ req'[r].order = Kept(Bucket(r)).count + 1 /\ req'[r].late = IsLate(r)

SameBucket(r) == req'[r].key = req[r].key /\ req'[r].win = req[r].win

(* A call to Redis: what it does to the counter, whether the request knows *)
(* its number, and whom it is answered by.                                 *)
AtRedis(r) ==
  /\ UNCHANGED <<server, now>>
  /\ req' \in [Request -> RequestState]
  /\ \A q \in Request \ {r} : req'[q] = req[q]
  /\ \/ counter' = counter
     \/ req[r].pc = "incr" /\ counter' = Counted(Bucket(r))
     \/ /\ req[r].pc = "expire"
        /\ counter' = [counter EXCEPT ![Bucket(r)].until = KeepUntil(now)]
  /\ \/ Hit(r) /\ SameBucket(r)
     \/ req'[r].order = req[r].order /\ req'[r].late = req[r].late /\ SameBucket(r)
     \/ req'[r].order = 0
  /\ req[r].pc \in {"incr", "expire"}
  /\ \/ /\ req'[r].pc = "expire"
        /\ req[r].pc = "incr" /\ req'[r].order = 1 /\ SameBucket(r) /\ req'[r].by = req[r].by
     \/ req'[r].pc = "done" /\ req'[r].by = "unavailable"
     \/ req'[r].pc = "read" /\ req'[r].by = req[r].by
     \/ /\ req'[r].pc = "done" /\ req'[r].by = "redis"
        /\ \/ req[r].pc = "incr" /\ (req'[r].ok => req'[r].order \in 1..server.limit)
           \/ req[r].pc = "expire" /\ req'[r].order = req[r].order

(* INCR numbers the hit; the first goes on to EXPIRE.                      *)
LEMMA IncrIsAtRedis ==
  ASSUME TypeOK, NEW r \in Request, Incr(r)
  PROVE  AtRedis(r)
<1> DEFINE n == Kept(Bucket(r)).count + 1
           m == Numbered(r)
<1>1. /\ m \in [Request -> RequestState]
      /\ m[r].order = n /\ m[r].late = IsLate(r)
      /\ m[r].by = req[r].by /\ m[r].key = req[r].key /\ m[r].win = req[r].win
      /\ \A q \in Request \ {r} : m[q] = req[q]
  BY NumberedTyped
<1>2. req[r].pc = "incr" /\ counter' = Counted(Bucket(r)) /\ UNCHANGED <<server, now>>
  BY DEF Incr
<1>3. n \in Nat \ {0} /\ server.limit \in Nat
  <2>1. Kept(Bucket(r)).count \in Nat
    BY BucketTyped, CountedTyped
  <2>2. QED
    BY <2>1, LimitIsPositive DEF TypeOK
<1>4. PICK ok \in BOOLEAN :
        /\ ok => n <= server.limit
        /\ req' = [m EXCEPT ![r].pc = IF n = 1 THEN "expire" ELSE "done",
                            ![r].by = IF n = 1 THEN @ ELSE "redis",
                            ![r].ok = ok]
  <2>1. (n # 1 /\ WithinLimit(n)) \in BOOLEAN /\ (n # 1 /\ WithinLimit(n) => n <= server.limit)
    BY DEF WithinLimit
  <2>2. req' = [m EXCEPT ![r].pc = IF n = 1 THEN "expire" ELSE "done",
                         ![r].by = IF n = 1 THEN @ ELSE "redis",
                         ![r].ok = n # 1 /\ WithinLimit(n)]
    BY DEF Incr
  <2>3. QED
    BY <2>1, <2>2
<1> HIDE DEF m, n
<1> DEFINE there == IF n = 1 THEN "expire" ELSE "done"
           by == IF n = 1 THEN m[r].by ELSE "redis"
           state == [m[r] EXCEPT !.pc = there, !.by = by, !.ok = ok]
<1>5. there \in Stage /\ by \in {"nobody", "redis", "memory", "unavailable", "error", "unguarded"}
  BY <1>1 DEF Stage, RequestState
<1>6. req' = [m EXCEPT ![r] = state]
  BY <1>1, <1>4
<1> HIDE DEF there, by
<1>7. /\ state \in RequestState
      /\ state.pc = there /\ state.by = by /\ state.ok = ok
      /\ state.order = n /\ state.late = IsLate(r)
      /\ state.key = req[r].key /\ state.win = req[r].win
  BY <1>1, <1>5 DEF RequestState
<1> HIDE DEF state
<1>8. /\ req' \in [Request -> RequestState]
      /\ req'[r] = state
      /\ \A q \in Request \ {r} : req'[q] = req[q]
  BY <1>1, <1>6, <1>7
<1>9. Hit(r) /\ SameBucket(r)
  BY <1>2, <1>7, <1>8 DEF Hit, SameBucket, n
<1>10. CASE n = 1
  BY <1>1, <1>2, <1>7, <1>8, <1>9, <1>10 DEF AtRedis, there, by
<1>11. CASE n # 1
  <2>1. req'[r].pc = "done" /\ req'[r].by = "redis"
    BY <1>7, <1>8, <1>11 DEF there, by
  <2>2. req'[r].ok => req'[r].order \in 1..server.limit
    <3>1. ok => n \in 1..server.limit
      BY <1>3, <1>4
    <3>2. req'[r].ok = ok /\ req'[r].order = n
      BY <1>7, <1>8
    <3>3. QED
      BY <3>1, <3>2, Zenon
  <2>3. QED
    BY <1>2, <1>8, <1>9, <2>1, <2>2 DEF AtRedis
<1>12. QED
  BY <1>10, <1>11

(* EXPIRE gives the counter its time to live, and the first hit its answer.*)
LEMMA ExpireIsAtRedis ==
  ASSUME TypeOK, NEW r \in Request, Expire(r)
  PROVE  AtRedis(r)
<1>1. req[r] \in RequestState
  BY BucketTyped
<1>2. PICK ok \in BOOLEAN : req' = Answered(r, "redis", ok)
  <2>1. WithinLimit(1) \in BOOLEAN /\ req' = Answered(r, "redis", WithinLimit(1))
    BY DEF Expire, WithinLimit
  <2>2. QED
    BY <2>1
<1> DEFINE state == [req[r] EXCEPT !.pc = "done", !.by = "redis", !.ok = ok]
<1>3. req' = [req EXCEPT ![r] = state]
  BY <1>1, <1>2 DEF Answered, TypeOK
<1>4. /\ state \in RequestState /\ state.pc = "done" /\ state.by = "redis"
      /\ state.order = req[r].order /\ state.late = req[r].late
      /\ state.key = req[r].key /\ state.win = req[r].win
  BY <1>1 DEF RequestState, Stage
<1> HIDE DEF state
<1>5. /\ req' \in [Request -> RequestState]
      /\ req'[r] = state
      /\ \A q \in Request \ {r} : req'[q] = req[q]
  BY <1>3, <1>4, OneRequest
<1>6. /\ req[r].pc = "expire" /\ UNCHANGED <<server, now>>
      /\ counter' = [counter EXCEPT ![Bucket(r)].until = KeepUntil(now)]
  BY DEF Expire
<1>7. QED
  BY <1>4, <1>5, <1>6 DEF AtRedis, SameBucket

(* A call that fails may have been carried out.                            *)
LEMMA RedisFailsIsAtRedis ==
  ASSUME TypeOK, NEW r \in Request, RedisFails(r)
  PROVE  AtRedis(r)
<1>1. req \in [Request -> RequestState] /\ ThisWindow \in Windows
  BY ThisWindowTyped DEF TypeOK
<1>2. PICK effect \in BOOLEAN :
        LET done == effect /\ req[r].pc = "incr"
            numbered == IF done THEN Numbered(r) ELSE req
        IN  /\ counter' = CASE done -> Counted(Bucket(r))
                            [] effect /\ ~done -> [counter EXCEPT ![Bucket(r)].until = KeepUntil(now)]
                            [] OTHER -> counter
            /\ req' = IF FailsClosed
                      THEN [numbered EXCEPT ![r].pc = "done", ![r].by = "unavailable"]
                      ELSE [numbered EXCEPT ![r].pc = "read", ![r].win = ThisWindow, ![r].order = 0]
  BY DEF RedisFails
<1>3. req[r].pc \in {"incr", "expire"} /\ UNCHANGED <<server, now>>
  BY DEF RedisFails
<1>4. PICK m \in [Request -> RequestState] :
        /\ \A q \in Request \ {r} : m[q] = req[q]
        /\ m[r].by = req[r].by /\ m[r].key = req[r].key /\ m[r].win = req[r].win
        /\ \/ /\ req[r].pc = "incr" /\ counter' = Counted(Bucket(r))
              /\ m[r].order = Kept(Bucket(r)).count + 1 /\ m[r].late = IsLate(r)
           \/ /\ m = req
              /\ \/ counter' = counter
                 \/ /\ req[r].pc = "expire"
                    /\ counter' = [counter EXCEPT ![Bucket(r)].until = KeepUntil(now)]
        /\ req' = IF FailsClosed
                  THEN [m EXCEPT ![r].pc = "done", ![r].by = "unavailable"]
                  ELSE [m EXCEPT ![r].pc = "read", ![r].win = ThisWindow, ![r].order = 0]
  <2>1. CASE effect /\ req[r].pc = "incr"
    <3>1. /\ counter' = Counted(Bucket(r))
          /\ req' = IF FailsClosed
                    THEN [Numbered(r) EXCEPT ![r].pc = "done", ![r].by = "unavailable"]
                    ELSE [Numbered(r) EXCEPT ![r].pc = "read", ![r].win = ThisWindow, ![r].order = 0]
      BY <1>2, <2>1
    <3>2. QED
      BY <2>1, <3>1, NumberedTyped
  <2>2. CASE ~(effect /\ req[r].pc = "incr")
    <3>1. /\ req' = IF FailsClosed
                    THEN [req EXCEPT ![r].pc = "done", ![r].by = "unavailable"]
                    ELSE [req EXCEPT ![r].pc = "read", ![r].win = ThisWindow, ![r].order = 0]
          /\ \/ counter' = counter
             \/ /\ req[r].pc = "expire"
                /\ counter' = [counter EXCEPT ![Bucket(r)].until = KeepUntil(now)]
      BY <1>2, <1>3, <2>2
    <3>2. QED
      BY <1>1, <3>1
  <2>3. QED
    BY <2>1, <2>2
<1>6. CASE FailsClosed
  <2> DEFINE state == [m[r] EXCEPT !.pc = "done", !.by = "unavailable"]
  <2>1. req' = [m EXCEPT ![r] = state]
    BY <1>4, <1>6
  <2>2. /\ state \in RequestState /\ state.pc = "done" /\ state.by = "unavailable"
        /\ state.order = m[r].order /\ state.late = m[r].late
        /\ state.key = m[r].key /\ state.win = m[r].win
    BY DEF RequestState, Stage
  <2> HIDE DEF state
  <2>3. /\ req' \in [Request -> RequestState]
        /\ req'[r] = state
        /\ \A q \in Request \ {r} : req'[q] = req[q]
    BY <1>4, <2>1, <2>2
  <2>4. QED
    BY <1>3, <1>4, <2>2, <2>3 DEF AtRedis, Hit, SameBucket
<1>7. CASE ~FailsClosed
  <2> DEFINE state == [m[r] EXCEPT !.pc = "read", !.win = ThisWindow, !.order = 0]
  <2>1. req' = [m EXCEPT ![r] = state]
    BY <1>4, <1>7
  <2>2. state \in RequestState /\ state.pc = "read" /\ state.by = m[r].by /\ state.order = 0
    BY <1>1 DEF RequestState, Stage
  <2> HIDE DEF state
  <2>3. /\ req' \in [Request -> RequestState]
        /\ req'[r] = state
        /\ \A q \in Request \ {r} : req'[q] = req[q]
    BY <1>4, <2>1, <2>2
  <2>4. QED
    BY <1>3, <1>4, <2>2, <2>3 DEF AtRedis
<1>8. QED
  BY <1>6, <1>7


-----------------------------------------------------------------------------
(* Every variable keeps its type.                                          *)
LEMMA AtRedisTyped ==
  ASSUME TypeOK, NEW r \in Request, AtRedis(r), UNCHANGED <<client, buckets, disturbed>>
  PROVE  TypeOK'
<1>1. Bucket(r) \in Key \X Windows
  BY BucketTyped
<1>2. counter' \in [Key \X Windows -> [count : Nat, until : Nat \cup {NoTTL}]]
  <2>1. CASE counter' = counter
    BY <2>1 DEF TypeOK
  <2>2. CASE counter' = Counted(Bucket(r))
    BY <1>1, <2>2, CountedTyped
  <2>3. CASE counter' = [counter EXCEPT ![Bucket(r)].until = KeepUntil(now)]
    BY <1>1, <2>3, ExpiryTyped
  <2>4. QED
    BY <2>1, <2>2, <2>3 DEF AtRedis
<1>3. QED
  BY <1>2 DEF AtRedis, TypeOK

(* A worker that is replaced leaves typed requests behind.                 *)
LEMMA RestartDoes ==
  ASSUME TypeOK, NEW p \in Worker, Restart(p)
  PROVE  /\ req' \in [Request -> RequestState]
         /\ \A q \in Request :
              \/ req'[q] = req[q]
              \/ /\ req'[q].pc = "gone" /\ req'[q].by = "nobody"
                 /\ req'[q].order = req[q].order /\ req'[q].late = req[q].late
                 /\ SameBucket(q)
         /\ UNCHANGED <<server, client, now, counter>>
         /\ TypeOK'
<1>1. req \in [Request -> RequestState]
  BY DEF TypeOK
<1>2. UNCHANGED <<server, client, now, counter>>
  BY DEF Restart
<1>3. ASSUME NEW q \in Request
      PROVE  /\ req'[q] \in RequestState
             /\ \/ req'[q] = req[q]
                \/ /\ req'[q].pc = "gone" /\ req'[q].by = "nobody"
                   /\ req'[q].order = req[q].order /\ req'[q].late = req[q].late
                   /\ SameBucket(q)
  <2> DEFINE state == [req[q] EXCEPT !.pc = "gone", !.by = "nobody", !.ok = FALSE]
  <2>1. /\ state \in RequestState /\ state.pc = "gone" /\ state.by = "nobody"
        /\ state.order = req[q].order /\ state.late = req[q].late
        /\ state.key = req[q].key /\ state.win = req[q].win
    BY <1>1 DEF RequestState, Stage
  <2>2. req'[q] = req[q] \/ req'[q] = state
    BY DEF Restart
  <2> HIDE DEF state
  <2>3. QED
    BY <1>1, <2>1, <2>2 DEF SameBucket
<1>4. req' \in [Request -> RequestState]
  <2>1. req' = [q \in Request |-> req'[q]]
    BY DEF Restart
  <2>2. QED
    BY <1>3, <2>1
<1>5. buckets' \in [Worker -> [Key \X Windows -> Nat]] /\ disturbed' \subseteq Worker \X (Key \X Windows)
  BY DEF Restart, TypeOK, NoBuckets
<1>6. QED
  BY <1>2, <1>3, <1>4, <1>5 DEF TypeOK

(* Every variable keeps its type.                                          *)
THEOREM TypeCorrect == Spec => []TypeOK
<1>1. Init => TypeOK
  <2> SUFFICES ASSUME Init PROVE TypeOK
    OBVIOUS
  <2>1. 0 \in Windows
    <3>1. MaxTime \in 0..MaxTime
      BY RateAssumption
    <3>2. MaxTime \div Window \in 0..(MaxTime \div Window)
      BY <3>1, RateAssumption, WindowOf
    <3>3. QED
      BY <3>2 DEF Windows
  <2>2. req \in [Request -> RequestState]
    <3> DEFINE Fresh == {[pc |-> "new", worker |-> p, key |-> k, win |-> 0, order |-> 0,
                          seen |-> 0, late |-> FALSE, ok |-> FALSE,
                          by |-> "nobody"] : p \in Worker, k \in Key}
    <3>1. ASSUME NEW p \in Worker, NEW k \in Key
          PROVE  [pc |-> "new", worker |-> p, key |-> k, win |-> 0, order |-> 0, seen |-> 0,
                  late |-> FALSE, ok |-> FALSE, by |-> "nobody"] \in RequestState
      BY <2>1 DEF RequestState, Stage
    <3>2. Fresh \subseteq RequestState
      BY <3>1
    <3>3. req \in [Request -> Fresh]
      BY DEF Init
    <3> HIDE DEF Fresh
    <3>4. QED
      BY <3>2, <3>3
  <2>3. client \in BOOLEAN
    BY DEF Init
  <2>4. QED
    BY <2>1, <2>2, <2>3, RateAssumption DEF Init, TypeOK, NoCounter, NoBuckets
<1>2. TypeOK /\ [Next]_vars => TypeOK'
  <2> SUFFICES ASSUME TypeOK, [Next]_vars PROVE TypeOK'
    OBVIOUS
  <2>1. CASE Tick
    BY <2>1, RateAssumption DEF Tick, TypeOK
  <2>2. ASSUME NEW p \in Worker, Restart(p) PROVE TypeOK'
    BY <2>2, RestartDoes
  <2>3. ASSUME NEW r \in Request, Incr(r) \/ Expire(r) \/ RedisFails(r) PROVE TypeOK'
    <3>1. AtRedis(r)
      BY <2>3, IncrIsAtRedis, ExpireIsAtRedis, RedisFailsIsAtRedis
    <3>2. QED
      BY <2>3, <3>1, AtRedisTyped DEF Incr, Expire, RedisFails
  <2>4. ASSUME NEW r \in Request, Arrive(r) \/ Read(r) \/ Decide(r) PROVE TypeOK'
    <3>1. Aside(r)
      BY <2>4, ArriveIsAside, ReadIsAside, DecideIsAside
    <3>2. UNCHANGED <<client, buckets, disturbed>>
      BY <2>4 DEF Arrive, Read, Decide
    <3>3. QED
      BY <3>1, <3>2 DEF Aside, TypeOK
  <2>5. ASSUME NEW r \in Request, Store(r) PROVE TypeOK'
    BY <2>5, StoreIsAside DEF Aside, TypeOK, Store
  <2>6. CASE UNCHANGED vars
    BY <2>6 DEF vars, TypeOK
  <2>7. QED
    BY <2>1, <2>2, <2>3, <2>4, <2>5, <2>6 DEF Next
<1>3. QED
  BY <1>1, <1>2, PTL DEF Spec


-----------------------------------------------------------------------------
(* Who was given a number by a counter that Redis still had to keep.       *)
Punctual(r) == req[r].order > 0 /\ ~req[r].late

Sound(r) ==
  /\ req[r].pc \in {"incr", "expire"} => req[r].win * Window <= now
  /\ req[r].pc \in {"new", "incr"} => req[r].order = 0
  /\ req[r].pc = "expire" => req[r].order = 1
  /\ req[r].pc \in {"new", "incr", "expire"} => req[r].by = "nobody"
  /\ req[r].by = "redis" /\ req[r].ok => req[r].order \in 1..server.limit
  /\ Punctual(r) => req[r].order <= counter[Bucket(r)].count \/ now >= End(Bucket(r))

(* Counters live until after their window, and count whom they number.     *)
NumberInv ==
  /\ \A b \in Key \X Windows : counter[b].until = NoTTL \/ counter[b].until >= End(b)
  /\ \A r \in Request : Sound(r)
  /\ \A r, q \in Request :
       r # q /\ Punctual(r) /\ Punctual(q) /\ Bucket(r) = Bucket(q) =>
         req[r].order # req[q].order

(* The end of a bucket is a time.                                          *)
LEMMA EndTyped ==
  ASSUME NEW b \in Key \X Windows
  PROVE  End(b) \in Nat /\ b[2] \in Nat
<1>1. b[2] \in Nat
  BY DEF Windows
<1>2. \A m, n \in Nat : (m + 1) * n \in Nat
  OBVIOUS
<1>3. QED
  BY <1>1, <1>2, RateAssumption DEF End

(* What a call does to the counters: none loses its count or its time to   *)
(* live before its end.                                                    *)
LEMMA CountersLast ==
  ASSUME TypeOK, NumberInv, NEW r \in Request, AtRedis(r)
  PROVE  \A b \in Key \X Windows :
           /\ counter'[b].until = NoTTL \/ counter'[b].until >= End(b)
           /\ counter[b].count <= counter'[b].count \/ now >= End(b)
<1> SUFFICES ASSUME NEW b \in Key \X Windows
             PROVE  /\ counter'[b].until = NoTTL \/ counter'[b].until >= End(b)
                    /\ counter[b].count <= counter'[b].count \/ now >= End(b)
  OBVIOUS
<1>1. /\ counter[b].until = NoTTL \/ counter[b].until >= End(b)
      /\ counter[b].count \in Nat /\ counter[b].until \in Nat \cup {NoTTL}
      /\ End(b) \in Nat /\ now \in Nat
  BY EndTyped, RateAssumption DEF NumberInv, TypeOK
<1>2. Bucket(r) \in Key \X Windows
  BY BucketTyped
<1>3. CASE counter' = counter \/ b # Bucket(r)
  <2>1. counter'[b] = counter[b]
    <3>1. CASE counter' = Counted(Bucket(r)) /\ b # Bucket(r)
      BY <1>2, <3>1, CountedTyped
    <3>2. CASE counter' = [counter EXCEPT ![Bucket(r)].until = KeepUntil(now)] /\ b # Bucket(r)
      BY <3>2 DEF TypeOK
    <3>3. QED
      BY <1>3, <3>1, <3>2 DEF AtRedis
  <2>2. QED
    BY <1>1, <2>1
<1>4. CASE b = Bucket(r) /\ counter' = Counted(b)
  <2>1. counter'[b].count = Kept(b).count + 1 /\ counter'[b].until = Kept(b).until
    BY <1>4, CountedTyped
  <2>2. CASE Expired(b)
    <3>1. Kept(b) = NoCounter
      BY <2>2 DEF Kept
    <3>2. now >= End(b)
      BY <1>1, <2>2 DEF Expired, NoTTL
    <3>3. QED
      BY <2>1, <3>1, <3>2 DEF NoCounter
  <2>3. CASE ~Expired(b)
    BY <1>1, <2>1, <2>3 DEF Kept
  <2>4. QED
    BY <2>2, <2>3
<1>5. CASE /\ b = Bucket(r) /\ req[r].pc = "expire"
           /\ counter' = [counter EXCEPT ![b].until = KeepUntil(now)]
  <2>1. counter'[b].until = KeepUntil(now) /\ counter'[b].count = counter[b].count
    BY <1>5, ExpiryTyped
  <2>2. req[r].win * Window <= now /\ b[2] = req[r].win /\ req[r].win \in Nat
    BY <1>5, BucketTyped, EndTyped DEF NumberInv, Sound
  <2>3. KeepUntil(now) >= End(b)
    BY <1>1, <2>2, RateAssumption, KeptLongEnough DEF KeepUntil, End
  <2>4. QED
    BY <1>1, <2>1, <2>3
<1>6. QED
  BY <1>3, <1>4, <1>5 DEF AtRedis

(* A request no step is about stays sound.                                 *)
LEMMA OthersStaySound ==
  ASSUME TypeOK, TypeOK', NEW q \in Request, Sound(q), req'[q] = req[q],
         server' = server, now' = now,
         \A b \in Key \X Windows : counter[b].count <= counter'[b].count \/ now >= End(b)
  PROVE  Sound(q)'
<1>1. Bucket(q)' = Bucket(q) /\ Punctual(q)' = Punctual(q) /\ Bucket(q) \in Key \X Windows
  BY BucketTyped DEF Bucket, Punctual
<1>2. End(Bucket(q))' = End(Bucket(q)) /\ End(Bucket(q)) \in Nat /\ now \in Nat
  BY <1>1, EndTyped, RateAssumption DEF End, TypeOK
<1>3. /\ req[q].order \in Nat
      /\ counter[Bucket(q)].count \in Nat /\ counter'[Bucket(q)].count \in Nat
  BY <1>1, BucketTyped DEF TypeOK, RequestState
<1>4. Punctual(q) => req[q].order <= counter'[Bucket(q)].count \/ now >= End(Bucket(q))
  BY <1>1, <1>2, <1>3 DEF Sound
<1>5. QED
  BY <1>1, <1>2, <1>4 DEF Sound

(* Numbers stay different if the one number that is given is new.          *)
LEMMA NumbersStayDifferent ==
  ASSUME NumberInv, NEW r \in Request, \A q \in Request \ {r} : req'[q] = req[q],
         Punctual(r)' => \A q \in Request \ {r} :
           Punctual(q) /\ Bucket(q) = Bucket(r)' => req[q].order # req'[r].order
  PROVE  \A p, q \in Request :
           p # q /\ Punctual(p)' /\ Punctual(q)' /\ Bucket(p)' = Bucket(q)' =>
             req'[p].order # req'[q].order
<1>1. \A q \in Request \ {r} : Punctual(q)' = Punctual(q) /\ Bucket(q)' = Bucket(q)
  BY DEF Punctual, Bucket
<1>2. QED
  BY <1>1 DEF NumberInv


(* Keeping to the worker gives no number.                                  *)
LEMMA AsideKeeps ==
  ASSUME TypeOK, TypeOK', NumberInv, NEW r \in Request, Aside(r)
  PROVE  NumberInv'
<1>1. /\ UNCHANGED <<server, now, counter>>
      /\ \A q \in Request \ {r} : req'[q] = req[q]
      /\ req'[r].order = req[r].order /\ req'[r].late = req[r].late
      /\ req[r] \in RequestState /\ req'[r] \in RequestState
  BY BucketTyped DEF Aside
<1>2. \A b \in Key \X Windows : /\ counter'[b].until = NoTTL \/ counter'[b].until >= End(b)'
                                /\ counter[b].count <= counter'[b].count \/ now >= End(b)
  BY <1>1 DEF NumberInv, TypeOK, End
<1>3. \A q \in Request \ {r} : Sound(q)'
  BY <1>1, <1>2, OthersStaySound DEF NumberInv
<1>4. Sound(r)' /\ (req'[r].order > 0 => Bucket(r)' = Bucket(r))
  <2>1. CASE req[r].pc = "new"
    <3>1. /\ req[r].order = 0 /\ req[r].by = "nobody"
          /\ req'[r].pc \in {"incr", "read", "done"}
          /\ req'[r].pc = "incr" => req'[r].win = ThisWindow
          /\ req'[r].by \in {"nobody", "unguarded"}
          /\ req'[r].pc = "incr" => req'[r].by = "nobody"
      BY <2>1 DEF Aside, NumberInv, Sound
    <3>2. ThisWindow * Window <= now
      BY ThisWindowTyped
    <3>3. ~Punctual(r)' /\ req'[r].order = 0
      BY <1>1, <3>1 DEF Punctual
    <3>4. QED
      BY <1>1, <3>1, <3>2, <3>3 DEF Sound
  <2>2. CASE req[r].pc # "new"
    <3>1. /\ req'[r].pc \in {"store", "decide", "done"}
          /\ req'[r].key = req[r].key /\ req'[r].win = req[r].win
          /\ \/ req'[r].by = req[r].by /\ req'[r].ok = req[r].ok
             \/ req'[r].by \in {"memory", "error"}
      BY <2>2 DEF Aside
    <3>2. Bucket(r)' = Bucket(r) /\ Punctual(r)' = Punctual(r) /\ End(Bucket(r))' = End(Bucket(r))
      BY <1>1, <3>1 DEF Bucket, Punctual, End
    <3>3. req'[r].by = "redis" /\ req'[r].ok => req'[r].order \in 1..server.limit
      BY <1>1, <3>1 DEF NumberInv, Sound
    <3>4. Punctual(r)' => req'[r].order <= counter'[Bucket(r)'].count \/ now >= End(Bucket(r))'
      BY <1>1, <3>2 DEF NumberInv, Sound
    <3>5. QED
      BY <1>1, <3>1, <3>2, <3>3, <3>4 DEF Sound
  <2>3. QED
    BY <2>1, <2>2
<1>5. \A p, q \in Request :
        p # q /\ Punctual(p)' /\ Punctual(q)' /\ Bucket(p)' = Bucket(q)' =>
          req'[p].order # req'[q].order
  <2>1. Punctual(r)' => Punctual(r) /\ Bucket(r)' = Bucket(r)
    BY <1>1, <1>4 DEF Punctual
  <2>2. Punctual(r)' => \A q \in Request \ {r} :
          Punctual(q) /\ Bucket(q) = Bucket(r)' => req[q].order # req'[r].order
    BY <1>1, <2>1 DEF NumberInv
  <2>3. QED
    BY <1>1, <2>2, NumbersStayDifferent
<1>6. QED
  BY <1>2, <1>3, <1>4, <1>5 DEF NumberInv

(* Redis gives no number twice while it keeps the counter.                 *)
LEMMA AtRedisKeeps ==
  ASSUME TypeOK, TypeOK', NumberInv, NEW r \in Request, AtRedis(r)
  PROVE  NumberInv'
<1>1. /\ UNCHANGED <<server, now>>
      /\ \A q \in Request \ {r} : req'[q] = req[q]
      /\ req[r] \in RequestState /\ req'[r] \in RequestState
      /\ req[r].pc \in {"incr", "expire"}
      /\ server.limit \in Nat \ {0} /\ now \in Nat
  BY BucketTyped, LimitIsPositive, RateAssumption DEF AtRedis, TypeOK
<1>2. \A b \in Key \X Windows :
        /\ counter'[b].until = NoTTL \/ counter'[b].until >= End(b)
        /\ counter[b].count <= counter'[b].count \/ now >= End(b)
  BY CountersLast
<1>3. \A q \in Request \ {r} : Sound(q)'
  BY <1>1, <1>2, OthersStaySound DEF NumberInv
<1>4. Sound(r)
  BY DEF NumberInv
<1>5. CASE Hit(r) /\ SameBucket(r)
  <2> DEFINE b == Bucket(r)
             n == Kept(b).count + 1
  <2>1. /\ b \in Key \X Windows /\ Bucket(r)' = b /\ b[2] = req[r].win
        /\ End(b) \in Nat
        /\ IsLate(r) = (now >= End(b))
    BY <1>1, <1>5, BucketTyped, EndTyped DEF Bucket, SameBucket, IsLate, End
  <2>2. /\ req'[r].order = n /\ req'[r].late = IsLate(r)
        /\ counter'[b].count = n /\ n \in Nat \ {0}
    BY <1>5, <2>1, CountedTyped DEF Hit
  <2>3. Punctual(r)' => ~(now >= End(b))
    BY <2>1, <2>2 DEF Punctual
  <2>4. Punctual(r)' => Kept(b) = counter[b]
    <3>1. ~(now >= End(b)) => ~Expired(b)
      <4>1. counter[b].until = NoTTL \/ counter[b].until >= End(b)
        BY <2>1 DEF NumberInv
      <4>2. counter[b].until \in Nat \cup {NoTTL}
        BY <2>1 DEF TypeOK
      <4>3. QED
        BY <1>1, <2>1, <4>1, <4>2 DEF Expired, NoTTL
    <3>2. QED
      BY <2>3, <3>1 DEF Kept
  <2>5. ASSUME Punctual(r)', NEW q \in Request \ {r}, Punctual(q), Bucket(q) = Bucket(r)'
        PROVE  req[q].order # req'[r].order
    <3>1. req[q].order <= counter[b].count
      BY <2>1, <2>3, <2>5 DEF NumberInv, Sound
    <3>2. req[q].order \in Nat /\ counter[b].count \in Nat
      BY <2>1, BucketTyped DEF TypeOK, RequestState
    <3>3. req'[r].order = counter[b].count + 1
      BY <2>2, <2>4, <2>5
    <3>4. QED
      BY <3>1, <3>2, <3>3
  <2>6. \A p, q \in Request :
          p # q /\ Punctual(p)' /\ Punctual(q)' /\ Bucket(p)' = Bucket(q)' =>
            req'[p].order # req'[q].order
    BY <1>1, <2>5, NumbersStayDifferent
  <2>7. Sound(r)'
    <3>1. req[r].pc = "incr" /\ req[r].by = "nobody" /\ req[r].win * Window <= now
      BY <1>4, <1>5 DEF Hit, Sound
    <3>2. /\ req'[r].pc \in {"expire", "done", "read"}
          /\ req'[r].pc = "expire" => req'[r].order = 1 /\ req'[r].by = "nobody"
          /\ req'[r].by = "redis" => (req'[r].ok => req'[r].order \in 1..server.limit)
      BY <3>1 DEF AtRedis
    <3>3. req'[r].win * Window <= now
      BY <1>5, <3>1 DEF SameBucket
    <3>4. req'[r].order <= counter'[b].count
      BY <2>2
    <3>5. QED
      BY <1>1, <2>1, <3>2, <3>3, <3>4 DEF Sound
  <2>8. QED
    BY <1>2, <1>3, <2>6, <2>7 DEF NumberInv, End
<1>6. CASE req'[r].order = req[r].order /\ req'[r].late = req[r].late /\ SameBucket(r)
  <2>1. Bucket(r)' = Bucket(r) /\ Punctual(r)' = Punctual(r) /\ End(Bucket(r))' = End(Bucket(r))
    BY <1>6 DEF SameBucket, Bucket, Punctual, End
  <2>2. \A p, q \in Request :
          p # q /\ Punctual(p)' /\ Punctual(q)' /\ Bucket(p)' = Bucket(q)' =>
            req'[p].order # req'[q].order
    <3>1. Punctual(r)' => \A q \in Request \ {r} :
            Punctual(q) /\ Bucket(q) = Bucket(r)' => req[q].order # req'[r].order
      BY <1>6, <2>1 DEF NumberInv
    <3>2. QED
      BY <1>1, <3>1, NumbersStayDifferent
  <2>3. Bucket(r) \in Key \X Windows /\ End(Bucket(r)) \in Nat
    BY BucketTyped, EndTyped
  <2>4. Punctual(r)' => req'[r].order <= counter'[Bucket(r)'].count \/ now >= End(Bucket(r))'
    <3>1. /\ counter[Bucket(r)].count \in Nat /\ counter'[Bucket(r)].count \in Nat
          /\ req[r].order \in Nat
      BY <1>1, <2>3 DEF TypeOK, RequestState
    <3>2. counter[Bucket(r)].count <= counter'[Bucket(r)].count \/ now >= End(Bucket(r))
      BY <1>2, <2>3
    <3>3. QED
      BY <1>1, <1>4, <1>6, <2>1, <3>1, <3>2 DEF Sound
  <2>5. req[r].win * Window <= now /\ req[r].by = "nobody"
    BY <1>1, <1>4 DEF Sound
  <2>6. /\ req'[r].pc \in {"expire", "done", "read"}
        /\ req'[r].pc = "expire" => req'[r].order = 1 /\ req'[r].by = "nobody"
        /\ req'[r].win * Window <= now
    BY <1>6, <2>5 DEF AtRedis, SameBucket
  <2>7. req'[r].by = "redis" /\ req'[r].ok => req'[r].order \in 1..server.limit
    <3>1. req'[r].by = "redis" =>
            \/ req'[r].ok => req'[r].order \in 1..server.limit
            \/ req[r].pc = "expire" /\ req'[r].order = req[r].order
      BY <2>5 DEF AtRedis
    <3>2. req[r].pc = "expire" => req[r].order \in 1..server.limit
      BY <1>1, <1>4 DEF Sound
    <3>3. QED
      BY <3>1, <3>2
  <2>8. Sound(r)'
    BY <1>1, <2>4, <2>6, <2>7 DEF Sound
  <2>9. QED
    BY <1>2, <1>3, <2>2, <2>8 DEF NumberInv, End
<1>7. CASE req'[r].order = 0
  <2>1. ~Punctual(r)'
    BY <1>7 DEF Punctual
  <2>2. \A p, q \in Request :
          p # q /\ Punctual(p)' /\ Punctual(q)' /\ Bucket(p)' = Bucket(q)' =>
            req'[p].order # req'[q].order
    BY <1>1, <2>1, NumbersStayDifferent
  <2>3. req[r].by = "nobody" /\ (req[r].pc = "expire" => req[r].order = 1)
    BY <1>1, <1>4 DEF Sound
  <2>4. /\ req'[r].pc \in {"done", "read"}
        /\ req'[r].by = "redis" => (req'[r].ok => req'[r].order \in 1..server.limit)
    BY <1>7, <2>3 DEF AtRedis
  <2>5. Sound(r)'
    BY <1>1, <2>1, <2>4 DEF Sound
  <2>6. QED
    BY <1>2, <1>3, <2>2, <2>5 DEF NumberInv, End
<1>8. QED
  BY <1>5, <1>6, <1>7 DEF AtRedis


(* Numbers are given once per bucket, up to the grace after its window.    *)
THEOREM NumberCorrect == Spec => []NumberInv
<1>1. Init => NumberInv
  <2> SUFFICES ASSUME Init PROVE NumberInv
    OBVIOUS
  <2>1. \A r \in Request : req[r].pc = "new" /\ req[r].order = 0 /\ req[r].by = "nobody"
    <3> DEFINE Fresh == {[pc |-> "new", worker |-> p, key |-> k, win |-> 0, order |-> 0,
                          seen |-> 0, late |-> FALSE, ok |-> FALSE,
                          by |-> "nobody"] : p \in Worker, k \in Key}
    <3>1. req \in [Request -> Fresh]
      BY DEF Init
    <3>2. \A f \in Fresh : f.pc = "new" /\ f.order = 0 /\ f.by = "nobody"
      OBVIOUS
    <3> HIDE DEF Fresh
    <3>3. QED
      BY <3>1, <3>2
  <2>2. \A r \in Request : ~Punctual(r)
    BY <2>1 DEF Punctual
  <2>3. \A b \in Key \X Windows : counter[b].until = NoTTL
    BY DEF Init, NoCounter
  <2>4. QED
    BY <2>1, <2>2, <2>3 DEF NumberInv, Sound
<1>2. TypeOK /\ TypeOK' /\ NumberInv /\ [Next]_vars => NumberInv'
  <2> SUFFICES ASSUME TypeOK, TypeOK', NumberInv, [Next]_vars PROVE NumberInv'
    OBVIOUS
  <2>1. CASE UNCHANGED <<server, counter, req>> /\ (now' = now \/ now' = now + 1)
    <3>1. now \in Nat /\ now' \in Nat /\ now <= now'
      BY <2>1, RateAssumption DEF TypeOK
    <3>2. ASSUME NEW r \in Request PROVE Sound(r)'
      <4>1. /\ req[r].win * Window \in Nat
            /\ End(Bucket(r)) \in Nat /\ Bucket(r)' = Bucket(r)
            /\ End(Bucket(r))' = End(Bucket(r)) /\ Punctual(r)' = Punctual(r)
        <5>1. req[r].win \in Nat
          BY BucketTyped, EndTyped
        <5>2. \A m, n \in Nat : m * n \in Nat
          OBVIOUS
        <5>3. QED
          BY <2>1, <5>1, <5>2, BucketTyped, EndTyped, RateAssumption DEF Bucket, End, Punctual
      <4>2. Sound(r)
        BY DEF NumberInv
      <4>3. Punctual(r)' => req'[r].order <= counter'[Bucket(r)'].count \/ now' >= End(Bucket(r))'
        BY <2>1, <3>1, <4>1, <4>2 DEF Sound
      <4>4. req'[r].pc \in {"incr", "expire"} => req'[r].win * Window <= now'
        BY <2>1, <3>1, <4>1, <4>2 DEF Sound
      <4>5. QED
        BY <2>1, <4>2, <4>3, <4>4 DEF Sound
    <3>3. QED
      BY <2>1, <3>2 DEF NumberInv, Punctual, Bucket, End
  <2>2. ASSUME NEW p \in Worker, Restart(p) PROVE NumberInv'
    <3>1. /\ \A q \in Request :
               \/ req'[q] = req[q]
               \/ /\ req'[q].pc = "gone" /\ req'[q].by = "nobody"
                  /\ req'[q].order = req[q].order /\ req'[q].late = req[q].late
                  /\ SameBucket(q)
          /\ UNCHANGED <<server, now, counter>>
      BY <2>2, RestartDoes
    <3>2. \A q \in Request : /\ req'[q].order = req[q].order
                             /\ Punctual(q)' = Punctual(q) /\ Bucket(q)' = Bucket(q)
                             /\ End(Bucket(q))' = End(Bucket(q))
      BY <3>1 DEF Punctual, Bucket, SameBucket, End
    <3>3. ASSUME NEW q \in Request PROVE Sound(q)'
      <4>1. Sound(q)
        BY DEF NumberInv
      <4>2. Punctual(q)' => req'[q].order <= counter'[Bucket(q)'].count \/ now' >= End(Bucket(q))'
        BY <3>1, <3>2, <4>1 DEF Sound
      <4>3. QED
        BY <3>1, <4>1, <4>2 DEF Sound
    <3>4. QED
      BY <3>1, <3>2, <3>3 DEF NumberInv, End
  <2>3. ASSUME NEW r \in Request, Incr(r) \/ Expire(r) \/ RedisFails(r) PROVE NumberInv'
    BY <2>3, IncrIsAtRedis, ExpireIsAtRedis, RedisFailsIsAtRedis, AtRedisKeeps
  <2>4. ASSUME NEW r \in Request, Arrive(r) \/ Read(r) \/ Store(r) \/ Decide(r) PROVE NumberInv'
    BY <2>4, ArriveIsAside, ReadIsAside, StoreIsAside, DecideIsAside, AsideKeeps
  <2>5. QED
    BY <2>1, <2>2, <2>3, <2>4 DEF Next, Tick, vars
<1>3. QED
  BY <1>1, <1>2, TypeCorrect, PTL DEF Spec

(* Whatever fails and however requests race, Redis admits no more requests *)
(* of a caller on the counter of one window than the limit.                *)
THEOREM AdmittedCorrect == Spec => []AdmittedWithinLimit
<1>1. TypeOK /\ NumberInv => AdmittedWithinLimit
  <2> SUFFICES ASSUME TypeOK, NumberInv, NEW b \in Key \X Windows
               PROVE  Cardinality(AdmittedByRedis(b)) <= server.limit
    BY DEF AdmittedWithinLimit
  <2> DEFINE A == AdmittedByRedis(b)
             f == [r \in A |-> req[r].order]
  <2>1. \A r \in A : /\ r \in Request /\ Bucket(r) = b /\ ~req[r].late
                     /\ req[r].order \in 1..server.limit
    BY DEF AdmittedByRedis, NumberInv, Sound
  <2>2. server.limit \in Nat \ {0}
    BY LimitIsPositive DEF TypeOK
  <2>3. \A r \in A : Punctual(r)
    BY <2>1, <2>2 DEF Punctual
  <2>4. \A r, q \in A : r # q => req[r].order # req[q].order
    BY <2>1, <2>3 DEF NumberInv
  <2>5. f \in Injection(A, 1..server.limit)
    BY <2>1, <2>4 DEF Injection, IsInjective
  <2>6. IsFiniteSet(1..server.limit) /\ Cardinality(1..server.limit) = server.limit
    BY <2>2, FS_Interval
  <2>7. Cardinality(A) <= Cardinality(1..server.limit)
    BY <2>5, <2>6, FS_Injection
  <2>8. QED
    BY <2>6, <2>7
<1>2. QED
  BY <1>1, TypeCorrect, NumberCorrect, PTL

-----------------------------------------------------------------------------
(* What the steps of a request do to it, as its worker and its caller see  *)
(* them.                                                                   *)
SameOwner(r) ==
  /\ req'[r].worker = req[r].worker /\ req'[r].key = req[r].key
  /\ \A q \in Request \ {r} : req'[q] = req[q]

(* Arriving fixes the window, or the guard lets the request pass.          *)
LEMMA ArriveMoves ==
  ASSUME TypeOK, NEW r \in Request, Arrive(r)
  PROVE  /\ req[r].pc = "new" /\ SameOwner(r)
         /\ UNCHANGED <<server, counter, buckets, disturbed>>
         /\ \/ req'[r].pc = "done" /\ req'[r].by = "unguarded" /\ req'[r].ok
            \/ req'[r].pc \in {"incr", "read"} /\ req'[r].by = req[r].by
BY DEF Arrive, SameOwner, Answered, TypeOK, RequestState

(* INCR refuses a request only if it is not the first it counts.           *)
LEMMA IncrMoves ==
  ASSUME TypeOK, NEW r \in Request, Incr(r)
  PROVE  /\ req[r].pc = "incr" /\ SameOwner(r) /\ req'[r].win = req[r].win
         /\ UNCHANGED <<server, buckets, disturbed>>
         /\ counter' = Counted(Bucket(r))
         /\ \/ req'[r].pc = "expire" /\ req'[r].by = req[r].by
            \/ /\ req'[r].pc = "done" /\ req'[r].by = "redis"
               /\ ~req'[r].ok => Kept(Bucket(r)).count > 0
<1>1. /\ req[r].pc = "incr" /\ SameOwner(r) /\ req'[r].win = req[r].win
      /\ \/ req'[r].pc = "expire" /\ req'[r].by = req[r].by
         \/ /\ req'[r].pc = "done" /\ req'[r].by = "redis"
            /\ Kept(Bucket(r)).count + 1 # 1
  BY DEF Incr, SameOwner, Numbered, TypeOK, RequestState
<1>2. Kept(Bucket(r)).count \in Nat
  BY BucketTyped, CountedTyped
<1>3. QED
  BY <1>1, <1>2 DEF Incr

(* The first hit is admitted, whatever the limit.                          *)
LEMMA ExpireMoves ==
  ASSUME TypeOK, NEW r \in Request, Expire(r)
  PROVE  /\ req[r].pc = "expire" /\ SameOwner(r) /\ req'[r].win = req[r].win
         /\ UNCHANGED <<server, buckets, disturbed>>
         /\ counter' = [counter EXCEPT ![Bucket(r)].until = KeepUntil(now)]
         /\ req'[r].pc = "done" /\ req'[r].by = "redis" /\ req'[r].ok
<1>1. server.limit \in Nat \ {0}
  BY LimitIsPositive DEF TypeOK
<1>2. WithinLimit(1)
  BY <1>1 DEF WithinLimit
<1>3. QED
  BY <1>2 DEF Expire, SameOwner, Answered, TypeOK, RequestState

(* When Redis fails, settings that fail closed refuse, others count anew.  *)
LEMMA RedisFailsMoves ==
  ASSUME TypeOK, NEW r \in Request, RedisFails(r)
  PROVE  /\ req[r].pc \in {"incr", "expire"} /\ SameOwner(r)
         /\ UNCHANGED <<server, buckets, disturbed>>
         /\ \/ counter' = counter
            \/ req[r].pc = "incr" /\ counter' = Counted(Bucket(r))
            \/ counter' = [counter EXCEPT ![Bucket(r)].until = KeepUntil(now)]
         /\ \/ /\ req'[r].pc = "done" /\ req'[r].by = "unavailable" /\ FailsClosed
               /\ req'[r].win = req[r].win
            \/ req'[r].pc = "read" /\ req'[r].by = req[r].by /\ req'[r].win = ThisWindow
<1>1. /\ SameOwner(r)
      /\ \/ /\ req'[r].pc = "done" /\ req'[r].by = "unavailable" /\ FailsClosed
            /\ req'[r].win = req[r].win
         \/ req'[r].pc = "read" /\ req'[r].by = req[r].by /\ req'[r].win = ThisWindow
  BY DEF RedisFails, SameOwner, Numbered, TypeOK, RequestState
<1>2. QED
  BY <1>1 DEF RedisFails

(* A thread reads the bucket ..                                            *)
LEMMA ReadMoves ==
  ASSUME TypeOK, NEW r \in Request, Read(r)
  PROVE  /\ req[r].pc = "read" /\ SameOwner(r) /\ req'[r].win = req[r].win
         /\ UNCHANGED <<server, counter, buckets, disturbed>>
         /\ req'[r].pc = "store" /\ req'[r].by = req[r].by
         /\ req'[r].seen = buckets[req[r].worker][Bucket(r)]
BY DEF Read, SameOwner, TypeOK, RequestState

(* .. writes it ..                                                         *)
LEMMA StoreMoves ==
  ASSUME TypeOK, NEW r \in Request, Store(r)
  PROVE  /\ req[r].pc = "store" /\ SameOwner(r) /\ req'[r].win = req[r].win
         /\ UNCHANGED <<server, counter>>
         /\ req'[r].pc = "decide" /\ req'[r].by = req[r].by
         /\ \A p \in Worker, b \in Key \X Windows :
              \/ buckets'[p][b] = buckets[p][b] /\ <<p, b>> # <<req[r].worker, Bucket(r)>>
              \/ buckets'[p][b] = 0 /\ <<p, b>> \in disturbed'
              \/ /\ p = req[r].worker /\ b = Bucket(r)
                 /\ buckets'[p][b] = req[r].seen + 1
                 /\ buckets[p][b] = req[r].seen \/ <<p, b>> \in disturbed'
         /\ disturbed \subseteq disturbed'
<1>1. /\ req[r].pc = "store" /\ SameOwner(r) /\ req'[r].win = req[r].win
      /\ req'[r].pc = "decide" /\ req'[r].by = req[r].by
      /\ UNCHANGED <<server, counter>>
  BY DEF Store, SameOwner, TypeOK, RequestState
<1> DEFINE p == req[r].worker
           dropped == {b \in Key \X Windows : Outdated(b, req[r].win) /\ buckets[p][b] > 0}
           table == [b \in Key \X Windows |->
                       CASE b = Bucket(r) -> req[r].seen + 1
                         [] b \in dropped -> 0
                         [] OTHER -> buckets[p][b]]
<1>2. /\ buckets' = [buckets EXCEPT ![p] = table]
      /\ disturbed' = disturbed \cup {<<p, b>> : b \in dropped}
                        \cup IF buckets[p][Bucket(r)] = req[r].seen THEN {} ELSE {<<p, Bucket(r)>>}
  BY DEF Store
<1>3. p \in Worker
  BY DEF TypeOK, RequestState
<1>4. ASSUME NEW q \in Worker, NEW b \in Key \X Windows
      PROVE  \/ buckets'[q][b] = buckets[q][b] /\ <<q, b>> # <<p, Bucket(r)>>
             \/ buckets'[q][b] = 0 /\ <<q, b>> \in disturbed'
             \/ /\ q = p /\ b = Bucket(r)
                /\ buckets'[q][b] = req[r].seen + 1
                /\ buckets[q][b] = req[r].seen \/ <<q, b>> \in disturbed'
  <2>1. CASE q # p
    BY <1>2, <1>3, <2>1 DEF TypeOK
  <2>2. CASE q = p /\ b = Bucket(r)
    <3>1. buckets'[q] = table
      BY <1>2, <1>3, <2>2 DEF TypeOK
    <3>2. buckets'[q][b] = req[r].seen + 1
      <4>1. b \notin dropped
        <5>1. b[2] = req[r].win /\ req[r].win \in Nat
          BY <2>2, BucketTyped, EndTyped
        <5>2. QED
          BY <5>1 DEF Outdated
      <4>2. QED
        BY <2>2, <3>1, <4>1
    <3>3. buckets[q][b] = req[r].seen \/ <<q, b>> \in disturbed'
      BY <1>2, <2>2
    <3>4. QED
      BY <2>2, <3>2, <3>3
  <2>3. CASE q = p /\ b # Bucket(r)
    <3>1. buckets'[q] = table
      BY <1>2, <1>3, <2>3 DEF TypeOK
    <3>2. CASE b \in dropped
      BY <1>2, <2>3, <3>1, <3>2
    <3>3. CASE b \notin dropped
      <4>1. buckets'[q][b] = buckets[q][b]
        BY <2>3, <3>1, <3>3
      <4>2. QED
        BY <2>3, <4>1
    <3>4. QED
      BY <3>2, <3>3
  <2>4. QED
    BY <2>1, <2>2, <2>3
<1>5. QED
  BY <1>1, <1>2, <1>4

(* .. and decides by it.                                                   *)
LEMMA DecideMoves ==
  ASSUME TypeOK, NEW r \in Request, Decide(r)
  PROVE  /\ req[r].pc = "decide" /\ SameOwner(r) /\ req'[r].win = req[r].win
         /\ UNCHANGED <<server, counter, buckets, disturbed>>
         /\ req'[r].pc = "done"
         /\ \/ req'[r].by = "error" /\ ~req'[r].ok
            \/ /\ req'[r].by = "memory"
               /\ req'[r].ok <=> buckets[req[r].worker][Bucket(r)] <= server.limit
               /\ buckets[req[r].worker][Bucket(r)] # 0
BY DEF Decide, SameOwner, Answered, WithinLimit, TypeOK, RequestState

(* A worker that is replaced takes its requests along, but those Redis     *)
(* has answered.                                                           *)
LEMMA RestartMoves ==
  ASSUME TypeOK, NEW p \in Worker, Restart(p)
  PROVE  /\ UNCHANGED <<server, counter>>
         /\ \A q \in Request :
              \/ /\ req'[q] = req[q]
                 /\ req[q].worker # p \/ req[q].pc \in {"new", "gone"} \/ req[q].by = "redis"
              \/ /\ req'[q].pc = "gone" /\ req'[q].by = "nobody"
                 /\ req[q].pc # "new" /\ req[q].worker = p
                 /\ req'[q].worker = req[q].worker
                 /\ req'[q].key = req[q].key /\ req'[q].win = req[q].win
         /\ \A b \in Key \X Windows : buckets'[p][b] = 0
         /\ \A q \in Worker \ {p} : buckets'[q] = buckets[q]
         /\ \A q \in Worker, b \in Key \X Windows :
              <<q, b>> \in disturbed' <=> (<<q, b>> \in disturbed /\ q # p)
<1>3. ASSUME NEW q \in Request
      PROVE  \/ /\ req'[q] = req[q]
                /\ req[q].worker # p \/ req[q].pc \in {"new", "gone"} \/ req[q].by = "redis"
             \/ /\ req'[q].pc = "gone" /\ req'[q].by = "nobody"
                /\ req[q].pc # "new" /\ req[q].worker = p
                /\ req'[q].worker = req[q].worker
                /\ req'[q].key = req[q].key /\ req'[q].win = req[q].win
  <2> DEFINE state == [req[q] EXCEPT !.pc = "gone", !.by = "nobody", !.ok = FALSE]
  <2>1. req'[q] = IF /\ req[q].worker = p /\ req[q].pc \notin {"new", "gone"}
                     /\ req[q].by # "redis"
                  THEN state ELSE req[q]
    BY DEF Restart
  <2>2. /\ state.pc = "gone" /\ state.by = "nobody" /\ state.worker = req[q].worker
        /\ state.key = req[q].key /\ state.win = req[q].win
    BY DEF TypeOK, RequestState
  <2> HIDE DEF state
  <2>3. QED
    BY <2>1, <2>2
<1>4. \A b \in Key \X Windows : buckets'[p][b] = 0
  BY DEF Restart, NoBuckets, TypeOK
<1>5. \A q \in Worker \ {p} : buckets'[q] = buckets[q]
  BY DEF Restart, TypeOK
<1>6. \A q \in Worker, b \in Key \X Windows :
        <<q, b>> \in disturbed' <=> (<<q, b>> \in disturbed /\ q # p)
  BY DEF Restart
<1>7. QED
  BY <1>3, <1>4, <1>5, <1>6 DEF Restart

-----------------------------------------------------------------------------
(* A request that one of the others decided on has been answered.          *)
DecidedIsDone == \A r \in Request : req[r].by # "nobody" => req[r].pc = "done"

(* Requests whose hit the dictionary of worker p holds in bucket b.        *)
HasStored(r) == req[r].pc = "decide" \/ req[r].by \in {"memory", "error"}

StoredIn(p, b) == {r \in Request : req[r].worker = p /\ Bucket(r) = b /\ HasStored(r)}

(* As long as no hit of a bucket was lost, it holds their number, and no   *)
(* more of them are admitted than the limit.                               *)
BucketCounts(p, b) ==
  /\ IsFiniteSet(StoredIn(p, b))
  /\ buckets[p][b] = Cardinality(StoredIn(p, b))
  /\ Cardinality(AdmittedByMemory(p, b)) <= server.limit

HitsInv ==
  /\ DecidedIsDone
  /\ \A p \in Worker, b \in Key \X Windows : <<p, b>> \notin disturbed => BucketCounts(p, b)

(* A step that stores nobody's hit and lets nobody in by the dictionary.   *)
LEMMA StoresNothing ==
  ASSUME HitsInv, NEW r \in Request, SameOwner(r),
         UNCHANGED <<server, buckets, disturbed>>,
         req[r].pc \notin {"decide", "done"},
         req'[r].pc # "decide", req'[r].by \notin {"memory", "error"},
         req'[r].by = req[r].by \/ req'[r].pc = "done"
  PROVE  HitsInv'
<1>1. ~HasStored(r) /\ ~HasStored(r)' /\ req[r].by = "nobody"
  BY DEF HitsInv, DecidedIsDone, HasStored
<1>2. ASSUME NEW p \in Worker, NEW b \in Key \X Windows, <<p, b>> \notin disturbed
      PROVE  BucketCounts(p, b)'
  <2>1. \A q \in Request \ {r} : /\ Bucket(q)' = Bucket(q) /\ HasStored(q)' = HasStored(q)
                                 /\ req'[q] = req[q]
    BY DEF SameOwner, Bucket, HasStored
  <2>2. StoredIn(p, b)' = StoredIn(p, b)
    BY <1>1, <2>1 DEF StoredIn
  <2>3. AdmittedByMemory(p, b)' = AdmittedByMemory(p, b)
    BY <1>1, <2>1 DEF AdmittedByMemory
  <2>4. BucketCounts(p, b)
    BY <1>2 DEF HitsInv
  <2>5. QED
    BY <2>2, <2>3, <2>4 DEF BucketCounts
<1>3. DecidedIsDone'
  BY <1>1 DEF HitsInv, DecidedIsDone, SameOwner
<1>4. QED
  BY <1>2, <1>3 DEF HitsInv

(* Writing the bucket adds one hit, if none is lost by it.                 *)
LEMMA StoreCounts ==
  ASSUME TypeOK, HitsInv, NEW r \in Request, Store(r)
  PROVE  HitsInv'
<1>1. /\ req[r].pc = "store" /\ SameOwner(r) /\ req'[r].win = req[r].win
      /\ server' = server
      /\ req'[r].pc = "decide" /\ req'[r].by = req[r].by
      /\ disturbed \subseteq disturbed'
  BY StoreMoves
<1>2. req[r].by = "nobody" /\ ~HasStored(r) /\ HasStored(r)' /\ Bucket(r)' = Bucket(r)
  BY <1>1 DEF HitsInv, DecidedIsDone, HasStored, Bucket, SameOwner
<1>3. \A q \in Request \ {r} : /\ Bucket(q)' = Bucket(q) /\ HasStored(q)' = HasStored(q)
                               /\ req'[q] = req[q]
  BY <1>1 DEF SameOwner, Bucket, HasStored
<1>4. ASSUME NEW p \in Worker, NEW b \in Key \X Windows, <<p, b>> \notin disturbed'
      PROVE  BucketCounts(p, b)'
  <2>1. BucketCounts(p, b)
    BY <1>1, <1>4 DEF HitsInv
  <2>2. AdmittedByMemory(p, b)' = AdmittedByMemory(p, b)
    BY <1>1, <1>2, <1>3 DEF AdmittedByMemory
  <2>3. CASE buckets'[p][b] = buckets[p][b] /\ <<p, b>> # <<req[r].worker, Bucket(r)>>
    <3>1. StoredIn(p, b)' = StoredIn(p, b)
      BY <1>1, <1>2, <1>3, <2>3 DEF StoredIn, SameOwner
    <3>2. QED
      BY <1>1, <2>1, <2>2, <2>3, <3>1 DEF BucketCounts
  <2>4. CASE /\ p = req[r].worker /\ b = Bucket(r)
             /\ buckets'[p][b] = req[r].seen + 1 /\ buckets[p][b] = req[r].seen
    <3>1. StoredIn(p, b)' = StoredIn(p, b) \cup {r}
      BY <1>1, <1>2, <1>3, <2>4 DEF StoredIn, SameOwner
    <3>2. r \notin StoredIn(p, b)
      BY <1>2 DEF StoredIn
    <3>3. /\ IsFiniteSet(StoredIn(p, b)')
          /\ Cardinality(StoredIn(p, b)') = Cardinality(StoredIn(p, b)) + 1
      BY <2>1, <3>1, <3>2, FS_AddElement DEF BucketCounts
    <3>4. QED
      BY <1>1, <2>1, <2>2, <2>4, <3>3 DEF BucketCounts
  <2>5. QED
    BY <1>4, <2>3, <2>4, StoreMoves
<1>5. DecidedIsDone'
  BY <1>1, <1>2 DEF HitsInv, DecidedIsDone, SameOwner
<1>6. QED
  BY <1>4, <1>5 DEF HitsInv

(* Whoever is admitted makes no more than the bucket holds, and it holds   *)
(* no more than the limit then.                                            *)
LEMMA DecideCounts ==
  ASSUME TypeOK, HitsInv, NEW r \in Request, Decide(r)
  PROVE  HitsInv'
<1> DEFINE n == buckets[req[r].worker][Bucket(r)]
<1>1. /\ req[r].pc = "decide" /\ SameOwner(r) /\ req'[r].win = req[r].win
      /\ UNCHANGED <<server, buckets, disturbed>>
      /\ req'[r].pc = "done"
      /\ \/ req'[r].by = "error" /\ ~req'[r].ok
         \/ req'[r].by = "memory" /\ (req'[r].ok <=> n <= server.limit)
  BY DecideMoves
<1>2. HasStored(r) /\ HasStored(r)' /\ Bucket(r)' = Bucket(r)
  BY <1>1 DEF HasStored, Bucket, SameOwner
<1>3. \A q \in Request \ {r} : /\ Bucket(q)' = Bucket(q) /\ HasStored(q)' = HasStored(q)
                               /\ req'[q] = req[q]
  BY <1>1 DEF SameOwner, Bucket, HasStored
<1>4. ASSUME NEW p \in Worker, NEW b \in Key \X Windows, <<p, b>> \notin disturbed
      PROVE  BucketCounts(p, b)'
  <2>1. BucketCounts(p, b)
    BY <1>4 DEF HitsInv
  <2>2. StoredIn(p, b)' = StoredIn(p, b)
    BY <1>1, <1>2, <1>3 DEF StoredIn, SameOwner
  <2>3. Cardinality(AdmittedByMemory(p, b)') <= server.limit
    <3>1. CASE r \in AdmittedByMemory(p, b)'
      <4>1. p = req[r].worker /\ b = Bucket(r) /\ n <= server.limit
        BY <1>1, <1>2, <3>1 DEF AdmittedByMemory, SameOwner
      <4>2. AdmittedByMemory(p, b)' \subseteq StoredIn(p, b)'
        BY DEF AdmittedByMemory, StoredIn, HasStored
      <4>3. Cardinality(AdmittedByMemory(p, b)') <= Cardinality(StoredIn(p, b))
        BY <2>1, <2>2, <4>2, FS_Subset DEF BucketCounts
      <4>4. /\ Cardinality(AdmittedByMemory(p, b)') \in Nat
            /\ Cardinality(StoredIn(p, b)) \in Nat
        BY <2>1, <2>2, <4>2, FS_Subset, FS_CardinalityType DEF BucketCounts
      <4>5. server.limit \in Nat
        BY LimitIsPositive DEF TypeOK
      <4>6. n = Cardinality(StoredIn(p, b))
        BY <2>1, <4>1 DEF BucketCounts
      <4>7. QED
        BY <4>1, <4>3, <4>4, <4>5, <4>6
    <3>2. CASE r \notin AdmittedByMemory(p, b)'
      <4>1. AdmittedByMemory(p, b)' = AdmittedByMemory(p, b)
        <5>1. r \notin AdmittedByMemory(p, b)
          <6>1. req[r].by = "nobody"
            BY <1>1 DEF HitsInv, DecidedIsDone
          <6>2. QED
            BY <6>1 DEF AdmittedByMemory
        <5>2. QED
          BY <1>3, <3>2, <5>1 DEF AdmittedByMemory
      <4>2. QED
        BY <2>1, <4>1 DEF BucketCounts
    <3>3. QED
      BY <3>1, <3>2
  <2>4. QED
    BY <1>1, <2>1, <2>2, <2>3 DEF BucketCounts
<1>5. DecidedIsDone'
  BY <1>1 DEF HitsInv, DecidedIsDone, SameOwner
<1>6. QED
  BY <1>1, <1>4, <1>5 DEF HitsInv

(* A new process starts with empty buckets and nobody's hit in them.       *)
LEMMA RestartCounts ==
  ASSUME TypeOK, HitsInv, NEW p \in Worker, Restart(p)
  PROVE  HitsInv'
<1>1. /\ server' = server
      /\ \A q \in Request :
           \/ /\ req'[q] = req[q]
              /\ req[q].worker # p \/ req[q].pc \in {"new", "gone"} \/ req[q].by = "redis"
           \/ /\ req'[q].pc = "gone" /\ req'[q].by = "nobody"
              /\ req[q].pc # "new" /\ req[q].worker = p
              /\ req'[q].worker = req[q].worker
              /\ req'[q].key = req[q].key /\ req'[q].win = req[q].win
      /\ \A b \in Key \X Windows : buckets'[p][b] = 0
      /\ \A q \in Worker \ {p} : buckets'[q] = buckets[q]
      /\ \A q \in Worker, b \in Key \X Windows :
           <<q, b>> \in disturbed' <=> (<<q, b>> \in disturbed /\ q # p)
  BY RestartMoves
<1>2. DecidedIsDone'
  BY <1>1 DEF HitsInv, DecidedIsDone
<1>3. ASSUME NEW b \in Key \X Windows PROVE BucketCounts(p, b)'
  <2>1. \A q \in Request : req'[q].worker = p => ~HasStored(q)'
    BY <1>1 DEF HitsInv, DecidedIsDone, HasStored
  <2>2. StoredIn(p, b)' = {}
    BY <2>1 DEF StoredIn
  <2>3. AdmittedByMemory(p, b)' = {}
    BY <2>1 DEF AdmittedByMemory, HasStored
  <2>4. server.limit \in Nat
    BY LimitIsPositive DEF TypeOK
  <2>5. QED
    BY <1>1, <2>2, <2>3, <2>4, FS_EmptySet DEF BucketCounts
<1>4. ASSUME NEW q \in Worker \ {p}, NEW b \in Key \X Windows, <<q, b>> \notin disturbed
      PROVE  BucketCounts(q, b)'
  <2>1. BucketCounts(q, b)
    BY <1>4 DEF HitsInv
  <2>2. \A r \in Request : req[r].worker = q \/ req'[r].worker = q => req'[r] = req[r]
    BY <1>1
  <2>3. StoredIn(q, b)' = StoredIn(q, b)
    BY <2>2 DEF StoredIn, HasStored, Bucket
  <2>4. AdmittedByMemory(q, b)' = AdmittedByMemory(q, b)
    BY <2>2 DEF AdmittedByMemory, Bucket
  <2>5. QED
    BY <1>1, <2>1, <2>3, <2>4 DEF BucketCounts
<1>5. QED
  BY <1>1, <1>2, <1>3, <1>4 DEF HitsInv

(* A fresh request is at its start, and nobody has decided on it.          *)
LEMMA FreshRequests ==
  ASSUME Init, NEW r \in Request
  PROVE  req[r].pc = "new" /\ req[r].by = "nobody" /\ req[r].seen = 0
<1> DEFINE Fresh == {[pc |-> "new", worker |-> p, key |-> k, win |-> 0, order |-> 0,
                      seen |-> 0, late |-> FALSE, ok |-> FALSE,
                      by |-> "nobody"] : p \in Worker, k \in Key}
<1>1. req \in [Request -> Fresh]
  BY DEF Init
<1>2. \A f \in Fresh : f.pc = "new" /\ f.by = "nobody" /\ f.seen = 0
  OBVIOUS
<1> HIDE DEF Fresh
<1>3. QED
  BY <1>1, <1>2

(* Buckets in which no hit was lost hold their number.                     *)
THEOREM HitsCorrect == Spec => []HitsInv
<1>1. Init => HitsInv
  <2> SUFFICES ASSUME Init PROVE HitsInv
    OBVIOUS
  <2>1. \A r \in Request : req[r].pc = "new" /\ req[r].by = "nobody"
    BY FreshRequests
  <2>2. \A p \in Worker, b \in Key \X Windows : StoredIn(p, b) = {} /\ AdmittedByMemory(p, b) = {}
    BY <2>1 DEF StoredIn, HasStored, AdmittedByMemory
  <2>3. \A p \in Worker, b \in Key \X Windows : buckets[p][b] = 0
    BY DEF Init, NoBuckets
  <2>4. server.limit \in Nat
    BY LimitIsPositive DEF Init
  <2>5. QED
    BY <2>1, <2>2, <2>3, <2>4, FS_EmptySet DEF HitsInv, DecidedIsDone, BucketCounts
<1>2. TypeOK /\ HitsInv /\ [Next]_vars => HitsInv'
  <2> SUFFICES ASSUME TypeOK, HitsInv, [Next]_vars PROVE HitsInv'
    OBVIOUS
  <2>1. CASE UNCHANGED <<server, buckets, disturbed, req>>
    <3>1. \A p, b : StoredIn(p, b)' = StoredIn(p, b) /\ AdmittedByMemory(p, b)' = AdmittedByMemory(p, b)
      BY <2>1 DEF StoredIn, HasStored, Bucket, AdmittedByMemory
    <3>2. QED
      BY <2>1, <3>1 DEF HitsInv, DecidedIsDone, BucketCounts
  <2>2. ASSUME NEW p \in Worker, Restart(p) PROVE HitsInv'
    BY <2>2, RestartCounts
  <2>3. ASSUME NEW r \in Request, Arrive(r) PROVE HitsInv'
    BY <2>3, ArriveMoves, StoresNothing DEF HitsInv, DecidedIsDone
  <2>4. ASSUME NEW r \in Request, Incr(r) PROVE HitsInv'
    BY <2>4, IncrMoves, StoresNothing DEF HitsInv, DecidedIsDone
  <2>5. ASSUME NEW r \in Request, Expire(r) PROVE HitsInv'
    BY <2>5, ExpireMoves, StoresNothing DEF HitsInv, DecidedIsDone
  <2>6. ASSUME NEW r \in Request, RedisFails(r) PROVE HitsInv'
    BY <2>6, RedisFailsMoves, StoresNothing DEF HitsInv, DecidedIsDone
  <2>7. ASSUME NEW r \in Request, Read(r) PROVE HitsInv'
    BY <2>7, ReadMoves, StoresNothing DEF HitsInv, DecidedIsDone
  <2>8. ASSUME NEW r \in Request, Store(r) \/ Decide(r) PROVE HitsInv'
    BY <2>8, StoreCounts, DecideCounts
  <2>9. QED
    BY <2>1, <2>2, <2>3, <2>4, <2>5, <2>6, <2>7, <2>8 DEF Next, Tick, vars
<1>3. QED
  BY <1>1, <1>2, TypeCorrect, PTL DEF Spec

(* However its threads race and whenever it is replaced, a worker that     *)
(* counts for itself admits more than the limit only where a hit was lost. *)
THEOREM LostHitsCorrect == Spec => []OverLimitOnlyByLostHits
<1>1. HitsInv => OverLimitOnlyByLostHits
  BY DEF HitsInv, BucketCounts, OverLimitOnlyByLostHits
<1>2. QED
  BY <1>1, HitsCorrect, PTL

-----------------------------------------------------------------------------
(* Who made the hits a request may be refused for.  OfCaller: r is of the  *)
(* caller of bucket b, and in its window or a later one.                   *)
OfCaller(r, b) == req[r].key = b[1] /\ req[r].win >= b[2]

(* r has called Redis, or has written its worker's dictionary.             *)
Called(r, b) == OfCaller(r, b) /\ req[r].pc \notin {"new", "incr"}
Landed(r, b) == OfCaller(r, b) /\ req[r].pc \in {"decide", "done", "gone"}

(* Where a hit is counted there is a request that made it, and where two   *)
(* are, there are two; also in what a thread has read and not yet written. *)
CallsInv ==
  \A b \in Key \X Windows : counter[b].count > 0 => \E r \in Request : Called(r, b)

BucketsInv ==
  /\ \A p \in Worker, b \in Key \X Windows :
       /\ buckets[p][b] > 0 => \E r \in Request : Landed(r, b)
       /\ buckets[p][b] > 1 => \E r, q \in Request : r # q /\ Landed(r, b) /\ Landed(q, b)
  /\ \A r \in Request :
       req[r].pc = "store" /\ req[r].seen > 0 => \E q \in Request : Landed(q, Bucket(r))

CauseInv == CallsInv /\ BucketsInv /\ RefusedForCause

(* A request never goes back: its window moves on only while it has not    *)
(* written the dictionary, and a later time is in no earlier window.       *)
Advances(r) ==
  /\ req'[r].key = req[r].key
  /\ req[r].pc # "new" => req'[r].pc # "new" /\ req'[r].win >= req[r].win
  /\ req[r].pc \notin {"new", "incr"} => req'[r].pc \notin {"new", "incr"}
  /\ req[r].pc \in {"decide", "done", "gone"} => req'[r].pc \in {"decide", "done", "gone"}

(* The windows go in the order of their times.                             *)
LEMMA WindowNotLater ==
  ASSUME TypeOK, NEW r \in Request, req[r].win * Window <= now
  PROVE  req[r].win <= ThisWindow
<1>1. req[r].win \in Nat /\ now \in Nat /\ Window \in Nat \ {0}
  <2>1. req[r].win \in Nat
    BY BucketTyped, EndTyped
  <2>2. QED
    BY <2>1, RateAssumption DEF TypeOK
<1>2. ASSUME NEW v \in Nat, NEW t \in Nat, NEW w \in Nat \ {0}, v * w <= t
      PROVE  v <= t \div w
  <2>1. t \div w \in Int /\ t < (t \div w) * w + w
    OBVIOUS
  <2>2. ASSUME NEW d \in Int, t < d * w + w PROVE v <= d
    <3>1. CASE v >= d + 1
      <4>1. (d + 1) * w <= v * w
        BY <3>1
      <4>2. (d + 1) * w = d * w + w
        OBVIOUS
      <4>3. QED
        BY <1>2, <2>2, <4>1, <4>2
    <3>2. QED
      BY <3>1
  <2>3. QED
    BY <2>1, <2>2
<1>3. QED
  BY <1>1, <1>2 DEF ThisWindow

(* What a step does to the requests: all of them advance.                  *)
LEMMA RequestsAdvance ==
  ASSUME TypeOK, NumberInv, [Next]_vars, NEW q \in Request
  PROVE  Advances(q)
<1>1. req[q].win \in Nat
  BY BucketTyped, EndTyped
<1>2. CASE req'[q] = req[q]
  BY <1>1, <1>2 DEF Advances
<1>3. ASSUME NEW p \in Worker, Restart(p) PROVE Advances(q)
  BY <1>1, <1>3, RestartMoves DEF Advances
<1>4. CASE Arrive(q)
  BY <1>4, ArriveMoves DEF Advances, SameOwner
<1>5. CASE Incr(q)
  BY <1>1, <1>5, IncrMoves DEF Advances, SameOwner
<1>6. CASE Expire(q)
  BY <1>1, <1>6, ExpireMoves DEF Advances, SameOwner
<1>7. CASE RedisFails(q)
  <2>1. req[q].pc \in {"incr", "expire"} => req[q].win <= ThisWindow
    BY WindowNotLater DEF NumberInv, Sound
  <2>2. QED
    BY <1>1, <1>7, <2>1, RedisFailsMoves DEF Advances, SameOwner
<1>8. CASE Read(q)
  BY <1>1, <1>8, ReadMoves DEF Advances, SameOwner
<1>9. CASE Store(q)
  BY <1>1, <1>9, StoreMoves DEF Advances, SameOwner
<1>10. CASE Decide(q)
  BY <1>1, <1>10, DecideMoves DEF Advances, SameOwner
<1>11. ASSUME NEW r \in Request, r # q,
              Arrive(r) \/ Incr(r) \/ Expire(r) \/ RedisFails(r)
                \/ Read(r) \/ Store(r) \/ Decide(r)
       PROVE  req'[q] = req[q]
  BY <1>11, ArriveMoves, IncrMoves, ExpireMoves, RedisFailsMoves,
     ReadMoves, StoreMoves, DecideMoves DEF SameOwner
<1>12. QED
  BY <1>2, <1>3, <1>4, <1>5, <1>6, <1>7, <1>8, <1>9, <1>10, <1>11 DEF Next, Tick, vars

(* Hence whoever has made a hit stays one who has.                         *)
LEMMA HitsStay ==
  ASSUME TypeOK, TypeOK', NEW r \in Request, Advances(r), NEW b \in Key \X Windows
  PROVE  /\ Called(r, b) => Called(r, b)'
         /\ Landed(r, b) => Landed(r, b)'
<1>1. req[r].win \in Nat /\ b[2] \in Nat
  BY BucketTyped, EndTyped
<1>2. req'[r].win \in Nat
  BY DEF TypeOK, RequestState, Windows
<1>3. QED
  BY <1>1, <1>2 DEF Advances, Called, Landed, OfCaller

(* A counter that goes up does so by a request that has called Redis.      *)
LEMMA CallsStep ==
  ASSUME TypeOK, TypeOK', NumberInv, CallsInv, [Next]_vars
  PROVE  CallsInv'
<1> SUFFICES ASSUME NEW b \in Key \X Windows, counter'[b].count > 0
             PROVE  \E r \in Request : Called(r, b)'
  BY DEF CallsInv
<1>1. ASSUME counter[b].count > 0 PROVE \E r \in Request : Called(r, b)'
  BY <1>1, RequestsAdvance, HitsStay DEF CallsInv
<1>2. ASSUME NEW r \in Request, Incr(r) \/ RedisFails(r), req[r].pc = "incr",
             counter' = Counted(Bucket(r))
      PROVE  counter[b].count > 0 \/ Called(r, b)'
  <2>1. CASE b = Bucket(r)
    <3>1. req'[r].pc \notin {"new", "incr"}
      BY <1>2, IncrMoves, RedisFailsMoves
    <3>2. req'[r].key = b[1] /\ req'[r].win >= b[2]
      BY <1>2, <2>1, RequestsAdvance DEF Advances, Bucket
    <3>3. QED
      BY <3>1, <3>2 DEF Called, OfCaller
  <2>2. CASE b # Bucket(r)
    BY <1>2, <2>2, BucketTyped, CountedTyped
  <2>3. QED
    BY <2>1, <2>2
<1>3. ASSUME NEW r \in Request, counter' = [counter EXCEPT ![Bucket(r)].until = KeepUntil(now)]
      PROVE  counter[b].count > 0
  BY <1>3, BucketTyped, ExpiryTyped
<1>4. CASE counter' = counter
  BY <1>1, <1>4
<1>5. ASSUME NEW r \in Request, Incr(r) PROVE \E q \in Request : Called(q, b)'
  BY <1>1, <1>2, <1>5, IncrMoves
<1>6. ASSUME NEW r \in Request, Expire(r) PROVE \E q \in Request : Called(q, b)'
  BY <1>1, <1>3, <1>6, ExpireMoves
<1>7. ASSUME NEW r \in Request, RedisFails(r) PROVE \E q \in Request : Called(q, b)'
  BY <1>1, <1>2, <1>3, <1>4, <1>7, RedisFailsMoves
<1>8. QED
  BY <1>4, <1>5, <1>6, <1>7 DEF Next, Tick, Restart, Arrive, Read, Store, Decide, vars

(* A bucket that holds two hits has been written by two.                   *)
LEMMA BucketsStep ==
  ASSUME TypeOK, TypeOK', NumberInv, BucketsInv, [Next]_vars
  PROVE  BucketsInv'
<1>1. \A b \in Key \X Windows, r \in Request : Landed(r, b) => Landed(r, b)'
  BY RequestsAdvance, HitsStay
<1>2. ASSUME NEW p \in Worker, NEW b \in Key \X Windows,
             buckets'[p][b] = buckets[p][b] \/ buckets'[p][b] = 0
      PROVE  /\ buckets'[p][b] > 0 => \E r \in Request : Landed(r, b)'
             /\ buckets'[p][b] > 1 =>
                  \E r, q \in Request : r # q /\ Landed(r, b)' /\ Landed(q, b)'
  BY <1>1, <1>2 DEF BucketsInv
<1>3. ASSUME NEW r \in Request, req'[r] = req[r], req'[r].pc = "store", req'[r].seen > 0
      PROVE  \E q \in Request : Landed(q, Bucket(r))'
  <2>1. Bucket(r)' = Bucket(r) /\ Bucket(r) \in Key \X Windows
    BY <1>3, BucketTyped DEF Bucket
  <2>2. \E q \in Request : Landed(q, Bucket(r))
    BY <1>3 DEF BucketsInv
  <2>3. PICK q \in Request : Landed(q, Bucket(r))
    BY <2>2
  <2>4. Landed(q, Bucket(r))' <=> (req'[q].key = Bucket(r)'[1] /\ req'[q].win >= Bucket(r)'[2]
                                   /\ req'[q].pc \in {"decide", "done", "gone"})
    BY DEF Landed, OfCaller
  <2>5. \A b \in Key \X Windows : Landed(q, b) =>
          (req'[q].key = b[1] /\ req'[q].win >= b[2] /\ req'[q].pc \in {"decide", "done", "gone"})
    BY <1>1 DEF Landed, OfCaller
  <2>6. QED
    BY <2>1, <2>3, <2>4, <2>5
<1>4. CASE UNCHANGED <<buckets, req>>
  BY <1>2, <1>3, <1>4 DEF BucketsInv
<1>5. ASSUME NEW r \in Request, SameOwner(r), buckets' = buckets, req'[r].pc # "store"
      PROVE  BucketsInv'
  BY <1>2, <1>3, <1>5 DEF BucketsInv, SameOwner
<1>6. ASSUME NEW p \in Worker, Restart(p) PROVE BucketsInv'
  <2>1. \A r \in Request : req'[r].pc = "store" => req'[r] = req[r]
    BY <1>6, RestartMoves
  <2>2. \A q \in Worker, b \in Key \X Windows :
          buckets'[q][b] = buckets[q][b] \/ buckets'[q][b] = 0
    BY <1>6, RestartMoves
  <2>3. QED
    BY <1>2, <1>3, <2>1, <2>2 DEF BucketsInv
<1>7. ASSUME NEW r \in Request, Read(r) PROVE BucketsInv'
  <2>1. /\ SameOwner(r) /\ buckets' = buckets /\ req'[r].win = req[r].win
        /\ req'[r].seen = buckets[req[r].worker][Bucket(r)]
    BY <1>7, ReadMoves
  <2>2. Bucket(r)' = Bucket(r) /\ Bucket(r) \in Key \X Windows /\ req[r].worker \in Worker
    BY <2>1, BucketTyped DEF Bucket, SameOwner, RequestState
  <2>3. ASSUME req'[r].seen > 0 PROVE \E q \in Request : Landed(q, Bucket(r))'
    <3>1. PICK q \in Request : Landed(q, Bucket(r))
      BY <2>1, <2>2, <2>3 DEF BucketsInv
    <3>2. Landed(q, Bucket(r))' <=> (req'[q].key = Bucket(r)'[1] /\ req'[q].win >= Bucket(r)'[2]
                                     /\ req'[q].pc \in {"decide", "done", "gone"})
      BY DEF Landed, OfCaller
    <3>3. \A b \in Key \X Windows : Landed(q, b) =>
            (req'[q].key = b[1] /\ req'[q].win >= b[2] /\ req'[q].pc \in {"decide", "done", "gone"})
      BY <1>1 DEF Landed, OfCaller
    <3>4. QED
      BY <2>2, <3>1, <3>2, <3>3
  <2>4. QED
    BY <1>2, <1>3, <2>1, <2>3 DEF BucketsInv, SameOwner
<1>8. ASSUME NEW r \in Request, Store(r) PROVE BucketsInv'
  <2>1. /\ req[r].pc = "store" /\ SameOwner(r) /\ req'[r].win = req[r].win
        /\ req'[r].pc = "decide" /\ req[r].seen \in Nat
        /\ Bucket(r) \in Key \X Windows
    BY <1>8, StoreMoves, BucketTyped DEF RequestState
  <2>2. ASSUME NEW p \in Worker, NEW b \in Key \X Windows,
               b = Bucket(r), buckets'[p][b] = req[r].seen + 1
        PROVE  /\ \E q \in Request : Landed(q, b)'
               /\ buckets'[p][b] > 1 =>
                    \E x, y \in Request : x # y /\ Landed(x, b)' /\ Landed(y, b)'
    <3>1. Landed(r, b)'
      <4>1. req'[r].key = b[1] /\ req'[r].win >= b[2]
        BY <2>1, <2>2, EndTyped DEF Bucket, SameOwner
      <4>2. QED
        BY <2>1, <4>1 DEF Landed, OfCaller
    <3>2. ASSUME buckets'[p][b] > 1
          PROVE  \E q \in Request : q # r /\ Landed(q, b)'
      <4>1. req[r].seen > 0
        BY <2>1, <2>2, <3>2
      <4>2. PICK q \in Request : Landed(q, b)
        BY <2>1, <2>2, <4>1 DEF BucketsInv
      <4>3. q # r
        BY <2>1, <4>2 DEF Landed
      <4>4. QED
        BY <1>1, <4>2, <4>3
    <3>3. QED
      BY <3>1, <3>2
  <2>3. \A p \in Worker, b \in Key \X Windows :
          /\ buckets'[p][b] > 0 => \E q \in Request : Landed(q, b)'
          /\ buckets'[p][b] > 1 => \E x, y \in Request : x # y /\ Landed(x, b)' /\ Landed(y, b)'
    <3> SUFFICES ASSUME NEW p \in Worker, NEW b \in Key \X Windows
                 PROVE  /\ buckets'[p][b] > 0 => \E q \in Request : Landed(q, b)'
                        /\ buckets'[p][b] > 1 =>
                             \E x, y \in Request : x # y /\ Landed(x, b)' /\ Landed(y, b)'
      OBVIOUS
    <3>1. \/ buckets'[p][b] = buckets[p][b]
          \/ buckets'[p][b] = 0
          \/ b = Bucket(r) /\ buckets'[p][b] = req[r].seen + 1
      BY <1>8, StoreMoves
    <3>2. QED
      BY <1>2, <2>2, <3>1
  <2>4. QED
    BY <1>3, <2>1, <2>3 DEF BucketsInv, SameOwner
<1>9. QED
  <2>1. ASSUME NEW r \in Request, Arrive(r) \/ Incr(r) \/ Expire(r) \/ RedisFails(r) \/ Decide(r)
        PROVE  BucketsInv'
    BY <1>5, <2>1, ArriveMoves, IncrMoves, ExpireMoves, RedisFailsMoves, DecideMoves
  <2>2. QED
    BY <1>4, <1>6, <1>7, <1>8, <2>1 DEF Next, Tick, vars

(* A refusal has its cause, when it is made and ever after.                *)
LEMMA CauseStep ==
  ASSUME TypeOK, TypeOK', NumberInv, HitsInv, CallsInv, BucketsInv, RefusedForCause,
         [Next]_vars
  PROVE  RefusedForCause'
<1> DEFINE Refused429(r) == req[r].by \in {"redis", "memory", "unavailable"} /\ ~req[r].ok
           Company(r) == \E other \in Request \ {r} :
             req[other].pc # "new" /\ req[other].key = req[r].key /\ req[other].win >= req[r].win
           Cause(r) == (req[r].by = "unavailable" /\ FailsClosed) \/ Company(r)
<1> SUFFICES ASSUME NEW r \in Request, Refused429(r)' PROVE Cause(r)'
  BY DEF RefusedForCause
<1>1. ASSUME NEW q \in Request
      PROVE  Advances(q) /\ req[q].win \in Nat /\ req'[q].win \in Nat
  <2>1. req[q].win \in Nat /\ req'[q].win \in Nat
    BY DEF TypeOK, RequestState, Windows
  <2>2. QED
    BY <2>1, RequestsAdvance
<1>2. server' = server /\ (FailsClosed' <=> FailsClosed)
  BY ArriveMoves, IncrMoves, ExpireMoves, RedisFailsMoves, ReadMoves, StoreMoves,
     DecideMoves, RestartMoves DEF Next, Tick, vars, FailsClosed
<1>3. CASE req'[r] = req[r]
  <2>1. Cause(r)
    BY <1>3 DEF RefusedForCause
  <2>2. Company(r) => Company(r)'
    BY <1>1, <1>3 DEF Advances
  <2>3. QED
    BY <1>2, <1>3, <2>1, <2>2
<1>4. ASSUME NEW b \in Key \X Windows, b = Bucket(r), SameOwner(r), req'[r].win = req[r].win,
             \E q \in Request \ {r} : Called(q, b) \/ Landed(q, b)
      PROVE  Company(r)'
  <2>1. PICK q \in Request \ {r} : Called(q, b) \/ Landed(q, b)
    BY <1>4
  <2>2. req[q].pc # "new" /\ req[q].key = req[r].key /\ req[q].win >= req[r].win
    BY <1>4, <2>1 DEF Called, Landed, OfCaller, Bucket
  <2>3. req'[q] = req[q] /\ req'[r].key = req[r].key
    BY <1>4 DEF SameOwner
  <2>4. QED
    BY <1>4, <2>2, <2>3
<1>5. CASE Incr(r)
  <2>1. req[r].by = "nobody"
    BY <1>5, IncrMoves DEF NumberInv, Sound
  <2>2. Kept(Bucket(r)).count > 0
    BY <1>5, <2>1, IncrMoves
  <2>3. counter[Bucket(r)].count > 0
    BY <2>2 DEF Kept, NoCounter
  <2>4. PICK q \in Request : Called(q, Bucket(r))
    BY <2>3, BucketTyped DEF CallsInv
  <2>5. q # r
    BY <1>5, <2>4, IncrMoves DEF Called
  <2>6. Bucket(r) \in Key \X Windows /\ SameOwner(r) /\ req'[r].win = req[r].win
    BY <1>5, BucketTyped, IncrMoves
  <2>7. \E o \in Request \ {r} : Called(o, Bucket(r)) \/ Landed(o, Bucket(r))
    BY <2>4, <2>5
  <2>8. Company(r)'
    BY <1>4, <2>6, <2>7
  <2>9. QED
    BY <2>8
<1>6. CASE Decide(r)
  <2> DEFINE n == buckets[req[r].worker][Bucket(r)]
  <2>1. n \in Nat /\ n # 0 /\ ~(n <= server.limit)
    <3>1. n \in Nat
      <4>1. req[r].worker \in Worker /\ Bucket(r) \in Key \X Windows
        BY BucketTyped DEF RequestState
      <4>2. QED
        BY <4>1 DEF TypeOK
    <3>2. n # 0 /\ ~(n <= server.limit)
      BY <1>6, DecideMoves
    <3>3. QED
      BY <3>1, <3>2
  <2>2. server.limit \in Nat \ {0}
    BY LimitIsPositive DEF TypeOK
  <2>3. n > 1
    BY <2>1, <2>2
  <2>4. PICK x, y \in Request : x # y /\ Landed(x, Bucket(r)) /\ Landed(y, Bucket(r))
    BY <2>3, BucketTyped DEF BucketsInv, RequestState
  <2>5. \E q \in Request \ {r} : Landed(q, Bucket(r))
    BY <2>4
  <2>6. QED
    BY <1>4, <1>6, <2>5, BucketTyped, DecideMoves
<1>7. CASE RedisFails(r)
  <2>1. req[r].by = "nobody"
    BY <1>7, RedisFailsMoves DEF NumberInv, Sound
  <2>2. QED
    BY <1>2, <1>7, <2>1, RedisFailsMoves
<1>8. CASE Arrive(r) \/ Expire(r) \/ Read(r) \/ Store(r)
  <2>1. req[r].by = "nobody"
    BY <1>8, ArriveMoves, ExpireMoves, ReadMoves, StoreMoves DEF HitsInv, DecidedIsDone
  <2>2. QED
    BY <1>8, <2>1, ArriveMoves, ExpireMoves, ReadMoves, StoreMoves
<1>9. ASSUME NEW p \in Worker, Restart(p) PROVE Cause(r)'
  BY <1>3, <1>9, RestartMoves
<1>10. ASSUME NEW q \in Request, q # r,
              Arrive(q) \/ Incr(q) \/ Expire(q) \/ RedisFails(q)
                \/ Read(q) \/ Store(q) \/ Decide(q)
       PROVE  req'[r] = req[r]
  BY <1>10, ArriveMoves, IncrMoves, ExpireMoves, RedisFailsMoves,
     ReadMoves, StoreMoves, DecideMoves DEF SameOwner
<1>11. CASE UNCHANGED req
  BY <1>3, <1>11
<1> HIDE DEF Cause, Refused429
<1>12. QED
  BY <1>3, <1>5, <1>6, <1>7, <1>8, <1>9, <1>10, <1>11 DEF Next, Tick, vars

(* The inductive invariant of refusals: hits have been made by requests.   *)
THEOREM CauseCorrect == Spec => []CauseInv
<1>1. Init => CauseInv
  <2> SUFFICES ASSUME Init PROVE CauseInv
    OBVIOUS
  <2>1. \A r \in Request : req[r].pc = "new" /\ req[r].by = "nobody" /\ req[r].seen = 0
    BY FreshRequests
  <2>2. CallsInv
    BY DEF Init, NoCounter, CallsInv
  <2>3. BucketsInv
    BY <2>1 DEF Init, NoBuckets, BucketsInv
  <2>4. RefusedForCause
    BY <2>1 DEF RefusedForCause
  <2>5. QED
    BY <2>2, <2>3, <2>4 DEF CauseInv
<1>2. TypeOK /\ TypeOK' /\ NumberInv /\ HitsInv /\ CauseInv /\ [Next]_vars => CauseInv'
  BY CallsStep, BucketsStep, CauseStep DEF CauseInv
<1>3. QED
  BY <1>1, <1>2, TypeCorrect, NumberCorrect, HitsCorrect, PTL DEF Spec

(* Whatever fails and however requests race, nobody is refused for nothing:*)
(* without a failure of Redis, another request of the same caller was      *)
(* counted.                                                                *)
THEOREM RefusedCorrect == Spec => []RefusedForCause
  BY CauseCorrect, PTL DEF CauseInv
=============================================================================
