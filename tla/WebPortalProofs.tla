-------------------------- MODULE WebPortalProofs --------------------------
(***************************************************************************)
(* Proofs about WebPortal, for any number of sessions, token pairs and     *)
(* requests in flight.                                                     *)
(***************************************************************************)
EXTENDS WebPortal, TLAPS

(* A pair somebody has was issued, for a session that was opened. *)
Known(t) == t # Empty => t.jti \in used /\ phase[t.sid] # "absent"

(* The refresh token of t will not be taken again, unless t's session is   *)
(* one of those given up.                                                  *)
Spent(t) == t # Empty =>
  t.sid \in forfeited \/ phase[t.sid] = "revoked" \/ live[t.sid] # t.jti

WithSession == {"ask", "refresh", "rotate", "retry", "revoke"}
Unanswered == WithSession \cup {"idle", "exchange"}

(* What holds of each request, whoever else is there. *)
CallOK(c) ==
  /\ call[c].pc \in WithSession => call[c].held # Empty
  /\ call[c].pc = "exchange" => call[c].held = Empty
  /\ call[c].pc \in Unanswered => call[c].ran = 0
  /\ call[c].ran <= 1
  /\ Known(call[c].held) /\ Known(call[c].fresh)
  /\ call[c].pc = "retry" => /\ call[c].fresh.sid = call[c].held.sid
                             /\ call[c].fresh.jti \notin lapsed
  /\ call[c].pc \in {"retry", "apply", "clear", "signedout"} => Spent(call[c].held)

(* After a sign-out there are no cookies, and what the service was told of *)
(* it has revoked.                                                         *)
OutOK ==
  /\ Known(jar)
  /\ out => jar = Empty
  /\ \A s \in ended : phase[s] = "revoked"
  /\ \A c \in late : /\ call[c].pc # "idle" /\ call[c].ran = 0
                     /\ call[c].held = Empty \/ call[c].held.sid \in ended

PortalInv == TypeOK /\ (\A c \in Call : CallOK(c)) /\ OutOK /\ Custody

(* What no step undoes. *)
Onward ==
  /\ used \subseteq used' /\ forfeited \subseteq forfeited'
  /\ \A s \in Session :
       /\ phase[s] = "revoked" => phase'[s] = "revoked"
       /\ phase[s] # "absent" => phase'[s] # "absent"
       /\ \A j \in used : live'[s] = j => live[s] = j

-----------------------------------------------------------------------------
(* The service's own steps. *)

(* A sign-in issues one pair nobody had, and opens its session.            *)
LEMMA OpenIssues ==
  ASSUME NEW s \in Session, Service!Open(s)
  PROVE  \E j \in Jti \ used : /\ used' = used \cup {j} /\ used' \ used = {j}
                               /\ phase[s] = "absent"
                               /\ phase' = [phase EXCEPT ![s] = "active"]
                               /\ live' = [live EXCEPT ![s] = j]
BY DEF Service!Open

(* So does the commit of a refresh, for a session already open; a revoked  *)
(* one is left as it is.                                                   *)
LEMMA RefreshIssues ==
  ASSUME NEW s \in Session, RefreshCommits(s)
  PROVE  \E j \in Jti \ used : /\ used' = used \cup {j} /\ used' \ used = {j}
                               /\ phase' = phase
                               /\ \/ /\ phase[s] = "active"
                                     /\ live' = [live EXCEPT ![s] = j]
                                  \/ phase[s] = "revoked" /\ live' = live
BY DEF RefreshCommits, Service!Rotate, Service!Waste

(* No pair is mistaken for the absence of one. *)
LEMMA NoEmptyToken == \A t \in Token : t # Empty
BY PortalAssumption DEF Token

(* A request in flight has a record of the right type. *)
LEMMA CallTyped ==
  ASSUME TypeOK, NEW c \in Call
  PROVE  /\ call[c] \in CallState
         /\ call[c].held # Empty => call[c].held \in Token
         /\ call[c].held # Empty => call[c].held.sid \in Session /\ call[c].held.jti \in Jti
         /\ call[c].fresh # Empty => call[c].fresh \in Token
         /\ call[c].fresh # Empty => call[c].fresh.sid \in Session /\ call[c].fresh.jti \in Jti
BY DEF TypeOK, CallState, Token

-----------------------------------------------------------------------------
(* One step: types. *)

(* The session of a pair, if there is one, is a session.                   *)
LEMMA SidsTyped ==
  ASSUME NEW t \in Token \cup {Empty}
  PROVE  SidsOf(t) \subseteq Session
BY DEF SidsOf, Token

(* Every operation writes values of the right type.                        *)
LEMMA TypeStep ==
  ASSUME PortalInv, [Next]_vars
  PROVE  TypeOK'
<1> USE PortalAssumption, NoEmptyToken
<1>0. TypeOK /\ \A c \in Call : CallOK(c)
  BY DEF PortalInv
<1>1. ASSUME NEW c \in Call, NEW pc \in {"clear", "ask", "exchange", "signedout", "revoke"},
             NEW t \in Token \cup {Empty}, Send(c, pc, t)
      PROVE  TypeOK'
  BY <1>0, <1>1 DEF Send, TypeOK, CallState, Stage, Idle, service, browser
<1>2. ASSUME NEW c \in Call, SendProxied(c) \/ SendSignIn(c) \/ SendSignOut(c) PROVE TypeOK'
  BY <1>0, <1>1, <1>2 DEF SendProxied, SendSignIn, SendSignOut, ReadPortalSession, TypeOK
<1>3. ASSUME NEW c \in Call, Ask(c) \/ AskFails(c) PROVE TypeOK'
  <2>1. call[c] \in CallState /\ call[c].ran = 0
    BY <1>0, <1>3 DEF Ask, AskFails, TypeOK, CallOK, WithSession, Unanswered
  <2>2. call' \in [Call -> CallState]
    BY <1>0, <1>3, <2>1 DEF Ask, AskFails, Ran, Goto, TypeOK, CallState, Stage
  <2>3. \A d \in Call : call'[d].pc \in {"retry", "apply"} => call'[d].fresh # Empty
    BY <1>0, <1>3, <2>1 DEF Ask, AskFails, Ran, Goto, TypeOK, CallState
  <2>4. UNCHANGED <<phase, live, used, lapsed, jar, access, out, ended, late, forfeited>>
    BY <1>3 DEF Ask, AskFails, service, browser, history
  <2>5. QED
    BY <1>0, <2>2, <2>3, <2>4 DEF TypeOK
<1>4. ASSUME NEW c \in Call, Retry(c) \/ RetryFails(c) PROVE TypeOK'
  <2>1. /\ call[c] \in CallState /\ call[c].ran = 0
        /\ call[c].fresh # Empty /\ call[c].held \in Token
    BY <1>0, <1>4, CallTyped DEF Retry, RetryFails, TypeOK, CallOK, WithSession, Unanswered
  <2>2. call' \in [Call -> CallState]
    BY <1>0, <1>4, <2>1 DEF Retry, RetryFails, Ran, Goto, TypeOK, CallState, Stage
  <2>3. \A d \in Call : call'[d].pc \in {"retry", "apply"} => call'[d].fresh # Empty
    BY <1>0, <1>4, <2>1 DEF Retry, RetryFails, Ran, Goto, TypeOK, CallState
  <2>4. QED
    BY <1>0, <1>4, <2>1, <2>2, <2>3
       DEF Retry, RetryFails, TypeOK, Token, service, browser, history
<1>5. ASSUME NEW c \in Call, CheckRefresh(c) PROVE TypeOK'
  BY <1>0, <1>5 DEF CheckRefresh, Goto, TypeOK, CallState, Stage, service, browser, history
<1>6. ASSUME NEW c \in Call, CommitRefresh(c) PROVE TypeOK'
  <2>1. call[c] \in CallState /\ call[c].held.sid \in Session
    BY <1>0, <1>6, CallTyped DEF CommitRefresh, CallOK, WithSession
  <2> DEFINE s == call[c].held.sid
  <2>2. PICK j \in Jti \ used : /\ used' = used \cup {j} /\ used' \ used = {j}
                                /\ phase' = phase
                                /\ \/ /\ phase[s] = "active"
                                      /\ live' = [live EXCEPT ![s] = j]
                                   \/ phase[s] = "revoked" /\ live' = live
    BY <1>6, <2>1, RefreshIssues DEF CommitRefresh
  <2>3. call' = [call EXCEPT ![c].pc = "retry", ![c].fresh = [sid |-> s, jti |-> j]]
    BY <1>6, <2>2 DEF CommitRefresh
  <2>4. [sid |-> s, jti |-> j] \in Token
    BY <2>1 DEF Token
  <2>5. call' \in [Call -> CallState]
    BY <1>0, <2>1, <2>3, <2>4 DEF TypeOK, CallState, Stage
  <2>6. QED
    BY <1>0, <1>6, <2>1, <2>2, <2>3, <2>4, <2>5
       DEF CommitRefresh, TypeOK, CallState, browser, history
<1>7. ASSUME NEW c \in Call, RefreshFails(c) PROVE TypeOK'
  <2>1. call[c] \in CallState /\ call[c].held.sid \in Session
    BY <1>0, <1>7, CallTyped DEF RefreshFails, CallOK, WithSession
  <2>2. /\ phase' \in [Session -> {"absent", "active", "revoked"}]
        /\ live' \in [Session -> Jti \cup {NoJti}]
        /\ used' \subseteq Jti /\ used \subseteq used'
    BY <1>0, <1>7, <2>1, RefreshIssues DEF RefreshFails, TypeOK, service
  <2>3. QED
    BY <1>0, <1>7, <2>1, <2>2 DEF RefreshFails, Goto, TypeOK, CallState, Stage, browser
<1>8. ASSUME NEW c \in Call, Exchange(c) PROVE TypeOK'
  <2>1. call[c] \in CallState
    BY <1>0 DEF TypeOK
  <2>2. CASE Goto(c, "keep") /\ UNCHANGED <<service, forfeited>>
    BY <1>0, <1>8, <2>1, <2>2 DEF Exchange, Goto, TypeOK, CallState, Stage, service, browser
  <2>3. ASSUME NEW s \in Session, Service!Open(s),
               \/ /\ \E j \in used' \ used :
                       call' = [call EXCEPT ![c].pc = "apply", ![c].fresh = [sid |-> s, jti |-> j]]
                  /\ UNCHANGED forfeited
               \/ Goto(c, "keep") /\ forfeited' = forfeited \cup {s}
        PROVE  TypeOK'
    <3>1. PICK j \in Jti \ used : /\ used' = used \cup {j} /\ used' \ used = {j}
                                  /\ phase' = [phase EXCEPT ![s] = "active"]
                                  /\ live' = [live EXCEPT ![s] = j]
      BY <2>3, OpenIssues
    <3>2. [sid |-> s, jti |-> j] \in Token
      BY DEF Token
    <3>3. CASE Goto(c, "keep") /\ forfeited' = forfeited \cup {s}
      BY <1>0, <1>8, <2>1, <3>1, <3>3 DEF Exchange, Goto, TypeOK, CallState, Stage, browser
    <3>4. CASE /\ call' = [call EXCEPT ![c].pc = "apply", ![c].fresh = [sid |-> s, jti |-> j]]
               /\ UNCHANGED forfeited
      <4>1. call' \in [Call -> CallState]
        BY <1>0, <2>1, <3>2, <3>4 DEF TypeOK, CallState, Stage
      <4>2. QED
        BY <1>0, <1>8, <2>1, <3>1, <3>2, <3>4, <4>1 DEF Exchange, TypeOK, CallState, browser
    <3>5. QED
      BY <2>3, <3>1, <3>3, <3>4
  <2>4. QED
    BY <1>8, <2>2, <2>3 DEF Exchange
<1>9. ASSUME NEW c \in Call, RevokeBestEffort(c) PROVE TypeOK'
  <2>1. call[c] \in CallState /\ call[c].held.sid \in Session
    BY <1>0, <1>9, CallTyped DEF RevokeBestEffort, CallOK, WithSession
  <2>2. QED
    BY <1>0, <1>9, <2>1
       DEF RevokeBestEffort, Service!Revoke, Goto, TypeOK, CallState, Stage, service, browser
<1>10. ASSUME NEW c \in Call, Deliver(c) PROVE TypeOK'
  <2>1. call[c] \in CallState /\ Idle \in CallState /\ SidsOf(jar) \subseteq Session
    BY <1>0, SidsTyped DEF TypeOK, CallState, Stage, Idle
  <2>2. /\ call' \in [Call -> CallState] /\ late' \subseteq Call
        /\ \A d \in Call : call'[d].pc \in {"retry", "apply"} => call'[d].fresh # Empty
    BY <1>0, <1>10, <2>1 DEF Deliver, Leave, TypeOK, Idle
  <2>3. jar' \in Token \cup {Empty} /\ access' \in BOOLEAN /\ out' \in BOOLEAN
    BY <1>0, <1>10, <2>1 DEF Deliver, TypeOK, CallState, browser
  <2>4. forfeited' \subseteq Session
    BY <1>0, <1>10, <2>1 DEF Deliver, TypeOK
  <2>5. QED
    BY <1>0, <1>10, <2>2, <2>3, <2>4 DEF Deliver, TypeOK, service
<1>11. ASSUME NEW c \in Call, Abandon(c) PROVE TypeOK'
  <2>1. call[c] \in CallState /\ Idle \in CallState /\ SidsOf(call[c].fresh) \subseteq Session
    BY <1>0, SidsTyped DEF TypeOK, CallState, Stage, Idle
  <2>2. QED
    BY <1>0, <1>11, <2>1 DEF Abandon, Leave, TypeOK, Idle, service, browser
<1>12. ASSUME NEW j \in Jti, Lapse(j) PROVE TypeOK'
  BY <1>0, <1>12 DEF Lapse, TypeOK, service, browser, history
<1>13. CASE CookieExpires
  BY <1>0, <1>13 DEF CookieExpires, TypeOK, service, history
<1>14. CASE UNCHANGED vars
  BY <1>0, <1>14 DEF vars, TypeOK, service, browser, history
<1>15. QED
  BY <1>2, <1>3, <1>4, <1>5, <1>6, <1>7, <1>8, <1>9, <1>10, <1>11, <1>12, <1>13, <1>14 DEF Next

-----------------------------------------------------------------------------
(* One step: what is never undone. *)

(* No operation gives a pair or a session back.                            *)
LEMMA OnwardStep ==
  ASSUME PortalInv, [Next]_vars
  PROVE  Onward
<1> USE PortalAssumption, NoEmptyToken
<1>0. TypeOK /\ \A c \in Call : CallOK(c)
  BY DEF PortalInv
<1>1. ASSUME UNCHANGED service, forfeited \subseteq forfeited' PROVE Onward
  BY <1>1 DEF Onward, service
<1>2. ASSUME NEW s \in Session, RefreshCommits(s), forfeited \subseteq forfeited' PROVE Onward
  <2>1. PICK j \in Jti \ used : /\ used' = used \cup {j} /\ phase' = phase
                                /\ live' = [live EXCEPT ![s] = j] \/ live' = live
    BY <1>2, RefreshIssues
  <2>2. ASSUME NEW u \in Session, NEW i \in used, live'[u] = i PROVE live[u] = i
    BY <1>0, <2>1, <2>2 DEF TypeOK
  <2>3. used \subseteq used'
    BY <2>1
  <2>4. QED
    BY <1>2, <2>1, <2>2, <2>3 DEF Onward
<1>3. ASSUME NEW s \in Session, Service!Open(s), forfeited \subseteq forfeited' PROVE Onward
  <2>1. PICK j \in Jti \ used : /\ used' = used \cup {j} /\ phase[s] = "absent"
                                /\ phase' = [phase EXCEPT ![s] = "active"]
                                /\ live' = [live EXCEPT ![s] = j]
    BY <1>3, OpenIssues
  <2>2. QED
    BY <1>0, <1>3, <2>1 DEF Onward, TypeOK
<1>4. ASSUME NEW s \in Session, Service!Revoke(s), forfeited \subseteq forfeited' PROVE Onward
  BY <1>0, <1>4 DEF Onward, TypeOK, Service!Revoke
<1>5. ASSUME NEW c \in Call,
             CommitRefresh(c) \/ RefreshFails(c) \/ Exchange(c) \/ RevokeBestEffort(c)
      PROVE  Onward
  <2>1. call[c].pc \in WithSession => call[c].held.sid \in Session
    BY <1>0, CallTyped DEF CallOK
  <2>2. CASE CommitRefresh(c)
    BY <1>2, <2>1, <2>2 DEF CommitRefresh, WithSession, history
  <2>3. CASE RefreshFails(c)
    BY <1>1, <1>2, <2>1, <2>3 DEF RefreshFails, WithSession
  <2>4. CASE Exchange(c)
    <3>1. forfeited \subseteq forfeited'
      BY <2>4 DEF Exchange
    <3>2. UNCHANGED service \/ \E s \in Session : Service!Open(s)
      BY <2>4 DEF Exchange
    <3>3. QED
      BY <1>1, <1>3, <3>1, <3>2
  <2>5. CASE RevokeBestEffort(c)
    BY <1>1, <1>4, <2>1, <2>5 DEF RevokeBestEffort, WithSession
  <2>6. QED
    BY <1>5, <2>2, <2>3, <2>4, <2>5
<1>6. ASSUME NEW c \in Call,
             \/ SendProxied(c) \/ SendSignIn(c) \/ SendSignOut(c) \/ Ask(c) \/ AskFails(c)
             \/ CheckRefresh(c) \/ Retry(c) \/ RetryFails(c) \/ Deliver(c) \/ Abandon(c)
      PROVE  UNCHANGED service /\ forfeited \subseteq forfeited'
  BY <1>6 DEF SendProxied, SendSignIn, SendSignOut, Send, Ask, AskFails, CheckRefresh,
              Retry, RetryFails, Deliver, Abandon, history
<1>7. ASSUME (\E j \in Jti : Lapse(j)) \/ CookieExpires \/ UNCHANGED vars
      PROVE  UNCHANGED service /\ forfeited \subseteq forfeited'
  BY <1>7 DEF Lapse, CookieExpires, vars, history
<1>8. QED
  BY <1>1, <1>5, <1>6, <1>7 DEF Next

(* What is known of a pair stays known, and what is spent stays spent. *)
LEMMA TokenStays ==
  ASSUME TypeOK, Onward, NEW t \in Token
  PROVE  /\ Known(t) => t.jti \in used' /\ phase'[t.sid] # "absent"
         /\ Known(t) /\ Spent(t) => \/ t.sid \in forfeited' \/ phase'[t.sid] = "revoked"
                                   \/ live'[t.sid] # t.jti
BY PortalAssumption DEF Onward, Known, Spent, Token

(* A request that took no part in a step is as it was. *)
LEMMA OthersStay ==
  ASSUME TypeOK, Onward, NEW c \in Call, CallOK(c), call'[c] = call[c], UNCHANGED lapsed
  PROVE  CallOK(c)'
<1>1. /\ call[c].held = Empty \/ call[c].held \in Token
      /\ call[c].fresh = Empty \/ call[c].fresh \in Token
  BY CallTyped
<1>2. Known(call[c].held)' /\ Known(call[c].fresh)'
  BY <1>1, TokenStays DEF CallOK, Known
<1>3. Spent(call[c].held) => Spent(call[c].held)'
  BY <1>1, TokenStays DEF CallOK, Spent
<1>4. QED
  BY <1>2, <1>3 DEF CallOK, WithSession, Unanswered

-----------------------------------------------------------------------------
(* One step: the requests. *)

(* Goto and Ran move one request, and leave its pairs alone.               *)
LEMMA GotoMoves ==
  ASSUME TypeOK, NEW c \in Call, NEW pc, Goto(c, pc) \/ Ran(c, pc)
  PROVE  /\ call'[c].pc = pc /\ call'[c].held = call[c].held /\ call'[c].fresh = call[c].fresh
         /\ Goto(c, pc) => call'[c].ran = call[c].ran
         /\ Ran(c, pc) => call'[c].ran = call[c].ran + 1
         /\ \A d \in Call : d # c => call'[d] = call[d]
BY DEF TypeOK, CallState, Goto, Ran

(* Each request stays as CallOK describes it, moved or not.                *)
LEMMA CallStep ==
  ASSUME PortalInv, [Next]_vars, TypeOK'
  PROVE  \A d \in Call : CallOK(d)'
<1> USE PortalAssumption, NoEmptyToken
<1>0. /\ TypeOK /\ OutOK /\ Onward
      /\ \A c \in Call : CallOK(c)
      /\ call \in [Call -> CallState]
  BY OnwardStep DEF PortalInv, TypeOK
<1>a. ASSUME NEW t \in Token, Known(t)
      PROVE  /\ t.jti \in used' /\ phase'[t.sid] # "absent"
             /\ Spent(t) => \/ t.sid \in forfeited' \/ phase'[t.sid] = "revoked"
                            \/ live'[t.sid] # t.jti
  BY <1>0, <1>a, TokenStays
\* It is enough to look at the request that moves.
<1>b. ASSUME NEW c \in Call, UNCHANGED lapsed, CallOK(c)',
             \A d \in Call : d # c => call'[d] = call[d]
      PROVE  \A d \in Call : CallOK(d)'
  BY <1>0, <1>b, OthersStay
\* What it holds is still known, whatever the step did.
<1>c. ASSUME NEW c \in Call, call'[c].fresh = call[c].fresh
      PROVE  Known(call[c].fresh)'
  BY <1>0, <1>a, <1>c, CallTyped DEF CallOK, Known
<1>d. ASSUME NEW c \in Call, call'[c].held = call[c].held
      PROVE  /\ Known(call[c].held)'
             /\ Spent(call[c].held) => Spent(call[c].held)'
  <2>1. CallOK(c)
    BY <1>0
  <2>2. Known(call[c].held)'
    BY <1>0, <1>a, <1>d, <2>1, CallTyped DEF CallOK, Known
  <2>3. Spent(call[c].held) => Spent(call[c].held)'
    BY <1>0, <1>a, <1>d, <2>1, CallTyped DEF CallOK, Spent
  <2>4. QED
    BY <2>2, <2>3
<1>1. ASSUME NEW c \in Call, NEW pc \in {"clear", "ask", "exchange", "signedout", "revoke"},
             NEW t \in {Empty, ReadPortalSession}, Send(c, pc, t),
             pc \in {"ask", "revoke"} <=> t # Empty
      PROVE  \A d \in Call : CallOK(d)'
  <2>1. /\ call[c] = Idle /\ call' = [call EXCEPT ![c].pc = pc, ![c].held = t]
        /\ UNCHANGED <<phase, live, used, lapsed, forfeited>>
    BY <1>1 DEF Send, service
  <2>2. call'[c].pc = pc /\ call'[c].held = t /\ call'[c].fresh = Empty /\ call'[c].ran = 0
    BY <1>0, <2>1 DEF Idle
  <2>3. Known(t)
    BY <1>0 DEF OutOK, Known, ReadPortalSession
  <2>4. CallOK(c)'
    BY <1>1, <2>1, <2>2, <2>3 DEF CallOK, Known, Spent, WithSession, Unanswered
  <2>5. QED
    BY <1>0, <1>b, <2>1, <2>4
<1>2. ASSUME NEW c \in Call, SendProxied(c) \/ SendSignIn(c) \/ SendSignOut(c)
      PROVE  \A d \in Call : CallOK(d)'
  BY <1>1, <1>2 DEF SendProxied, SendSignIn, SendSignOut, ReadPortalSession
<1>3. ASSUME NEW c \in Call, Ask(c) \/ AskFails(c) \/ CheckRefresh(c) \/ Retry(c) \/ RetryFails(c)
      PROVE  \A d \in Call : CallOK(d)'
  <2>1. /\ CallOK(c) /\ call[c] \in CallState /\ UNCHANGED <<phase, live, used, lapsed>>
        /\ \A d \in Call : d # c => call'[d] = call[d]
        /\ call'[c].held = call[c].held /\ call'[c].fresh = call[c].fresh
    BY <1>0, <1>3, GotoMoves DEF Ask, AskFails, CheckRefresh, Retry, RetryFails, service
  <2>2. call[c].pc \in Unanswered /\ call[c].ran = 0 /\ call[c].held # Empty
    BY <1>3, <2>1
       DEF Ask, AskFails, CheckRefresh, Retry, RetryFails, CallOK, WithSession, Unanswered
  <2>3. \/ call'[c].pc = "refresh" /\ call'[c].ran = 0
        \/ call'[c].pc = "keep" /\ call'[c].ran <= 1
        \/ call[c].pc = "retry" /\ call'[c].pc \in {"clear", "apply"} /\ call'[c].ran <= 1
        \/ call[c].pc = "refresh" /\ call'[c].pc = "rotate" /\ call'[c].ran = 0
        \/ /\ call[c].pc = "refresh" /\ call'[c].pc = "clear" /\ call'[c].ran = 0
           /\ ~(phase[call[c].held.sid] = "active" /\ live[call[c].held.sid] = call[c].held.jti)
    BY <1>0, <1>3, <2>2, GotoMoves DEF Ask, AskFails, CheckRefresh, Retry, RetryFails
  <2>4. call[c].pc = "refresh" /\ call'[c].pc = "clear" => Spent(call[c].held)
    <3>1. call[c].held \in Token /\ phase[call[c].held.sid] \in {"active", "revoked"}
      BY <1>0, <2>1, <2>2, CallTyped DEF CallOK, Known, TypeOK
    <3>2. QED
      BY <2>3, <3>1 DEF Spent
  <2>5. CallOK(c)'
    BY <1>c, <1>d, <2>1, <2>2, <2>3, <2>4 DEF CallOK, WithSession, Unanswered
  <2>6. QED
    BY <1>b, <2>1, <2>5
<1>4. ASSUME NEW c \in Call, CommitRefresh(c) PROVE \A d \in Call : CallOK(d)'
  <2>1. /\ CallOK(c) /\ call[c] \in CallState /\ call[c].held \in Token
        /\ call[c].held.sid \in Session /\ call[c].ran = 0
    BY <1>0, <1>4, CallTyped DEF CommitRefresh, CallOK, WithSession, Unanswered
  <2> DEFINE s == call[c].held.sid
  <2>2. PICK j \in Jti \ used : /\ used' = used \cup {j} /\ used' \ used = {j}
                                /\ phase' = phase
                                /\ \/ /\ phase[s] = "active"
                                      /\ live' = [live EXCEPT ![s] = j]
                                   \/ phase[s] = "revoked" /\ live' = live
    BY <1>4, <2>1, RefreshIssues DEF CommitRefresh
  <2>3. call' = [call EXCEPT ![c].pc = "retry", ![c].fresh = [sid |-> s, jti |-> j]]
    BY <1>4, <2>2 DEF CommitRefresh
  <2>4. /\ call'[c].pc = "retry" /\ call'[c].fresh = [sid |-> s, jti |-> j]
        /\ call'[c].held = call[c].held /\ call'[c].ran = 0
        /\ \A d \in Call : d # c => call'[d] = call[d]
    BY <1>0, <2>1, <2>3
  <2>5. UNCHANGED <<lapsed, forfeited>> /\ j \notin lapsed
    BY <1>0, <1>4, <2>2 DEF CommitRefresh, history, TypeOK
  <2>6. Known(call[c].held)' /\ Known(call[c].fresh)'
    BY <2>1, <2>2, <2>4 DEF CallOK, Known
  <2>7. Spent(call[c].held)'
    <3>1. call[c].held.jti \in used /\ call[c].held # Empty
      BY <2>1 DEF CallOK, Known
    <3>2. phase[s] = "revoked" \/ live'[s] # call[c].held.jti
      BY <1>0, <2>1, <2>2, <3>1 DEF TypeOK
    <3>3. QED
      BY <2>2, <2>4, <3>2 DEF Spent
  <2>8. CallOK(c)'
    BY <2>4, <2>5, <2>6, <2>7, <2>1 DEF CallOK, WithSession, Unanswered
  <2>9. QED
    BY <1>b, <2>4, <2>5, <2>8
<1>5. ASSUME NEW c \in Call, RefreshFails(c) \/ RevokeBestEffort(c)
      PROVE  \A d \in Call : CallOK(d)'
  <2>1. /\ CallOK(c) /\ call[c] \in CallState /\ UNCHANGED lapsed
        /\ \A d \in Call : d # c => call'[d] = call[d]
        /\ call'[c].held = call[c].held /\ call'[c].fresh = call[c].fresh
        /\ call'[c].pc \in {"clear", "signedout"} /\ call'[c].ran = call[c].ran
    BY <1>0, <1>5, GotoMoves DEF RefreshFails, RevokeBestEffort
  <2>2. Spent(call[c].held)'
    <3>1. call[c].held \in Token /\ call[c].held.sid \in Session
      BY <1>0, <1>5, <2>1, CallTyped DEF RefreshFails, RevokeBestEffort, CallOK, WithSession
    <3>2. call[c].held.sid \in forfeited' \/ phase'[call[c].held.sid] = "revoked"
      BY <1>0, <1>5, <3>1 DEF RefreshFails, RevokeBestEffort, Service!Revoke, TypeOK
    <3>3. QED
      BY <2>1, <3>2 DEF Spent
  <2>3. CallOK(c)'
    BY <1>c, <1>d, <2>1, <2>2 DEF CallOK, WithSession, Unanswered
  <2>4. QED
    BY <1>b, <2>1, <2>3
<1>6. ASSUME NEW c \in Call, Exchange(c) PROVE \A d \in Call : CallOK(d)'
  <2>1. /\ CallOK(c) /\ call[c] \in CallState /\ call[c].ran = 0 /\ UNCHANGED lapsed
        /\ call[c].held = Empty
    BY <1>0, <1>6 DEF Exchange, CallOK, Unanswered
  <2>2. CASE Goto(c, "keep")
    <3>1. /\ call'[c].held = call[c].held /\ call'[c].fresh = call[c].fresh
          /\ call'[c].pc = "keep" /\ call'[c].ran = 0
          /\ \A d \in Call : d # c => call'[d] = call[d]
      BY <1>0, <2>1, <2>2 DEF Goto
    <3>2. CallOK(c)'
      BY <1>c, <1>d, <2>1, <3>1 DEF CallOK, WithSession, Unanswered
    <3>3. QED
      BY <1>b, <2>1, <3>1, <3>2
  <2>3. ASSUME NEW s \in Session, Service!Open(s),
               \E j \in used' \ used :
                 call' = [call EXCEPT ![c].pc = "apply", ![c].fresh = [sid |-> s, jti |-> j]]
        PROVE  \A d \in Call : CallOK(d)'
    <3>1. PICK j \in Jti \ used : /\ used' = used \cup {j} /\ used' \ used = {j}
                                  /\ phase' = [phase EXCEPT ![s] = "active"]
                                  /\ live' = [live EXCEPT ![s] = j]
      BY <2>3, OpenIssues
    <3>2. call' = [call EXCEPT ![c].pc = "apply", ![c].fresh = [sid |-> s, jti |-> j]]
      BY <2>3, <3>1
    <3>3. /\ call'[c].pc = "apply" /\ call'[c].fresh = [sid |-> s, jti |-> j]
          /\ call'[c].held = call[c].held /\ call'[c].ran = 0
          /\ \A d \in Call : d # c => call'[d] = call[d]
      BY <1>0, <2>1, <3>2
    <3>4. Known(call[c].fresh)'
      BY <1>0, <3>1, <3>3 DEF Known, TypeOK
    <3>5. CallOK(c)'
      BY <2>1, <3>3, <3>4 DEF CallOK, Known, Spent, WithSession, Unanswered
    <3>6. QED
      BY <1>b, <2>1, <3>3, <3>5
  <2>4. QED
    BY <1>6, <2>2, <2>3 DEF Exchange
<1>7. ASSUME NEW c \in Call, Deliver(c) \/ Abandon(c) PROVE \A d \in Call : CallOK(d)'
  <2>1. /\ call' = [call EXCEPT ![c] = Idle] /\ UNCHANGED lapsed
    BY <1>7 DEF Deliver, Abandon, Leave
  <2>2. call'[c] = Idle /\ \A d \in Call : d # c => call'[d] = call[d]
    BY <1>0, <2>1
  <2>3. CallOK(c)'
    BY <2>2 DEF CallOK, Known, Spent, Idle, WithSession, Unanswered
  <2>4. QED
    BY <1>b, <2>1, <2>2, <2>3
<1>8. ASSUME NEW j \in Jti, Lapse(j) PROVE \A d \in Call : CallOK(d)'
  <2>1. /\ UNCHANGED <<phase, live, used, call, forfeited>> /\ lapsed' = lapsed \cup {j}
        /\ \A c \in Call : call[c].fresh # Empty => call[c].fresh.jti # j
    BY <1>8 DEF Lapse, service, history
  <2>2. QED
    BY <1>0, <2>1 DEF CallOK, Known, Spent, TypeOK
<1>9. CASE CookieExpires \/ UNCHANGED vars
  <2>1. UNCHANGED <<phase, live, used, call, forfeited, lapsed>>
    BY <1>9 DEF CookieExpires, vars, service, history
  <2>2. QED
    BY <1>0, <2>1 DEF CallOK, Known, Spent
<1>10. QED
  BY <1>2, <1>3, <1>4, <1>5, <1>6, <1>7, <1>8, <1>9 DEF Next

-----------------------------------------------------------------------------
(* One step: what a sign-out ended. *)

(* Cookies that a sign-out cleared come back only with `out` reset, and no *)
(* request of an ended session is carried out.                             *)
LEMMA OutStep ==
  ASSUME PortalInv, [Next]_vars
  PROVE  OutOK'
<1> USE PortalAssumption, NoEmptyToken
<1>0. /\ TypeOK /\ OutOK /\ Onward
      /\ \A c \in Call : CallOK(c)
  BY OnwardStep DEF PortalInv
\* The service accepts no pair of a session that was ended.
<1>a. ASSUME NEW t, t.sid \in ended PROVE ~Accepts(t)
  BY <1>0, <1>a DEF OutOK, Accepts
<1>b. ASSUME UNCHANGED <<jar, out>> PROVE Known(jar)' /\ (out' => jar' = Empty)
  BY <1>0, <1>b, TokenStays DEF OutOK, Known, TypeOK
<1>c. \A s \in ended : phase'[s] = "revoked"
  BY <1>0 DEF OutOK, Onward, TypeOK
<1>1. ASSUME NEW c \in Call, NEW pc, pc # "idle", NEW t \in {Empty, ReadPortalSession},
             Send(c, pc, t)
      PROVE  OutOK'
  <2>1. /\ call[c] = Idle /\ call' = [call EXCEPT ![c].pc = pc, ![c].held = t]
        /\ UNCHANGED <<jar, out, ended>>
    BY <1>1 DEF Send, browser
  <2>2. /\ call'[c].pc = pc /\ call'[c].held = t /\ call'[c].ran = 0
        /\ \A d \in Call : d # c => call'[d] = call[d]
    BY <1>0, <2>1 DEF Idle, TypeOK
  <2>3. c \in late' => t = Empty \/ t.sid \in ended
    <3>1. out => t = Empty
      BY <1>0 DEF OutOK, ReadPortalSession
    <3>2. c \notin late
      BY <1>0, <2>1 DEF OutOK, Idle
    <3>3. QED
      BY <1>1, <3>1, <3>2 DEF Send, SidsOf
  <2>4. late' \subseteq late \cup {c}
    BY <1>1 DEF Send
  <2>5. QED
    BY <1>0, <1>b, <1>c, <1>1, <2>1, <2>2, <2>3, <2>4 DEF OutOK, TypeOK
<1>2. ASSUME NEW c \in Call, SendProxied(c) \/ SendSignIn(c) \/ SendSignOut(c) PROVE OutOK'
  BY <1>1, <1>2 DEF SendProxied, SendSignIn, SendSignOut
\* A step of a request that is carried out only if the service accepts it.
<1>3. ASSUME NEW c \in Call, NEW pc, pc # "idle", UNCHANGED <<jar, out, late>>,
             ended \subseteq ended', \A s \in ended' \ ended : phase'[s] = "revoked",
             \/ Goto(c, pc)
             \/ Ran(c, pc) /\ (c \in late => FALSE)
      PROVE  OutOK'
  <2>1. \A d \in late : call'[d].pc # "idle" /\ call'[d].ran = 0 /\ call'[d].held = call[d].held
    BY <1>0, <1>3, GotoMoves DEF OutOK, TypeOK
  <2>2. QED
    BY <1>0, <1>b, <1>c, <1>3, <2>1 DEF OutOK
<1>4. ASSUME NEW c \in Call, Ask(c) \/ AskFails(c) PROVE OutOK'
  <2>1. Accepts(call[c].held) => c \notin late
    BY <1>0, <1>4, <1>a DEF Ask, AskFails, CallOK, OutOK, WithSession
  <2>2. QED
    BY <1>3, <1>4, <2>1 DEF Ask, AskFails, browser, history
<1>5. ASSUME NEW c \in Call, Retry(c) \/ RetryFails(c) PROVE OutOK'
  <2>1. Accepts(call[c].fresh) => c \notin late
    BY <1>0, <1>5, <1>a DEF Retry, RetryFails, CallOK, OutOK, WithSession
  <2>2. QED
    BY <1>3, <1>5, <2>1 DEF Retry, RetryFails, browser, history
<1>6. ASSUME NEW c \in Call, CheckRefresh(c) \/ RefreshFails(c) PROVE OutOK'
  BY <1>3, <1>6 DEF CheckRefresh, RefreshFails, browser, history
<1>7. ASSUME NEW c \in Call, RevokeBestEffort(c) PROVE OutOK'
  <2>1. call[c].held.sid \in Session
    BY <1>0, <1>7, CallTyped DEF RevokeBestEffort, CallOK, WithSession
  <2>2. /\ ended \subseteq ended'
        /\ \A s \in ended' \ ended : phase'[s] = "revoked"
    BY <1>0, <1>7, <2>1 DEF RevokeBestEffort, Service!Revoke, TypeOK
  <2>3. QED
    BY <1>3, <1>7, <2>2 DEF RevokeBestEffort, browser
\* A step that sets the pair a request brings back.
<1>8. ASSUME NEW c \in Call, NEW pc, pc # "idle", NEW t,
             call' = [call EXCEPT ![c].pc = pc, ![c].fresh = t],
             UNCHANGED <<jar, out, ended, late>>
      PROVE  OutOK'
  <2>1. \A d \in Call : /\ call'[d].ran = call[d].ran /\ call'[d].held = call[d].held
                        /\ call[d].pc # "idle" => call'[d].pc # "idle"
    BY <1>0, <1>8 DEF TypeOK, CallState
  <2>2. QED
    BY <1>0, <1>b, <1>c, <1>8, <2>1 DEF OutOK, TypeOK
<1>9. ASSUME NEW c \in Call, CommitRefresh(c) \/ Exchange(c) PROVE OutOK'
  BY <1>3, <1>8, <1>9 DEF CommitRefresh, Exchange, browser, history
<1>10. ASSUME NEW c \in Call, Deliver(c) \/ Abandon(c) PROVE OutOK'
  <2>1. /\ call' = [call EXCEPT ![c] = Idle] /\ late' = late \ {c} /\ UNCHANGED ended
    BY <1>10 DEF Deliver, Abandon, Leave
  <2>2. \A d \in late' : call'[d] = call[d]
    BY <1>0, <2>1 DEF TypeOK
  <2>3. Known(jar)' /\ (out' => jar' = Empty)
    <3>1. CASE UNCHANGED <<jar, out>>
      BY <1>b, <3>1
    <3>2. CASE jar' = Empty
      BY <3>2 DEF Known
    <3>3. CASE jar' = call[c].fresh /\ out' = FALSE
      BY <1>0, <3>3, TokenStays, CallTyped DEF CallOK, Known
    <3>4. QED
      BY <1>10, <3>1, <3>2, <3>3 DEF Deliver, Abandon, browser
  <2>4. QED
    BY <1>0, <1>c, <2>1, <2>2, <2>3 DEF OutOK
<1>11. CASE (\E j \in Jti : Lapse(j)) \/ CookieExpires \/ UNCHANGED vars
  <2>1. UNCHANGED <<jar, out, ended, late, call>>
    BY <1>11 DEF Lapse, CookieExpires, vars, browser, history
  <2>2. QED
    BY <1>0, <1>b, <1>c, <2>1 DEF OutOK
<1>12. QED
  BY <1>2, <1>4, <1>5, <1>6, <1>7, <1>9, <1>10, <1>11 DEF Next

-----------------------------------------------------------------------------
(* One step: where the live pair of a session is. *)

(* The request is on its way to the cookies with the pair it fetched. *)
Bearing(c) == call[c].pc \in {"retry", "apply"}

(* The live pair moves from the cookies to a request and back, and is      *)
(* dropped only where forfeited says so.                                   *)
LEMMA CustodyStep ==
  ASSUME PortalInv, [Next]_vars, TypeOK'
  PROVE  Custody'
<1> USE PortalAssumption, NoEmptyToken
<1>0. /\ TypeOK /\ TypeOK' /\ OutOK /\ Onward /\ Custody
      /\ \A c \in Call : CallOK(c)
  BY OnwardStep DEF PortalInv
<1> SUFFICES ASSUME NEW s \in Session, phase'[s] = "active", s \notin forfeited'
             PROVE  LET t == [sid |-> s, jti |-> live'[s]] IN
                      jar' = t \/ \E c \in Call : call'[c].fresh = t /\ Bearing(c)'
  BY DEF Custody, Bearing
<1> DEFINE t == [sid |-> s, jti |-> live'[s]]
           Kept == jar' = t \/ \E c \in Call : call'[c].fresh = t /\ Bearing(c)'
<1>a. s \notin forfeited /\ t # Empty
  BY <1>0 DEF Onward, TypeOK, Token
\* While s keeps its pair, somebody has it already.
<1>b. ASSUME phase[s] = "active", live'[s] = live[s]
      PROVE  jar = t \/ \E c \in Call : call[c].fresh = t /\ Bearing(c)
  BY <1>0, <1>a, <1>b DEF Custody, Bearing
\* A request that carries it may go on, but not drop it.
<1>c. ASSUME phase[s] = "active", live'[s] = live[s], UNCHANGED jar,
             NEW c \in Call, \A d \in Call : d # c => call'[d] = call[d],
             call[c].fresh = t /\ Bearing(c) => call'[c].fresh = t /\ Bearing(c)'
      PROVE  Kept
  BY <1>b, <1>c DEF Bearing
\* A request that fetched it has it.
<1>d. ASSUME NEW c \in Call, call'[c].fresh = t, Bearing(c)' PROVE Kept
  BY <1>d
<1>1. ASSUME NEW c \in Call, NEW pc, NEW u, Send(c, pc, u) PROVE Kept
  <2>1. /\ UNCHANGED <<phase, live, jar>> /\ ~Bearing(c)
        /\ \A d \in Call : d # c => call'[d] = call[d]
    BY <1>0, <1>1 DEF Send, service, browser, Bearing, Idle, TypeOK
  <2>2. QED
    BY <1>c, <2>1
<1>2. ASSUME NEW c \in Call, SendProxied(c) \/ SendSignIn(c) \/ SendSignOut(c) PROVE Kept
  BY <1>1, <1>2 DEF SendProxied, SendSignIn, SendSignOut
<1>3. ASSUME NEW c \in Call, Ask(c) \/ AskFails(c) \/ CheckRefresh(c) PROVE Kept
  <2>1. UNCHANGED <<phase, live, jar>> /\ ~Bearing(c)
    BY <1>3 DEF Ask, AskFails, CheckRefresh, service, browser, Bearing
  <2>2. \A d \in Call : d # c => call'[d] = call[d]
    BY <1>0, <1>3, GotoMoves DEF Ask, AskFails, CheckRefresh
  <2>3. QED
    BY <1>c, <2>1, <2>2
<1>4. ASSUME NEW c \in Call, Retry(c) \/ RetryFails(c) PROVE Kept
  <2>1. /\ UNCHANGED <<phase, live, jar>>
        /\ call'[c].fresh = call[c].fresh /\ \A d \in Call : d # c => call'[d] = call[d]
    BY <1>0, <1>4, GotoMoves DEF Retry, RetryFails, service, browser
  <2>2. CallOK(c) /\ call[c].pc = "retry"
    BY <1>0, <1>4 DEF Retry, RetryFails
  <2>3. CASE call[c].fresh = t
    <3>1. call[c].held.sid = s /\ call[c].fresh.sid = s /\ call[c].fresh.jti \notin lapsed
      BY <2>2, <2>3 DEF CallOK
    <3>2. Retry(c) /\ Accepts(call[c].fresh)
      BY <1>4, <2>1, <3>1 DEF RetryFails, Accepts
    <3>3. call'[c].pc = "apply"
      BY <1>0, <3>2, GotoMoves DEF Retry
    <3>4. QED
      BY <1>d, <2>1, <2>3, <3>3 DEF Bearing
  <2>4. CASE call[c].fresh # t
    BY <1>c, <2>1, <2>4
  <2>5. QED
    BY <2>3, <2>4
<1>5. ASSUME NEW c \in Call, CommitRefresh(c) PROVE Kept
  <2> DEFINE h == call[c].held
  <2>1. h.sid \in Session /\ call[c] \in CallState /\ ~Bearing(c)
    BY <1>0, <1>5, CallTyped DEF CommitRefresh, CallOK, WithSession, Bearing
  <2>2. PICK j \in Jti \ used : /\ used' = used \cup {j} /\ used' \ used = {j}
                                /\ phase' = phase
                                /\ \/ /\ phase[h.sid] = "active"
                                      /\ live' = [live EXCEPT ![h.sid] = j]
                                   \/ phase[h.sid] = "revoked" /\ live' = live
    BY <1>5, <2>1, RefreshIssues DEF CommitRefresh
  <2>3. /\ call' = [call EXCEPT ![c].pc = "retry", ![c].fresh = [sid |-> h.sid, jti |-> j]]
        /\ UNCHANGED jar
    BY <1>5, <2>2 DEF CommitRefresh, browser
  <2>4. /\ call'[c].pc = "retry" /\ call'[c].fresh = [sid |-> h.sid, jti |-> j]
        /\ \A d \in Call : d # c => call'[d] = call[d]
    BY <1>0, <2>1, <2>3 DEF TypeOK
  <2>5. CASE h.sid = s
    <3>1. live'[s] = j
      BY <1>0, <2>2, <2>5 DEF TypeOK
    <3>2. QED
      BY <1>d, <2>4, <2>5, <3>1 DEF Bearing
  <2>6. CASE h.sid # s
    <3>1. phase[s] = "active" /\ live'[s] = live[s]
      BY <1>0, <2>2, <2>6 DEF TypeOK
    <3>2. QED
      BY <1>c, <2>1, <2>3, <2>4, <3>1
  <2>7. QED
    BY <2>5, <2>6
<1>6. ASSUME NEW c \in Call, RefreshFails(c) PROVE Kept
  <2>1. /\ call[c].held.sid \in Session /\ call[c].held.sid # s /\ ~Bearing(c) /\ UNCHANGED jar
    BY <1>0, <1>6, CallTyped DEF RefreshFails, CallOK, WithSession, Bearing, browser
  <2>2. phase[s] = "active" /\ live'[s] = live[s]
    <3>1. CASE UNCHANGED service
      BY <3>1 DEF service
    <3>2. CASE RefreshCommits(call[c].held.sid)
      BY <1>0, <2>1, <3>2, RefreshIssues DEF TypeOK
    <3>3. QED
      BY <1>6, <3>1, <3>2 DEF RefreshFails
  <2>3. \A d \in Call : d # c => call'[d] = call[d]
    BY <1>0, <1>6, GotoMoves DEF RefreshFails
  <2>4. QED
    BY <1>c, <2>1, <2>2, <2>3
<1>7. ASSUME NEW c \in Call, Exchange(c) PROVE Kept
  <2>1. ~Bearing(c) /\ UNCHANGED jar /\ call[c] \in CallState
    BY <1>0, <1>7 DEF Exchange, Bearing, browser, TypeOK
  <2>2. CASE UNCHANGED service /\ Goto(c, "keep")
    BY <1>0, <1>c, <2>1, <2>2, GotoMoves DEF service
  <2>3. ASSUME NEW o \in Session, Service!Open(o),
               \/ \E j \in used' \ used :
                    call' = [call EXCEPT ![c].pc = "apply", ![c].fresh = [sid |-> o, jti |-> j]]
               \/ Goto(c, "keep") /\ forfeited' = forfeited \cup {o}
        PROVE  Kept
    <3>1. PICK j \in Jti \ used : /\ used' = used \cup {j} /\ used' \ used = {j}
                                  /\ phase' = [phase EXCEPT ![o] = "active"]
                                  /\ live' = [live EXCEPT ![o] = j]
      BY <2>3, OpenIssues
    <3>2. \A d \in Call : d # c => call'[d] = call[d]
      BY <1>0, <2>3, GotoMoves DEF TypeOK
    <3>3. CASE o = s
      <4>1. call' = [call EXCEPT ![c].pc = "apply", ![c].fresh = [sid |-> s, jti |-> j]]
        BY <2>3, <3>1, <3>3
      <4>2. call'[c].pc = "apply" /\ call'[c].fresh = [sid |-> s, jti |-> j]
        BY <1>0, <2>1, <4>1 DEF TypeOK, CallState
      <4>3. live'[s] = j
        BY <1>0, <3>1, <3>3 DEF TypeOK
      <4>4. QED
        BY <1>d, <4>2, <4>3 DEF Bearing
    <3>4. CASE o # s
      <4>1. phase[s] = "active" /\ live'[s] = live[s]
        BY <1>0, <3>1, <3>4 DEF TypeOK
      <4>2. QED
        BY <1>c, <2>1, <3>2, <4>1
    <3>5. QED
      BY <3>3, <3>4
  <2>4. QED
    BY <1>7, <2>2, <2>3 DEF Exchange
<1>8. ASSUME NEW c \in Call, RevokeBestEffort(c) PROVE Kept
  <2>1. /\ call[c].held.sid \in Session /\ ~Bearing(c) /\ UNCHANGED jar
        /\ \A d \in Call : d # c => call'[d] = call[d]
    BY <1>0, <1>8, CallTyped, GotoMoves
       DEF RevokeBestEffort, CallOK, WithSession, Bearing, browser
  <2>2. phase[s] = "active" /\ live'[s] = live[s]
    BY <1>0, <1>8, <2>1 DEF RevokeBestEffort, Service!Revoke, service, TypeOK
  <2>3. QED
    BY <1>c, <2>1, <2>2
<1>9. ASSUME NEW c \in Call, Deliver(c) PROVE Kept
  <2>1. /\ UNCHANGED <<phase, live>> /\ CallOK(c)
        /\ \A d \in Call : d # c => call'[d] = call[d]
    BY <1>0, <1>9 DEF Deliver, Leave, service, TypeOK
  <2>2. CASE call[c].pc = "keep"
    BY <1>9, <1>c, <2>1, <2>2 DEF Deliver, browser, Bearing
  <2>3. CASE call[c].pc # "keep"
    \* The cookies held the pair: the answer is to a call sent with others,
    \* or to one sent with a pair that is spent.
    <3>1. jar # t
      <4>1. SUFFICES ASSUME jar = t PROVE FALSE
        OBVIOUS
      <4>2. SidsOf(jar) = {s}
        BY <1>a, <4>1 DEF SidsOf
      <4>3. call[c].held = t
        BY <1>9, <2>3, <4>1, <4>2 DEF Deliver
      <4>4. Spent(call[c].held)
        BY <1>9, <2>1, <2>3 DEF Deliver, CallOK
      <4>5. QED
        BY <1>a, <2>1, <4>3, <4>4 DEF Spent
    <3>2. PICK d \in Call : call[d].fresh = t /\ Bearing(d)
      BY <1>b, <2>1, <3>1
    <3>3. CASE d = c
      BY <1>9, <3>2, <3>3 DEF Deliver, Bearing
    <3>4. CASE d # c
      BY <1>d, <2>1, <3>2, <3>4 DEF Bearing
    <3>5. QED
      BY <3>3, <3>4
  <2>4. QED
    BY <2>2, <2>3
<1>10. ASSUME NEW c \in Call, Abandon(c) PROVE Kept
  <2>1. /\ UNCHANGED <<phase, live, jar>> /\ SidsOf(call[c].fresh) \subseteq forfeited'
        /\ \A d \in Call : d # c => call'[d] = call[d]
    BY <1>0, <1>10 DEF Abandon, Leave, service, browser, TypeOK
  <2>2. call[c].fresh # t
    BY <1>a, <2>1 DEF SidsOf
  <2>3. QED
    BY <1>c, <2>1, <2>2
<1>11. CASE (\E j \in Jti : Lapse(j)) \/ CookieExpires \/ UNCHANGED vars
  <2>1. UNCHANGED <<phase, live, jar, call>>
    BY <1>11 DEF Lapse, CookieExpires, vars, service, browser
  <2>2. QED
    BY <1>b, <2>1 DEF Bearing
<1>12. QED
  BY <1>2, <1>3, <1>4, <1>5, <1>6, <1>7, <1>8, <1>9, <1>10, <1>11 DEF Next

-----------------------------------------------------------------------------
(* The invariant is inductive: types, what is known of each request, what  *)
(* a sign-out ended and who has the live pair support one another.         *)
THEOREM PortalInvCorrect == Spec => []PortalInv
<1>1. Init => PortalInv
  <2> SUFFICES ASSUME Init PROVE PortalInv
    OBVIOUS
  <2> USE DEF Init, Service!LifecycleInit
  <2>1. TypeOK
    <3>1. Idle \in CallState /\ Idle.pc = "idle"
      BY DEF CallState, Stage, Idle
    <3>2. call \in [Call -> CallState] /\ \A c \in Call : call[c].pc = "idle"
      BY <3>1
    <3>3. QED
      BY <3>2 DEF TypeOK
  <2>2. \A c \in Call : CallOK(c)
    BY DEF CallOK, Idle, Known, Spent, WithSession, Unanswered
  <2>3. OutOK /\ Custody
    BY DEF OutOK, Custody, Known
  <2>4. QED
    BY <2>1, <2>2, <2>3 DEF PortalInv
<1>2. PortalInv /\ [Next]_vars => PortalInv'
  BY TypeStep, CallStep, OutStep, CustodyStep DEF PortalInv
<1>3. QED
  BY <1>1, <1>2, PTL DEF Spec

(* Every variable keeps its type; no answer sets cookies without a pair.   *)
THEOREM TypeCorrect == Spec => []TypeOK
<1>1. PortalInv => TypeOK
  BY DEF PortalInv
<1>2. QED
  BY <1>1, PortalInvCorrect, PTL

(* The proxy's second attempt never repeats a call that was carried out.   *)
THEOREM OnceCorrect == Spec => []CarriedOutOnce
<1>1. PortalInv => CarriedOutOnce
  BY DEF PortalInv, CallOK, CarriedOutOnce
<1>2. QED
  BY <1>1, PortalInvCorrect, PTL

(* A call sent after a sign-out is not carried out, however many calls and *)
(* refreshes were in flight when the sign-out was answered.                *)
THEOREM SignedOutCorrect == Spec => []SignedOutMeansOut
<1>1. PortalInv => SignedOutMeansOut
  BY DEF PortalInv, OutOK, SignedOutMeansOut
<1>2. QED
  BY <1>1, PortalInvCorrect, PTL

(* A session is lost only in the ways Custody excepts.                     *)
THEOREM CustodyCorrect == Spec => []Custody
<1>1. PortalInv => Custody
  BY DEF PortalInv
<1>2. QED
  BY <1>1, PortalInvCorrect, PTL
=============================================================================
