------------------------------ MODULE WebPortal ------------------------------
(***************************************************************************)
(* The web portal: apps/web.                                               *)
(*                                                                         *)
(* One browser keeps the token pair of its session in cookies; the         *)
(* portal's handlers keep nothing.  A page sends several calls at once,    *)
(* each with the cookies as they are when it is sent.  The proxy passes a  *)
(* call on, answers a 401 by one refresh and one more attempt, and its     *)
(* answer sets new cookies, clears them or leaves them alone.  Answers     *)
(* reach the browser in any order, and the last one wins.                  *)
(*                                                                         *)
(* The session service behind it is what SessionLifecycle promises.        *)
(***************************************************************************)
EXTENDS Naturals

\* AskFailsThenRefreshes, RetryKeepsCookies, ... vary the definition they
\* stand before by one plausible slip; Spec uses none of them.

CONSTANTS Session,  \* session_uuid values
          Jti,      \* token pairs; bounds the sign-ins and refreshes
          NoJti,    \* "no token is live"
          Call,     \* requests the browser may have in flight
          Empty     \* no cookies

Token == [sid : Session, jti : Jti]

ASSUME PortalAssumption ==
  NoJti \notin Jti /\ Empty \notin [sid : Session, jti : Jti \cup {NoJti}]

VARIABLES
  phase, live, used,  \* the session service
  lapsed,     \* pairs whose access token has expired
  jar,        \* the pair in the cookies: all four are set and cleared together
  access,     \* wf_access_token, which has a TTL of its own, is still there
  call,       \* call[c]: the request in slot c
  out,        \* history: a sign-out was answered, and no answer has set
              \* cookies since
  ended,      \* history: sessions whose sign-out reached the service
  late,       \* history: calls sent after a sign-out
  forfeited   \* history: sessions that were given up, see Custody

service == <<phase, live, used>>
browser == <<jar, access>>
history == <<out, ended, late, forfeited>>
vars == <<service, lapsed, browser, call, history>>

Service == INSTANCE SessionLifecycle

(* held: the pair the request came with; fresh: the pair it fetched; ran:  *)
(* how often the service carried it out.                                   *)
Idle == [pc |-> "idle", held |-> Empty, fresh |-> Empty, ran |-> 0]

(* The last four wait for delivery, and say what the answer does to the    *)
(* cookies: nothing, clear them, clear them for a sign-out, set them.      *)
Stage == {"idle", "ask", "refresh", "rotate", "retry", "exchange", "revoke",
          "keep", "clear", "signedout", "apply"}

CallState == [pc : Stage, held : Token \cup {Empty}, fresh : Token \cup {Empty}, ran : 0..2]

TypeOK ==
  /\ phase \in [Session -> {"absent", "active", "revoked"}]
  /\ live \in [Session -> Jti \cup {NoJti}]
  /\ used \subseteq Jti /\ lapsed \subseteq used
  /\ jar \in Token \cup {Empty} /\ access \in BOOLEAN
  /\ call \in [Call -> CallState]
  /\ \A c \in Call : call[c].pc \in {"retry", "apply"} => call[c].fresh # Empty
  /\ out \in BOOLEAN /\ ended \subseteq Session
  /\ late \subseteq Call /\ forfeited \subseteq Session

Init ==
  /\ Service!LifecycleInit
  /\ lapsed = {}
  /\ jar = Empty /\ access = FALSE
  /\ call = [c \in Call |-> Idle]
  /\ out = FALSE /\ ended = {} /\ late = {} /\ forfeited = {}

-----------------------------------------------------------------------------
SidsOf(t) == IF t = Empty THEN {} ELSE {t.sid}

AcceptsUntilExpiry(t) == t.jti \notin lapsed

(* An access token passes jwt_required and the blocklist. *)
Accepts(t) == phase[t.sid] = "active" /\ t.jti \notin lapsed

(* readPortalSessionFromStore: nothing, unless all the cookies are there. *)
ReadPortalSession == IF access THEN jar ELSE Empty

Goto(c, pc) == call' = [call EXCEPT ![c].pc = pc]

(* The service carries the request out. *)
Ran(c, pc) == call' = [call EXCEPT ![c].pc = pc, ![c].ran = @ + 1]

Send(c, first, held) ==
  /\ call[c] = Idle
  /\ call' = [call EXCEPT ![c].pc = first, ![c].held = held]
  /\ late' = IF out \/ SidsOf(held) \cap ended # {} THEN late \cup {c} ELSE late
  /\ UNCHANGED <<service, lapsed, browser, out, ended, forfeited>>

-----------------------------------------------------------------------------
(* The proxy, route.ts under api/backend. *)

(* proxyRequest without a session answers at once, and clears the cookies. *)
SendProxied(c) ==
  Send(c, IF ReadPortalSession = Empty THEN "clear" ELSE "ask", ReadPortalSession)

Ask(c) ==
  /\ call[c].pc = "ask"
  /\ IF Accepts(call[c].held) THEN Ran(c, "keep") ELSE Goto(c, "refresh")
  /\ UNCHANGED <<service, lapsed, browser, history>>

AskFailsThenRefreshes(c) ==
  /\ call[c].pc = "ask"
  /\ Goto(c, "refresh") \/ (Accepts(call[c].held) /\ Ran(c, "refresh"))
  /\ UNCHANGED <<service, lapsed, browser, history>>

(* fetch throws, before or after the service acted.  Nothing catches it:   *)
(* the answer is a 500 without cookies.                                    *)
AskFails(c) ==
  /\ call[c].pc = "ask"
  /\ Goto(c, "keep") \/ (Accepts(call[c].held) /\ Ran(c, "keep"))
  /\ UNCHANGED <<service, lapsed, browser, history>>

(* refreshWorkforceSession, the check at the service; its commit may be    *)
(* overtaken by those of others.                                           *)
CheckRefresh(c) ==
  /\ call[c].pc = "refresh"
  /\ LET t == call[c].held IN
       Goto(c, IF phase[t.sid] = "active" /\ live[t.sid] = t.jti THEN "rotate" ELSE "clear")
  /\ UNCHANGED <<service, lapsed, browser, history>>

(* A refresh that commits after the session was revoked is a waste. *)
RefreshCommits(s) ==
  \/ phase[s] = "active" /\ Service!Rotate(s)
  \/ phase[s] = "revoked" /\ Service!Waste

CommitRefresh(c) ==
  LET s == call[c].held.sid IN
  /\ call[c].pc = "rotate"
  /\ RefreshCommits(s)
  /\ \E j \in used' \ used :
       call' = [call EXCEPT ![c].pc = "retry", ![c].fresh = [sid |-> s, jti |-> j]]
  /\ UNCHANGED <<lapsed, browser, history>>

(* 429, 5xx or no answer at all, whether or not the service committed. *)
RefreshFails(c) ==
  LET s == call[c].held.sid IN
  /\ call[c].pc \in {"refresh", "rotate"}
  /\ UNCHANGED service \/ (call[c].pc = "rotate" /\ RefreshCommits(s))
  /\ Goto(c, "clear")
  /\ forfeited' = forfeited \cup {s}
  /\ UNCHANGED <<lapsed, browser, out, ended, late>>

RetryKeepsCookies(c) ==
  /\ call[c].pc = "retry"
  /\ IF Accepts(call[c].fresh) THEN Ran(c, "keep") ELSE Goto(c, "clear")
  /\ UNCHANGED <<service, lapsed, browser, history>>

(* After a second 401 the cookies set by applyPortalSession are cleared. *)
Retry(c) ==
  /\ call[c].pc = "retry"
  /\ IF Accepts(call[c].fresh) THEN Ran(c, "apply") ELSE Goto(c, "clear")
  /\ UNCHANGED <<service, lapsed, browser, history>>

(* The second fetch throws inside the try block: the cookies are cleared   *)
(* as if the refresh had failed, and the pair it fetched is dropped.       *)
RetryFails(c) ==
  /\ call[c].pc = "retry"
  /\ Goto(c, "clear") \/ (Accepts(call[c].fresh) /\ Ran(c, "clear"))
  /\ forfeited' = forfeited \cup {call[c].held.sid}
  /\ UNCHANGED <<service, lapsed, browser, out, ended, late>>

-----------------------------------------------------------------------------
(* Sign-in and sign-out. *)

(* The callback of the identity provider; it does not read the session. *)
SendSignIn(c) == Send(c, "exchange", Empty)

ExchangeUnchecked(c) ==
  /\ call[c].pc = "exchange"
  /\ Goto(c, "apply")
  /\ UNCHANGED <<service, lapsed, browser, history>>

(* exchangeWorkforceSso opens a session; on an error there is a redirect.  *)
Exchange(c) ==
  /\ call[c].pc = "exchange"
  /\ \/ \E s \in Session :
          /\ Service!Open(s)
          /\ \/ /\ \E j \in used' \ used :
                     call' = [call EXCEPT ![c].pc = "apply", ![c].fresh = [sid |-> s, jti |-> j]]
                /\ UNCHANGED forfeited
             \/ /\ Goto(c, "keep")
                /\ forfeited' = forfeited \cup {s}
     \/ Goto(c, "keep") /\ UNCHANGED <<service, forfeited>>
  /\ UNCHANGED <<lapsed, browser, out, ended, late>>

SendSignOut(c) ==
  Send(c, IF ReadPortalSession = Empty THEN "signedout" ELSE "revoke", ReadPortalSession)

(* logoutWorkforceSession: a token the service refuses, like an answer     *)
(* that does not come, goes unnoticed, and the cookies are cleared.        *)
RevokeBestEffort(c) ==
  LET t == call[c].held IN
  /\ call[c].pc = "revoke"
  /\ Goto(c, "signedout")
  /\ \/ /\ Accepts(t)
        /\ Service!Revoke(t.sid)
        /\ ended' = ended \cup {t.sid} /\ UNCHANGED forfeited
     \/ forfeited' = forfeited \cup {t.sid} /\ UNCHANGED <<service, ended>>
  /\ UNCHANGED <<lapsed, browser, out, late>>

-----------------------------------------------------------------------------
(* The browser, and time. *)

Leave(c) ==
  /\ call' = [call EXCEPT ![c] = Idle]
  /\ late' = late \ {c}

(* An answer arrives.  One that sets or clears the cookies does so without *)
(* regard to what they have become since its call was sent.                *)
Deliver(c) ==
  LET r == call[c] IN
  /\ \/ /\ r.pc = "keep"
        /\ UNCHANGED <<browser, out, forfeited>>
     \/ /\ r.pc \in {"clear", "signedout"}
        /\ jar' = Empty /\ access' = FALSE
        /\ out' = (out \/ r.pc = "signedout")
     \/ /\ r.pc = "apply"
        /\ jar' = r.fresh /\ access' = TRUE
        /\ out' = FALSE
  /\ r.pc # "keep" => forfeited' = IF r.held = jar THEN forfeited ELSE forfeited \cup SidsOf(jar)
  /\ Leave(c)
  /\ UNCHANGED <<service, lapsed, ended>>

(* The page is left, the portal dies, or the answer is lost. *)
Abandon(c) ==
  /\ call[c] # Idle
  /\ forfeited' = forfeited \cup SidsOf(call[c].fresh)
  /\ Leave(c)
  /\ UNCHANGED <<service, lapsed, browser, out, ended>>

(* An access token lives longer than the call that fetched it. *)
Lapse(j) ==
  /\ j \in used \ lapsed
  /\ j \notin {call[c].fresh.jti : c \in {d \in Call : call[d].fresh # Empty}}
  /\ lapsed' = lapsed \cup {j}
  /\ UNCHANGED <<service, browser, call, history>>

(* ACCESS_COOKIE_TTL_SECONDS, against 30 days for the other cookies. *)
CookieExpires ==
  /\ access
  /\ access' = FALSE
  /\ UNCHANGED <<service, lapsed, jar, call, history>>

Next ==
  \/ \E c \in Call :
       \/ SendProxied(c) \/ Ask(c) \/ AskFails(c)
       \/ CheckRefresh(c) \/ CommitRefresh(c) \/ RefreshFails(c)
       \/ Retry(c) \/ RetryFails(c)
       \/ SendSignIn(c) \/ Exchange(c)
       \/ SendSignOut(c) \/ RevokeBestEffort(c)
       \/ Deliver(c) \/ Abandon(c)
  \/ \E j \in Jti : Lapse(j)
  \/ CookieExpires

Spec == Init /\ [][Next]_vars

-----------------------------------------------------------------------------
(* A call is carried out at most once: the second attempt is made only     *)
(* where the first was refused, never where its answer was lost.           *)
CarriedOutOnce == \A c \in Call : call[c].ran <= 1

(* Signed out is signed out: a call sent after a sign-out was answered is  *)
(* not carried out.  Two guards share the work.  The browser has no        *)
(* cookies left, until the answer to an older call sets them again; and    *)
(* the service refuses the session, if the sign-out reached it.            *)
SignedOutMeansOut == \A c \in late : call[c].ran = 0

(* The only refresh token that can continue a session is in the cookies or *)
(* on its way there, however many calls refresh at once.  The exceptions   *)
(* are those counted in forfeited: a refresh, retry or sign-in whose       *)
(* answer was lost; a sign-out the service did not take; and an answer     *)
(* that set or cleared cookies other than those its call was sent with.    *)
Custody ==
  \A s \in Session :
    phase[s] = "active" /\ s \notin forfeited =>
      LET t == [sid |-> s, jti |-> live[s]] IN
        jar = t \/ \E c \in Call : call[c].fresh = t /\ call[c].pc \in {"retry", "apply"}
=============================================================================
