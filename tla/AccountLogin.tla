---------------------------- MODULE AccountLogin ----------------------------
(***************************************************************************)
(* The user_accounts rows under workforceiq/services/authentication.py:    *)
(* password sign-in with lockout, enterprise sign-in with identity         *)
(* binding and auto-provisioning, MFA enrolment.                           *)
(*                                                                         *)
(* A request reads the account once, decides on what it read, and commits  *)
(* the columns it changed; a failed login that locks takes the time of the *)
(* lock between the two.  SQLAlchemy leaves a column out of the UPDATE   *)
(* when the handler assigned the value it had loaded, and the UPDATE is    *)
(* not conditional on what was read.                                       *)
(***************************************************************************)
EXTENDS Naturals, FiniteSets

\* Variants with one plausible slip (ReadSsoUnchecked, CommitFailOneLate, ...)
\* stand before the definition they vary; Spec uses none of them.

CONSTANTS Account,       \* e-mail addresses, one row each at most
          Request,       \* slots for requests in flight
          Subject,       \* `sub` claims of verified ID tokens
          Secret,        \* TOTP secrets
          None,          \* SQL NULL, and "no row"
          Threshold,     \* AUTH_LOCKOUT_THRESHOLD
          LockTime,      \* AUTH_LOCKOUT_MINUTES
          MaxTime,       \* bound on the clock
          MaxFailed,     \* bound on failed_login_count
          Op,            \* the operations clients use, of AllOps
          AutoProvision, \* accounts whose domain may sign itself up
          InitialKind    \* kinds of row there may be at the start, of AllKinds

AllOps == {"login", "sso", "mfa_setup", "mfa_verify"}
AllKinds == {"none", "local", "oidc"}

ASSUME LoginAssumption ==
  /\ Threshold \in Nat \ {0} /\ LockTime \in Nat \ {0} /\ MaxTime \in Nat
  /\ MaxFailed \in Nat
  /\ Op \subseteq AllOps /\ AutoProvision \subseteq Account
  /\ InitialKind \subseteq AllKinds
  /\ None \notin Nat \cup Subject \cup Secret

VARIABLES
  acct,      \* acct[a]: the row of a, or None
  now,       \* wall clock, in lockout minutes
  req,       \* req[r]: the request in slot r
  until,     \* until[r]: the locked_until that r has computed, or None
  wrong,     \* history: failed attempts committed on a since its last sign-in
  verified   \* history: secrets of a that some code was verified against

vars == <<acct, now, req, until, wrong, verified>>

Row == [failed : Nat, locked : Nat \cup {None},
        provider : {"local", "hybrid", "oidc"}, subject : Subject \cup {None},
        secret : Secret \cup {None}, enabled : BOOLEAN]

ASSUME NoRowAssumption == None \notin Row

ASSUME SlotsAssumption == IsFiniteSet(Request)

(* A request in flight: the decision it took, the row it read (None if     *)
(* there was none) and its input, a subject or a secret.                   *)
Idle == [pc |-> "idle"]
InFlight == [pc : {"fail", "signin", "bind", "provision", "setup", "verify"},
             a : Account, seen : Row \cup {None},
             input : Subject \cup Secret \cup {None}]

TypeOK ==
  /\ acct \in [Account -> Row \cup {None}]
  /\ now \in Nat
  /\ req \in [Request -> {Idle} \cup InFlight]
  /\ until \in [Request -> Nat \cup {None}]
  /\ wrong \in [Account -> Nat]
  /\ verified \in [Account -> SUBSET Secret]

NewRow(provider, sub) ==
  [failed |-> 0, locked |-> None, provider |-> provider, subject |-> sub,
   secret |-> None, enabled |-> FALSE]

Init ==
  /\ \E kind \in [Account -> InitialKind] :
       acct = [a \in Account |->
                 IF kind[a] = "none" THEN None ELSE NewRow(kind[a], None)]
  /\ now = 0
  /\ req = [r \in Request |-> Idle]
  /\ until = [r \in Request |-> None]
  /\ wrong = [a \in Account |-> 0]
  /\ verified = [a \in Account |-> {}]

-----------------------------------------------------------------------------
(* The first half of a request: read the row and decide.  A request that   *)
(* is turned down here changes nothing and is not kept.                    *)
Decide(r, a, decision, input) ==
  /\ req[r] = Idle
  /\ req' = [req EXCEPT ![r] = [pc |-> decision, a |-> a,
                                seen |-> acct[a], input |-> input]]
  /\ UNCHANGED <<acct, now, until, wrong, verified>>

(* _reject_if_locked *)
Locked(row) == row.locked # None /\ row.locked > now

(* verify_totp: the code was made from the secret of the row, in one of    *)
(* the three time steps it accepts.                                        *)
CodeMatches(row, code) == row.secret # None /\ code = row.secret

(* login_user up to its decision: pw says if the password is right, code   *)
(* is the secret the one-time code was made from, None for no code.        *)
ReadLogin(r, a, pw, code) ==
  /\ "login" \in Op
  /\ acct[a] # None
  /\ acct[a].provider # "oidc"
  /\ ~Locked(acct[a])
  /\ acct[a].failed < MaxFailed
  /\ Decide(r, a,
            IF pw /\ (acct[a].enabled => CodeMatches(acct[a], code))
              THEN "signin" ELSE "fail",
            None)

ReadSsoUnchecked(r, a, sub) ==
  /\ "sso" \in Op
  /\ \/ acct[a] = None /\ a \in AutoProvision /\ Decide(r, a, "provision", sub)
     \/ acct[a] # None /\ Decide(r, a, "bind", sub)

(* exchange_oidc_token up to its decision: bind or validate the identity,  *)
(* or sign a new user up.                                                  *)
ReadSso(r, a, sub) ==
  /\ "sso" \in Op
  /\ \/ /\ acct[a] = None
        /\ a \in AutoProvision
        /\ Decide(r, a, "provision", sub)
     \/ /\ acct[a] # None
        /\ \/ acct[a].provider = "local"
           \/ acct[a].subject \in {None, sub}
        /\ Decide(r, a, "bind", sub)

(* generate_mfa_secret draws 160 random bits: a secret not seen before. *)
DrawnSecrets ==
  {row.secret : row \in {acct[a] : a \in Account} \ {None}}
    \cup UNION {verified[a] : a \in Account}
    \cup {q.input : q \in {req[r] : r \in Request} \ {Idle}}

(* setup_mfa and verify_mfa_setup: the account is read behind the token. *)
ReadSetup(r, a, secret) ==
  /\ "mfa_setup" \in Op
  /\ acct[a] # None
  /\ secret \notin DrawnSecrets
  /\ Decide(r, a, "setup", secret)

ReadVerify(r, a, code) ==
  /\ "mfa_verify" \in Op
  /\ acct[a] # None
  /\ CodeMatches(acct[a], code)
  /\ Decide(r, a, "verify", code)

-----------------------------------------------------------------------------
(* The second half: the commit.  Written(r, column, value) is the value    *)
(* the column has after an UPDATE that assigns it.                         *)
Written(r, column, value) ==
  LET q == req[r] IN IF q.seen[column] = value THEN acct[q.a][column] ELSE value

Answered(r) ==
  /\ req' = [req EXCEPT ![r] = Idle]
  /\ until' = [until EXCEPT ![r] = None]

(* _register_failed_login up to its commit: a request that counts up to    *)
(* the threshold computes the end of the lock before it comes to write.    *)
Locks(q) == q.pc = "fail" /\ q.seen.failed + 1 >= Threshold

TakeTime(r) ==
  /\ Locks(req[r])
  /\ until[r] = None
  /\ until' = [until EXCEPT ![r] = now + LockTime]
  /\ UNCHANGED <<acct, now, req, wrong, verified>>

FailWriting(r, lock) ==
  LET q == req[r] IN
  /\ q.pc = "fail"
  /\ Locks(q) => until[r] # None
  /\ acct' = [acct EXCEPT ![q.a].failed = Written(r, "failed", q.seen.failed + 1),
                          ![q.a].locked = lock]
  /\ wrong' = [wrong EXCEPT ![q.a] = @ + 1]
  /\ Answered(r)
  /\ UNCHANGED <<now, verified>>

CommitFailWholeRow(r) ==
  req[r] # Idle /\ FailWriting(r, IF Locks(req[r]) THEN until[r] ELSE req[r].seen.locked)
CommitFailOneLate(r) ==
  req[r] # Idle /\ FailWriting(r, IF req[r].seen.failed + 1 > Threshold
                                    THEN until[r] ELSE acct[req[r].a].locked)

(* _register_failed_login, the commit *)
CommitFail(r) ==
  LET q == req[r] IN
  /\ q.pc = "fail"
  /\ Locks(q) => until[r] # None
  /\ acct' = [acct EXCEPT
       ![q.a].failed = Written(r, "failed", q.seen.failed + 1),
       ![q.a].locked = IF Locks(q) THEN Written(r, "locked", until[r]) ELSE @]
  /\ wrong' = [wrong EXCEPT ![q.a] = @ + 1]
  /\ Answered(r)
  /\ UNCHANGED <<now, verified>>

CommitSignInNullsCount(r) ==
  LET q == req[r] IN
  /\ q.pc = "signin"
  /\ acct' = [acct EXCEPT ![q.a].failed = None, ![q.a].locked = Written(r, "locked", None)]
  /\ wrong' = [wrong EXCEPT ![q.a] = 0]
  /\ Answered(r)
  /\ UNCHANGED <<now, verified>>

(* login_user, success: the counter and the lock are reset. *)
CommitSignIn(r) ==
  LET q == req[r] IN
  /\ q.pc = "signin"
  /\ acct' = [acct EXCEPT ![q.a].failed = Written(r, "failed", 0),
                          ![q.a].locked = Written(r, "locked", None)]
  /\ wrong' = [wrong EXCEPT ![q.a] = 0]
  /\ Answered(r)
  /\ UNCHANGED <<now, verified>>

(* uq_user_accounts_org_provider_subject, on the rows as they are now. *)
SubjectTaken(a, provider, sub) ==
  \E b \in Account \ {a} : /\ acct[b] # None
                           /\ acct[b].provider = provider
                           /\ acct[b].subject = sub

(* exchange_oidc_token, existing account: the binding, then the reset.  A  *)
(* duplicate subject is an IntegrityError, rolled back and answered 400.   *)
CommitBind(r) ==
  LET q == req[r]
      provider == IF q.seen.provider = "local" THEN "hybrid" ELSE q.seen.provider
      row == [acct[q.a] EXCEPT
                !.provider = Written(r, "provider", provider),
                !.subject = Written(r, "subject", q.input),
                !.failed = Written(r, "failed", 0),
                !.locked = Written(r, "locked", None)]
  IN /\ q.pc = "bind"
     /\ IF SubjectTaken(q.a, row.provider, row.subject)
          THEN UNCHANGED <<acct, wrong>>
          ELSE /\ acct' = [acct EXCEPT ![q.a] = row]
               /\ wrong' = [wrong EXCEPT ![q.a] = 0]
     /\ Answered(r)
     /\ UNCHANGED <<now, verified>>

CommitProvisionUpsert(r) ==
  LET q == req[r] IN
  /\ q.pc = "provision"
  /\ acct' = IF SubjectTaken(q.a, "oidc", q.input)
               THEN acct ELSE [acct EXCEPT ![q.a] = NewRow("oidc", q.input)]
  /\ Answered(r)
  /\ UNCHANGED <<now, wrong, verified>>

(* _auto_provision_oidc_account_if_allowed: the INSERT fails if the row    *)
(* exists by now.                                                          *)
CommitProvision(r) ==
  LET q == req[r] IN
  /\ q.pc = "provision"
  /\ acct' = IF acct[q.a] # None \/ SubjectTaken(q.a, "oidc", q.input)
               THEN acct
               ELSE [acct EXCEPT ![q.a] = NewRow("oidc", q.input)]
  /\ Answered(r)
  /\ UNCHANGED <<now, wrong, verified>>

CommitSetupKeepsEnabled(r) ==
  LET q == req[r] IN
  /\ q.pc = "setup"
  /\ acct' = [acct EXCEPT ![q.a].secret = Written(r, "secret", q.input)]
  /\ Answered(r)
  /\ UNCHANGED <<now, wrong, verified>>

(* setup_mfa *)
CommitSetup(r) ==
  LET q == req[r] IN
  /\ q.pc = "setup"
  /\ acct' = [acct EXCEPT ![q.a].secret = Written(r, "secret", q.input),
                          ![q.a].enabled = Written(r, "enabled", FALSE)]
  /\ Answered(r)
  /\ UNCHANGED <<now, wrong, verified>>

(* verify_mfa_setup *)
CommitVerify(r) ==
  LET q == req[r] IN
  /\ q.pc = "verify"
  /\ acct' = [acct EXCEPT ![q.a].enabled = Written(r, "enabled", TRUE)]
  /\ verified' = [verified EXCEPT ![q.a] = @ \cup {q.input}]
  /\ Answered(r)
  /\ UNCHANGED <<now, wrong>>

(* The worker dies before its commit. *)
Crash(r) ==
  /\ req[r] # Idle
  /\ Answered(r)
  /\ UNCHANGED <<acct, now, wrong, verified>>

Tick ==
  /\ now < MaxTime
  /\ now' = now + 1
  /\ UNCHANGED <<acct, req, until, wrong, verified>>

Next ==
  \/ \E r \in Request, a \in Account :
       \/ \E pw \in BOOLEAN, code \in Secret \cup {None} : ReadLogin(r, a, pw, code)
       \/ \E sub \in Subject : ReadSso(r, a, sub)
       \/ \E secret \in Secret : ReadSetup(r, a, secret) \/ ReadVerify(r, a, secret)
  \/ \E r \in Request :
       \/ TakeTime(r)
       \/ CommitFail(r)
       \/ CommitSignIn(r)
       \/ CommitBind(r)
       \/ CommitProvision(r)
       \/ CommitSetup(r)
       \/ CommitVerify(r)
       \/ Crash(r)
  \/ Tick

Spec == Init /\ [][Next]_vars

-----------------------------------------------------------------------------
(* Attempts in flight together overwrite each other's count, so more than  *)
(* Threshold may be evaluated before the account is locked.  What a slot   *)
(* can set the count back to is what it read, at most the count there is;  *)
(* a state of K slots below threshold T is told by how many of them hold   *)
(* at most v, for every v, and no wrong guess leads back to an earlier one.*)
(* The limit is their number, less the one in which none is made: T - 1    *)
(* when requests come one at a time.                                       *)
SlotStates(T, K) ==
  {c \in [0 .. T - 1 -> 0 .. K] : /\ c[T - 1] = K
                                  /\ \A u, v \in 0 .. T - 1 : u <= v => c[u] <= c[v]}

MostGuesses == Cardinality(SlotStates(Threshold, Cardinality(Request)))

GuessesBounded ==
  \A a \in Account :
    acct[a] # None /\ acct[a].locked = None => wrong[a] < MostGuesses

(* A request decides on a row that others change before it commits.        *)
Committing(r, a) == req[r] # Idle /\ req[r].a = a /\ req'[r] = Idle
Overtaken(r, a) == Committing(r, a) /\ req[r].seen # acct[a]

(* A lock in force is opened by nothing but a sign-in.  It is shortened    *)
(* only where two locking attempts overlap: one that read the row before   *)
(* the lock was set, took its time and was held up puts its own, earlier   *)
(* end in place of it.  A failed attempt that does not count up to the     *)
(* threshold leaves it alone, however old the row it read.                 *)
LockStands ==
  [][\A a \in Account :
       acct[a] # None /\ Locked(acct[a]) /\ acct'[a].locked # acct[a].locked
         => \/ wrong'[a] = 0
            \/ /\ acct'[a].locked # None
               /\ \/ acct'[a].locked > acct[a].locked
                  \/ \E r \in Request : /\ Overtaken(r, a) /\ Locks(req[r])
                                        /\ until[r] = acct'[a].locked
                                        /\ until[r] < now + LockTime]_vars

(* mfa_verify must follow mfa_setup, as the answer of setup_mfa says: MFA  *)
(* comes to be on with a secret nobody has shown a code for only when a    *)
(* setup and a verification overtake one another.                          *)
Unverified(a) ==
  acct[a] # None /\ acct[a].enabled /\ acct[a].secret \notin verified[a]

UnverifiedOnlyByOvertaking ==
  [][\A a \in Account : ~Unverified(a) /\ Unverified(a)'
       => \E r \in Request : Overtaken(r, a)]_vars

(* An enterprise identity on record is replaced by another only by a       *)
(* sign-in that found the account without one: whoever finds a different   *)
(* subject is refused (_bind_or_validate_oidc_identity).                   *)
ReboundOnlyByOvertaking ==
  [][\A a \in Account : acct[a] # None /\ acct[a].subject \notin {None, acct'[a].subject}
       => \E r \in Request : Overtaken(r, a) /\ req[r].seen.subject = None]_vars

(* Sign-ups race on the unique e-mail: whichever subject an account was    *)
(* created with, every later sign-in and every sign-up that lost the race  *)
(* leaves the account with it.                                             *)
SignUpIsFinal ==
  [][\A a \in Account : acct[a] # None /\ acct[a].provider = "oidc"
       => /\ acct'[a].provider = "oidc"
          /\ acct'[a].subject = acct[a].subject]_vars
=============================================================================
