------------------------- MODULE AccountLoginProofs -------------------------
(***************************************************************************)
(* What AccountLogin guarantees for any number of accounts, requests,      *)
(* subjects and secrets, whatever the lockout settings.                    *)
(***************************************************************************)
EXTENDS AccountLogin, FiniteSetTheorems, TLAPS

(* An identity is only on record with an account that is no longer local,  *)
(* and no lock reaches further than the lockout time from now.             *)
RowSound(row, t) ==
  /\ row.provider = "local" => row.subject = None
  /\ row.locked # None => row.locked <= t + LockTime

(* What a request decided on: it found a row unless it signs a new user    *)
(* up, that row is still there, and an account that is local now was local *)
(* then; an identity to bind fits the row that was found, and a code was   *)
(* made from its secret.                                                   *)
RequestSound(q, rows) ==
  /\ q.pc = "provision" <=> q.seen = None
  /\ q.seen # None =>
       /\ rows[q.a] # None
       /\ rows[q.a].provider = "local" => q.seen.provider = "local"
       /\ q.seen.provider = "local" => q.seen.subject = None
  /\ q.pc \in {"bind", "provision"} => q.input \in Subject
  /\ q.pc = "bind" => q.seen.provider = "local" \/ q.seen.subject \in {None, q.input}
  /\ q.pc \in {"setup", "verify"} => q.input \in Secret
  /\ q.pc = "verify" => q.input = q.seen.secret

AccountInv ==
  /\ TypeOK
  /\ \A a \in Account : acct[a] # None => RowSound(acct[a], now)
  /\ \A r \in Request : req[r] # Idle => RequestSound(req[r], acct)
  /\ \A r \in Request : until[r] # None => req[r] # Idle /\ until[r] <= now + LockTime

-----------------------------------------------------------------------------
(* A busy slot holds a request in flight, and the reverse. *)
LEMMA Busy ==
  ASSUME TypeOK, NEW r \in Request
  PROVE  /\ req[r] # Idle <=> req[r] \in InFlight
         /\ req[r] # Idle <=> req[r].pc # "idle"
  BY DEF TypeOK, Idle, InFlight

(* An account signed up is typed, and has its identity. *)
LEMMA NewRowTyped ==
  ASSUME NEW sub \in Subject
  PROVE  LET row == NewRow("oidc", sub) IN
         /\ row \in Row /\ row # None
         /\ row.provider = "oidc" /\ row.subject = sub
         /\ row.locked = None /\ row.enabled = FALSE
<1>1. NewRow("oidc", sub) \in Row
  BY DEF NewRow, Row
<1> QED
  BY <1>1, NoRowAssumption DEF NewRow

(* The initial states satisfy the invariant. *)
LEMMA InitSound == Init => AccountInv
<1> SUFFICES ASSUME Init PROVE AccountInv
  OBVIOUS
<1>1. PICK kind \in [Account -> InitialKind] :
        acct = [a \in Account |-> IF kind[a] = "none" THEN None ELSE NewRow(kind[a], None)]
  BY DEF Init
<1>2. \A a \in Account : acct[a] # None => acct[a] = NewRow(kind[a], None) /\ kind[a] \in {"local", "oidc"}
  BY <1>1, LoginAssumption DEF AllKinds
<1>3. \A a \in Account : acct[a] # None =>
        acct[a] \in Row /\ acct[a].subject = None /\ acct[a].locked = None
  <2> SUFFICES ASSUME NEW a \in Account, acct[a] # None
               PROVE  acct[a] \in Row /\ acct[a].subject = None /\ acct[a].locked = None
    OBVIOUS
  <2>1. acct[a] = NewRow(kind[a], None) /\ kind[a] \in {"local", "hybrid", "oidc"}
    BY <1>2
  <2> QED
    BY <2>1 DEF NewRow, Row
<1>4. TypeOK
  BY <1>1, <1>3 DEF Init, TypeOK
<1>5. \A a \in Account : acct[a] # None => RowSound(acct[a], now)
  BY <1>3 DEF RowSound
<1>6. \A r \in Request : req[r] = Idle /\ until[r] = None
  BY DEF Init
<1> QED
  BY <1>4, <1>5, <1>6 DEF AccountInv

(* A request that read the row as it is and took a fitting decision keeps  *)
(* the invariant.                                                          *)
LEMMA DecideSound ==
  ASSUME AccountInv, NEW r \in Request, NEW a \in Account,
         NEW d \in {"fail", "signin", "bind", "provision", "setup", "verify"},
         NEW input \in Subject \cup Secret \cup {None},
         Decide(r, a, d, input),
         d = "provision" <=> acct[a] = None,
         d \in {"bind", "provision"} => input \in Subject,
         d = "bind" => acct[a].provider = "local" \/ acct[a].subject \in {None, input},
         d \in {"setup", "verify"} => input \in Secret,
         d = "verify" => input = acct[a].secret
  PROVE  AccountInv'
<1> DEFINE q == [pc |-> d, a |-> a, seen |-> acct[a], input |-> input]
<1>1. /\ req' = [req EXCEPT ![r] = q]
      /\ acct' = acct /\ now' = now /\ until' = until
      /\ wrong' = wrong /\ verified' = verified
  BY DEF Decide
<1>2. q \in InFlight
  BY DEF AccountInv, TypeOK, InFlight
<1>3. TypeOK'
  BY <1>1, <1>2 DEF AccountInv, TypeOK
<1>4. acct[a] # None => RowSound(acct[a], now)
  BY DEF AccountInv
<1>5. RequestSound(q, acct)
  BY <1>4 DEF RequestSound, RowSound
<1>6. \A s \in Request : req'[s] = IF s = r THEN q ELSE req[s]
  BY <1>1 DEF AccountInv, TypeOK
<1> HIDE DEF q
<1>7. \A s \in Request : req'[s] # Idle => RequestSound(req'[s], acct)
  BY <1>5, <1>6 DEF AccountInv
<1>8. \A s \in Request : until[s] # None => req'[s] # Idle
  BY <1>2, <1>6 DEF AccountInv, InFlight, Idle
<1> QED
  BY <1>1, <1>3, <1>7, <1>8 DEF AccountInv

(* What every commit of a request has in common: its slot is free again,   *)
(* at most the row of its account is another, and a row stays.             *)
Commits(r) ==
  /\ req[r] # Idle
  /\ Answered(r)
  /\ now' = now
  /\ \A b \in Account \ {req[r].a} : acct'[b] = acct[b]
  /\ acct[req[r].a] # None => acct'[req[r].a] # None

(* A commit that leaves its account sound keeps the invariant. *)
LEMMA CommitSound ==
  ASSUME AccountInv, NEW r \in Request, Commits(r), TypeOK',
         acct'[req[r].a] # None => RowSound(acct'[req[r].a], now),
         acct[req[r].a] # None /\ acct'[req[r].a].provider = "local"
           => acct[req[r].a].provider = "local"
  PROVE  AccountInv'
<1> DEFINE a == req[r].a
<1>1. a \in Account
  BY Busy DEF Commits, AccountInv, InFlight
<1>0. \A s \in Request : until'[s] # None => req'[s] # Idle /\ until'[s] <= now + LockTime
  BY DEF Commits, Answered, AccountInv, TypeOK
<1>2. \A b \in Account : acct'[b] # None => RowSound(acct'[b], now)
  BY DEF Commits, AccountInv
<1>3. ASSUME NEW s \in Request, req'[s] # Idle
      PROVE  RequestSound(req'[s], acct')
  <2>1. req'[s] = req[s] /\ req[s] # Idle
    BY <1>3 DEF Commits, Answered, AccountInv, TypeOK
  <2>2. RequestSound(req[s], acct) /\ req[s] \in InFlight
    BY <2>1, Busy DEF AccountInv
  <2>3. req[s].a \in Account
    BY <2>2 DEF InFlight
  <2>4. CASE req[s].a = a
    BY <2>1, <2>2, <2>4 DEF RequestSound, Commits
  <2>5. CASE req[s].a # a
    BY <2>1, <2>2, <2>3, <2>5 DEF RequestSound, Commits
  <2> QED
    BY <2>4, <2>5
<1> QED
  BY <1>0, <1>2, <1>3 DEF AccountInv, Commits

-----------------------------------------------------------------------------
(* Whatever row a request read, it writes to the row as it is now: what    *)
(* each commit does to that row.                                           *)
LEMMA Rows ==
  ASSUME AccountInv, NEW r \in Request, req[r] # Idle
  PROVE  /\ req[r] \in InFlight /\ req[r].a \in Account
         /\ RequestSound(req[r], acct)
         /\ req[r].pc # "provision" =>
              /\ acct[req[r].a] \in Row /\ acct[req[r].a] # None
              /\ req[r].seen \in Row /\ req[r].seen # None
              /\ RowSound(acct[req[r].a], now)
<1>1. req[r] \in InFlight /\ RequestSound(req[r], acct)
  BY Busy DEF AccountInv
<1>2. req[r].a \in Account /\ req[r].seen \in Row \cup {None}
  BY <1>1 DEF InFlight
<1>3. req[r].pc # "provision" => req[r].seen # None /\ acct[req[r].a] # None
  BY <1>1 DEF RequestSound
<1>4. acct[req[r].a] \in Row \cup {None}
  BY <1>2 DEF AccountInv, TypeOK
<1> QED
  BY <1>1, <1>2, <1>3, <1>4 DEF AccountInv

(* A slot that is freed keeps its type. *)
LEMMA SlotFreed ==
  ASSUME TypeOK, NEW r \in Request
  PROVE  /\ [req EXCEPT ![r] = Idle] \in [Request -> {Idle} \cup InFlight]
         /\ [until EXCEPT ![r] = None] \in [Request -> Nat \cup {None}]
  BY DEF TypeOK

(* Counting a wrong guess, or starting over, keeps the type of the count. *)
LEMMA OneMore ==
  ASSUME TypeOK, NEW a \in Account
  PROVE  /\ [wrong EXCEPT ![a] = @ + 1] \in [Account -> Nat]
         /\ [wrong EXCEPT ![a] = 0] \in [Account -> Nat]
  BY DEF TypeOK

(* A commit of one typed row. *)
LEMMA OneRow ==
  ASSUME AccountInv, NEW r \in Request, req[r] # Idle,
         NEW row \in Row, acct' = [acct EXCEPT ![req[r].a] = row],
         Answered(r), now' = now,
         wrong' \in [Account -> Nat], verified' \in [Account -> SUBSET Secret]
  PROVE  Commits(r) /\ TypeOK' /\ acct'[req[r].a] = row
<1>1. req[r].a \in Account /\ acct \in [Account -> Row \cup {None}] /\ row # None
  BY Rows, NoRowAssumption DEF AccountInv, TypeOK
<1>2. acct' \in [Account -> Row \cup {None}] /\ acct'[req[r].a] = row
  BY <1>1
<1>3. TypeOK'
  BY <1>2, SlotFreed DEF AccountInv, TypeOK, Answered
<1>4. \A b \in Account \ {req[r].a} : acct'[b] = acct[b]
  BY <1>1
<1> QED
  BY <1>1, <1>2, <1>3, <1>4 DEF Commits

(* A failed attempt counts, and may lock until the time it took.          *)
LEMMA FailEffect ==
  ASSUME AccountInv, NEW r \in Request, CommitFail(r)
  PROVE  LET a == req[r].a IN
         /\ Commits(r) /\ TypeOK'
         /\ req[r].pc = "fail" /\ acct'[a] \in Row
         /\ acct'[a].failed = req[r].seen.failed + 1
         /\ \A f \in {"provider", "subject", "secret", "enabled"} : acct'[a][f] = acct[a][f]
         /\ \/ acct'[a].locked = acct[a].locked
            \/ Locks(req[r]) /\ acct'[a].locked = until[r]
         /\ Locks(req[r]) => /\ until[r] \in Nat
                             /\ acct'[a].locked = Written(r, "locked", until[r])
         /\ verified' = verified /\ wrong' = [wrong EXCEPT ![a] = @ + 1]
<1> DEFINE a == req[r].a
           failed == Written(r, "failed", req[r].seen.failed + 1)
           lock == IF Locks(req[r]) THEN Written(r, "locked", until[r]) ELSE acct[a].locked
           row == [acct[a] EXCEPT !.failed = failed, !.locked = lock]
<1>1. req[r] # Idle /\ req[r].pc = "fail"
  BY Busy DEF CommitFail, AccountInv
<1>2. /\ a \in Account /\ acct[a] \in Row /\ req[r].seen \in Row
      /\ acct \in [Account -> Row \cup {None}]
      /\ Locks(req[r]) => until[r] \in Nat
  BY <1>1, Rows DEF AccountInv, TypeOK, CommitFail
<1>3. acct' = [acct EXCEPT ![a] = row]
  BY <1>2 DEF CommitFail, Row
<1>4. /\ failed \in Nat /\ failed = req[r].seen.failed + 1
      /\ lock = acct[a].locked \/ (Locks(req[r]) /\ lock = until[r])
      /\ lock \in Nat \cup {None}
      /\ Locks(req[r]) => lock = Written(r, "locked", until[r])
  BY <1>2 DEF Written, Row
<1> HIDE DEF failed, lock
<1>5. /\ row \in Row /\ row.locked = lock /\ row.failed = failed
      /\ \A f \in {"provider", "subject", "secret", "enabled"} : row[f] = acct[a][f]
  BY <1>2, <1>4 DEF Row
<1>6. /\ Answered(r) /\ now' = now /\ verified' = verified
      /\ wrong' = [wrong EXCEPT ![a] = @ + 1]
  BY DEF CommitFail
<1>7. wrong' \in [Account -> Nat] /\ verified' \in [Account -> SUBSET Secret]
  BY <1>2, <1>6, OneMore DEF AccountInv, TypeOK
<1> HIDE DEF row
<1>8. Commits(r) /\ TypeOK' /\ acct'[a] = row
  BY <1>1, <1>3, <1>5, <1>6, <1>7, OneRow
<1> QED
  BY <1>1, <1>2, <1>4, <1>5, <1>6, <1>8

(* A sign-in resets the counter, and the lock it has seen. *)
LEMMA SignInEffect ==
  ASSUME AccountInv, NEW r \in Request, CommitSignIn(r)
  PROVE  LET a == req[r].a IN
         /\ Commits(r) /\ TypeOK'
         /\ req[r].pc # "provision" /\ acct'[a] \in Row
         /\ \A f \in {"provider", "subject", "secret", "enabled"} : acct'[a][f] = acct[a][f]
         /\ acct'[a].locked \in {acct[a].locked, None}
         /\ verified' = verified /\ wrong'[a] = 0
<1> DEFINE a == req[r].a
           failed == Written(r, "failed", 0)
           lock == Written(r, "locked", None)
           row == [acct[a] EXCEPT !.failed = failed, !.locked = lock]
<1>1. req[r] # Idle /\ req[r].pc = "signin"
  BY Busy DEF CommitSignIn, AccountInv
<1>2. /\ a \in Account /\ acct[a] \in Row /\ req[r].seen \in Row
      /\ acct \in [Account -> Row \cup {None}] /\ wrong \in [Account -> Nat]
  BY <1>1, Rows DEF AccountInv, TypeOK
<1>3. acct' = [acct EXCEPT ![a] = row]
  BY <1>2 DEF CommitSignIn, Row
<1>4. failed \in Nat /\ lock \in {acct[a].locked, None} /\ lock \in Nat \cup {None}
  BY <1>2 DEF Written, Row
<1> HIDE DEF failed, lock
<1>5. /\ row \in Row /\ row.locked = lock
      /\ \A f \in {"provider", "subject", "secret", "enabled"} : row[f] = acct[a][f]
  BY <1>2, <1>4 DEF Row
<1>6. /\ Answered(r) /\ now' = now /\ verified' = verified
      /\ wrong' = [wrong EXCEPT ![a] = 0]
  BY DEF CommitSignIn
<1>7. wrong' \in [Account -> Nat] /\ verified' \in [Account -> SUBSET Secret] /\ wrong'[a] = 0
  BY <1>2, <1>6, OneMore DEF AccountInv, TypeOK
<1> HIDE DEF row
<1>8. Commits(r) /\ TypeOK' /\ acct'[a] = row
  BY <1>1, <1>3, <1>5, <1>6, <1>7, OneRow
<1> QED
  BY <1>1, <1>4, <1>5, <1>6, <1>7, <1>8

(* Enrolment: the secret it drew, and off unless it saw that MFA is off. *)
LEMMA SetupEffect ==
  ASSUME AccountInv, NEW r \in Request, CommitSetup(r)
  PROVE  LET a == req[r].a IN
         /\ Commits(r) /\ TypeOK'
         /\ req[r].pc # "provision" /\ acct'[a] \in Row
         /\ \A f \in {"provider", "subject", "failed", "locked"} : acct'[a][f] = acct[a][f]
         /\ acct'[a].enabled = Written(r, "enabled", FALSE)
         /\ verified' = verified /\ wrong' = wrong
<1> DEFINE a == req[r].a
           secret == Written(r, "secret", req[r].input)
           enabled == Written(r, "enabled", FALSE)
           row == [acct[a] EXCEPT !.secret = secret, !.enabled = enabled]
<1>1. req[r] # Idle /\ req[r].pc = "setup"
  BY Busy DEF CommitSetup, AccountInv
<1>2. /\ a \in Account /\ acct[a] \in Row /\ req[r].seen \in Row /\ req[r].input \in Secret
      /\ acct \in [Account -> Row \cup {None}]
  BY <1>1, Rows DEF AccountInv, TypeOK, RequestSound
<1>3. acct' = [acct EXCEPT ![a] = row]
  BY <1>2 DEF CommitSetup, Row
<1>4. secret \in Secret \cup {None} /\ enabled \in BOOLEAN
  BY <1>2 DEF Written, Row
<1>5. row.enabled = enabled
  BY <1>2 DEF Row
<1> HIDE DEF secret, enabled
<1>6. /\ row \in Row
      /\ \A f \in {"provider", "subject", "failed", "locked"} : row[f] = acct[a][f]
  BY <1>2, <1>4 DEF Row
<1>7. /\ Answered(r) /\ now' = now /\ verified' = verified
      /\ wrong' = wrong
  BY DEF CommitSetup
<1>8. wrong' \in [Account -> Nat] /\ verified' \in [Account -> SUBSET Secret]
  BY <1>7 DEF AccountInv, TypeOK
<1> HIDE DEF row
<1>9. Commits(r) /\ TypeOK' /\ acct'[a] = row
  BY <1>1, <1>3, <1>6, <1>7, <1>8, OneRow
<1> QED
  BY <1>1, <1>5, <1>6, <1>7, <1>9 DEF enabled

(* Verification turns MFA on, with whatever secret the row has by then. *)
LEMMA VerifyEffect ==
  ASSUME AccountInv, NEW r \in Request, CommitVerify(r)
  PROVE  LET a == req[r].a IN
         /\ Commits(r) /\ TypeOK'
         /\ req[r].pc # "provision" /\ acct'[a] \in Row
         /\ \A f \in {"provider", "subject", "secret", "failed", "locked"} : acct'[a][f] = acct[a][f]
         /\ req[r].input = req[r].seen.secret /\ wrong' = wrong
         /\ req[r].input \in verified'[a]
         /\ \A b \in Account : verified[b] \subseteq verified'[b]
<1> DEFINE a == req[r].a
           enabled == Written(r, "enabled", TRUE)
           row == [acct[a] EXCEPT !.enabled = enabled]
<1>1. req[r] # Idle /\ req[r].pc = "verify"
  BY Busy DEF CommitVerify, AccountInv
<1>2. /\ a \in Account /\ acct[a] \in Row /\ req[r].seen \in Row /\ req[r].input \in Secret
      /\ acct \in [Account -> Row \cup {None}] /\ verified \in [Account -> SUBSET Secret]
      /\ req[r].input = req[r].seen.secret
  BY <1>1, Rows DEF AccountInv, TypeOK, RequestSound
<1>3. acct' = [acct EXCEPT ![a] = row]
  BY <1>2 DEF CommitVerify, Row
<1>4. enabled \in BOOLEAN
  BY <1>2 DEF Written, Row
<1> HIDE DEF enabled
<1>5. /\ row \in Row
      /\ \A f \in {"provider", "subject", "secret", "failed", "locked"} : row[f] = acct[a][f]
  BY <1>2, <1>4 DEF Row
<1>6. /\ Answered(r) /\ now' = now
      /\ wrong' = wrong /\ verified' = [verified EXCEPT ![a] = @ \cup {req[r].input}]
  BY DEF CommitVerify
<1>7. /\ wrong' \in [Account -> Nat] /\ verified' \in [Account -> SUBSET Secret]
      /\ req[r].input \in verified'[a]
      /\ \A b \in Account : verified[b] \subseteq verified'[b]
  BY <1>2, <1>6 DEF AccountInv, TypeOK
<1> HIDE DEF row
<1>8. Commits(r) /\ TypeOK' /\ acct'[a] = row
  BY <1>1, <1>3, <1>5, <1>6, <1>7, OneRow
<1> QED
  BY <1>1, <1>2, <1>5, <1>6, <1>7, <1>8

(* Binding: the identity is written unless it is the one that was seen,    *)
(* and the account is local no longer.                                     *)
LEMMA BindEffect ==
  ASSUME AccountInv, NEW r \in Request, CommitBind(r)
  PROVE  LET a == req[r].a IN
         /\ Commits(r) /\ TypeOK'
         /\ req[r].pc = "bind"
         /\ verified' = verified
         /\ \/ acct' = acct /\ wrong' = wrong
            \/ /\ acct'[a] \in Row
               /\ acct'[a].provider = Written(r, "provider", IF req[r].seen.provider = "local"
                                                             THEN "hybrid" ELSE req[r].seen.provider)
               /\ acct'[a].provider # "local"
               /\ acct'[a].subject = Written(r, "subject", req[r].input)
               /\ acct'[a].locked \in {acct[a].locked, None}
               /\ acct'[a].secret = acct[a].secret /\ acct'[a].enabled = acct[a].enabled
               /\ wrong'[a] = 0
<1> DEFINE a == req[r].a
           provider == Written(r, "provider", IF req[r].seen.provider = "local"
                                              THEN "hybrid" ELSE req[r].seen.provider)
           subject == Written(r, "subject", req[r].input)
           failed == Written(r, "failed", 0)
           lock == Written(r, "locked", None)
           row == [acct[a] EXCEPT !.provider = provider, !.subject = subject,
                                  !.failed = failed, !.locked = lock]
<1>1. req[r] # Idle /\ req[r].pc = "bind"
  BY Busy DEF CommitBind, AccountInv
<1>2. /\ a \in Account /\ acct[a] \in Row /\ req[r].seen \in Row /\ req[r].input \in Subject
      /\ acct[a].provider = "local" => req[r].seen.provider = "local"
      /\ acct \in [Account -> Row \cup {None}] /\ wrong \in [Account -> Nat]
  BY <1>1, Rows DEF AccountInv, TypeOK, RequestSound
<1>3. /\ Answered(r) /\ now' = now /\ verified' = verified
  BY DEF CommitBind
<1>4. \/ acct' = acct /\ wrong' = wrong
      \/ acct' = [acct EXCEPT ![a] = row] /\ wrong' = [wrong EXCEPT ![a] = 0]
  BY DEF CommitBind
<1>5. /\ provider \in {"hybrid", "oidc"}
      /\ subject \in Subject \cup {None}
      /\ failed \in Nat
      /\ lock \in {acct[a].locked, None} /\ lock \in Nat \cup {None}
  BY <1>2 DEF Written, Row
<1> HIDE DEF provider, subject, failed, lock
<1>6. /\ row \in Row /\ row.locked = lock /\ row.provider = provider /\ row.subject = subject
      /\ row.secret = acct[a].secret /\ row.enabled = acct[a].enabled
  BY <1>2, <1>5 DEF Row
<1> HIDE DEF row
<1>7. CASE acct' = acct /\ wrong' = wrong
  <2>1. Commits(r)
    BY <1>1, <1>3, <1>7 DEF Commits
  <2>2. TypeOK'
    BY <1>3, <1>7, SlotFreed DEF AccountInv, TypeOK, Answered
  <2> QED
    BY <2>1, <2>2, <1>1, <1>3, <1>7
<1>8. CASE acct' = [acct EXCEPT ![a] = row] /\ wrong' = [wrong EXCEPT ![a] = 0]
  <2>1. wrong' \in [Account -> Nat] /\ verified' \in [Account -> SUBSET Secret] /\ wrong'[a] = 0
    BY <1>2, <1>3, <1>8, OneMore DEF AccountInv, TypeOK
  <2>2. Commits(r) /\ TypeOK' /\ acct'[a] = row
    BY <1>1, <1>3, <1>6, <1>8, <2>1, OneRow
  <2>3. provider # "local"
    BY <1>5
  <2> QED
    BY <1>1, <1>3, <1>5, <1>6, <2>1, <2>2, <2>3 DEF provider, subject
<1> QED
  BY <1>4, <1>7, <1>8

(* Signing up: a new row where there still is none. *)
LEMMA ProvisionEffect ==
  ASSUME AccountInv, NEW r \in Request, CommitProvision(r)
  PROVE  LET a == req[r].a IN
         /\ Commits(r) /\ TypeOK'
         /\ req[r].pc = "provision" /\ a \in Account /\ req[r].input \in Subject
         /\ verified' = verified /\ wrong' = wrong
         /\ \/ acct' = acct
            \/ acct[a] = None /\ acct'[a] = NewRow("oidc", req[r].input)
<1> DEFINE a == req[r].a
           row == NewRow("oidc", req[r].input)
<1>1. req[r] # Idle /\ req[r].pc = "provision"
  BY Busy DEF CommitProvision, AccountInv
<1>2. /\ a \in Account /\ req[r].input \in Subject
      /\ acct \in [Account -> Row \cup {None}]
  BY <1>1, Rows DEF AccountInv, TypeOK, RequestSound
<1>3. /\ Answered(r) /\ now' = now /\ verified' = verified /\ wrong' = wrong
  BY DEF CommitProvision
<1>4. acct' = acct \/ (acct[a] = None /\ acct' = [acct EXCEPT ![a] = row])
  BY DEF CommitProvision
<1>5. row \in Row
  BY <1>2, NewRowTyped
<1>6. wrong' \in [Account -> Nat] /\ verified' \in [Account -> SUBSET Secret]
  BY <1>3 DEF AccountInv, TypeOK
<1> HIDE DEF row
<1>7. CASE acct' = acct
  <2>1. Commits(r)
    BY <1>1, <1>3, <1>7 DEF Commits
  <2>2. TypeOK'
    BY <1>3, <1>7, SlotFreed DEF AccountInv, TypeOK, Answered
  <2> QED
    BY <2>1, <2>2, <1>1, <1>2, <1>3, <1>7
<1>8. CASE acct[a] = None /\ acct' = [acct EXCEPT ![a] = row]
  <2>1. Commits(r) /\ TypeOK' /\ acct'[a] = row
    BY <1>1, <1>3, <1>5, <1>6, <1>8, OneRow
  <2> QED
    BY <1>1, <1>2, <1>3, <1>8, <2>1 DEF row
<1> QED
  BY <1>4, <1>7, <1>8

-----------------------------------------------------------------------------
(* Every step keeps the invariant. *)
LEMMA NextSound == AccountInv /\ [Next]_vars => AccountInv'
<1> SUFFICES ASSUME AccountInv, [Next]_vars PROVE AccountInv'
  OBVIOUS
<1>1. ASSUME NEW r \in Request, NEW a \in Account, NEW pw \in BOOLEAN,
             NEW code \in Secret \cup {None}, ReadLogin(r, a, pw, code)
      PROVE  AccountInv'
  <2>1. PICK d \in {"signin", "fail"} : Decide(r, a, d, None)
    BY <1>1 DEF ReadLogin
  <2>2. acct[a] # None
    BY <1>1 DEF ReadLogin
  <2> QED
    BY <2>1, <2>2, DecideSound
<1>2. ASSUME NEW r \in Request, NEW a \in Account, NEW sub \in Subject, ReadSso(r, a, sub)
      PROVE  AccountInv'
  <2>1. CASE acct[a] = None
    BY <1>2, <2>1, DecideSound DEF ReadSso
  <2>2. CASE acct[a] # None
    BY <1>2, <2>2, DecideSound DEF ReadSso
  <2> QED
    BY <2>1, <2>2
<1>3. ASSUME NEW r \in Request, NEW a \in Account, NEW secret \in Secret, ReadSetup(r, a, secret)
      PROVE  AccountInv'
  BY <1>3, DecideSound DEF ReadSetup
<1>4. ASSUME NEW r \in Request, NEW a \in Account, NEW secret \in Secret, ReadVerify(r, a, secret)
      PROVE  AccountInv'
  BY <1>4, DecideSound DEF ReadVerify, CodeMatches
<1>5. ASSUME NEW r \in Request, CommitFail(r) PROVE AccountInv'
  <2>1. RowSound(acct'[req[r].a], now)
    BY <1>5, FailEffect, Rows DEF RowSound, AccountInv, Commits
  <2> QED
    BY <1>5, <2>1, FailEffect, CommitSound
<1>6. ASSUME NEW r \in Request, CommitSignIn(r) PROVE AccountInv'
  <2>1. RowSound(acct'[req[r].a], now)
    BY <1>6, SignInEffect, Rows DEF RowSound, Commits
  <2> QED
    BY <1>6, <2>1, SignInEffect, CommitSound
<1>7. ASSUME NEW r \in Request, CommitBind(r) PROVE AccountInv'
  <2>1. CASE acct' = acct
    BY <1>7, <2>1, BindEffect, Rows, CommitSound DEF Commits
  <2>2. CASE acct' # acct
    <3>1. RowSound(acct'[req[r].a], now) /\ acct'[req[r].a].provider # "local"
      BY <1>7, <2>2, BindEffect, Rows DEF RowSound, Commits
    <3> QED
      BY <1>7, <3>1, BindEffect, CommitSound
  <2> QED
    BY <2>1, <2>2
<1>8. ASSUME NEW r \in Request, CommitProvision(r) PROVE AccountInv'
  <2>1. CASE acct' = acct
    BY <1>8, <2>1, ProvisionEffect, CommitSound DEF AccountInv
  <2>2. CASE acct' # acct
    <3>1. RowSound(acct'[req[r].a], now) /\ acct[req[r].a] = None
      <4>1. acct[req[r].a] = None /\ acct'[req[r].a] = NewRow("oidc", req[r].input)
        BY <1>8, <2>2, ProvisionEffect
      <4> QED
        BY <4>1 DEF RowSound, NewRow
    <3> QED
      BY <1>8, <3>1, ProvisionEffect, CommitSound
  <2> QED
    BY <2>1, <2>2
<1>9. ASSUME NEW r \in Request, CommitSetup(r) PROVE AccountInv'
  <2>1. RowSound(acct'[req[r].a], now)
    BY <1>9, SetupEffect, Rows DEF RowSound, Commits
  <2> QED
    BY <1>9, <2>1, SetupEffect, CommitSound
<1>10. ASSUME NEW r \in Request, CommitVerify(r) PROVE AccountInv'
  <2>1. RowSound(acct'[req[r].a], now)
    BY <1>10, VerifyEffect, Rows DEF RowSound, Commits
  <2> QED
    BY <1>10, <2>1, VerifyEffect, CommitSound
<1>11. ASSUME NEW r \in Request, Crash(r) PROVE AccountInv'
  <2>1. Answered(r) /\ acct' = acct /\ now' = now /\ wrong' = wrong /\ verified' = verified
    BY <1>11 DEF Crash
  <2>2. TypeOK'
    BY <2>1, SlotFreed DEF AccountInv, TypeOK, Answered
  <2>3. \A s \in Request : req'[s] # Idle => req'[s] = req[s]
    BY <2>1 DEF AccountInv, TypeOK, Answered
  <2>4. \A s \in Request : until'[s] # None => req'[s] # Idle /\ until'[s] <= now + LockTime
    BY <2>1 DEF AccountInv, TypeOK, Answered
  <2> QED
    BY <2>1, <2>2, <2>3, <2>4 DEF AccountInv
<1>12. CASE Tick
  <2>1. TypeOK'
    BY <1>12 DEF Tick, AccountInv, TypeOK
  <2>2. \A a \in Account : acct[a] # None => RowSound(acct[a], now + 1)
    <3> SUFFICES ASSUME NEW a \in Account, acct[a] # None PROVE RowSound(acct[a], now + 1)
      OBVIOUS
    <3>1. acct[a] \in Row /\ RowSound(acct[a], now) /\ now \in Nat
      BY DEF AccountInv, TypeOK
    <3> QED
      BY <3>1, LoginAssumption DEF RowSound, Row
  <2>3. \A r \in Request : until[r] # None => req[r] # Idle /\ until[r] <= now + 1 + LockTime
    BY LoginAssumption DEF AccountInv, TypeOK
  <2> QED
    BY <1>12, <2>1, <2>2, <2>3 DEF Tick, AccountInv
<1>13. ASSUME NEW r \in Request, TakeTime(r) PROVE AccountInv'
  <2>1. /\ until' = [until EXCEPT ![r] = now + LockTime] /\ now + LockTime \in Nat
        /\ acct' = acct /\ now' = now /\ req' = req /\ wrong' = wrong /\ verified' = verified
    BY <1>13, LoginAssumption DEF TakeTime, AccountInv, TypeOK
  <2>2. TypeOK'
    BY <2>1 DEF AccountInv, TypeOK
  <2>3. req[r] # Idle
    BY <1>13 DEF TakeTime, Locks, Idle
  <2>4. \A s \in Request : until'[s] # None => req'[s] # Idle /\ until'[s] <= now + LockTime
    BY <2>1, <2>3 DEF AccountInv, TypeOK
  <2> QED
    BY <2>1, <2>2, <2>4 DEF AccountInv
<1>14. CASE UNCHANGED vars
  BY <1>14 DEF vars, AccountInv, TypeOK
<1> QED
  BY <1>1, <1>2, <1>3, <1>4, <1>5, <1>6, <1>7, <1>8, <1>9, <1>10, <1>11, <1>12, <1>13, <1>14
  DEF Next

(* The invariant holds in every reachable state. *)
THEOREM AccountInvCorrect == Spec => []AccountInv
<1> QED
  BY InitSound, NextSound, PTL DEF Spec

(* Sign-in keeps its types, whatever the order of commits. *)
THEOREM TypeCorrect == Spec => []TypeOK
<1>1. AccountInv => TypeOK
  BY DEF AccountInv
<1> QED
  BY <1>1, AccountInvCorrect, PTL

(* Only commits write to accounts. *)
LEMMA Writes ==
  ASSUME [Next]_vars
  PROVE  \/ acct' = acct /\ verified' = verified
         \/ \E r \in Request : \/ CommitFail(r) \/ CommitSignIn(r) \/ CommitBind(r)
                               \/ CommitProvision(r) \/ CommitSetup(r) \/ CommitVerify(r)
  BY DEF Next, vars, ReadLogin, ReadSso, ReadSetup, ReadVerify, Decide, TakeTime, Crash, Tick

(* A committing request that saw another row than it writes to has been    *)
(* overtaken.                                                              *)
LEMMA IsOvertaken ==
  ASSUME AccountInv, NEW r \in Request, Commits(r), req[r].seen # acct[req[r].a]
  PROVE  Overtaken(r, req[r].a)
  BY DEF Overtaken, Committing, Commits, Answered, AccountInv, TypeOK

(* An identity on record gives way only to a sign-in that found none:      *)
(* whoever finds one is let in with that one only.                         *)
THEOREM ReboundCorrect == Spec => ReboundOnlyByOvertaking
<1> DEFINE Explained(a) ==
      acct[a] # None /\ acct[a].subject \notin {None, acct'[a].subject}
        => \E r \in Request : Overtaken(r, a) /\ req[r].seen.subject = None
<1>1. ASSUME AccountInv, [Next]_vars, NEW a \in Account PROVE Explained(a)
  <2> SUFFICES ASSUME acct[a] # None, acct[a].subject \notin {None, acct'[a].subject}
               PROVE  \E r \in Request : Overtaken(r, a) /\ req[r].seen.subject = None
    OBVIOUS
  <2>1. PICK r \in Request : \/ CommitFail(r) \/ CommitSignIn(r) \/ CommitBind(r)
                             \/ CommitProvision(r) \/ CommitSetup(r) \/ CommitVerify(r)
    BY <1>1, Writes
  <2>2. Commits(r)
    BY <1>1, <2>1, FailEffect, SignInEffect, BindEffect, ProvisionEffect, SetupEffect, VerifyEffect
  <2>3. req[r].a = a
    BY <2>2 DEF Commits
  <2>4. CommitBind(r)
    BY <1>1, <2>1, <2>3, FailEffect, SignInEffect, ProvisionEffect, SetupEffect, VerifyEffect
  <2>5. acct'[a].subject = Written(r, "subject", req[r].input) /\ req[r].pc = "bind"
    BY <1>1, <2>3, <2>4, BindEffect
  <2>6. req[r].seen.subject # req[r].input
    BY <2>3, <2>5 DEF Written
  <2>7. req[r].seen.subject = None
    BY <1>1, <2>2, <2>5, <2>6, Rows DEF RequestSound, Commits
  <2>8. Overtaken(r, a)
    BY <1>1, <2>2, <2>3, <2>7, IsOvertaken
  <2> QED
    BY <2>7, <2>8
<1>2. AccountInv /\ [Next]_vars => [\A a \in Account : Explained(a)]_vars
  BY <1>1
<1>3. Spec => [][\A a \in Account : Explained(a)]_vars
  BY <1>2, AccountInvCorrect, PTL DEF Spec
<1> QED
  BY <1>3 DEF ReboundOnlyByOvertaking

(* MFA comes to be on with a secret nobody has shown a code for only when  *)
(* a setup and a verification overtake one another.                        *)
THEOREM VerifiedCorrect == Spec => UnverifiedOnlyByOvertaking
<1> DEFINE Explained(a) ==
      ~Unverified(a) /\ Unverified(a)' => \E r \in Request : Overtaken(r, a)
<1>1. ASSUME AccountInv, [Next]_vars, NEW a \in Account PROVE Explained(a)
  <2> SUFFICES ASSUME ~Unverified(a), Unverified(a)'
               PROVE  \E r \in Request : Overtaken(r, a)
    OBVIOUS
  <2>0. acct'[a] # None /\ acct'[a].enabled /\ acct'[a].secret \notin verified'[a]
    BY DEF Unverified
  <2>1. PICK r \in Request : \/ CommitFail(r) \/ CommitSignIn(r) \/ CommitBind(r)
                             \/ CommitProvision(r) \/ CommitSetup(r) \/ CommitVerify(r)
    BY <1>1, Writes, <2>0 DEF Unverified
  <2>2. Commits(r) /\ \A b \in Account : verified[b] \subseteq verified'[b]
    BY <1>1, <2>1, FailEffect, SignInEffect, BindEffect, ProvisionEffect, SetupEffect, VerifyEffect
  <2>3. req[r].a = a
    BY <2>0, <2>2 DEF Commits, Unverified
  <2>4. CASE CommitFail(r)
    BY <1>1, <2>0, <2>2, <2>3, <2>4, FailEffect, Rows DEF Unverified, Commits
  <2>5. CASE CommitSignIn(r)
    BY <1>1, <2>0, <2>2, <2>3, <2>5, SignInEffect, Rows DEF Unverified, Commits
  <2>6. CASE CommitBind(r)
    BY <1>1, <2>0, <2>2, <2>3, <2>6, BindEffect, Rows DEF Unverified, Commits
  <2>7. CASE CommitProvision(r)
    <3>1. acct' = acct \/ acct'[a] = NewRow("oidc", req[r].input)
      BY <1>1, <2>3, <2>7, ProvisionEffect
    <3>2. acct' = acct
      BY <2>0, <3>1 DEF NewRow
    <3> QED
      BY <1>1, <2>0, <2>7, <3>2, ProvisionEffect DEF Unverified
  <2>8. CASE CommitSetup(r)
    <3>1. acct'[a].enabled = Written(r, "enabled", FALSE)
      BY <1>1, <2>3, <2>8, SetupEffect
    <3>2. req[r].seen # acct[a]
      BY <2>0, <2>3, <3>1 DEF Written
    <3> QED
      BY <1>1, <2>2, <2>3, <3>2, IsOvertaken
  <2>9. CASE CommitVerify(r)
    <3>1. acct'[a].secret = acct[a].secret /\ req[r].seen.secret \in verified'[a]
      BY <1>1, <2>3, <2>9, VerifyEffect
    <3>2. req[r].seen # acct[a]
      BY <2>0, <3>1
    <3> QED
      BY <1>1, <2>2, <2>3, <3>2, IsOvertaken
  <2> QED
    BY <2>1, <2>4, <2>5, <2>6, <2>7, <2>8, <2>9
<1>2. AccountInv /\ [Next]_vars => [\A a \in Account : Explained(a)]_vars
  BY <1>1
<1>3. Spec => [][\A a \in Account : Explained(a)]_vars
  BY <1>2, AccountInvCorrect, PTL DEF Spec
<1> QED
  BY <1>3 DEF UnverifiedOnlyByOvertaking

-----------------------------------------------------------------------------
(* An account that was signed up has its identity, and so it had for       *)
(* whoever has read it since.                                              *)
SignedUpInv ==
  /\ \A a \in Account : acct[a] # None /\ acct[a].provider = "oidc" => acct[a].subject # None
  /\ \A r \in Request :
       LET q == req[r] IN
       q # Idle /\ q.seen # None /\ acct[q.a].provider = "oidc"
         => q.seen.provider = "oidc" /\ q.seen.subject = acct[q.a].subject

(* A commit leaves a signed-up account signed up, with its identity, and   *)
(* makes one only where there is none.                                     *)
SignedUpStays(a) ==
  acct'[a] # None /\ acct'[a].provider = "oidc"
    => \/ acct[a] = None /\ acct'[a].subject # None
       \/ /\ acct[a] # None
          /\ acct[a].provider = "oidc"
          /\ acct'[a].subject = acct[a].subject

StaysSignedUp(a) ==
  acct[a] # None /\ acct[a].provider = "oidc"
    => acct'[a].provider = "oidc" /\ acct'[a].subject = acct[a].subject

(* No step changes the identity of an account that was signed up.          *)
LEMMA SignUpStep ==
  ASSUME AccountInv, SignedUpInv, [Next]_vars, NEW a \in Account
  PROVE  SignedUpStays(a) /\ StaysSignedUp(a)
<1>1. CASE acct' = acct
  BY <1>1 DEF SignedUpStays, StaysSignedUp
<1>2. ASSUME NEW r \in Request, Commits(r),
             \/ CommitFail(r) \/ CommitSignIn(r) \/ CommitBind(r)
             \/ CommitProvision(r) \/ CommitSetup(r) \/ CommitVerify(r)
      PROVE  SignedUpStays(a) /\ StaysSignedUp(a)
  <2>1. CASE req[r].a # a
    BY <1>2, <2>1 DEF Commits, SignedUpStays, StaysSignedUp
  <2>2. CASE req[r].a = a /\ CommitProvision(r)
    <3>1. acct' = acct \/ (acct[a] = None /\ acct'[a] = NewRow("oidc", req[r].input))
      BY <2>2, ProvisionEffect
    <3>2. req[r].input # None
      BY <2>2, ProvisionEffect, LoginAssumption
    <3> QED
      BY <3>1, <3>2 DEF SignedUpStays, StaysSignedUp, NewRow
  <2>3. CASE req[r].a = a /\ CommitBind(r)
    <3>1. CASE acct' = acct
      BY <3>1 DEF SignedUpStays, StaysSignedUp
    <3>2. CASE acct' # acct
      <4>1. /\ acct'[a].provider = Written(r, "provider", IF req[r].seen.provider = "local"
                                                           THEN "hybrid" ELSE req[r].seen.provider)
            /\ acct'[a].subject = Written(r, "subject", req[r].input)
            /\ req[r].pc = "bind"
        BY <2>3, <3>2, BindEffect
      <4>2. /\ acct[a] # None /\ acct[a] \in Row /\ req[r].seen \in Row /\ req[r].seen # None
            /\ RequestSound(req[r], acct)
        BY <1>2, <2>3, <4>1, Rows DEF Commits
      <4>3. acct'[a].provider = "oidc" => acct[a].provider = "oidc"
        BY <2>3, <4>1, <4>2 DEF Written, Row
      <4>4. ASSUME acct[a].provider = "oidc"
            PROVE  acct'[a].provider = "oidc" /\ acct'[a].subject = acct[a].subject
        <5>1. req[r].seen.provider = "oidc" /\ req[r].seen.subject = acct[a].subject
          BY <1>2, <2>3, <4>2, <4>4 DEF SignedUpInv, Commits
        <5>2. req[r].input = req[r].seen.subject
          BY <4>1, <4>2, <4>4, <5>1 DEF RequestSound, SignedUpInv
        <5> QED
          BY <2>3, <4>1, <4>4, <5>1, <5>2 DEF Written
      <4> QED
        BY <4>2, <4>3, <4>4 DEF SignedUpStays, StaysSignedUp
    <3> QED
      BY <3>1, <3>2
  <2>4. CASE req[r].a = a /\ ~CommitProvision(r) /\ ~CommitBind(r)
    <3>1. /\ acct'[a].provider = acct[a].provider
          /\ acct'[a].subject = acct[a].subject
          /\ req[r].pc # "provision"
      BY <1>2, <2>4, FailEffect, SignInEffect, SetupEffect, VerifyEffect
    <3>2. acct[a] # None
      BY <1>2, <2>4, <3>1, Rows DEF Commits
    <3> QED
      BY <3>1, <3>2 DEF SignedUpStays, StaysSignedUp
  <2> QED
    BY <1>2, <2>1, <2>2, <2>3, <2>4
<1>3. \A r \in Request : \/ CommitFail(r) \/ CommitSignIn(r) \/ CommitBind(r)
                         \/ CommitProvision(r) \/ CommitSetup(r) \/ CommitVerify(r)
        => Commits(r)
  BY FailEffect, SignInEffect, BindEffect, ProvisionEffect, SetupEffect, VerifyEffect
<1> QED
  BY <1>1, <1>2, <1>3, Writes

(* A slot keeps its request, is freed, or takes one that reads its account *)
(* as it is.                                                               *)
LEMMA Slots ==
  ASSUME AccountInv, [Next]_vars, NEW s \in Request
  PROVE  \/ req'[s] \in {req[s], Idle}
         \/ acct' = acct /\ req'[s].seen = acct[req'[s].a]
<1>1. \A r \in Request : Commits(r) => req'[s] \in {req[s], Idle}
  BY DEF Commits, Answered, AccountInv, TypeOK
<1>2. \A r \in Request : \/ CommitFail(r) \/ CommitSignIn(r) \/ CommitBind(r)
                         \/ CommitProvision(r) \/ CommitSetup(r) \/ CommitVerify(r)
        => Commits(r)
  BY FailEffect, SignInEffect, BindEffect, ProvisionEffect, SetupEffect, VerifyEffect
<1>3. ASSUME NEW r \in Request, NEW a \in Account, NEW d, NEW input, Decide(r, a, d, input)
      PROVE  req'[s] = req[s] \/ (acct' = acct /\ req'[s].seen = acct[req'[s].a])
  BY <1>3 DEF Decide, AccountInv, TypeOK
<1>4. ASSUME NEW r \in Request, Crash(r) PROVE req'[s] \in {req[s], Idle}
  BY <1>4 DEF Crash, Answered, AccountInv, TypeOK
<1>5. CASE Tick \/ UNCHANGED vars \/ \E r \in Request : TakeTime(r)
  BY <1>5 DEF Tick, vars, TakeTime
<1>6. ASSUME NEW r \in Request, NEW a \in Account,
             \/ \E pw \in BOOLEAN, code \in Secret \cup {None} : ReadLogin(r, a, pw, code)
             \/ \E sub \in Subject : ReadSso(r, a, sub)
             \/ \E secret \in Secret : ReadSetup(r, a, secret) \/ ReadVerify(r, a, secret)
      PROVE  req'[s] = req[s] \/ (acct' = acct /\ req'[s].seen = acct[req'[s].a])
  BY <1>3, <1>6 DEF ReadLogin, ReadSso, ReadSetup, ReadVerify
<1> QED
  BY <1>1, <1>2, <1>4, <1>5, <1>6 DEF Next

(* A signed-up account and a request that signs in to it have one subject. *)
LEMMA SignedUpNext ==
  ASSUME AccountInv, AccountInv', SignedUpInv, [Next]_vars
  PROVE  SignedUpInv'
<1>1. \A a \in Account : SignedUpStays(a)
  BY SignUpStep
<1>2. ASSUME NEW a \in Account, acct'[a] # None, acct'[a].provider = "oidc"
      PROVE  acct'[a].subject # None
  BY <1>1, <1>2 DEF SignedUpStays, SignedUpInv
<1>3. ASSUME NEW s \in Request, req'[s] # Idle, req'[s].seen # None,
             acct'[req'[s].a].provider = "oidc"
      PROVE  /\ req'[s].seen.provider = "oidc"
             /\ req'[s].seen.subject = acct'[req'[s].a].subject
  <2>1. CASE req'[s] = req[s]
    <3>1. req[s].a \in Account /\ acct[req[s].a] # None
      BY <1>3, <2>1, Rows DEF RequestSound
    <3>2. acct'[req[s].a] # None
      BY <1>3, <2>1 DEF AccountInv, RequestSound
    <3>3. acct[req[s].a].provider = "oidc" /\ acct'[req[s].a].subject = acct[req[s].a].subject
      BY <1>1, <1>3, <2>1, <3>1, <3>2 DEF SignedUpStays
    <3> QED
      BY <1>3, <2>1, <3>3 DEF SignedUpInv
  <2>2. CASE acct' = acct /\ req'[s].seen = acct[req'[s].a]
    BY <1>3, <2>2
  <2> QED
    BY <1>3, <2>1, <2>2, Slots
<1> QED
  BY <1>2, <1>3 DEF SignedUpInv

(* Nobody loses the identity an account was created with, where no account *)
(* starts as a single sign-on account without one.                         *)
THEOREM SignUpCorrect ==
  ASSUME "oidc" \notin InitialKind
  PROVE  Spec => SignUpIsFinal
<1> DEFINE Final ==
      \A a \in Account : acct[a] # None /\ acct[a].provider = "oidc"
        => /\ acct'[a].provider = "oidc"
           /\ acct'[a].subject = acct[a].subject
<1>1. ASSUME Init PROVE SignedUpInv
  <2>1. PICK kind \in [Account -> InitialKind] :
          acct = [a \in Account |-> IF kind[a] = "none" THEN None ELSE NewRow(kind[a], None)]
    BY <1>1 DEF Init
  <2>2. \A a \in Account : acct[a] # None => acct[a] = NewRow(kind[a], None)
    BY <2>1
  <2>3. \A a \in Account : acct[a] # None => acct[a].provider # "oidc"
    <3> SUFFICES ASSUME NEW a \in Account, acct[a] # None PROVE acct[a].provider # "oidc"
      OBVIOUS
    <3>1. acct[a] = NewRow(kind[a], None)
      BY <2>2
    <3>2. acct[a].provider = kind[a]
      BY <3>1 DEF NewRow
    <3>3. kind[a] \in InitialKind
      BY <2>1
    <3> QED
      BY <3>2, <3>3
  <2>4. \A r \in Request : req[r] = Idle
    BY <1>1 DEF Init
  <2> QED
    BY <2>3, <2>4 DEF SignedUpInv
<1>2. AccountInv /\ AccountInv' /\ SignedUpInv /\ [Next]_vars => SignedUpInv'
  BY SignedUpNext
<1>3. AccountInv /\ SignedUpInv /\ [Next]_vars => [Final]_vars
  BY SignUpStep DEF StaysSignedUp
<1>4. Spec => []SignedUpInv
  BY <1>1, <1>2, AccountInvCorrect, PTL DEF Spec
<1>5. Spec => [][Final]_vars
  BY <1>3, <1>4, AccountInvCorrect, PTL DEF Spec
<1> QED
  BY <1>5 DEF SignUpIsFinal

-----------------------------------------------------------------------------
(* How many guesses there can be.  Slots are told apart by what they can   *)
(* set the count back to, their states ordered by how many are low: a      *)
(* wrong guess moves its slot up and nobody below it down, so the states   *)
(* the slots have been in since the last sign-in are as many as guesses.   *)
Levels == 0 .. Threshold - 1
K == Cardinality(Request)
States == SlotStates(Threshold, K)

Holds(r, a) == req[r] # Idle /\ req[r].pc = "fail" /\ req[r].a = a

(* The count of an account, as far as it matters: at the last level the    *)
(* next wrong guess locks.                                                 *)
Count(a) == IF acct[a].failed < Threshold THEN acct[a].failed ELSE Threshold - 1

(* What each slot can set the count back to.                               *)
Reach(a) ==
  [r \in Request |->
     IF Holds(r, a) /\ req[r].seen.failed < Count(a) THEN req[r].seen.failed ELSE Count(a)]

SlotState(x) == [v \in Levels |-> Cardinality({r \in Request : x[r] <= v})]

Precedes(c, d) ==
  \E i \in Levels : /\ c[i] < d[i]
                    /\ \A j \in Levels : j < i => c[j] <= d[j]

PastStates(x) == {d \in States : Precedes(SlotState(x), d)}

GuessInv ==
  /\ \A a \in Account : acct[a] = None => wrong[a] = 0
  /\ \A a \in Account : acct[a] # None /\ acct[a].locked = None
       => wrong[a] <= Cardinality(PastStates(Reach(a)))
  /\ \A r \in Request : req[r] # Idle /\ req[r].pc = "fail"
       => /\ req[r].seen.locked = None \/ req[r].seen.locked <= now
          /\ until[r] # None => req[r].seen.locked # until[r]

-----------------------------------------------------------------------------
(* There are finitely many states of the slots. *)
LEMMA StatesFinite == K \in Nat /\ IsFiniteSet(States)
<1> DEFINE Pairs == Levels \X (0 .. K)
           graph == [c \in States |-> {p \in Pairs : p[2] = c[p[1]]}]
<1>1. K \in Nat /\ Threshold \in Nat \ {0}
  BY SlotsAssumption, LoginAssumption, FS_CardinalityType DEF K
<1>2. IsFiniteSet(Levels) /\ IsFiniteSet(0 .. K)
  BY <1>1, FS_Interval DEF Levels
<1>3. IsFiniteSet(SUBSET Pairs)
  BY <1>2, FS_Product, FS_SUBSET
<1>4. ASSUME NEW c \in States, NEW d \in States, graph[c] = graph[d] PROVE c = d
  <2>1. c \in [Levels -> 0 .. K] /\ d \in [Levels -> 0 .. K]
    BY DEF States, SlotStates, Levels
  <2>2. ASSUME NEW v \in Levels PROVE c[v] = d[v]
    <3>1. <<v, c[v]>> \in graph[c]
      BY <2>1
    <3> QED
      BY <1>4, <3>1
  <2> QED
    BY <2>1, <2>2
<1>5. graph \in Injection(States, SUBSET Pairs)
  <2>1. graph \in [States -> SUBSET Pairs]
    OBVIOUS
  <2> QED
    BY <1>4, <2>1 DEF Injection, IsInjective
<1> QED
  BY <1>1, <1>3, <1>5, FS_Injection

(* Slots that hold counts are in one of these states. *)
LEMMA SlotStateTyped ==
  ASSUME NEW x \in [Request -> Levels]
  PROVE  SlotState(x) \in States
<1> DEFINE Low(v) == {r \in Request : x[r] <= v}
<1>1. K \in Nat /\ Threshold \in Nat \ {0}
  BY StatesFinite, LoginAssumption
<1>2. ASSUME NEW u \in Levels, NEW v \in Levels, u <= v
      PROVE  Cardinality(Low(u)) <= Cardinality(Low(v))
  <2>1. Low(u) \subseteq Low(v)
    BY <1>1, <1>2 DEF Levels
  <2>2. IsFiniteSet(Low(v))
    BY SlotsAssumption, FS_Subset
  <2> QED
    BY <2>1, <2>2, FS_Subset
<1>3. ASSUME NEW v \in Levels PROVE Cardinality(Low(v)) \in 0 .. K
  <2>1. Low(v) \subseteq Request
    OBVIOUS
  <2>2. IsFiniteSet(Low(v)) /\ Cardinality(Low(v)) <= K
    BY <2>1, SlotsAssumption, FS_Subset DEF K
  <2>3. Cardinality(Low(v)) \in Nat
    BY <2>2, FS_CardinalityType
  <2> QED
    BY <1>1, <2>2, <2>3
<1>4. Threshold - 1 \in Levels
  BY <1>1 DEF Levels
<1>5. Low(Threshold - 1) = Request
  BY <1>1 DEF Levels
<1>6. /\ SlotState(x) \in [Levels -> 0 .. K]
      /\ \A v \in Levels : SlotState(x)[v] = Cardinality(Low(v))
  BY <1>3 DEF SlotState
<1>7. SlotState(x)[Threshold - 1] = K
  BY <1>4, <1>5, <1>6 DEF K
<1>8. \A u, v \in Levels : u <= v => SlotState(x)[u] <= SlotState(x)[v]
  BY <1>2, <1>6
<1> QED
  BY <1>6, <1>7, <1>8 DEF States, SlotStates, Levels

(* The order of states is transitive, and no state precedes itself. *)
LEMMA PrecedesIsOrder ==
  ASSUME NEW c \in States, NEW d \in States, NEW e \in States
  PROVE  /\ Precedes(c, d) /\ Precedes(d, e) => Precedes(c, e)
         /\ ~Precedes(c, c)
<1>1. /\ c \in [Levels -> 0 .. K] /\ d \in [Levels -> 0 .. K] /\ e \in [Levels -> 0 .. K]
      /\ Levels \subseteq Nat
  BY DEF States, SlotStates, Levels
<1>2. \A v \in Levels : c[v] \in Nat /\ d[v] \in Nat /\ e[v] \in Nat
  BY <1>1, StatesFinite
<1>3. ASSUME Precedes(c, d), Precedes(d, e) PROVE Precedes(c, e)
  <2>1. PICK i \in Levels : c[i] < d[i] /\ \A j \in Levels : j < i => c[j] <= d[j]
    BY <1>3 DEF Precedes
  <2>2. PICK k \in Levels : d[k] < e[k] /\ \A j \in Levels : j < k => d[j] <= e[j]
    BY <1>3 DEF Precedes
  <2>3. \A j \in Levels : j < i /\ j < k => c[j] <= e[j]
    BY <1>2, <2>1, <2>2
  <2>4. CASE i <= k
    <3>1. c[i] < e[i]
      BY <1>1, <1>2, <2>1, <2>2, <2>4
    <3> QED
      BY <1>1, <2>3, <2>4, <3>1 DEF Precedes
  <2>5. CASE ~(i <= k)
    <3>1. c[k] < e[k]
      BY <1>1, <1>2, <2>1, <2>2, <2>5
    <3> QED
      BY <1>1, <2>3, <2>5, <3>1 DEF Precedes
  <2> QED
    BY <2>4, <2>5
<1>4. ~Precedes(c, c)
  BY <1>2 DEF Precedes
<1> QED
  BY <1>3, <1>4

(* Slots that can set the count back less far are no earlier. *)
LEMMA Rise ==
  ASSUME NEW x \in [Request -> Levels], NEW y \in [Request -> Levels],
         \A r \in Request : x[r] <= y[r]
  PROVE  PastStates(x) \subseteq PastStates(y)
<1>1. ASSUME NEW v \in Levels PROVE SlotState(y)[v] <= SlotState(x)[v]
  <2> DEFINE Low(z) == {r \in Request : z[r] <= v}
  <2>1. Low(y) \subseteq Low(x)
    BY DEF Levels
  <2>2. IsFiniteSet(Low(x))
    BY SlotsAssumption, FS_Subset
  <2>3. Cardinality(Low(y)) <= Cardinality(Low(x))
    BY <2>1, <2>2, FS_Subset
  <2> QED
    BY <2>3 DEF SlotState
<1>2. SlotState(x) \in [Levels -> 0 .. K] /\ SlotState(y) \in [Levels -> 0 .. K]
  BY SlotStateTyped DEF States, SlotStates, Levels
<1>3. \A d \in States : d \in [Levels -> 0 .. K]
  BY DEF States, SlotStates, Levels
<1> SUFFICES ASSUME NEW d \in States, Precedes(SlotState(x), d)
             PROVE  Precedes(SlotState(y), d)
  BY DEF PastStates
<1>4. \A v \in Levels : SlotState(x)[v] \in Nat /\ SlotState(y)[v] \in Nat /\ d[v] \in Nat
  BY <1>2, <1>3, StatesFinite
<1> QED
  BY <1>1, <1>4 DEF Precedes

(* A slot that sets the count back and moves on itself leaves its state    *)
(* for good: those that are as low as it was were there before.            *)
LEMMA Advance ==
  ASSUME NEW x \in [Request -> Levels], NEW y \in [Request -> Levels],
         NEW s \in Request, x[s] < y[s],
         \A r \in Request : y[r] <= x[s] => x[r] <= y[r]
  PROVE  Cardinality(PastStates(x)) + 1 <= Cardinality(PastStates(y))
<1> DEFINE Low(z, v) == {r \in Request : z[r] <= v}
<1>1. \A r \in Request : x[r] \in Nat /\ y[r] \in Nat
  BY DEF Levels
<1>2. ASSUME NEW v \in Levels, v <= x[s]
      PROVE  /\ Low(y, v) \subseteq Low(x, v)
             /\ IsFiniteSet(Low(x, v))
             /\ Cardinality(Low(y, v)) <= Cardinality(Low(x, v))
             /\ Cardinality(Low(x, v)) \in Nat /\ Cardinality(Low(y, v)) \in Nat
  <2>1. v \in Nat
    BY DEF Levels
  <2>2. Low(y, v) \subseteq Low(x, v)
    BY <1>1, <1>2, <2>1
  <2>3. IsFiniteSet(Low(x, v))
    BY SlotsAssumption, FS_Subset
  <2> QED
    BY <2>2, <2>3, FS_Subset, FS_CardinalityType
<1> DEFINE m == x[s]
<1>3. m \in Levels /\ m <= x[s] /\ \A v \in Levels : v < m => v <= x[s]
  BY <1>1 DEF Levels
<1>4. s \in Low(x, m) /\ s \notin Low(y, m)
  BY <1>1
<1>5. \A v \in Levels : v <= x[s] => Cardinality(Low(y, v)) <= Cardinality(Low(x, v))
  BY <1>2
<1>6. /\ \A v \in Levels : SlotState(x)[v] = Cardinality(Low(x, v))
      /\ \A v \in Levels : SlotState(y)[v] = Cardinality(Low(y, v))
  BY DEF SlotState
<1> HIDE DEF Low, m
<1>7. /\ Low(y, m) \subseteq Low(x, m) /\ IsFiniteSet(Low(x, m))
      /\ Cardinality(Low(y, m)) <= Cardinality(Low(x, m))
      /\ Cardinality(Low(x, m)) \in Nat /\ Cardinality(Low(y, m)) \in Nat
  BY <1>2, <1>3
<1>8. Cardinality(Low(y, m)) < Cardinality(Low(x, m))
  <2>1. Low(y, m) # Low(x, m)
    BY <1>4
  <2>2. Cardinality(Low(y, m)) # Cardinality(Low(x, m))
    BY <1>7, <2>1, FS_Subset
  <2> QED
    BY <1>7, <2>2
<1>9. Precedes(SlotState(y), SlotState(x))
  <2>1. SlotState(y)[m] < SlotState(x)[m]
    BY <1>3, <1>6, <1>8
  <2>2. \A j \in Levels : j < m => SlotState(y)[j] <= SlotState(x)[j]
    BY <1>3, <1>5, <1>6
  <2> QED
    BY <1>3, <2>1, <2>2 DEF Precedes
<1>10. SlotState(x) \in States /\ SlotState(y) \in States
  BY SlotStateTyped
<1>11. PastStates(x) \cup {SlotState(x)} \subseteq PastStates(y)
  BY <1>9, <1>10, PrecedesIsOrder DEF PastStates
<1>12. SlotState(x) \notin PastStates(x)
  BY <1>10, PrecedesIsOrder DEF PastStates
<1>13. IsFiniteSet(PastStates(x)) /\ IsFiniteSet(PastStates(y))
  BY StatesFinite, FS_Subset DEF PastStates
<1>14. Cardinality(PastStates(x) \cup {SlotState(x)}) = Cardinality(PastStates(x)) + 1
  BY <1>12, <1>13, FS_AddElement
<1> QED
  BY <1>11, <1>13, <1>14, FS_Subset

-----------------------------------------------------------------------------
(* What a slot can set the count back to is below the threshold. *)
ReachTyped ==
  \A a \in Account : acct[a] # None =>
    Reach(a) \in [Request -> Levels] /\ acct[a].failed \in Nat

(* It is, as accounts and requests are typed. *)
LEMMA ReachIsTyped == AccountInv => ReachTyped
<1> SUFFICES ASSUME AccountInv, NEW a \in Account, acct[a] # None
             PROVE  Reach(a) \in [Request -> Levels] /\ acct[a].failed \in Nat
  BY DEF ReachTyped
<1>1. acct[a] \in Row
  BY DEF AccountInv, TypeOK
<1>2. acct[a].failed \in Nat
  BY <1>1 DEF Row
<1>3. Count(a) \in Levels
  BY <1>2, LoginAssumption DEF Count, Levels
<1>4. ASSUME NEW r \in Request, Holds(r, a) PROVE req[r].seen.failed \in Nat
  <2>1. req[r].seen \in Row
    BY <1>4, Rows DEF Holds
  <2> QED
    BY <2>1 DEF Row
<1>5. ASSUME NEW r \in Request, Holds(r, a), req[r].seen.failed < Count(a)
      PROVE  req[r].seen.failed \in Levels
  BY <1>3, <1>4, <1>5, LoginAssumption DEF Levels
<1> QED
  BY <1>2, <1>3, <1>5 DEF Reach

(* What a step other than a wrong guess or a sign-in does to an account.   *)
Untouched(a) ==
  /\ wrong'[a] = wrong[a]
  /\ acct[a] = None <=> acct'[a] = None
  /\ acct'[a] # None => /\ acct'[a].failed = acct[a].failed
                        /\ acct'[a].locked = acct[a].locked

(* Guesses on an account are counted by its failed attempts only. *)
LEMMA Touches ==
  ASSUME AccountInv, GuessInv, [Next]_vars, NEW a \in Account
  PROVE  \/ wrong'[a] = 0
         \/ \E r \in Request : CommitFail(r) /\ req[r].a = a
         \/ Untouched(a)
<1>1. acct' = acct /\ wrong' = wrong => Untouched(a)
  BY DEF Untouched
<1>2. \A r \in Request : Commits(r) /\ req[r].a # a /\ wrong'[a] = wrong[a] => Untouched(a)
  BY DEF Untouched, Commits
<1>3. ASSUME NEW r \in Request, CommitFail(r), req[r].a # a PROVE Untouched(a)
  <2>1. Commits(r) /\ wrong' = [wrong EXCEPT ![req[r].a] = @ + 1]
    BY <1>3, FailEffect
  <2>2. wrong'[a] = wrong[a]
    BY <1>3, <2>1 DEF AccountInv, TypeOK
  <2> QED
    BY <1>2, <1>3, <2>1, <2>2
<1>4. ASSUME NEW r \in Request, CommitSignIn(r) PROVE wrong'[a] = 0 \/ Untouched(a)
  <2>1. Commits(r) /\ wrong'[req[r].a] = 0
    BY <1>4, SignInEffect
  <2>2. req[r].a # a => wrong'[a] = wrong[a]
    BY <1>4 DEF CommitSignIn, AccountInv, TypeOK
  <2> QED
    BY <1>2, <2>1, <2>2
<1>5. ASSUME NEW r \in Request, CommitBind(r) PROVE wrong'[a] = 0 \/ Untouched(a)
  <2>1. Commits(r) /\ (wrong'[req[r].a] = 0 \/ (acct' = acct /\ wrong' = wrong))
    BY <1>5, BindEffect
  <2>2. req[r].a # a => wrong'[a] = wrong[a]
    BY <1>5 DEF CommitBind, AccountInv, TypeOK
  <2> QED
    BY <1>1, <2>1, <2>2, <1>2
<1>6. ASSUME NEW r \in Request, CommitProvision(r) PROVE wrong'[a] = 0 \/ Untouched(a)
  <2>1. /\ Commits(r) /\ wrong' = wrong
        /\ acct' = acct \/ acct[req[r].a] = None
    BY <1>6, ProvisionEffect
  <2>2. acct[a] = None => wrong'[a] = 0
    BY <2>1 DEF GuessInv
  <2> QED
    BY <1>1, <1>2, <2>1, <2>2
<1>7. ASSUME NEW r \in Request, CommitSetup(r) \/ CommitVerify(r) PROVE Untouched(a)
  <2>1. /\ Commits(r) /\ wrong' = wrong /\ req[r].pc # "provision"
        /\ acct'[req[r].a].failed = acct[req[r].a].failed
        /\ acct'[req[r].a].locked = acct[req[r].a].locked
        /\ acct'[req[r].a] # None
    BY <1>7, SetupEffect, VerifyEffect, NoRowAssumption
  <2>2. acct[req[r].a] # None
    BY <2>1, Rows DEF Commits
  <2> QED
    BY <1>2, <2>1, <2>2 DEF Untouched
<1>8. (acct' = acct /\ wrong' = wrong) \/ \E r \in Request :
        \/ CommitFail(r) \/ CommitSignIn(r) \/ CommitBind(r)
        \/ CommitProvision(r) \/ CommitSetup(r) \/ CommitVerify(r)
  BY DEF Next, vars, ReadLogin, ReadSso, ReadSetup, ReadVerify, Decide, TakeTime, Crash, Tick
<1> QED
  BY <1>1, <1>3, <1>4, <1>5, <1>6, <1>7, <1>8

(* While the count stays, no slot can set it back further than before: one *)
(* that reads it now holds what it is.                                     *)
LEMMA ReachRises ==
  ASSUME AccountInv, ReachTyped, ReachTyped', [Next]_vars, NEW a \in Account,
         acct[a] # None, acct'[a] # None, acct'[a].failed = acct[a].failed
  PROVE  PastStates(Reach(a)) \subseteq PastStates(Reach(a)')
<1>1. Reach(a) \in [Request -> Levels] /\ acct[a].failed \in Nat
  BY DEF ReachTyped
<1>2. Reach(a)' \in [Request -> Levels]
  BY DEF ReachTyped
<1>3. Count(a)' = Count(a) /\ Count(a) \in Nat
  BY <1>1, LoginAssumption DEF Count
<1>4. ASSUME NEW s \in Request PROVE Reach(a)[s] <= Reach(a)'[s]
  <2> DEFINE low == req[s].seen.failed
             low1 == req'[s].seen.failed
  <2>1. /\ Reach(a)[s] = IF Holds(s, a) /\ low < Count(a) THEN low ELSE Count(a)
        /\ Reach(a)'[s] = IF Holds(s, a)' /\ low1 < Count(a) THEN low1 ELSE Count(a)
    BY <1>3 DEF Reach
  <2>2. Holds(s, a) => low \in Nat
    <3>1. Holds(s, a) => req[s].seen \in Row
      BY Rows DEF Holds
    <3> QED
      BY <3>1 DEF Row
  <2>3. Holds(s, a)' => (low1 = low /\ Holds(s, a)) \/ low1 = acct[a].failed
    BY Slots DEF Holds
  <2>4. acct[a].failed >= Count(a)
    BY <1>1, LoginAssumption DEF Count
  <2> HIDE DEF low, low1
  <2> QED
    BY <1>1, <1>3, <2>1, <2>2, <2>3, <2>4
<1> QED
  BY <1>1, <1>2, <1>4, Rise

(* A wrong guess that does not lock moves its slot on, and leads to a      *)
(* state the slots have not been in since the last sign-in.                *)
LEMMA GuessAdvances ==
  ASSUME AccountInv, ReachTyped, ReachTyped',
         NEW r \in Request, CommitFail(r), req[r].seen.failed + 1 < Threshold,
         NEW a \in Account, req[r].a = a
  PROVE  Cardinality(PastStates(Reach(a))) + 1 <= Cardinality(PastStates(Reach(a)'))
<1> DEFINE low(s) == req[s].seen.failed
<1>1. /\ Commits(r) /\ req[r].pc = "fail"
      /\ acct'[a].failed = low(r) + 1 /\ acct'[a] # None
  BY FailEffect, NoRowAssumption
<1>2. acct[a] # None /\ req[r].seen \in Row
  BY <1>1, Rows DEF Commits
<1>3. low(r) \in Nat
  BY <1>2 DEF Row
<1>4. Reach(a) \in [Request -> Levels] /\ Reach(a)' \in [Request -> Levels]
  BY <1>1, <1>2 DEF ReachTyped
<1>5. Count(a)' = low(r) + 1
  BY <1>1 DEF Count
<1>6. \A s \in Request : Reach(a)[s] = IF Holds(s, a) /\ low(s) < Count(a) THEN low(s) ELSE Count(a)
  BY DEF Reach
<1>7. \A s \in Request : Reach(a)'[s] = IF Holds(s, a)' /\ req'[s].seen.failed < low(r) + 1
                                          THEN req'[s].seen.failed ELSE low(r) + 1
  BY <1>5 DEF Reach
<1>8. \A s \in Request : Holds(s, a)' => s # r /\ Holds(s, a) /\ req'[s] = req[s]
  BY <1>1 DEF Holds, Commits, Answered, AccountInv, TypeOK
<1>9. Count(a) \in Nat /\ Holds(r, a)
  BY <1>1, <1>2, LoginAssumption DEF ReachTyped, Count, Holds, Commits
<1>10. \A s \in Request : Holds(s, a) => low(s) \in Nat
  <2> SUFFICES ASSUME NEW s \in Request, Holds(s, a) PROVE low(s) \in Nat
    OBVIOUS
  <2>1. req[s].seen \in Row
    BY Rows DEF Holds
  <2> QED
    BY <2>1 DEF Row
<1> HIDE DEF low
<1>11. Reach(a)[r] <= low(r) /\ Reach(a)[r] \in Nat
  BY <1>3, <1>6, <1>9
<1>12. Reach(a)'[r] = low(r) + 1
  BY <1>7, <1>8
<1>13. ASSUME NEW s \in Request, Reach(a)'[s] <= Reach(a)[r] PROVE Reach(a)[s] <= Reach(a)'[s]
  <2>1. Reach(a)'[s] # low(r) + 1
    BY <1>3, <1>11, <1>13
  <2>2. Holds(s, a) /\ Reach(a)'[s] = req'[s].seen.failed /\ req'[s] = req[s]
    BY <1>7, <1>8, <2>1
  <2>3. Reach(a)'[s] = low(s)
    BY <2>2 DEF low
  <2> QED
    BY <1>6, <1>9, <1>10, <2>2, <2>3
<1>14. Reach(a)[r] < Reach(a)'[r]
  BY <1>3, <1>11, <1>12
<1> QED
  BY <1>4, <1>13, <1>14, Advance

(* A failed attempt that counts up to the threshold locks: it did not find *)
(* the lock it sets.                                                       *)
LEMMA GuessLocks ==
  ASSUME AccountInv, GuessInv, NEW r \in Request, CommitFail(r), Locks(req[r])
  PROVE  acct'[req[r].a].locked # None
<1>1. /\ req[r] # Idle /\ req[r].pc = "fail" /\ until[r] \in Nat
      /\ acct'[req[r].a].locked = Written(r, "locked", until[r])
  BY FailEffect DEF Commits
<1>2. until[r] # None
  BY <1>1, LoginAssumption
<1>3. req[r].seen.locked # until[r]
  BY <1>1, <1>2 DEF GuessInv
<1> QED
  BY <1>1, <1>2, <1>3 DEF Written

(* Guesses stay within the states the slots have left behind. *)
LEMMA GuessNext ==
  ASSUME AccountInv, ReachTyped, ReachTyped', GuessInv, [Next]_vars, NEW a \in Account
  PROVE  /\ acct'[a] = None => wrong'[a] = 0
         /\ acct'[a] # None /\ acct'[a].locked = None
              => wrong'[a] <= Cardinality(PastStates(Reach(a)'))
<1>1. \A x : IsFiniteSet(PastStates(x)) /\ Cardinality(PastStates(x)) \in Nat
  BY StatesFinite, FS_Subset, FS_CardinalityType DEF PastStates
<1>2. CASE wrong'[a] = 0
  BY <1>1, <1>2
<1>3. ASSUME NEW r \in Request, CommitFail(r), req[r].a = a
      PROVE  acct'[a] # None /\ (acct'[a].locked = None => wrong'[a] <= Cardinality(PastStates(Reach(a)')))
  <2>1. /\ Commits(r) /\ acct'[a] # None
        /\ ~Locks(req[r]) => acct'[a].locked = acct[a].locked
        /\ wrong' = [wrong EXCEPT ![a] = @ + 1]
    BY <1>3, FailEffect, NoRowAssumption
  <2>2. acct[a] # None /\ req[r].seen \in Row /\ req[r].pc = "fail"
    BY <1>3, <2>1, FailEffect, Rows DEF Commits
  <2>3. wrong[a] \in Nat /\ wrong'[a] = wrong[a] + 1
    BY <2>1 DEF AccountInv, TypeOK
  <2>4. ASSUME acct'[a].locked = None
        PROVE  wrong'[a] <= Cardinality(PastStates(Reach(a)'))
    <3>1. ~Locks(req[r])
      BY <1>3, <2>4, GuessLocks
    <3>2. acct[a].locked = None
      BY <2>1, <2>4, <3>1
    <3>3. req[r].seen.failed \in Nat
      BY <2>2 DEF Row
    <3>4. req[r].seen.failed + 1 < Threshold
      BY <2>2, <3>1, <3>3, LoginAssumption DEF Locks
    <3>5. Cardinality(PastStates(Reach(a))) + 1 <= Cardinality(PastStates(Reach(a)'))
      BY <1>3, <3>4, GuessAdvances
    <3>6. wrong[a] <= Cardinality(PastStates(Reach(a)))
      BY <2>2, <3>2 DEF GuessInv
    <3> QED
      BY <1>1, <2>3, <3>5, <3>6
  <2> QED
    BY <2>1, <2>4
<1>4. CASE Untouched(a)
  <2>1. acct'[a] = None => wrong'[a] = 0
    BY <1>4 DEF Untouched, GuessInv
  <2>2. ASSUME acct'[a] # None, acct'[a].locked = None
        PROVE  wrong'[a] <= Cardinality(PastStates(Reach(a)'))
    <3>1. acct[a] # None /\ acct'[a].failed = acct[a].failed /\ acct[a].locked = None
      BY <1>4, <2>2 DEF Untouched
    <3>2. wrong[a] <= Cardinality(PastStates(Reach(a))) /\ wrong'[a] = wrong[a] /\ wrong[a] \in Nat
      BY <1>4, <3>1 DEF Untouched, GuessInv, AccountInv, TypeOK
    <3>3. PastStates(Reach(a)) \subseteq PastStates(Reach(a)')
      BY <2>2, <3>1, ReachRises
    <3>4. Cardinality(PastStates(Reach(a))) <= Cardinality(PastStates(Reach(a)'))
      BY <1>1, <3>3, FS_Subset
    <3> QED
      BY <1>1, <3>2, <3>4
  <2> QED
    BY <2>1, <2>2
<1> QED
  BY <1>2, <1>3, <1>4, Touches

(* Nobody fails on an account found locked, so the end of the lock that a  *)
(* failed attempt computes is none it has found.                           *)
LEMMA FailsUnlocked ==
  ASSUME AccountInv, GuessInv, [Next]_vars, NEW s \in Request,
         req'[s] # Idle, req'[s].pc = "fail"
  PROVE  /\ req'[s].seen.locked = None \/ req'[s].seen.locked <= now'
         /\ until'[s] # None => req'[s].seen.locked # until'[s]
<1>1. now \in Nat /\ (now' = now \/ now' = now + 1)
  BY DEF AccountInv, TypeOK, Next, vars, ReadLogin, ReadSso, ReadSetup, ReadVerify, Decide,
         TakeTime, CommitFail, CommitSignIn, CommitBind, CommitProvision, CommitSetup,
         CommitVerify, Crash, Tick
<1>2. CASE req'[s] = req[s]
  <2>1. req[s] # Idle /\ req[s].pc = "fail"
    BY <1>2
  <2>2. /\ req[s].seen.locked = None \/ req[s].seen.locked <= now
        /\ until[s] # None => req[s].seen.locked # until[s]
    BY <2>1 DEF GuessInv
  <2>3. req[s].seen \in Row
    BY <2>1, Rows
  <2>4. req[s].seen.locked \in Nat \cup {None}
    BY <2>3 DEF Row
  <2>5. until'[s] \in {until[s], None, now + LockTime}
    BY DEF AccountInv, TypeOK, Next, vars, ReadLogin, ReadSso, ReadSetup, ReadVerify, Decide,
           TakeTime, CommitFail, CommitSignIn, CommitBind, CommitProvision, CommitSetup,
           CommitVerify, Crash, Tick, Answered
  <2>6. now + LockTime \in Nat /\ now < now + LockTime
    BY <1>1, LoginAssumption
  <2>7. req[s].seen.locked # now + LockTime
    BY <1>1, <2>2, <2>4, <2>6, LoginAssumption
  <2> QED
    BY <1>1, <1>2, <2>2, <2>4, <2>5, <2>7
<1>3. ASSUME req'[s] # req[s]
      PROVE  \E a \in Account, pw \in BOOLEAN, code \in Secret \cup {None} : ReadLogin(s, a, pw, code)
  <2>1. ASSUME NEW r \in Request, NEW a \in Account, NEW d, NEW input, Decide(r, a, d, input)
        PROVE  r = s /\ d = "fail"
    BY <1>3, <2>1 DEF Decide, AccountInv, TypeOK
  <2>2. ~\E r \in Request : Answered(r)
    BY <1>3 DEF Answered, AccountInv, TypeOK
  <2>3. ~(\E r \in Request : \/ CommitFail(r) \/ CommitSignIn(r) \/ CommitBind(r)
                             \/ CommitProvision(r) \/ CommitSetup(r) \/ CommitVerify(r) \/ Crash(r))
    BY <2>2 DEF CommitFail, CommitSignIn, CommitBind, CommitProvision, CommitSetup, CommitVerify, Crash
  <2>4. ~Tick /\ ~UNCHANGED vars /\ ~(\E r \in Request : TakeTime(r))
    BY <1>3 DEF Tick, vars, TakeTime
  <2>5. ASSUME NEW r \in Request, NEW a \in Account,
               \/ \E sub \in Subject : ReadSso(r, a, sub)
               \/ \E secret \in Secret : ReadSetup(r, a, secret) \/ ReadVerify(r, a, secret)
        PROVE  FALSE
    BY <2>1, <2>5 DEF ReadSso, ReadSetup, ReadVerify
  <2>6. ASSUME NEW r \in Request, NEW a \in Account, NEW pw \in BOOLEAN,
               NEW code \in Secret \cup {None}, ReadLogin(r, a, pw, code)
        PROVE  r = s
    BY <2>1, <2>6 DEF ReadLogin
  <2> QED
    BY <2>3, <2>4, <2>5, <2>6 DEF Next
<1>4. ASSUME NEW a \in Account, NEW pw \in BOOLEAN, NEW code \in Secret \cup {None},
             ReadLogin(s, a, pw, code), req'[s] # req[s]
      PROVE  /\ req'[s].seen.locked = None \/ req'[s].seen.locked <= now'
             /\ until'[s] = None
  <2>1. req'[s].seen = acct[a] /\ now' = now /\ until' = until /\ req[s] = Idle
    BY <1>4 DEF ReadLogin, Decide, AccountInv, TypeOK
  <2>2. acct[a] \in Row /\ ~Locked(acct[a])
    BY <1>4 DEF ReadLogin, AccountInv, TypeOK
  <2>3. acct[a].locked \in Nat \cup {None}
    BY <2>2 DEF Row
  <2>4. until[s] = None
    BY <2>1 DEF AccountInv
  <2> QED
    BY <1>1, <2>1, <2>2, <2>3, <2>4 DEF Locked
<1> QED
  BY <1>2, <1>3, <1>4

(* The invariant holds in every reachable state. *)
THEOREM GuessInvCorrect == Spec => []GuessInv
<1>1. ASSUME Init PROVE GuessInv
  <2>1. /\ \A a \in Account : wrong[a] = 0
        /\ \A r \in Request : req[r] = Idle
    BY <1>1 DEF Init
  <2>2. \A x : Cardinality(PastStates(x)) \in Nat
    BY StatesFinite, FS_Subset, FS_CardinalityType DEF PastStates
  <2> QED
    BY <2>1, <2>2 DEF GuessInv
<1>2. AccountInv /\ ReachTyped /\ ReachTyped' /\ GuessInv /\ [Next]_vars => GuessInv'
  BY GuessNext, FailsUnlocked DEF GuessInv
<1> QED
  BY <1>1, <1>2, ReachIsTyped, AccountInvCorrect, PTL DEF Spec

(* A lock in force is opened by a sign-in only.  A failed attempt sets it  *)
(* to a time it did not find, and to an earlier one only if it read the    *)
(* row before the lock was there.                                          *)
THEOREM LockCorrect == Spec => LockStands
<1> DEFINE Stands(a) ==
      acct[a] # None /\ Locked(acct[a]) /\ acct'[a].locked # acct[a].locked
         => \/ wrong'[a] = 0
            \/ /\ acct'[a].locked # None
               /\ \/ acct'[a].locked > acct[a].locked
                  \/ \E r \in Request : /\ Overtaken(r, a) /\ Locks(req[r])
                                        /\ until[r] = acct'[a].locked
                                        /\ until[r] < now + LockTime
<1>1. ASSUME AccountInv, GuessInv, [Next]_vars, NEW a \in Account PROVE Stands(a)
  <2> DEFINE Replaced ==
        /\ acct'[a].locked # None
        /\ \/ acct'[a].locked > acct[a].locked
           \/ \E r \in Request : /\ Overtaken(r, a) /\ Locks(req[r])
                                 /\ until[r] = acct'[a].locked
                                 /\ until[r] < now + LockTime
  <2> SUFFICES ASSUME acct[a] # None, Locked(acct[a]), acct'[a].locked # acct[a].locked
               PROVE  wrong'[a] = 0 \/ Replaced
    OBVIOUS
  <2>1. PICK r \in Request : \/ CommitFail(r) \/ CommitSignIn(r) \/ CommitBind(r)
                             \/ CommitProvision(r) \/ CommitSetup(r) \/ CommitVerify(r)
    BY <1>1, Writes
  <2>2. Commits(r)
    BY <1>1, <2>1, FailEffect, SignInEffect, BindEffect, ProvisionEffect, SetupEffect, VerifyEffect
  <2>3. req[r].a = a
    BY <2>2 DEF Commits
  <2>4. CASE CommitFail(r)
    <3>1. Locks(req[r]) /\ acct'[a].locked = until[r] /\ until[r] \in Nat
      BY <1>1, <2>3, <2>4, FailEffect
    <3>2. acct[a].locked \in Nat /\ now \in Nat /\ acct[a].locked > now
      BY <1>1 DEF AccountInv, TypeOK, Row, Locked
    <3>3. acct[a].locked <= now + LockTime
      BY <1>1, <3>2, LoginAssumption DEF AccountInv, RowSound
    <3>4. req[r].seen.locked = None \/ req[r].seen.locked <= now
      BY <1>1, <2>2, <2>4, FailEffect DEF GuessInv, Commits
    <3>5. req[r].seen.locked # acct[a].locked
      BY <3>2, <3>4, LoginAssumption
    <3>6. Overtaken(r, a)
      BY <1>1, <2>2, <2>3, <3>5, IsOvertaken
    <3>7. until[r] > acct[a].locked \/ until[r] < now + LockTime
      BY <3>1, <3>2, <3>3, LoginAssumption
    <3> QED
      BY <3>1, <3>6, <3>7, LoginAssumption
  <2>5. CASE CommitSignIn(r)
    BY <1>1, <2>3, <2>5, SignInEffect
  <2>6. CASE CommitBind(r)
    BY <1>1, <2>3, <2>6, BindEffect
  <2>7. CASE CommitProvision(r)
    BY <1>1, <2>3, <2>7, ProvisionEffect
  <2>8. CASE CommitSetup(r)
    BY <1>1, <2>3, <2>8, SetupEffect
  <2>9. CASE CommitVerify(r)
    BY <1>1, <2>3, <2>9, VerifyEffect
  <2> QED
    BY <2>1, <2>4, <2>5, <2>6, <2>7, <2>8, <2>9
<1>2. AccountInv /\ GuessInv /\ [Next]_vars => [\A a \in Account : Stands(a)]_vars
  BY <1>1
<1>3. Spec => [][\A a \in Account : Stands(a)]_vars
  BY <1>2, AccountInvCorrect, GuessInvCorrect, PTL DEF Spec
<1> QED
  BY <1>3 DEF LockStands

(* However many attempts are in flight and however they overwrite each     *)
(* other's count, an account is locked within MostGuesses wrong guesses.   *)
THEOREM GuessesCorrect == Spec => []GuessesBounded
<1>1. ASSUME AccountInv, ReachTyped, GuessInv PROVE GuessesBounded
  <2> SUFFICES ASSUME NEW a \in Account, acct[a] # None, acct[a].locked = None
               PROVE  wrong[a] < MostGuesses
    BY DEF GuessesBounded
  <2> DEFINE x == Reach(a)
  <2>0. x \in [Request -> Levels]
    BY <1>1 DEF ReachTyped
  <2>1. SlotState(x) \in States
    BY <2>0, SlotStateTyped
  <2>2. SlotState(x) \notin PastStates(x) /\ PastStates(x) \in SUBSET States
    BY <2>1, PrecedesIsOrder DEF PastStates
  <2>3. PastStates(x) # States
    BY <2>1, <2>2
  <2>5. wrong[a] <= Cardinality(PastStates(x)) /\ wrong[a] \in Nat
    BY <1>1 DEF GuessInv, AccountInv, TypeOK
  <2> HIDE DEF x
  <2>4. Cardinality(PastStates(x)) < Cardinality(States)
    <3>1. IsFiniteSet(States) /\ IsFiniteSet(PastStates(x))
      BY <2>2, StatesFinite, FS_Subset
    <3>2. Cardinality(PastStates(x)) <= Cardinality(States)
      BY <2>2, <3>1, FS_Subset
    <3>3. Cardinality(PastStates(x)) # Cardinality(States)
      BY <2>2, <2>3, <3>1, FS_Subset
    <3>4. Cardinality(PastStates(x)) \in Nat /\ Cardinality(States) \in Nat
      BY <3>1, FS_CardinalityType
    <3> QED
      BY <3>2, <3>3, <3>4
  <2>6. Cardinality(PastStates(x)) \in Nat /\ MostGuesses = Cardinality(States) /\ MostGuesses \in Nat
    BY <2>2, StatesFinite, FS_Subset, FS_CardinalityType DEF MostGuesses, States, K
  <2> QED
    BY <2>4, <2>5, <2>6
<1> QED
  BY <1>1, ReachIsTyped, AccountInvCorrect, GuessInvCorrect, PTL
=============================================================================
