-------------------------- MODULE SessionLifecycle --------------------------
(***************************************************************************)
(* What the session service promises its clients, without requests,        *)
(* snapshots or commits: a session is opened once, is active until it is   *)
(* revoked, and at every moment of its active life exactly one refresh     *)
(* token is live for it.  A token that has been used up never comes back,  *)
(* and a revoked session never does.                                       *)
(***************************************************************************)
CONSTANTS Session,   \* session_uuid values
          Jti,       \* identifiers of refresh tokens
          NoJti      \* "no token is live"

VARIABLES phase,     \* phase[s]: "absent", "active" or "revoked"
          live,      \* live[s]: the refresh token the server would accept for s
          used       \* every identifier ever given to a token

lifecycleVars == <<phase, live, used>>

LifecycleInit ==
  /\ phase = [s \in Session |-> "absent"]
  /\ live = [s \in Session |-> NoJti]
  /\ used = {}

(* A sign-in opens a session together with its first refresh token. *)
Open(s) ==
  /\ phase[s] = "absent"
  /\ phase' = [phase EXCEPT ![s] = "active"]
  /\ \E j \in Jti \ used : /\ live' = [live EXCEPT ![s] = j]
                           /\ used' = used \cup {j}

(* The live token is exchanged for one that was never used before. *)
Rotate(s) ==
  /\ phase[s] = "active"
  /\ \E j \in Jti \ used : /\ live' = [live EXCEPT ![s] = j]
                           /\ used' = used \cup {j}
  /\ UNCHANGED phase

(* A token is minted that no session will ever accept. *)
Waste ==
  /\ \E j \in Jti \ used : used' = used \cup {j}
  /\ UNCHANGED <<phase, live>>

(* Logging out ends the session and its token together. *)
Revoke(s) ==
  /\ phase[s] = "active"
  /\ phase' = [phase EXCEPT ![s] = "revoked"]
  /\ live' = [live EXCEPT ![s] = NoJti]
  /\ UNCHANGED used

LifecycleNext ==
  \/ \E s \in Session : Open(s) \/ Rotate(s) \/ Revoke(s)
  \/ Waste

LifecycleSpec == LifecycleInit /\ [][LifecycleNext]_lifecycleVars
=============================================================================
