---------------------------- MODULE MCRateLimiter ----------------------------
(* TLC instances of RateLimiter. *)
EXTENDS RateLimiter, TLC

CONSTANTS p1, p2, k1, r1, r2, r3

(* A production environment that is accepted. *)
Sound ==
  [workforceiq_config |-> "production", flask_env |-> Unset,
   secret |-> "strong", jwt |-> "strong", database |-> "mysql",
   access |-> Unset, access_hours |-> Unset, refresh |-> Unset, refresh_days |-> Unset,
   limit |-> 2, backend |-> Unset, export |-> 1000, threshold |-> Unset, lockout |-> 0,
   devauth |-> TRUE, cors |-> TRUE, oidc |-> TRUE, issuer |-> TRUE, audience |-> TRUE,
   keys |-> TRUE, provision |-> TRUE, domains |-> TRUE]

(* What else each variable may say. *)
Variations ==
  [workforceiq_config |-> {Unset, "default", "development", "testing", "qa"},
   flask_env |-> {"development", "testing"},
   secret |-> {Unset, "short"}, jwt |-> {Unset, "short"}, database |-> {Unset, "sqlite"},
   access |-> {1, 1000}, access_hours |-> {720}, refresh |-> {8}, refresh_days |-> {0},
   limit |-> {-1, 0, 1}, backend |-> {"auto", "redis", "memory"}, export |-> {0},
   threshold |-> {0}, lockout |-> {30}, devauth |-> {FALSE, Unset},
   cors |-> {FALSE, Unset}, oidc |-> {FALSE, Unset}, issuer |-> {FALSE},
   audience |-> {FALSE}, keys |-> {FALSE}, provision |-> {FALSE}, domains |-> {FALSE}]

Changed(e) == UNION {{[e EXCEPT ![f] = v] : v \in Variations[f]} : f \in DOMAIN Variations}

(* Environments that differ from Sound in at most one variable, and one that only       *)
(* development may have.                                                   *)
MCEnvironment ==
  {Sound, [Sound EXCEPT !.workforceiq_config = "development", !.backend = "memory"]}
    \cup Changed(Sound)

Symmetry == Permutations(Worker) \cup Permutations(Request)
=============================================================================
