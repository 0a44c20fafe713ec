------------------------------ MODULE Settings ------------------------------
(***************************************************************************)
(* Configuration: workforceiq/config.py and create_app.                    *)
(*                                                                         *)
(* An environment e is what the process finds in its variables: each field *)
(* is a value or Unset.  Values are classes: a secret is "strong",         *)
(* "short" or one of the published placeholders, a list is given or empty. *)
(* Settings no model depends on (log level, names, URLs) are left out, and *)
(* so is TEST_DATABASE_URL, which only tests look at.                      *)
(***************************************************************************)
EXTENDS Integers

CONSTANT Unset  \* a variable that is not set

Profiles == {"default", "development", "testing", "production"}

(* WORKFORCEIQ_CONFIG, then FLASK_ENV, then production.                    *)
ProfileName(e) ==
  CASE e.workforceiq_config # Unset -> e.workforceiq_config
    [] e.flask_env # Unset -> e.flask_env
    [] OTHER -> "production"

(* BaseConfig and what the three profiles change in it; "default" is       *)
(* ProductionConfig.                                                       *)
Defaults(profile) ==
  [env      |-> IF profile = "default" THEN "production" ELSE profile,
   testing  |-> profile = "testing",
   devauth  |-> profile \in {"development", "testing"},
   secret   |-> "placeholder", jwt |-> "placeholder", database |-> "sqlite",
   access   |-> 8, refresh |-> 720,                              \* hours
   limit    |-> 100, backend |-> IF profile = "testing" THEN "memory" ELSE "auto",
   export   |-> 500, threshold |-> 5, lockout |-> 15,
   cors     |-> FALSE,
   oidc     |-> FALSE, issuer |-> FALSE, audience |-> FALSE, keys |-> FALSE,
   provision |-> FALSE, domains |-> FALSE]

(* A slip: a setting below its floor is taken as it is.                    *)
AtLeastUnclamped(low, n) == n

AtLeast(low, n) == IF n < low THEN low ELSE n
AtMost(high, n) == IF n > high THEN high ELSE n

Given(e, d, field) == IF e[field] = Unset THEN d[field] ELSE e[field]

(* A lifetime in its own unit goes before one in hours or days, which are  *)
(* 8 hours and 30 days if nothing is set, whatever the profile says.       *)
Lifetime(exact, coarse, unit, default) ==
  IF exact # Unset THEN exact ELSE unit * IF coarse # Unset THEN coarse ELSE default

(* apply_runtime_settings.  A testing process takes its database from      *)
(* elsewhere, and production never has development identities.             *)
Resolve(e, d) ==
  [d EXCEPT
    !.secret = Given(e, d, "secret"), !.jwt = Given(e, d, "jwt"),
    !.database = IF d.testing THEN d.database ELSE Given(e, d, "database"),
    !.access = Lifetime(e.access, e.access_hours, 1, 8),
    !.refresh = Lifetime(e.refresh, e.refresh_days, 24, 30),
    !.limit = AtLeast(1, Given(e, d, "limit")),
    !.export = AtMost(500, AtLeast(1, Given(e, d, "export"))),
    !.threshold = AtLeast(1, Given(e, d, "threshold")),
    !.lockout = AtLeast(1, Given(e, d, "lockout")),
    !.backend = Given(e, d, "backend"),
    !.devauth = d.env # "production" /\ Given(e, d, "devauth"),
    !.cors = Given(e, d, "cors"),
    !.oidc = Given(e, d, "oidc"), !.issuer = Given(e, d, "issuer"),
    !.audience = Given(e, d, "audience"), !.keys = Given(e, d, "keys"),
    !.provision = Given(e, d, "provision"), !.domains = Given(e, d, "domains")]

(* validate_runtime_config: only production is looked at.                  *)
Insecure(s) ==
  /\ s.env = "production"
  /\ \/ {s.secret, s.jwt} # {"strong"}
     \/ s.database = "sqlite"
     \/ ~s.cors
     \/ s.backend \notin {"auto", "redis"}
     \/ s.refresh <= s.access
     \/ s.oidc /\ ~(s.issuer /\ s.audience /\ s.keys)
     \/ s.oidc /\ s.provision /\ ~s.domains

Refused == [env |-> "refused"]

(* create_app, as far as it reads the configuration.                       *)
Boot(e) ==
  LET s == Resolve(e, Defaults(ProfileName(e)))
  IN  IF ProfileName(e) \notin Profiles \/ Insecure(s) THEN Refused ELSE s
=============================================================================
