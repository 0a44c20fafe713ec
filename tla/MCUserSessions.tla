--------------------------- MODULE MCUserSessions ---------------------------
(* TLC instances of UserSessions. *)
EXTENDS UserSessions, TLC

CONSTANTS s1, s2, r1, r2, r3

Symmetry == Permutations(Session) \cup Permutations(Request)
=============================================================================
