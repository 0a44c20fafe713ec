---------------------------- MODULE MCWebPortal ----------------------------
(* TLC instances of WebPortal. *)
EXTENDS WebPortal, TLC

CONSTANTS s1, s2, j1, j2, j3, j4, c1, c2

Symmetry == Permutations(Session) \cup Permutations(Jti) \cup Permutations(Call)
=============================================================================
