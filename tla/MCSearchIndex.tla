---------------------------- MODULE MCSearchIndex ----------------------------
(* TLC instances of SearchIndex. *)
EXTENDS SearchIndex, TLC

CONSTANTS e1, e2, d1, d2, t1, t2, org, word

MCHomeOf == (e1 :> d1) @@ (e2 :> d2)

(* Ids of one word, but for the one of e2, which has that of e1 in it: as  *)
(* "0841" and "EMP-0841".                                                  *)
MCTokensOf == (org :> {org}) @@ (e1 :> {e1}) @@ (e2 :> {word, e1})
=============================================================================
