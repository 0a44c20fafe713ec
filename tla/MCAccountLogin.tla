--------------------------- MODULE MCAccountLogin ---------------------------
(* TLC instances of AccountLogin. *)
EXTENDS AccountLogin, Combinatorics, TLC

CONSTANTS a1, a2, a3, r1, r2, r3, u1, u2, k1, k2, k3

Symmetry == Permutations(Request) \cup Permutations(Subject) \cup Permutations(Secret)

(* The limit of GuessesBounded is a binomial coefficient: 69 for the four  *)
(* slots and the threshold of five that the program comes with.            *)
ASSUME MostGuessesIsBinomial ==
  \A T \in 1 .. 5, K \in 0 .. 4 :
    Cardinality(SlotStates(T, K)) = choose(T + K - 1, K)
=============================================================================
