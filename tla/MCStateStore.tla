---------------------------- MODULE MCStateStore ----------------------------
(* Model checking of StateStore.                                           *)
EXTENDS StateStore, TLC

CONSTANTS s1, s2,            \* savers
          id, token,         \* cluster_id; cluster_token
          v, w               \* values other than the empty string

(* Savers run the same code and never look at a value.                     *)
Alike == Permutations(Savers) \cup Permutations({v, w})
=============================================================================
