-------------------------- MODULE MCDelegationStore --------------------------
(***************************************************************************)
(* The delegation store on a small instance: two delegations, so that a    *)
(* reconciliation batch has two members.                                   *)
(***************************************************************************)
EXTENDS DelegationStore, TLC

CONSTANTS d1, d2, w1, w2, r1, r2, k1, k2

Symmetry ==
  Permutations({d1, d2}) \cup Permutations({w1, w2})
    \cup Permutations({r1, r2}) \cup Permutations({k1, k2})
=============================================================================
