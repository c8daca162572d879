----------------------------- MODULE MCDsaTree ------------------------------
(* Model checking of DsaTree: two cards with two user ports each. *)
EXTENDS DsaTree, TLC

Symmetric == Permutations(Cards) \cup Permutations(UserPorts)
=============================================================================
