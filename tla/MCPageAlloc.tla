---------------------------- MODULE MCPageAlloc ----------------------------
(***************************************************************************)
(* Instances of PageAlloc for TLC: a few pages around two aligned pairs,   *)
(* so that blocks come back in every order.                                *)
(***************************************************************************)
EXTENDS PageAlloc

CONSTANTS c1, c2

OneClient  == {c1}
TwoClients == {c1, c2}
MCPage     == 4..7
MCData     == {4, NULL}
MCSizes    == {0, 1, 2, 3}
PairSizes  == {1, 2}
=============================================================================
