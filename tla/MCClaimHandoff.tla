---------------------------- MODULE MCClaimHandoff ----------------------------
(* Three listening seats and one human message: the smallest room in which a *)
(* handoff has to choose, and in which two chains can run at once.  The      *)
(* liveness run has two seats, and every kind of fault.                      *)
EXTENDS ClaimHandoff, TLC

CONSTANTS a, b, c

Symmetry == Permutations({a, c})
===============================================================================
