-------------------------- MODULE MCHostedConnection --------------------------
(* Model-checking instances of HostedConnection.                             *)
EXTENDS HostedConnection, TLC

CONSTANTS r1, r2, d1

Symmetry == Permutations(Refreshers) \cup Permutations(Removers)
===============================================================================
