----------------------------- MODULE MCTaskBoard -----------------------------
(* Two seats, one of which created the row, and two replicas that sweep.     *)
EXTENDS TaskBoard

CONSTANTS a, b, k1, k2
===============================================================================
