-------------------------- MODULE MCInProcessTurns --------------------------
(* Model values for InProcessTurns.                                          *)
EXTENDS InProcessTurns, TLC

CONSTANTS e1, e2, p1, p2

ProcSymmetry == Permutations(Procs)
EventSymmetry == Permutations(Events)
BothSymmetry == ProcSymmetry \cup EventSymmetry
===============================================================================
