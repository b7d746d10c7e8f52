---------------------------- MODULE MCMessageClaim ----------------------------
(* A small instance of MessageClaim for TLC: two seats, two messages, and at *)
(* most MaxInFlight requests between their statements at any time (two are   *)
(* enough for each seat to be overtaken by the other, or by itself).         *)
EXTENDS MessageClaim, Naturals

CONSTANT MaxInFlight

FewInFlight == Cardinality(inFlight) <= MaxInFlight
===============================================================================
