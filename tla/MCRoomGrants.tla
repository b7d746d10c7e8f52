----------------------------- MODULE MCRoomGrants -----------------------------
(* A grant and one attenuated from it for the task, one revocation and one   *)
(* call at a time, over a row that two seats claim and that closes and       *)
(* reopens.                                                                  *)
EXTENDS RoomGrants, TLC

CONSTANTS a, b, k1, root, child

MCParent == (root :> NoGrant) @@ (child :> root)
===============================================================================
