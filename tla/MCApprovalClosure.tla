-------------------------- MODULE MCApprovalClosure --------------------------
(* One decision and one sweep pass over one parked call, and one later run   *)
(* that makes the same call.                                                 *)
EXTENDS ApprovalClosure

CONSTANTS d1, s1, u1
===============================================================================
