-------------------------- MODULE MCAgentEventQueue --------------------------
(* Model values for AgentEventQueue: a current runner, a legacy one whose    *)
(* acks are accepted, and one whose consumer must present a deliveryId.      *)
EXTENDS AgentEventQueue, TLC

CONSTANTS e1, r1, old1, old2, w1, w2
===============================================================================
