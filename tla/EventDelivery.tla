---------------------------- MODULE EventDelivery ----------------------------
(* What the agent event queue promises, without delivery nonces, sweeps,     *)
(* runners or lines: at-least-once delivery that is bounded and that ends.   *)
(* An offered event waits, is out with a runner, is taken back to wait, and  *)
(* ends once; it goes out at most Limit times.                               *)
EXTENDS Naturals

CONSTANTS Events,
          Limit,
          InProcess   \* whether turns run in the queue's own processes

VARIABLES phase,   \* where the event is
          tries    \* how often it has been out

qvars == <<phase, tries>>

QInit ==
    /\ phase = [e \in Events |-> "none"]
    /\ tries = [e \in Events |-> 0]

Offer(e) ==
    /\ phase[e] = "none"
    /\ phase' = [phase EXCEPT ![e] = "waiting"]
    /\ UNCHANGED tries

(* An agent that runs in-process has its event at once.                      *)
OfferOut(e) ==
    /\ InProcess
    /\ phase[e] = "none"
    /\ phase' = [phase EXCEPT ![e] = "out"]
    /\ tries' = [tries EXCEPT ![e] = @ + 1]

Deliver(e) ==
    /\ phase[e] = "waiting"
    /\ tries[e] < Limit
    /\ phase' = [phase EXCEPT ![e] = "out"]
    /\ tries' = [tries EXCEPT ![e] = @ + 1]

(* A dead turn's event goes straight to another turn.                        *)
HandOver(e) ==
    /\ InProcess
    /\ phase[e] = "out"
    /\ tries[e] < Limit
    /\ tries' = [tries EXCEPT ![e] = @ + 1]
    /\ UNCHANGED phase

(* An event that has used up its deliveries is not put back.                 *)
TakeBack(e) ==
    /\ phase[e] = "out"
    /\ tries[e] < Limit
    /\ phase' = [phase EXCEPT ![e] = "waiting"]
    /\ UNCHANGED tries

Settle(e) ==
    /\ phase[e] \in {"waiting", "out"}
    /\ phase' = [phase EXCEPT ![e] = "ended"]
    /\ UNCHANGED tries

QNext ==
    \E e \in Events :
        \/ Offer(e) \/ Deliver(e) \/ TakeBack(e) \/ Settle(e)
        \/ OfferOut(e) \/ HandOver(e)

QSpec == QInit /\ [][QNext]_qvars
===============================================================================
