------------------------------ MODULE ParkedCall ------------------------------
(* What a parked tool call promises the runs that wait on it, without        *)
(* deciders, sweeps, retries or leases: it is decided once, it reaches the   *)
(* provider only when a person allowed it and then once, nobody joins it     *)
(* after the decision, and whoever is told is told with everybody else who   *)
(* waited.                                                                   *)
EXTENDS Naturals

CONSTANT Runs

VARIABLES call,      \* what became of it
          waiting,   \* runs parked on it
          provider,  \* how often the provider was asked
          told       \* runs that the answer named

pvars == <<call, waiting, provider, told>>

PInit == call = "open" /\ waiting = {} /\ provider = 0 /\ told = {}

Join(u) ==
    /\ call = "open"
    /\ waiting' = waiting \cup {u}
    /\ UNCHANGED <<call, provider, told>>

Decide(answer) ==
    /\ call = "open"
    /\ call' = answer
    /\ UNCHANGED <<waiting, provider, told>>

Ask ==
    /\ call = "allowed" /\ provider = 0
    /\ provider' = 1
    /\ UNCHANGED <<call, waiting, told>>

(* A call that was dropped was never shown to anyone, and tells nobody.      *)
Tell ==
    /\ call \in {"allowed", "denied"}
    /\ told' = waiting
    /\ UNCHANGED <<call, waiting, provider>>

PNext ==
    \/ \E u \in Runs : Join(u)
    \/ \E answer \in {"allowed", "denied", "dropped"} : Decide(answer)
    \/ Ask \/ Tell

PSpec == PInit /\ [][PNext]_pvars
===============================================================================
