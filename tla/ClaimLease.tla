------------------------------ MODULE ClaimLease ------------------------------
(* What an attention claim promises (ADR-018 D3, D4, D6.1), with no table,   *)
(* clock or statement order in it: a message is open, leased to one seat, or *)
(* closed.  A lease never passes from one seat to another directly: it ends  *)
(* first.  A closed message cannot be leased until it is forgotten.          *)
(* MessageClaim implements this module.                                      *)
CONSTANTS Messages, Seats, Open, Closed

VARIABLE standing   \* the standing of each message

LTypeOK == standing \in [Messages -> Seats \cup {Open, Closed}]

LInit == standing = [m \in Messages |-> Open]

(* A seat leases an open message, or renews the lease it holds.              *)
Win(s, m) ==
    /\ standing[m] \in {Open, s}
    /\ standing' = [standing EXCEPT ![m] = s]

(* The lease ends: it runs out, or its holder declines, refuses or drops it. *)
End(m) ==
    /\ standing[m] \in Seats
    /\ standing' = [standing EXCEPT ![m] = Open]

(* The holder answers a message other seats have passed on.  The lease may   *)
(* have just run out, as long as no other seat has taken it.                 *)
Close(m) ==
    /\ standing[m] \in Seats \cup {Open}
    /\ standing' = [standing EXCEPT ![m] = Closed]

(* The retention of closed messages ends; several are forgotten at once.     *)
Forget(M) ==
    /\ \A m \in M : standing[m] = Closed
    /\ standing' = [m \in Messages |-> IF m \in M THEN Open ELSE standing[m]]

LNext ==
    \/ \E m \in Messages : End(m) \/ Close(m) \/ \E s \in Seats : Win(s, m)
    \/ \E M \in SUBSET Messages : Forget(M)

LSpec == LInit /\ [][LNext]_standing
===============================================================================
