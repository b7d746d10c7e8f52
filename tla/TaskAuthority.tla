----------------------------- MODULE TaskAuthority -----------------------------
(* What a task on the board promises the grants that are bound to it: at     *)
(* most one seat has authority, it got that by its own claim and from nobody *)
(* else's hands, a task that is closed gives none, and every close begins a  *)
(* new epoch.                                                                *)
EXTENDS Naturals

CONSTANTS Seats, Nobody,
          MaxCloses  \* bound on how often the task is closed

VARIABLES open, epoch,
          claimant   \* the seat with a live lease by its own claim

avars == <<open, epoch, claimant>>

AInit == open = TRUE /\ epoch = 0 /\ claimant = Nobody

(* A claim, or the renewal of one that has lapsed.                           *)
Take(s) ==
    /\ open /\ claimant = Nobody
    /\ claimant' = s
    /\ UNCHANGED <<open, epoch>>

(* Lapse, release, rescue, or a write by somebody who may.                   *)
Lose ==
    /\ claimant' = Nobody
    /\ UNCHANGED <<open, epoch>>

CloseTask ==
    /\ open /\ epoch < MaxCloses
    /\ open' = FALSE /\ epoch' = epoch + 1 /\ claimant' = Nobody

ReopenTask ==
    /\ ~open
    /\ open' = TRUE
    /\ UNCHANGED <<epoch, claimant>>

ANext == (\E s \in Seats : Take(s)) \/ Lose \/ CloseTask \/ ReopenTask

ASpec == AInit /\ [][ANext]_avars
===============================================================================
