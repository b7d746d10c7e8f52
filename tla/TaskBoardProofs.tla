--------------------------- MODULE TaskBoardProofs ---------------------------
(* Proofs about one row of the task board, for any seats, creators, sweep    *)
(* passes and bounds.                                                        *)
EXTENDS TaskBoard, TLAPS

(* What a step may assume of the row.                                        *)
BoardInv == BTypeOK /\ AuthorityIsHolders

LEMMA AwayIsPass == Away \in Pass
  BY BoardConstants DEF Away, Pass, SeatOrNone

LEMMA NoDeferral == 0 \in 0 .. MaxDeferrals
  BY BoardConstants

(* A claim or a restored claim is a row of its type.                         *)
LEMMA LeasedIsRow ==
  ASSUME row \in Row, NEW s \in Seats, NEW user \in SeatOrNone
  PROVE  Leased(s, user) \in Row
  BY NoDeferral DEF Leased, Row, SeatOrNone, Statuses

(* So is a closed row, as long as the bound allows another close.            *)
LEMMA ClosedIsRow ==
  ASSUME row \in Row, Closing
  PROVE  Closed \in Row
<1>1. row.epoch + 1 \in 0 .. MaxCloses
  BY BoardConstants DEF Closing, Row
<1> QED
  BY <1>1 DEF Closed, Row, SeatOrNone, Statuses

LEMMA InitBoardInv == BInit => BoardInv
<1> SUFFICES ASSUME BInit PROVE BoardInv
  OBVIOUS
<1>1. row \in Row
  BY BoardConstants DEF BInit, Row, SeatOrNone, Statuses
<1>2. pass \in [Sweepers -> Pass] /\ listening \subseteq Seats
  BY AwayIsPass DEF BInit
<1>3. AuthorityIsHolders
  BY DEF BInit, AuthorityIsHolders
<1> QED
  BY <1>1, <1>2, <1>3 DEF BoardInv, BTypeOK

LEMMA StepBoardInv == BoardInv /\ [BNext]_bvars => BoardInv'
<1> SUFFICES ASSUME BoardInv, [BNext]_bvars PROVE BoardInv'
  OBVIOUS
<1>0. row \in Row /\ pass \in [Sweepers -> Pass] /\ listening \subseteq Seats /\ AuthorityIsHolders
  BY DEF BoardInv, BTypeOK
<1>a. row' = row => AuthorityIsHolders' /\ row' \in Row
  BY <1>0 DEF AuthorityIsHolders
<1>b. row' = Closed /\ Closing => AuthorityIsHolders' /\ row' \in Row
  BY <1>0, ClosedIsRow DEF AuthorityIsHolders, Closed, Row
<1>1. ASSUME NEW s \in Seats, Claim(s) PROVE BoardInv'
  <2>1. row' \in Row
    BY <1>0, <1>1, LeasedIsRow DEF Claim, SeatOrNone
  <2>2. AuthorityIsHolders'
    BY <1>0, <1>1 DEF Claim, Leased, AuthorityIsHolders, Row
  <2> QED
    BY <2>1, <2>2, <1>0, <1>1 DEF BoardInv, BTypeOK, Claim
<1>2. ASSUME NEW s \in Seats, Renew(s) PROVE BoardInv'
  <2>1. row' \in Row
    BY <1>0, <1>2, NoDeferral DEF Renew, Row
  <2>2. AuthorityIsHolders'
    BY <1>0, <1>2 DEF Renew, AuthorityIsHolders, Row
  <2> QED
    BY <1>0, <1>2, <2>1, <2>2 DEF BoardInv, BTypeOK, Renew
<1>3. ASSUME NEW s \in Seats, Restore(s) PROVE BoardInv'
  <2>1. row' \in Row
    BY <1>0, <1>3, LeasedIsRow DEF Restore, SeatOrNone
  <2>2. AuthorityIsHolders'
    BY <1>0, <1>3 DEF Restore, Leased, AuthorityIsHolders, Row
  <2> QED
    BY <2>1, <2>2, <1>0, <1>3 DEF BoardInv, BTypeOK, Restore
<1>4. ASSUME NEW w \in Writers, Complete(w) PROVE BoardInv'
  BY <1>0, <1>4, <1>b DEF BoardInv, BTypeOK, Complete
<1>5. ASSUME NEW w \in Writers, NEW status \in Statuses, Patch(w, status) PROVE BoardInv'
  <2>1. CASE status = "done"
    BY <1>0, <1>5, <1>b, <2>1 DEF BoardInv, BTypeOK, Patch
  <2>2. CASE status # "done"
    <3>1. row' = [row EXCEPT !.status = status,
                             !.user = IF status = "claimed" THEN row.user ELSE Nobody]
      BY <1>5, <2>2 DEF Patch
    <3>2. row' \in Row
      BY <1>0, <3>1 DEF Row, Statuses, SeatOrNone
    <3>3. AuthorityIsHolders'
      BY <1>0, <3>1 DEF AuthorityIsHolders, Row
    <3> QED
      BY <1>0, <1>5, <3>2, <3>3 DEF BoardInv, BTypeOK, Patch
  <2> QED
    BY <2>1, <2>2
<1>6. ASSUME NEW s \in SeatOrNone, Reopen(s) PROVE BoardInv'
  BY <1>0, <1>6 DEF BoardInv, BTypeOK, Reopen, AuthorityIsHolders, Row, SeatOrNone, Statuses
<1>7. ASSUME NEW s \in SeatOrNone, NEW w \in Writers, Reassign(w, s) PROVE BoardInv'
  BY <1>0, <1>7 DEF BoardInv, BTypeOK, Reassign, AuthorityIsHolders, Row
<1>8. CASE CompleteBySystem
  BY <1>0, <1>8, <1>b DEF BoardInv, BTypeOK, CompleteBySystem
<1>9. CASE LeaseLapses
  <2>1. row' \in Row /\ AuthorityIsHolders'
    BY <1>0, <1>9 DEF LeaseLapses, Row, AuthorityIsHolders
  <2>2. pass' \in [Sweepers -> Pass]
    BY <1>9, AwayIsPass DEF LeaseLapses
  <2> QED
    BY <1>0, <1>9, <2>1, <2>2 DEF BoardInv, BTypeOK, LeaseLapses
<1>10. CASE ListeningChanges
  BY <1>0, <1>10, <1>a DEF BoardInv, BTypeOK, ListeningChanges
<1>11. ASSUME NEW k \in Sweepers, FindLapsed(k) PROVE BoardInv'
  <2>1. [found |-> TRUE, holder |-> row.holder, assignee |-> row.assignee,
         used |-> row.deferrals] \in Pass
    BY <1>0 DEF Row, Pass
  <2>2. pass' \in [Sweepers -> Pass]
    BY <1>0, <1>11, <2>1 DEF FindLapsed
  <2> QED
    BY <1>0, <1>11, <1>a, <2>2 DEF BoardInv, BTypeOK, FindLapsed
<1>12. ASSUME NEW k \in Sweepers, Defer(k) PROVE BoardInv'
  <2>1. pass' \in [Sweepers -> Pass]
    BY <1>0, <1>12, AwayIsPass DEF Defer
  <2>2. pass[k].used \in 0 .. MaxDeferrals /\ pass[k].used < MaxDeferrals
    BY <1>0, <1>12, BoardConstants DEF Defer, Deferring, Pass
  <2>3. Deferred(k) \in Row
    BY <1>0, <2>2, BoardConstants DEF Deferred, Row
  <2>4. row' \in Row /\ AuthorityIsHolders'
    BY <1>0, <1>12, <2>3 DEF Defer, Deferred, AuthorityIsHolders, Row
  <2> QED
    BY <1>0, <1>12, <2>1, <2>4 DEF BoardInv, BTypeOK, Defer
<1>13. ASSUME NEW k \in Sweepers, Rescue(k) PROVE BoardInv'
  <2>1. pass' \in [Sweepers -> Pass]
    BY <1>0, <1>13, AwayIsPass DEF Rescue
  <2>2. Provenance(k) \in SeatOrNone
    BY <1>0, <1>13 DEF Provenance, Pass
  <2>3. row' \in Row
    <3>1. CASE Rescuable(k)
      BY <1>0, <1>13, <2>2, <3>1, NoDeferral DEF Rescue, Row, SeatOrNone, Statuses
    <3>2. CASE ~Rescuable(k)
      BY <1>0, <1>13, <3>2 DEF Rescue
    <3> QED
      BY <3>1, <3>2
  <2>4. AuthorityIsHolders'
    BY <1>0, <1>13, <2>2 DEF Rescue, AuthorityIsHolders, Row
  <2> QED
    BY <1>0, <1>13, <2>1, <2>3, <2>4 DEF BoardInv, BTypeOK, Rescue
<1>14. CASE UNCHANGED bvars
  BY <1>0, <1>14, <1>a DEF BoardInv, BTypeOK, bvars
<1> QED
  BY <1>1, <1>2, <1>3, <1>4, <1>5, <1>6, <1>7, <1>8, <1>9, <1>10, <1>11, <1>12, <1>13, <1>14
     DEF BNext

(* The row, the check-ins and the passes of the sweep keep their types; the  *)
(* deferrals never pass MAX_RESCUE_DEFERRALS.                                *)
THEOREM BoardTyped == BSpec => []BTypeOK
<1>1. BoardInv => BTypeOK
  BY DEF BoardInv
<1> QED
  BY InitBoardInv, StepBoardInv, <1>1, PTL DEF BSpec

(* Authority over the row's grants is only ever that of the seat that holds  *)
(* the row by its own claim.                                                 *)
THEOREM BoardAuthority == BSpec => []AuthorityIsHolders
<1>1. BoardInv => AuthorityIsHolders
  BY DEF BoardInv
<1> QED
  BY InitBoardInv, StepBoardInv, <1>1, PTL DEF BSpec

-------------------------------------------------------------------------------
(* A live lease ends by its holder, a person, the creator or the system.     *)
LEMMA StepStandsDown ==
  ASSUME BoardInv, BNext, NEW s \in Seats, Held(s), ~Held(s)'
  PROVE  Overridden(s)
<1>0. row \in Row /\ s # Nobody /\ s # Person
  BY BoardConstants DEF BoardInv, BTypeOK
<1>a. row' # row /\ ~Lapsed
  BY DEF Held, Lapsed
<1>1. ASSUME NEW t \in Seats, Claim(t) PROVE FALSE
  BY <1>0, <1>1, <1>a DEF Claim, Winnable, Leased, Held, Lapsed, Row
<1>2. ASSUME NEW t \in Seats, Renew(t) PROVE FALSE
  BY <1>0, <1>2 DEF Renew, Held, Row
<1>3. ASSUME NEW t \in Seats, Restore(t) PROVE FALSE
  BY <1>3 DEF Restore, Restorable, Held
<1>4. ASSUME NEW w \in Writers, Writable(w) PROVE w \in {s, Person} \cup Creators
  BY <1>0, <1>4 DEF Writable, Held
<1>5. ASSUME NEW w \in Writers, Complete(w) PROVE Overridden(s)
  BY <1>4, <1>5 DEF Complete, Overridden
<1>6. ASSUME NEW w \in Writers, NEW status \in Statuses, Patch(w, status) PROVE Overridden(s)
  BY <1>4, <1>6 DEF Patch, Overridden
<1>7. ASSUME NEW t \in SeatOrNone, Reopen(t) PROVE FALSE
  BY <1>7 DEF Reopen, Held
<1>8. ASSUME NEW t \in SeatOrNone, NEW w \in Writers, Reassign(w, t) PROVE FALSE
  BY <1>0, <1>8 DEF Reassign, Held, Row
<1>9. CASE CompleteBySystem \/ LeaseLapses
  BY <1>9 DEF Overridden
<1>10. ASSUME ListeningChanges PROVE FALSE
  BY <1>10, <1>a DEF ListeningChanges
<1>11. ASSUME NEW k \in Sweepers, FindLapsed(k) \/ Defer(k) \/ Rescue(k) PROVE FALSE
  BY <1>11, <1>a DEF FindLapsed, Defer, Rescue, Rescuable
<1> QED
  BY <1>1, <1>2, <1>3, <1>5, <1>6, <1>7, <1>8, <1>9, <1>10, <1>11 DEF BNext

(* Nobody but the holder, a person, the creator or the system ends a live    *)
(* lease, however claims, late notes and sweep passes interleave.            *)
THEOREM BoardStandsDown == BSpec => PeersStandDown
<1>1. BoardInv /\ [BNext]_bvars => [\A s \in Seats : Held(s) /\ ~Held(s)' => Overridden(s)]_bvars
  BY StepStandsDown
<1> QED
  BY InitBoardInv, StepBoardInv, <1>1, PTL DEF BSpec, PeersStandDown

-------------------------------------------------------------------------------
(* What each step is to the grants: a step of TaskAuthority, or none.        *)
LEMMA StepAuthority ==
  ASSUME BoardInv, BNext
  PROVE  [Authority!ANext]_(Authority!avars)
<1> USE DEF Authority!avars
<1> DEFINE claimant(r) == IF r.status = "claimed" /\ r.lease = "live" THEN r.user ELSE Nobody
<1>0. row \in Row /\ AuthorityIsHolders
  BY DEF BoardInv, BTypeOK
<1>a. ASSUME row' = row PROVE UNCHANGED Authority!avars
  BY <1>a
<1>b. ASSUME row' = Closed, Closing, row.status # "done" PROVE Authority!CloseTask
  BY <1>0, <1>b DEF Authority!CloseTask, Closed, Closing, Row
<1>c. ASSUME claimant(row)' = Nobody, row'.epoch = row.epoch, row.status # "done", row'.status # "done"
      PROVE  Authority!Lose
  BY <1>c DEF Authority!Lose
<1>d. ASSUME claimant(row)' = claimant(row), row'.epoch = row.epoch,
             (row.status = "done") <=> (row'.status = "done")
      PROVE  UNCHANGED Authority!avars
  BY <1>d
<1>e. ASSUME row.status = "done", row'.status # "done", row'.epoch = row.epoch,
             claimant(row)' = Nobody
      PROVE  Authority!ReopenTask
  BY <1>e DEF Authority!ReopenTask
<1>1. ASSUME NEW s \in Seats, Claim(s) PROVE Authority!ANext \/ UNCHANGED Authority!avars
  <2>1. row' = Leased(s, s) /\ Winnable(s)
    BY <1>1 DEF Claim
  <2>2. row'.status = "claimed" /\ row'.lease = "live" /\ row'.user = s /\ row'.epoch = row.epoch
    BY <1>0, <2>1 DEF Leased, Row
  <2>3. row.status # "done" /\ (claimant(row) = Nobody \/ claimant(row) = s)
    BY <1>0, <2>1 DEF Winnable, Lapsed, AuthorityIsHolders
  <2>4. CASE claimant(row) = s
    BY <1>d, <2>2, <2>3, <2>4
  <2>5. CASE claimant(row) = Nobody
    <3>1. Authority!Take(s)
      BY <2>2, <2>3, <2>5 DEF Authority!Take
    <3> QED
      BY <3>1 DEF Authority!ANext
  <2> QED
    BY <2>3, <2>4, <2>5
<1>2. ASSUME NEW s \in Seats, Renew(s) PROVE Authority!ANext \/ UNCHANGED Authority!avars
  <2>1. row' = [row EXCEPT !.lease = "live", !.deferrals = 0] /\ row.status = "claimed"
    BY <1>2 DEF Renew
  <2>2. /\ row'.status = "claimed" /\ row'.lease = "live"
        /\ row'.user = row.user /\ row'.epoch = row.epoch
    BY <1>0, <2>1 DEF Row
  <2>3. row.user = Nobody \/ row.user \in Seats
    BY <1>0 DEF Row, SeatOrNone
  <2>4. CASE row.lease = "live" \/ row.user = Nobody
    BY <1>d, <2>1, <2>2, <2>4
  <2>5. CASE row.lease # "live" /\ row.user \in Seats
    <3>1. Authority!Take(row.user)
      BY <2>1, <2>2, <2>5 DEF Authority!Take
    <3> QED
      BY <2>5, <3>1 DEF Authority!ANext
  <2> QED
    BY <2>3, <2>4, <2>5
<1>3. ASSUME NEW s \in Seats, Restore(s) PROVE Authority!ANext \/ UNCHANGED Authority!avars
  <2>1. row' = Leased(s, Nobody) /\ row.status = "pending"
    BY <1>3 DEF Restore, Restorable
  <2>2. row'.status = "claimed" /\ row'.user = Nobody /\ row'.epoch = row.epoch
    BY <1>0, <2>1 DEF Leased, Row
  <2> QED
    BY <1>c, <2>1, <2>2 DEF Authority!ANext
<1>4. ASSUME NEW w \in Writers, Complete(w) PROVE Authority!ANext
  BY <1>4, <1>b DEF Complete, Authority!ANext
<1>5. CASE CompleteBySystem
  BY <1>5, <1>b DEF CompleteBySystem, Authority!ANext
<1>6. ASSUME NEW w \in Writers, NEW status \in Statuses, Patch(w, status)
      PROVE  Authority!ANext \/ UNCHANGED Authority!avars
  <2>1. CASE status = "done"
    BY <1>6, <1>b, <2>1 DEF Patch, Closable, Authority!ANext
  <2>2. CASE status # "done"
    <3>1. row' = [row EXCEPT !.status = status,
                             !.user = IF status = "claimed" THEN row.user ELSE Nobody]
      BY <1>6, <2>2 DEF Patch
    <3>2. /\ row'.status = status /\ row'.lease = row.lease /\ row'.epoch = row.epoch
          /\ row'.user = IF status = "claimed" THEN row.user ELSE Nobody
      BY <1>0, <3>1 DEF Row
    <3>3. row.status # "claimed" => row.user = Nobody
      BY <1>0 DEF AuthorityIsHolders
    <3>4. CASE row.status = "done"
      BY <1>e, <2>2, <3>2, <3>3, <3>4 DEF Authority!ANext
    <3>5. CASE row.status = "claimed" /\ status = "claimed"
      BY <1>d, <3>2, <3>5
    <3>6. CASE row.status # "done" /\ ~(row.status = "claimed" /\ status = "claimed")
      BY <1>c, <2>2, <3>2, <3>3, <3>6 DEF Authority!ANext
    <3> QED
      BY <3>4, <3>5, <3>6
  <2> QED
    BY <2>1, <2>2
<1>7. ASSUME NEW s \in SeatOrNone, Reopen(s) PROVE Authority!ANext
  BY <1>0, <1>7, <1>e DEF Reopen, Row, Authority!ANext
<1>8. ASSUME NEW s \in SeatOrNone, NEW w \in Writers, Reassign(w, s) PROVE UNCHANGED Authority!avars
  BY <1>0, <1>8, <1>d DEF Reassign, Row
<1>9. ASSUME LeaseLapses PROVE Authority!ANext \/ UNCHANGED Authority!avars
  <2>1. /\ row'.status = row.status /\ row'.lease = "over"
        /\ row'.user = row.user /\ row'.epoch = row.epoch
    BY <1>0, <1>9 DEF LeaseLapses, Row
  <2>2. CASE row.status = "done"
    BY <1>d, <2>1, <2>2
  <2>3. CASE row.status # "done"
    BY <1>c, <2>1, <2>3 DEF Authority!ANext
  <2> QED
    BY <2>2, <2>3
<1>10. ASSUME ListeningChanges PROVE UNCHANGED Authority!avars
  BY <1>10, <1>a DEF ListeningChanges
<1>11. ASSUME NEW k \in Sweepers, FindLapsed(k) PROVE UNCHANGED Authority!avars
  BY <1>11, <1>a DEF FindLapsed
<1>12. ASSUME NEW k \in Sweepers, Defer(k) PROVE UNCHANGED Authority!avars
  <2>1. CASE Lapsed
    <3>1. row' = [row EXCEPT !.deferrals = pass[k].used + 1]
      BY <1>12, <2>1 DEF Defer, Deferred
    <3> QED
      BY <1>0, <1>d, <3>1 DEF Row
  <2>2. CASE ~Lapsed
    BY <1>12, <1>a, <2>2 DEF Defer
  <2> QED
    BY <2>1, <2>2
<1>13. ASSUME NEW k \in Sweepers, Rescue(k) PROVE Authority!ANext \/ UNCHANGED Authority!avars
  <2>1. CASE Rescuable(k)
    <3>1. row'.status = "pending" /\ row'.epoch = row.epoch
      BY <1>0, <1>13, <2>1 DEF Rescue, Row
    <3> QED
      BY <1>c, <2>1, <3>1 DEF Rescuable, Lapsed, Authority!ANext
  <2>2. CASE ~Rescuable(k)
    BY <1>13, <1>a, <2>2 DEF Rescue
  <2> QED
    BY <2>1, <2>2
<1> QED
  BY <1>1, <1>2, <1>3, <1>4, <1>5, <1>6, <1>7, <1>8, <1>9, <1>10, <1>11, <1>12, <1>13 DEF BNext

(* The board keeps the promise of TaskAuthority to the grants of a row:      *)
(* authority passes from seat to seat through nobody, and ends with every    *)
(* close, of which each begins an epoch.                                     *)
THEOREM BoardImplementsAuthority == BSpec => ImplementsAuthority
<1>1. BInit => Authority!AInit
  BY DEF BInit, Authority!AInit
<1>2. BoardInv /\ [BNext]_bvars => [Authority!ANext]_(Authority!avars)
  BY StepAuthority DEF bvars, Authority!avars
<1> QED
  BY InitBoardInv, StepBoardInv, <1>1, <1>2, PTL DEF BSpec, ImplementsAuthority, Authority!ASpec

(* The epoch moves once for every closing of the row and for nothing else:   *)
(* two routes that close it at once do not both count.                       *)
THEOREM BoardClosesOnce == BSpec => ClosedOnce
<1>1. ASSUME BoardInv, BNext
      PROVE  row'.epoch # row.epoch <=> row.status # "done" /\ row'.status = "done"
  <2>0. row \in Row
    BY <1>1 DEF BoardInv, BTypeOK
  <2>a. ASSUME row' = Closed, row.status # "done" PROVE row'.epoch # row.epoch /\ row'.status = "done"
    <3>1. row.epoch \in Nat
      BY <2>0, BoardConstants DEF Row
    <3>2. row'.epoch = row.epoch + 1 /\ row'.status = "done"
      BY <2>0, <2>a DEF Closed, Row
    <3> QED
      BY <3>1, <3>2
  <2>1. ASSUME NEW s \in Seats, Claim(s) \/ Renew(s) \/ Restore(s)
        PROVE  row'.epoch = row.epoch /\ row'.status = "claimed"
    BY <2>0, <2>1 DEF Claim, Renew, Restore, Leased, Row
  <2>2. ASSUME NEW w \in Writers, Complete(w) \/ CompleteBySystem
        PROVE  row' = Closed /\ row.status # "done"
    BY <2>2 DEF Complete, CompleteBySystem
  <2>3. ASSUME NEW w \in Writers, NEW status \in Statuses, Patch(w, status)
        PROVE  (row' = Closed /\ row.status # "done") \/ (row'.epoch = row.epoch /\ row'.status # "done")
    <3>1. CASE status = "done"
      BY <2>3, <3>1 DEF Patch, Closable
    <3>2. CASE status # "done"
      <4>1. row' = [row EXCEPT !.status = status,
                               !.user = IF status = "claimed" THEN row.user ELSE Nobody]
        BY <2>3, <3>2 DEF Patch
      <4> QED
        BY <2>0, <3>2, <4>1 DEF Row
    <3> QED
      BY <3>1, <3>2
  <2>4. ASSUME NEW s \in SeatOrNone, Reopen(s) PROVE row'.epoch = row.epoch /\ row'.status # "done"
    BY <2>0, <2>4 DEF Reopen, Row
  <2>5. ASSUME NEW s \in SeatOrNone, NEW w \in Writers, Reassign(w, s)
        PROVE  row'.epoch = row.epoch /\ row'.status = row.status
    BY <2>0, <2>5 DEF Reassign, Row
  <2>6. ASSUME LeaseLapses \/ ListeningChanges PROVE row'.epoch = row.epoch /\ row'.status = row.status
    BY <2>0, <2>6 DEF LeaseLapses, ListeningChanges, Row
  <2>7. ASSUME NEW k \in Sweepers, FindLapsed(k) \/ Defer(k)
        PROVE  row'.epoch = row.epoch /\ row'.status = row.status
    BY <2>0, <2>7 DEF FindLapsed, Defer, Deferred, Row
  <2>8. ASSUME NEW k \in Sweepers, Rescue(k)
        PROVE  row' = row \/ (row'.epoch = row.epoch /\ row'.status # "done")
    <3>1. CASE Rescuable(k)
      BY <2>0, <2>8, <3>1 DEF Rescue, Row
    <3>2. CASE ~Rescuable(k)
      BY <2>8, <3>2 DEF Rescue
    <3> QED
      BY <3>1, <3>2
  <2>9. CompleteBySystem => row' = Closed /\ row.status # "done"
    BY DEF CompleteBySystem
  <2> QED
    BY <1>1, <2>a, <2>1, <2>2, <2>3, <2>4, <2>5, <2>6, <2>7, <2>8, <2>9 DEF BNext
<1>2. BoardInv /\ [BNext]_bvars =>
        [row'.epoch # row.epoch <=> row.status # "done" /\ row'.status = "done"]_bvars
  BY <1>1
<1> QED
  BY InitBoardInv, StepBoardInv, <1>2, PTL DEF BSpec, ClosedOnce
===============================================================================
