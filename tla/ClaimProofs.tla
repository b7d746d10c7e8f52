----------------------------- MODULE ClaimProofs ------------------------------
(* Proofs about attention claims, for any seats and messages: first the      *)
(* claim table (MessageClaim) under arbitrary callers, then the handoff      *)
(* composition (ClaimHandoff), whose driver makes only such calls.           *)
EXTENDS ClaimHandoff, FiniteSetTheorems, TLAPS

-------------------------------------------------------------------------------
(* What the statements write are rows.                                       *)
LEMMA WritesAreRows ==
    ASSUME NEW r \in Row, NEW s \in Seats
    PROVE  /\ Won(r, s) \in Row
           /\ \A outcome \in {"declined", "refused"} : PassedOn(r, s, outcome) \in Row
           /\ Tombstone(r) \in Row
BY DEF Row, Terminal, Won, PassedOn, Tombstone

(* Every step keeps the table, the requests and the seats' knowledge well    *)
(* formed, whatever statement of messageClaimService.ts runs.                *)
LEMMA TypeIsInductive == TypeOK /\ [Next]_vars => TypeOK'
<1> SUFFICES ASSUME TypeOK, [Next]_vars
             PROVE  TypeOK'
  OBVIOUS
<1> USE DEF TypeOK
<1>a. \A s \in Seats, m \in Messages : Cas(s, m) \in Request /\ Delete(s, m) \in Request
  BY DEF Cas, Delete, Request
<1>b. \A m \in Messages : rows[m] \in Row
  OBVIOUS
<1>c. Seats # {} => Absent \in Row
  BY DEF Row, Absent, Terminal
<1>1. ASSUME NEW s \in Seats, NEW m \in Messages, ClaimPrune(s, m)
      PROVE  TypeOK'
  BY <1>1, <1>a, <1>b, <1>c DEF ClaimPrune
<1>2. ASSUME NEW s \in Seats, NEW m \in Messages, ClaimWin(s, m)
      PROVE  TypeOK'
  <2>1. Won(rows[m], s) \in Row
    BY <1>b, WritesAreRows
  <2>2. rows' \in [Messages -> Row]
    BY <1>2, <2>1 DEF ClaimWin
  <2>3. told' \in [Seats -> SUBSET Messages]
    BY <1>2 DEF ClaimWin
  <2>4. inFlight' \subseteq Request
    BY <1>2 DEF ClaimWin
  <2> QED
    BY <2>2, <2>3, <2>4
<1>3. ASSUME NEW s \in Seats, NEW m \in Messages, ClaimLose(s, m)
      PROVE  TypeOK'
  BY <1>3 DEF ClaimLose
<1>4. ASSUME NEW s \in Seats, NEW m \in Messages,
             NEW outcome \in {"declined", "refused"}, ReleasePassOn(s, m, outcome)
      PROVE  TypeOK'
  <2>1. PassedOn(rows[m], s, outcome) \in Row
    BY <1>b, WritesAreRows
  <2>2. rows' \in [Messages -> Row]
    BY <1>4, <2>1 DEF ReleasePassOn
  <2>3. told' \in [Seats -> SUBSET Messages]
    BY <1>4 DEF ReleasePassOn
  <2>4. inFlight' = inFlight
    BY <1>4 DEF ReleasePassOn
  <2> QED
    BY <2>2, <2>3, <2>4
<1>5. ASSUME NEW s \in Seats, NEW m \in Messages, ReleaseCompleted(s, m)
      PROVE  TypeOK'
  <2>1. Tombstone(rows[m]) \in Row
    BY <1>b, WritesAreRows
  <2>2. CASE HeldBy(rows[m], s) /\ HandedOff(rows[m])
    BY <1>5, <2>1, <2>2 DEF ReleaseCompleted
  <2>3. CASE ~(HeldBy(rows[m], s) /\ HandedOff(rows[m]))
    BY <1>5, <1>a, <2>3 DEF ReleaseCompleted
  <2> QED
    BY <2>2, <2>3
<1>6. ASSUME NEW s \in Seats, NEW m \in Messages, ReleaseOmitted(s, m)
      PROVE  TypeOK'
  BY <1>6, <1>a DEF ReleaseOmitted
<1>7. ASSUME NEW s \in Seats, NEW m \in Messages, ReleaseDelete(s, m)
      PROVE  TypeOK'
  BY <1>7, <1>c DEF ReleaseDelete
<1>8. ASSUME NEW r \in inFlight, RequestLost(r)
      PROVE  TypeOK'
  BY <1>8 DEF RequestLost
<1>9. ASSUME NEW m \in Messages, Lapse(m)
      PROVE  TypeOK'
  <2>1. [rows[m] EXCEPT !.age = "lapsed"] \in Row
    BY <1>b DEF Row
  <2>2. rows' \in [Messages -> Row]
    BY <1>9, <2>1 DEF Lapse
  <2> QED
    BY <1>9, <2>2 DEF Lapse
<1>10. ASSUME NEW m \in Messages, Stale(m)
       PROVE  TypeOK'
  <2>1. [rows[m] EXCEPT !.age = "stale"] \in Row
    BY <1>b DEF Row
  <2> QED
    BY <1>10, <2>1 DEF Stale
<1>11. CASE UNCHANGED vars
  BY <1>11 DEF vars
<1> QED
  BY <1>1, <1>2, <1>3, <1>4, <1>5, <1>6, <1>7, <1>8, <1>9, <1>10, <1>11
     DEF Next, SeatStep

(* The table never holds a row the schema and the code do not know.          *)
THEOREM TypeCorrect == Spec => []TypeOK
<1>1. Init => TypeOK
  BY DEF Init, TypeOK, Row, Absent, Request
<1> QED
  BY <1>1, TypeIsInductive, PTL DEF Spec

-------------------------------------------------------------------------------
(* No statement takes a live lease away from the seat that was told it won.  *)
LEMMA LeaseIsInductive ==
    TypeOK /\ LeaseIsExclusive /\ [Next]_vars => LeaseIsExclusive'
<1> SUFFICES ASSUME TypeOK, LeaseIsExclusive, [Next]_vars
             PROVE  LeaseIsExclusive'
  OBVIOUS
<1> USE DEF TypeOK, LeaseIsExclusive, HeldBy
<1>1. ASSUME NEW s \in Seats, NEW m \in Messages, ClaimPrune(s, m)
      PROVE  LeaseIsExclusive'
  <2>1. \A t \in Seats : \A k \in told[t] : ~Prunable(rows[k])
    BY DEF Prunable, Terminal
  <2> QED
    BY <1>1, <2>1 DEF ClaimPrune
<1>2. ASSUME NEW s \in Seats, NEW m \in Messages, ClaimWin(s, m)
      PROVE  LeaseIsExclusive'
  <2>1. \A t \in Seats : m \in told[t] => t = s
    BY <1>2 DEF ClaimWin, Winnable
  <2>2. HeldBy(rows'[m], s) /\ rows'[m].age = "live"
    BY <1>2 DEF ClaimWin, Won, Row
  <2>3. \A k \in Messages : k # m => rows'[k] = rows[k]
    BY <1>2 DEF ClaimWin
  <2>4. \A t \in Seats : told'[t] \subseteq told[t] \cup (IF t = s THEN {m} ELSE {})
    BY <1>2 DEF ClaimWin
  <2> QED
    BY <2>1, <2>2, <2>3, <2>4, <1>2, TypeIsInductive
<1>3. ASSUME NEW s \in Seats, NEW m \in Messages, ClaimLose(s, m)
      PROVE  LeaseIsExclusive'
  BY <1>3 DEF ClaimLose
<1>4. ASSUME NEW s \in Seats, NEW m \in Messages,
             NEW outcome \in {"declined", "refused"}, ReleasePassOn(s, m, outcome)
      PROVE  LeaseIsExclusive'
  BY <1>4 DEF ReleasePassOn
<1>5. ASSUME NEW s \in Seats, NEW m \in Messages, ReleaseCompleted(s, m)
      PROVE  LeaseIsExclusive'
  BY <1>5 DEF ReleaseCompleted
<1>6. ASSUME NEW s \in Seats, NEW m \in Messages, ReleaseOmitted(s, m)
      PROVE  LeaseIsExclusive'
  BY <1>6 DEF ReleaseOmitted
<1>7. ASSUME NEW s \in Seats, NEW m \in Messages, ReleaseDelete(s, m)
      PROVE  LeaseIsExclusive'
  BY <1>7 DEF ReleaseDelete
<1>8. ASSUME NEW r \in inFlight, RequestLost(r)
      PROVE  LeaseIsExclusive'
  BY <1>8 DEF RequestLost
<1>9. ASSUME NEW m \in Messages, Lapse(m)
      PROVE  LeaseIsExclusive'
  BY <1>9 DEF Lapse
<1>10. ASSUME NEW m \in Messages, Stale(m)
       PROVE  LeaseIsExclusive'
  BY <1>10 DEF Stale
<1>11. CASE UNCHANGED vars
  BY <1>11 DEF vars
<1> QED
  BY <1>1, <1>2, <1>3, <1>4, <1>5, <1>6, <1>7, <1>8, <1>9, <1>10, <1>11
     DEF Next, SeatStep

(* Two seats never both act under a live lease of the same message.          *)
THEOREM LeaseExclusive == Spec => []LeaseIsExclusive
<1>1. Init => LeaseIsExclusive
  BY DEF Init, LeaseIsExclusive
<1> QED
  BY <1>1, TypeCorrect, LeaseIsInductive, PTL DEF Spec

-------------------------------------------------------------------------------
(* What a terminal row says of who passed on the message stays true.         *)
LEMMA HistoryIsInductive ==
    TypeOK /\ HistoryIsSound /\ [Next]_vars => HistoryIsSound'
<1> SUFFICES ASSUME TypeOK, HistoryIsSound, [Next]_vars
             PROVE  HistoryIsSound'
  OBVIOUS
<1> DEFINE Sound(r) ==
             /\ r.state \in {"declined", "refused"} => r.holder \in r.declined
             /\ r.state = "completed" => r.declined # {}
             /\ IF r.state = "absent" THEN r = Absent ELSE r.holder \in Seats
<1>a. \A m \in Messages : rows[m] \in Row /\ Sound(rows[m])
  BY DEF TypeOK, HistoryIsSound
<1>b. Sound(Absent)
  BY DEF Absent
<1>c. SUFFICES \A m \in Messages : Sound(rows'[m])
  BY DEF HistoryIsSound
<1> HIDE DEF Sound
<1>1. ASSUME NEW s \in Seats, NEW m \in Messages, ClaimPrune(s, m)
      PROVE  \A k \in Messages : Sound(rows'[k])
  BY <1>1, <1>a, <1>b DEF ClaimPrune
<1>2. ASSUME NEW s \in Seats, NEW m \in Messages, ClaimWin(s, m)
      PROVE  \A k \in Messages : Sound(rows'[k])
  <2>1. Sound(Won(rows[m], s))
    BY <1>a DEF Sound, Won, Row
  <2> QED
    BY <1>2, <1>a, <2>1 DEF ClaimWin, TypeOK
<1>3. ASSUME NEW s \in Seats, NEW m \in Messages,
             NEW outcome \in {"declined", "refused"}, ReleasePassOn(s, m, outcome)
      PROVE  \A k \in Messages : Sound(rows'[k])
  <2>1. Sound(PassedOn(rows[m], s, outcome))
    BY <1>3, <1>a DEF Sound, PassedOn, Row, ReleasePassOn, HeldBy
  <2> QED
    BY <1>3, <1>a, <2>1 DEF ReleasePassOn, TypeOK
<1>4. ASSUME NEW s \in Seats, NEW m \in Messages, ReleaseCompleted(s, m)
      PROVE  \A k \in Messages : Sound(rows'[k])
  <2>1. HeldBy(rows[m], s) /\ HandedOff(rows[m]) => Sound(Tombstone(rows[m]))
    BY <1>a DEF Sound, Tombstone, HeldBy, HandedOff, Row
  <2> QED
    BY <1>4, <1>a, <2>1 DEF ReleaseCompleted, TypeOK
<1>5. ASSUME NEW s \in Seats, NEW m \in Messages, ReleaseDelete(s, m)
      PROVE  \A k \in Messages : Sound(rows'[k])
  BY <1>5, <1>a, <1>b DEF ReleaseDelete, TypeOK
<1>6. ASSUME NEW m \in Messages, Lapse(m)
      PROVE  \A k \in Messages : Sound(rows'[k])
  <2>1. Sound([rows[m] EXCEPT !.age = "lapsed"])
    BY <1>6, <1>a DEF Sound, Row, Lapse
  <2> QED
    BY <1>6, <1>a, <2>1 DEF Lapse, TypeOK
<1>7. ASSUME NEW m \in Messages, Stale(m)
      PROVE  \A k \in Messages : Sound(rows'[k])
  <2>1. Sound([rows[m] EXCEPT !.age = "stale"])
    BY <1>7, <1>a DEF Sound, Row, Stale
  <2> QED
    BY <1>7, <1>a, <2>1 DEF Stale, TypeOK
<1>8. rows' = rows => \A k \in Messages : Sound(rows'[k])
  BY <1>a
<1> QED
  BY <1>1, <1>2, <1>3, <1>4, <1>5, <1>6, <1>7, <1>8
     DEF Next, SeatStep, ClaimLose, ReleaseOmitted, RequestLost, vars

(* The seat that passed a message on is always in its decline history, and a *)
(* completion tombstone always stands for a message that was passed on.      *)
THEOREM HistorySound == Spec => []HistoryIsSound
<1>1. Init => HistoryIsSound
  BY DEF Init, HistoryIsSound, Absent
<1> QED
  BY <1>1, TypeCorrect, HistoryIsInductive, PTL DEF Spec

-------------------------------------------------------------------------------
(* The table implements the abstract lease: every statement of the service   *)
(* is one step of ClaimLease or changes nothing there.                       *)
LEMMA StepsAreLeaseSteps ==
    TypeOK /\ HistoryIsSound /\ [Next]_vars =>
        [Lease!LNext]_[m \in Messages |-> Standing(rows[m])]
<1> DEFINE std == [m \in Messages |-> Standing(rows[m])]
<1> SUFFICES ASSUME TypeOK, HistoryIsSound, [Next]_vars
             PROVE  Lease!LNext \/ std' = std
  OBVIOUS
<1>a. \A m \in Messages : rows[m] \in Row
  BY DEF TypeOK
<1>b. std' = [m \in Messages |-> Standing(rows'[m])]
  OBVIOUS
<1>c. ASSUME NEW m \in Messages, NEW r, rows' = [rows EXCEPT ![m] = r]
      PROVE  std' = [std EXCEPT ![m] = Standing(r)]
  BY <1>c DEF TypeOK
<1>1. ASSUME NEW s \in Seats, NEW m \in Messages, ClaimPrune(s, m)
      PROVE  Lease!LNext
  <2> DEFINE M == {k \in Messages : Prunable(rows[k]) /\ rows[k].state = "completed"}
  <2>1. \A k \in M : std[k] = "closed"
    BY DEF Standing
  <2>2. \A k \in Messages : Standing(rows'[k]) = IF k \in M THEN "open" ELSE std[k]
    BY <1>1 DEF ClaimPrune, Prunable, Standing, Absent, Terminal
  <2>3. Lease!Forget(M)
    BY <2>1, <2>2 DEF Lease!Forget
  <2> QED
    BY <2>3 DEF Lease!LNext
<1>2. ASSUME NEW s \in Seats, NEW m \in Messages, ClaimWin(s, m)
      PROVE  Lease!LNext
  <2>1. std[m] \in {"open", s}
    BY <1>2 DEF ClaimWin, Winnable, Standing
  <2>2. Standing(Won(rows[m], s)) = s
    BY <1>a DEF Standing, Won, Row
  <2>3. std' = [std EXCEPT ![m] = s]
    BY <1>2, <1>c, <2>2 DEF ClaimWin
  <2>4. Lease!Win(s, m)
    BY <2>1, <2>3 DEF Lease!Win
  <2> QED
    BY <2>4 DEF Lease!LNext
<1>d. ASSUME NEW m \in Messages, rows[m].state = "claimed",
             std' = [std EXCEPT ![m] = "open"]
      PROVE  Lease!LNext \/ std' = std
  <2>1. CASE rows[m].age = "live"
    <3>1. std[m] \in Seats
      BY <1>d, <2>1 DEF Standing, HistoryIsSound
    <3>2. Lease!End(m)
      BY <1>d, <3>1 DEF Lease!End
    <3> QED
      BY <3>2 DEF Lease!LNext
  <2>2. CASE rows[m].age # "live"
    <3>1. std[m] = "open"
      BY <1>d, <2>2 DEF Standing
    <3> QED
      BY <1>d, <3>1
  <2> QED
    BY <2>1, <2>2
<1>3. ASSUME NEW s \in Seats, NEW m \in Messages,
             NEW outcome \in {"declined", "refused"}, ReleasePassOn(s, m, outcome)
      PROVE  Lease!LNext \/ std' = std
  <2>1. Standing(PassedOn(rows[m], s, outcome)) = "open"
    BY <1>a DEF Standing, PassedOn, Row
  <2>2. std' = [std EXCEPT ![m] = "open"]
    BY <1>3, <1>c, <2>1 DEF ReleasePassOn
  <2> QED
    BY <1>3, <1>d, <2>2 DEF ReleasePassOn, HeldBy
<1>4. ASSUME NEW s \in Seats, NEW m \in Messages, ReleaseCompleted(s, m)
      PROVE  Lease!LNext \/ std' = std
  <2>1. CASE HeldBy(rows[m], s) /\ HandedOff(rows[m])
    <3>1. Standing(Tombstone(rows[m])) = "closed"
      BY <1>a DEF Standing, Tombstone, Row
    <3>2. std' = [std EXCEPT ![m] = "closed"]
      BY <1>4, <1>c, <2>1, <3>1 DEF ReleaseCompleted
    <3>3. std[m] \in Seats \cup {"open"}
      BY <2>1 DEF Standing, HeldBy
    <3>4. Lease!Close(m)
      BY <3>2, <3>3 DEF Lease!Close
    <3> QED
      BY <3>4 DEF Lease!LNext
  <2>2. CASE ~(HeldBy(rows[m], s) /\ HandedOff(rows[m]))
    BY <1>4, <2>2 DEF ReleaseCompleted
  <2> QED
    BY <2>1, <2>2
<1>5. ASSUME NEW s \in Seats, NEW m \in Messages, ReleaseDelete(s, m)
      PROVE  Lease!LNext \/ std' = std
  <2>1. CASE HeldBy(rows[m], s)
    <3>1. Standing(Absent) = "open"
      BY DEF Standing, Absent
    <3>2. std' = [std EXCEPT ![m] = "open"]
      BY <1>5, <1>c, <2>1, <3>1 DEF ReleaseDelete
    <3> QED
      BY <1>d, <2>1, <3>2 DEF HeldBy
  <2>2. CASE ~HeldBy(rows[m], s)
    BY <1>5, <2>2 DEF ReleaseDelete
  <2> QED
    BY <2>1, <2>2
<1>6. ASSUME NEW m \in Messages, Lapse(m)
      PROVE  Lease!LNext \/ std' = std
  <2> DEFINE r == [rows[m] EXCEPT !.age = "lapsed"]
  <2>1. std' = [std EXCEPT ![m] = Standing(r)]
    BY <1>6, <1>c DEF Lapse
  <2>2. CASE rows[m].state = "claimed"
    <3>1. Standing(r) = "open"
      BY <1>a, <2>2 DEF Standing, Row
    <3> QED
      BY <1>d, <2>1, <2>2, <3>1
  <2>3. CASE rows[m].state # "claimed"
    <3>1. Standing(r) = std[m]
      BY <1>a, <2>3 DEF Standing, Row
    <3> QED
      BY <2>1, <3>1
  <2> QED
    BY <2>2, <2>3
<1>7. ASSUME NEW m \in Messages, Stale(m)
      PROVE  std' = std
  <2> DEFINE r == [rows[m] EXCEPT !.age = "stale"]
  <2>1. std' = [std EXCEPT ![m] = Standing(r)]
    BY <1>7, <1>c DEF Stale
  <2>2. Standing(r) = "open" /\ std[m] = "open"
    BY <1>7, <1>a DEF Standing, Row, Stale
  <2> QED
    BY <2>1, <2>2
<1>8. rows' = rows => std' = std
  OBVIOUS
<1> QED
  BY <1>1, <1>2, <1>3, <1>4, <1>5, <1>6, <1>7, <1>8
     DEF Next, SeatStep, ClaimLose, ReleaseOmitted, RequestLost, vars

(* A lease never passes from one seat to another without ending in between,  *)
(* and a message that was answered after being passed on is not leased again *)
(* before its tombstone is pruned.                                           *)
THEOREM LeaseImplemented == Spec => ImplementsLease
<1>1. Init => Lease!LInit
  BY DEF Init, Lease!LInit, Standing, Absent
<1> QED
  BY <1>1, StepsAreLeaseSteps, TypeCorrect, HistorySound, PTL
     DEF Spec, ImplementsLease, Lease!LSpec
-------------------------------------------------------------------------------
(* All that one step of the service can do to the row of one message.        *)
Pruned(r, new) == Prunable(r) /\ new = Absent
Leased(r, new) == \E s \in Seats : Winnable(r, s) /\ new = Won(r, s)
Passed(r, new) == \E s \in Seats, outcome \in {"declined", "refused"} :
                      HeldBy(r, s) /\ new = PassedOn(r, s, outcome)
Finished(r, new) == \E s \in Seats : HeldBy(r, s) /\ HandedOff(r) /\ new = Tombstone(r)
Dropped(m, new) == \E s \in Seats : /\ HeldBy(rows[m], s)
                                     /\ Delete(s, m) \in inFlight
                                     /\ new = Absent
Aged(r, new) == \/ new = [r EXCEPT !.age = "lapsed"]
                \/ new = [r EXCEPT !.age = "stale"]

RowStep(m, new) ==
    \/ new = rows[m] \/ Pruned(rows[m], new) \/ Leased(rows[m], new)
    \/ Passed(rows[m], new) \/ Finished(rows[m], new)
    \/ Dropped(m, new) \/ Aged(rows[m], new)

LEMMA RowsStep ==
    TypeOK /\ [Next]_vars => \A m \in Messages : RowStep(m, rows'[m])
<1> SUFFICES ASSUME TypeOK, [Next]_vars, NEW k \in Messages
             PROVE  RowStep(k, rows'[k])
  OBVIOUS
<1>1. ASSUME NEW s \in Seats, NEW m \in Messages, ClaimPrune(s, m)
      PROVE  RowStep(k, rows'[k])
  BY <1>1 DEF ClaimPrune, RowStep, Pruned
<1>2. ASSUME NEW s \in Seats, NEW m \in Messages, ClaimWin(s, m)
      PROVE  RowStep(k, rows'[k])
  <2>1. CASE m = k
    BY <1>2, <2>1 DEF ClaimWin, RowStep, Leased, TypeOK
  <2>2. CASE m # k
    BY <1>2, <2>2 DEF ClaimWin, RowStep, TypeOK
  <2> QED
    BY <2>1, <2>2
<1>3. ASSUME NEW s \in Seats, NEW m \in Messages,
             NEW outcome \in {"declined", "refused"}, ReleasePassOn(s, m, outcome)
      PROVE  RowStep(k, rows'[k])
  <2>1. CASE m = k
    BY <1>3, <2>1 DEF ReleasePassOn, RowStep, Passed, TypeOK
  <2>2. CASE m # k
    BY <1>3, <2>2 DEF ReleasePassOn, RowStep, TypeOK
  <2> QED
    BY <2>1, <2>2
<1>4. ASSUME NEW s \in Seats, NEW m \in Messages, ReleaseCompleted(s, m)
      PROVE  RowStep(k, rows'[k])
  <2>1. CASE m = k /\ HeldBy(rows[m], s) /\ HandedOff(rows[m])
    BY <1>4, <2>1 DEF ReleaseCompleted, RowStep, Finished, TypeOK
  <2>2. CASE ~(m = k /\ HeldBy(rows[m], s) /\ HandedOff(rows[m]))
    BY <1>4, <2>2 DEF ReleaseCompleted, RowStep, TypeOK
  <2> QED
    BY <2>1, <2>2
<1>5. ASSUME NEW s \in Seats, NEW m \in Messages, ReleaseDelete(s, m)
      PROVE  RowStep(k, rows'[k])
  <2>1. CASE m = k /\ HeldBy(rows[m], s)
    BY <1>5, <2>1 DEF ReleaseDelete, RowStep, Dropped, TypeOK
  <2>2. CASE ~(m = k /\ HeldBy(rows[m], s))
    BY <1>5, <2>2 DEF ReleaseDelete, RowStep, TypeOK
  <2> QED
    BY <2>1, <2>2
<1>6. ASSUME NEW m \in Messages, Lapse(m) \/ Stale(m)
      PROVE  RowStep(k, rows'[k])
  <2>1. CASE m = k
    BY <1>6, <2>1 DEF Lapse, Stale, RowStep, Aged, TypeOK
  <2>2. CASE m # k
    BY <1>6, <2>2 DEF Lapse, Stale, RowStep, TypeOK
  <2> QED
    BY <2>1, <2>2
<1>7. rows' = rows => RowStep(k, rows'[k])
  BY DEF RowStep
<1> QED
  BY <1>1, <1>2, <1>3, <1>4, <1>5, <1>6, <1>7
     DEF Next, SeatStep, ClaimLose, ReleaseOmitted, RequestLost, vars

(* A release that is repeated, or comes from a seat that lost its lease,     *)
(* never moves a message out of the terminal state it is in.                 *)
THEOREM EndingsAreFinal == Spec => TerminalIsFinal
<1> DEFINE Final(m) ==
      rows[m].state \in Terminal =>
          \/ rows'[m].state = rows[m].state /\ rows'[m].holder = rows[m].holder
          \/ rows'[m].state = "claimed" /\ rows[m].state # "completed"
          \/ rows'[m].state = "absent" /\ rows[m].age # "live"
<1>1. ASSUME TypeOK, [Next]_vars, NEW m \in Messages
      PROVE  Final(m)
  <2> SUFFICES ASSUME rows[m].state \in Terminal
               PROVE  \/ rows'[m].state = rows[m].state /\ rows'[m].holder = rows[m].holder
                      \/ rows'[m].state = "claimed" /\ rows[m].state # "completed"
                      \/ rows'[m].state = "absent" /\ rows[m].age # "live"
    OBVIOUS
  <2>1. RowStep(m, rows'[m])
    BY <1>1, RowsStep
  <2>2. rows[m] \in Row
    BY <1>1 DEF TypeOK
  <2>4. ~Passed(rows[m], rows'[m]) /\ ~Finished(rows[m], rows'[m]) /\ ~Dropped(m, rows'[m])
    BY DEF Passed, Finished, Dropped, HeldBy, Terminal
  <2>5. CASE Pruned(rows[m], rows'[m])
    BY <2>5 DEF Pruned, Prunable, Terminal, Absent
  <2>6. CASE Leased(rows[m], rows'[m])
    BY <2>2, <2>6 DEF Leased, Winnable, Won, Row, Terminal
  <2>7. CASE Aged(rows[m], rows'[m])
    BY <2>2, <2>7 DEF Aged, Row
  <2> QED
    BY <2>1, <2>4, <2>5, <2>6, <2>7 DEF RowStep
<1>2. TypeOK /\ [Next]_vars => [\A m \in Messages : Final(m)]_vars
  BY <1>1
<1> QED
  BY <1>2, TypeCorrect, PTL DEF Spec, TerminalIsFinal

(* No step forgets a seat that declined while its message could still be     *)
(* offered to it again.                                                      *)
THEOREM DeclinesKept == Spec => DeclinesAreKept
<1> DEFINE Remembered(m) ==
      ~(rows[m].declined \subseteq rows'[m].declined) =>
          /\ rows'[m] = Absent
          /\ \/ rows[m].age # "live"
             \/ rows[m].state = "claimed" /\ Delete(rows[m].holder, m) \in inFlight
<1>1. ASSUME TypeOK, [Next]_vars, NEW m \in Messages
      PROVE  Remembered(m)
  <2>1. RowStep(m, rows'[m])
    BY <1>1, RowsStep
  <2>2. rows[m] \in Row
    BY <1>1 DEF TypeOK
  <2>3. CASE Pruned(rows[m], rows'[m])
    BY <2>3 DEF Pruned, Prunable
  <2>4. CASE Dropped(m, rows'[m])
    BY <2>4 DEF Dropped, HeldBy
  <2>5. CASE Leased(rows[m], rows'[m])
    BY <2>2, <2>5 DEF Leased, Won, Row
  <2>6. CASE Passed(rows[m], rows'[m])
    BY <2>2, <2>6 DEF Passed, PassedOn, Row
  <2>7. CASE Finished(rows[m], rows'[m])
    BY <2>2, <2>7 DEF Finished, Tombstone, Row
  <2>8. CASE Aged(rows[m], rows'[m])
    BY <2>2, <2>8 DEF Aged, Row
  <2> QED
    BY <2>1, <2>3, <2>4, <2>5, <2>6, <2>7, <2>8 DEF RowStep
<1>2. TypeOK /\ [Next]_vars => [\A m \in Messages : Remembered(m)]_vars
  BY <1>1
<1> QED
  BY <1>2, TypeCorrect, PTL DEF Spec, DeclinesAreKept

-------------------------------------------------------------------------------
(* Every step of the composition is, in the claim table, one statement of    *)
(* the service or none at all.                                               *)
LEMMA StepsAreClaimSteps == [HNext]_hvars => [Next]_vars
<1> SUFFICES ASSUME [HNext]_hvars
             PROVE  Next \/ UNCHANGED vars
  OBVIOUS
<1> USE DEF Next, SeatStep
<1>1. ASSUME NEW s \in Seats, NEW m \in Messages, DriverStep(s, m)
      PROVE  Next \/ UNCHANGED vars
  <2>1. CASE BeginTurn(s, m) \/ Renew(s, m)
    BY <2>1 DEF BeginTurn, Renew
  <2>2. CASE Acquire(s, m) \/ RenewalWins(s, m)
    BY <2>2 DEF Acquire, RenewalWins
  <2>3. CASE StandDown(s, m) \/ ProceedPeerAware(s, m) \/ RenewalLoses(s, m)
    BY <2>3 DEF StandDown, ProceedPeerAware, RenewalLoses
  <2>4. CASE FailOpen(s, m)
    BY <2>4 DEF FailOpen, RequestLost
  <2>5. CASE Answer(s, m)
    BY <2>5 DEF Answer
  <2>6. ASSUME NEW outcome \in {"declined", "refused"}, PassOn(s, m, outcome)
        PROVE  Next \/ UNCHANGED vars
    BY <2>6 DEF PassOn
  <2>7. CASE EndUnclaimed(s, m) \/ EndTurn(s, m) \/ EndThrown(s, m) \/ ReleaseFails(s, m)
             \/ Crash(s, m)
    BY <2>7 DEF EndUnclaimed, EndTurn, EndThrown, ReleaseFails, Crash
  <2>8. CASE LandDelete(s, m) \/ Throw(s, m)
    BY <2>8 DEF LandDelete, Throw
  <2> QED
    BY <1>1, <2>1, <2>2, <2>3, <2>4, <2>5, <2>6, <2>7, <2>8 DEF DriverStep, ClaimAnswered, Finish
<1>2. ASSUME NEW s \in Seats, HandoffStep(s) \/ WakeOff(s)
      PROVE  UNCHANGED vars
  BY <1>2 DEF HandoffStep, WakeOff, HandoffLookup, HandoffSkip, HandoffOffer,
              HandoffExhausted, HandoffLost, HandoffGoesOn, vars
<1>3. ASSUME NEW m \in Messages, LeaseLapses(m) \/ RetentionEnds(m) \/ LeaseGoesStale(m)
      PROVE  Next \/ UNCHANGED vars
  BY <1>3 DEF LeaseLapses, RetentionEnds, LeaseGoesStale
<1>4. ASSUME NEW s \in Seats, NEW m \in Messages, FanOutStep(m, s)
      PROVE  UNCHANGED vars
  BY <1>4 DEF FanOutStep, FanOut, FanOutFails
<1>5. CASE UNCHANGED hvars
  BY <1>5 DEF hvars, vars
<1> QED
  BY <1>1, <1>2, <1>3, <1>4, <1>5 DEF HNext

(* What the drivers, their renewals and late answers do to the claim table   *)
(* is within what MessageClaim allows arbitrary callers: every theorem above *)
(* holds in the composition too.                                             *)
THEOREM ClaimsImplemented == HSpec => Spec
<1>1. HInit => Init
  BY DEF HInit
<1> QED
  BY <1>1, StepsAreClaimSteps, PTL DEF HSpec, Spec

-------------------------------------------------------------------------------
(* The bounds on faults are kept.                                            *)
FaultsTyped ==
    /\ faults \in [crash : 0..MaxMishaps, loss : 0..MaxLosses, forget : 0..MaxForgets,
                   overtaken : SUBSET Messages]
    /\ IsFiniteSet(faults.overtaken)

(* Sending a release marks at most its message as overtaken.                 *)
LEMMA SendsTyped ==
    ASSUME FaultsTyped, NEW s \in Seats, NEW m \in Messages, Sends(s, m)
    PROVE  FaultsTyped'
<1>1. IsFiniteSet(faults.overtaken \cup {m})
  BY FS_AddElement DEF FaultsTyped
<1> DEFINE o == IF Cas(s, m) \in inFlight THEN faults.overtaken \cup {m} ELSE faults.overtaken
<1>2. o \in SUBSET Messages /\ IsFiniteSet(o)
  BY <1>1 DEF FaultsTyped
<1>3. faults' = [faults EXCEPT !.overtaken = o]
  BY DEF Sends
<1> HIDE DEF o
<1> QED
  BY <1>2, <1>3 DEF FaultsTyped

(* A fault is counted only below its bound.                                  *)
LEMMA SuffersTyped ==
    ASSUME FaultsTyped
    PROVE  /\ Mishap /\ Suffers("crash") => FaultsTyped'
           /\ faults.loss < MaxLosses /\ Suffers("loss") => FaultsTyped'
           /\ faults.forget < MaxForgets /\ Suffers("forget") => FaultsTyped'
<1> USE DEF FaultsTyped
<1>a. {MaxMishaps, MaxLosses, MaxForgets} \subseteq Nat
  BY HandoffConstants
<1>1. ASSUME Mishap, Suffers("crash") PROVE FaultsTyped'
  <2>1. Cardinality(faults.overtaken) \in Nat
    BY FS_CardinalityType
  <2>2. faults.crash + 1 \in 0..MaxMishaps
    BY <1>1, <1>a, <2>1 DEF Mishap
  <2> QED
    BY <1>1, <2>2 DEF Suffers
<1>2. ASSUME faults.loss < MaxLosses, Suffers("loss") PROVE FaultsTyped'
  <2>1. faults.loss + 1 \in 0..MaxLosses
    BY <1>2, <1>a
  <2> QED
    BY <1>2, <2>1 DEF Suffers
<1>3. ASSUME faults.forget < MaxForgets, Suffers("forget") PROVE FaultsTyped'
  <2>1. faults.forget + 1 \in 0..MaxForgets
    BY <1>3, <1>a
  <2> QED
    BY <1>3, <2>1 DEF Suffers
<1> QED
  BY <1>1, <1>2, <1>3

(* One wake of one seat is created or taken up, and no other changes.        *)
LEMMA OneOffer ==
    ASSUME offers \in [Messages -> [Seats -> Nat]],
           NEW m \in Messages, NEW s \in Seats, NEW n \in Nat,
           offers' = [offers EXCEPT ![m][s] = n]
    PROVE  /\ offers' \in [Messages -> [Seats -> Nat]]
           /\ \A k \in Messages, t \in Seats :
                 offers'[k][t] = IF k = m /\ t = s THEN n ELSE offers[k][t]
<1> DEFINE f == [offers[m] EXCEPT ![s] = n]
<1>1. f \in [Seats -> Nat] /\ \A t \in Seats : f[t] = IF t = s THEN n ELSE offers[m][t]
  OBVIOUS
<1>2. offers' = [offers EXCEPT ![m] = f]
  OBVIOUS
<1> HIDE DEF f
<1> QED
  BY <1>1, <1>2

HandoffTyped == HTypeOK /\ FaultsTyped

(* Every step of a driver, of a handoff and of the fan-out keeps the state   *)
(* well formed.                                                              *)
LEMMA HandoffTypeIsInductive == HandoffTyped /\ [HNext]_hvars => HandoffTyped'
<1> SUFFICES ASSUME HandoffTyped, [HNext]_hvars
             PROVE  HandoffTyped'
  OBVIOUS
<1> DEFINE Typed ==
      /\ wakeOn \in [Seats -> BOOLEAN]
      /\ unwoken \in [Messages -> SUBSET Seats] /\ woken \in [Messages -> SUBSET Seats]
      /\ offers \in [Messages -> [Seats -> Nat]]
      /\ turn \in [Seats -> Turn \cup {Resting}]
      /\ job \in [Seats -> Job \cup {None}]
      /\ passed \in [Messages -> SUBSET Seats]
      /\ answered \subseteq Messages
<1>a. TypeOK' /\ TypeOK /\ Typed /\ FaultsTyped
  BY StepsAreClaimSteps, TypeIsInductive DEF HandoffTyped, HTypeOK
<1>b. SUFFICES Typed' /\ FaultsTyped'
  BY <1>a DEF HandoffTyped, HTypeOK, FaultsTyped
<1>c. \A m \in Messages :
         [pc |-> "claiming", msg |-> m] \in Turn /\ [pc |-> "guarded", msg |-> m] \in Turn
         /\ [pc |-> "unguarded", msg |-> m] \in Turn /\ [pc |-> "lost", msg |-> m] \in Turn
         /\ [pc |-> "releasing", msg |-> m] \in Turn /\ [pc |-> "throwing", msg |-> m] \in Turn
  BY DEF Turn
<1>1. ASSUME NEW s \in Seats, NEW m \in Messages, BeginTurn(s, m)
      PROVE  Typed' /\ FaultsTyped'
  <2>1. offers[m][s] - 1 \in Nat
    BY <1>1, <1>a DEF BeginTurn
  <2>2. offers' \in [Messages -> [Seats -> Nat]]
    BY <1>1, <1>a, <2>1, OneOffer DEF BeginTurn
  <2> QED
    BY <1>1, <1>a, <1>c, <2>2 DEF BeginTurn, Goes, FaultsTyped
<1>2. ASSUME NEW s \in Seats, NEW m \in Messages, ClaimAnswered(s, m)
      PROVE  Typed' /\ FaultsTyped'
  <2>1. CASE Acquire(s, m)
    BY <2>1, <1>a, <1>c DEF Acquire, Goes, FaultsTyped
  <2>2. CASE StandDown(s, m) \/ ProceedPeerAware(s, m)
    BY <2>2, <1>a, <1>c DEF StandDown, ProceedPeerAware, Goes, Rests, FaultsTyped
  <2> QED
    BY <1>2, <2>1, <2>2 DEF ClaimAnswered
<1>3. ASSUME NEW s \in Seats, NEW m \in Messages,
             FailOpen(s, m) \/ ReleaseFails(s, m) \/ Throw(s, m)
      PROVE  Typed' /\ FaultsTyped'
  <2>1. FaultsTyped'
    BY <1>3, <1>a, SuffersTyped DEF FailOpen, ReleaseFails, Throw
  <2>2. Typed'
    BY <1>3, <1>a, <1>c DEF FailOpen, ReleaseFails, Throw, Goes, Rests
  <2> QED
    BY <2>1, <2>2
<1>4. ASSUME NEW s \in Seats, NEW m \in Messages,
             Renew(s, m) \/ RenewalWins(s, m) \/ LandDelete(s, m)
      PROVE  Typed' /\ FaultsTyped'
  BY <1>4, <1>a DEF Renew, RenewalWins, LandDelete, driver, FaultsTyped
<1>5. ASSUME NEW s \in Seats, NEW m \in Messages, RenewalLoses(s, m)
      PROVE  Typed' /\ FaultsTyped'
  BY <1>5, <1>a, <1>c DEF RenewalLoses, Goes, FaultsTyped
<1>6. ASSUME NEW s \in Seats, NEW m \in Messages, Answer(s, m)
      PROVE  Typed' /\ FaultsTyped'
  <2>1. FaultsTyped'
    BY <1>6, <1>a, SendsTyped DEF Answer
  <2>2. Typed'
    BY <1>6, <1>a, <1>c DEF Answer, Goes
  <2> QED
    BY <2>1, <2>2
<1>7. ASSUME NEW s \in Seats, NEW m \in Messages,
             NEW outcome \in {"declined", "refused"}, PassOn(s, m, outcome)
      PROVE  Typed' /\ FaultsTyped'
  <2>1. FaultsTyped'
    BY <1>7, <1>a, SendsTyped DEF PassOn
  <2>2. CASE HeldBy(rows[m], s)
    <3> DEFINE j == [stage |-> "lookup", msg |-> m, declined |-> rows'[m].declined, left |-> {}]
    <3>1. rows'[m].declined \in SUBSET Seats
      BY <1>a DEF TypeOK, Row
    <3>2. j \in Job
      BY <3>1 DEF Job
    <3>3. job' = [job EXCEPT ![s] = j]
      BY <1>7, <2>2 DEF PassOn
    <3>4. UNCHANGED <<wakeOn, unwoken, woken, offers, answered>>
      BY <1>7 DEF PassOn
    <3>5. turn' \in [Seats -> Turn \cup {Resting}]
      BY <1>7, <1>a, <1>c, <2>2 DEF PassOn, Goes
    <3>6. passed' \in [Messages -> SUBSET Seats]
      <4>1. passed[m] \cup {s} \in SUBSET Seats
        BY <1>a
      <4> QED
        BY <1>7, <1>a, <2>2, <4>1 DEF PassOn
    <3> HIDE DEF j
    <3> QED
      BY <1>a, <2>1, <3>2, <3>3, <3>4, <3>5, <3>6
  <2>3. CASE ~HeldBy(rows[m], s)
    BY <1>7, <1>a, <2>1, <2>3 DEF PassOn, Rests
  <2> QED
    BY <2>2, <2>3
<1>8. ASSUME NEW s \in Seats, NEW m \in Messages, EndUnclaimed(s, m) \/ EndTurn(s, m)
      PROVE  Typed' /\ FaultsTyped'
  BY <1>8, <1>a DEF EndUnclaimed, EndTurn, Rests, FaultsTyped
<1>9. ASSUME NEW s \in Seats, NEW m \in Messages, Crash(s, m) \/ EndThrown(s, m)
      PROVE  Typed' /\ FaultsTyped'
  <2>1. FaultsTyped'
    BY <1>9, <1>a, SuffersTyped DEF Crash, EndThrown, FaultsTyped
  <2>2. Typed'
    <3>1. offers[m][s] + 1 \in Nat
      BY <1>a
    <3>2. offers' \in [Messages -> [Seats -> Nat]]
      BY <1>9, <1>a, <3>1, OneOffer DEF Crash, EndThrown
    <3> QED
      BY <1>9, <1>a, <3>2 DEF Crash, EndThrown, Rests
  <2> QED
    BY <2>1, <2>2
<1>10. ASSUME NEW m \in Messages, NEW s \in Seats, FanOutStep(m, s)
       PROVE  Typed' /\ FaultsTyped'
  <2>1. FaultsTyped'
    BY <1>10, <1>a, SuffersTyped DEF FanOutStep, FanOut, FanOutFails, FaultsTyped
  <2>2. offers' \in [Messages -> [Seats -> Nat]]
    <3>1. offers[m][s] + 1 \in Nat
      BY <1>a
    <3> QED
      BY <1>10, <1>a, <3>1, OneOffer DEF FanOutStep, FanOut, FanOutFails
  <2>3. unwoken' \in [Messages -> SUBSET Seats] /\ woken' \in [Messages -> SUBSET Seats]
    <3>1. woken[m] \cup {s} \in SUBSET Seats /\ unwoken[m] \ {s} \in SUBSET Seats
      BY <1>a
    <3>2. /\ woken' = woken \/ woken' = [woken EXCEPT ![m] = woken[m] \cup {s}]
          /\ unwoken' = [unwoken EXCEPT ![m] = unwoken[m] \ {s}]
      BY <1>10 DEF FanOutStep, FanOut, FanOutFails
    <3> QED
      BY <1>a, <3>1, <3>2
  <2> QED
    BY <1>10, <1>a, <2>1, <2>2, <2>3 DEF FanOutStep, FanOut, FanOutFails
<1>11. ASSUME NEW s \in Seats, WakeOff(s)
       PROVE  Typed' /\ FaultsTyped'
  BY <1>11, <1>a DEF WakeOff, FaultsTyped
<1>12. ASSUME NEW s \in Seats, HandoffStep(s)
       PROVE  Typed' /\ FaultsTyped'
  <2>1. job[s] # None => job[s] \in Job
    BY <1>a
  <2>2. CASE HandoffLookup(s)
    <3> DEFINE q == woken[job[s].msg]
               j == [job[s] EXCEPT !.stage = "walk", !.left = q]
    <3>1. job[s] \in Job
      BY <2>1, <2>2 DEF HandoffLookup
    <3>2. q \in SUBSET Seats
      BY <1>a, <3>1 DEF Job
    <3>3. job' = [job EXCEPT ![s] = j] /\ UNCHANGED <<wakeOn, unwoken, woken, offers, turn, passed, answered, faults>>
      BY <2>2 DEF HandoffLookup
    <3> HIDE DEF q
    <3>4. j \in Job
      BY <3>1, <3>2 DEF Job
    <3> HIDE DEF j
    <3> QED
      BY <1>a, <3>3, <3>4 DEF FaultsTyped
  <2>3. ASSUME NEW t \in Seats, HandoffSkip(s, t)
        PROVE  Typed' /\ FaultsTyped'
    <3> DEFINE q == job[s].left \ {t}
               j == [job[s] EXCEPT !.left = q]
    <3>1. job[s] \in Job
      BY <2>1, <2>3 DEF HandoffSkip, Walking
    <3>2. q \in SUBSET Seats
      BY <3>1 DEF Job
    <3>3. job' = [job EXCEPT ![s] = j] /\ UNCHANGED <<wakeOn, unwoken, woken, offers, turn, passed, answered, faults>>
      BY <2>3 DEF HandoffSkip
    <3> HIDE DEF q
    <3>4. j \in Job
      BY <3>1, <3>2 DEF Job
    <3> HIDE DEF j
    <3> QED
      BY <1>a, <3>3, <3>4 DEF FaultsTyped
  <2>4. ASSUME NEW t \in Seats, HandoffOffer(s, t)
        PROVE  Typed' /\ FaultsTyped'
    <3>1. job[s] \in Job
      BY <2>1, <2>4 DEF HandoffOffer, Walking
    <3>2. job[s].msg \in Messages
      BY <3>1 DEF Job
    <3> DEFINE k == job[s].msg
    <3>3. offers[k][t] + 1 \in Nat
      BY <1>a, <3>2
    <3>4. offers' = [offers EXCEPT ![k][t] = offers[k][t] + 1]
      BY <2>4 DEF HandoffOffer
    <3>5. offers' \in [Messages -> [Seats -> Nat]]
      BY <1>a, <3>2, <3>3, <3>4, OneOffer
    <3> QED
      BY <1>a, <2>4, <3>5 DEF HandoffOffer, FaultsTyped
  <2>5. CASE HandoffExhausted(s)
    BY <1>a, <2>5 DEF HandoffExhausted, FaultsTyped
  <2>6. CASE HandoffLost(s)
    <3>1. FaultsTyped'
      BY <1>a, <2>6, SuffersTyped DEF HandoffLost
    <3> QED
      BY <1>a, <2>6, <3>1 DEF HandoffLost
  <2> QED
    BY <1>12, <2>2, <2>3, <2>4, <2>5, <2>6 DEF HandoffStep, HandoffGoesOn
<1>13. ASSUME NEW m \in Messages, LeaseLapses(m)
       PROVE  Typed' /\ FaultsTyped'
  BY <1>13, <1>a DEF LeaseLapses, driver, FaultsTyped
<1>14. ASSUME NEW m \in Messages, RetentionEnds(m) \/ LeaseGoesStale(m)
       PROVE  Typed' /\ FaultsTyped'
  <2>1. FaultsTyped'
    BY <1>14, <1>a, SuffersTyped DEF RetentionEnds, LeaseGoesStale
  <2> QED
    BY <1>14, <1>a, <2>1 DEF RetentionEnds, LeaseGoesStale
<1>15. CASE UNCHANGED hvars
  BY <1>15, <1>a DEF hvars, FaultsTyped
<1> QED
  BY <1>1, <1>2, <1>3, <1>4, <1>5, <1>6, <1>7, <1>8, <1>9, <1>10, <1>11, <1>12,
     <1>13, <1>14, <1>15 DEF HNext, DriverStep, Finish

(* The composition starts well formed.                                       *)
LEMMA HandoffTypedAtFirst == HInit => HandoffTyped
<1> SUFFICES ASSUME HInit PROVE HandoffTyped
  OBVIOUS
<1>1. {MaxMishaps, MaxLosses, MaxForgets} \subseteq Nat
  BY HandoffConstants
<1>2. TypeOK
  BY DEF HInit, Init, TypeOK, Row, Absent, Request
<1>3. FaultsTyped
  BY <1>1, FS_EmptySet DEF HInit, FaultsTyped
<1>4. HTypeOK
  BY <1>1, <1>2, <1>3 DEF HInit, HTypeOK, FaultsTyped
<1> QED
  BY <1>3, <1>4 DEF HandoffTyped

(* No turn, offer or handoff job is ever one the drivers and the service do  *)
(* not know.                                                                 *)
THEOREM HandoffTypeCorrect == HSpec => []HTypeOK
<1>1. HandoffTyped => HTypeOK
  BY DEF HandoffTyped
<1> QED
  BY <1>1, HandoffTypedAtFirst, HandoffTypeIsInductive, PTL DEF HSpec

(* A seat that may hold or ask for a lease of a message is at work under it, *)
(* or has the wake it will come back for.                                    *)
OnIt(s, m) == turn[s] # Resting /\ turn[s].msg = m

Works(s, m) ==
    \/ At(s, m, "claiming") \/ At(s, m, "guarded") \/ At(s, m, "throwing")
    \/ offers[m][s] > 0 /\ ~OnIt(s, m)

(* A seat that threw is dropping its lease, or its wake has come back.       *)
Drops(s, m) == At(s, m, "throwing") \/ (offers[m][s] > 0 /\ ~OnIt(s, m))

(* Nothing closes the row of a message that nobody answered, only a seat     *)
(* that threw drops it, and whoever leases it, or still may, is a seat that  *)
(* works.                                                                    *)
Worked(m) ==
    /\ \A s \in Seats : Delete(s, m) \in inFlight => Drops(s, m)
    /\ \A s \in Seats : Cas(s, m) \in inFlight => Works(s, m)
    /\ rows[m].state # "completed"
    /\ rows[m].age # "stale"
    /\ rows[m].state = "claimed" => rows[m].holder \in Seats /\ Works(rows[m].holder, m)

(* A handoff that will reach every seat that could still take the message.   *)
Carries(s, m) ==
    /\ job[s] # None /\ job[s].msg = m
    /\ \/ job[s].stage = "lookup"
       \/ \A t \in Seats : wakeOn[t] => t \in passed[m] \cup job[s].left

(* A turn that will ask for the message, or gives it back.                   *)
Awake(s, m) == At(s, m, "claiming") \/ At(s, m, "throwing")

(* Somebody will yet look at the message, or nobody is left to.              *)
Carried(m) ==
    \/ unwoken[m] # {}
    \/ rows[m].state = "claimed"
    \/ \E s \in Seats : offers[m][s] > 0 \/ Awake(s, m) \/ Carries(s, m)
    \/ \A s \in Seats : wakeOn[s] => s \in passed[m]

(* Whom a row or a handoff counts as declined has passed the message on.     *)
HistoryIsKept ==
    /\ \A m \in Messages : rows[m].declined \subseteq passed[m]
    /\ \A s \in Seats : job[s] # None => job[s].declined \subseteq passed[job[s].msg]

(* While no enqueue has failed, a seat's original wake exists or is to come. *)
FannedOut == faults.loss = 0 => \A m \in Messages : unwoken[m] \cup woken[m] = Seats

Undecided(m) == faults.loss = 0 /\ m \notin answered \cup faults.overtaken

HandoffInv ==
    /\ HandoffTyped /\ HistoryIsKept /\ FannedOut
    /\ \A m \in Messages : Undecided(m) => Worked(m) /\ Carried(m)

(* A request names its seat, its statement and its message.                  *)
LEMMA RequestsDiffer ==
    \A s, t \in Seats : \A m, k \in Messages :
        /\ Cas(s, m) # Delete(t, k)
        /\ Cas(s, m) = Cas(t, k) <=> s = t /\ m = k
        /\ Delete(s, m) = Delete(t, k) <=> s = t /\ m = k
BY DEF Cas, Delete

(* A turn of a seat on a message concerns no other seat and no other message.*)
LEMMA WorksElsewhere ==
    ASSUME HandoffTyped, HandoffTyped', NEW s \in Seats, NEW m \in Messages,
           \A t \in Seats : t # s => turn'[t] = turn[t],
           turn'[s] = Resting \/ turn'[s].msg = m,
           turn[s] = Resting \/ turn[s].msg = m,
           NEW k \in Messages, NEW t \in Seats, t # s \/ k # m,
           offers'[k][t] >= offers[k][t], Works(t, k)
    PROVE  Works(t, k)' /\ (Drops(t, k) => Drops(t, k)')
<1>1. offers[k][t] \in Nat /\ offers'[k][t] \in Nat
  BY DEF HandoffTyped, HTypeOK
<1>2. CASE t # s
  BY <1>1, <1>2 DEF Works, Drops, At, OnIt
<1>3. CASE t = s /\ k # m
  <2>1. ~At(t, k, "claiming") /\ ~At(t, k, "guarded") /\ ~At(t, k, "throwing")
    BY <1>3 DEF At, Resting
  <2>2. ~OnIt(t, k)'
    BY <1>3 DEF OnIt
  <2> QED
    BY <1>1, <1>3, <2>1, <2>2 DEF Works, Drops
<1> QED
  BY <1>2, <1>3

(* What a step of the turn of s on m leaves alone, seen from message k.      *)
TurnStep(s, m, k) ==
    /\ \A t \in Seats : t # s => turn'[t] = turn[t]
    /\ turn'[s] = Resting \/ turn'[s].msg = m
    /\ turn[s] = Resting \/ turn[s].msg = m
    /\ \A t \in Seats : t # s \/ k # m =>
          /\ offers'[k][t] >= offers[k][t]
          /\ Delete(t, k) \in inFlight' => Delete(t, k) \in inFlight
    /\ k = m /\ Delete(s, m) \in inFlight' => Drops(s, m)'

(* A request that drops a lease stays with the seat that threw.              *)
LEMMA DropsElsewhere ==
    ASSUME HandoffTyped, HandoffTyped', NEW s \in Seats, NEW m \in Messages,
           NEW k \in Messages, Worked(k), TurnStep(s, m, k)
    PROVE  \A t \in Seats : Delete(t, k) \in inFlight' => Drops(t, k)'
<1> SUFFICES ASSUME NEW t \in Seats, Delete(t, k) \in inFlight', t # s \/ k # m
             PROVE  Drops(t, k)'
  BY DEF TurnStep
<1>1. Delete(t, k) \in inFlight /\ offers'[k][t] >= offers[k][t]
  BY DEF TurnStep
<1>2. Drops(t, k)
  BY <1>1 DEF Worked
<1>3. Works(t, k)
  BY <1>2 DEF Works, Drops
<1> QED
  BY <1>1, <1>2, <1>3, WorksElsewhere DEF TurnStep

(* A message stays looked after while whoever looks after it goes on.        *)
LEMMA CarriedOn ==
    ASSUME NEW k \in Messages, Carried(k),
           UNCHANGED <<wakeOn, unwoken, woken, job>>,
           passed[k] \subseteq passed'[k],
           rows[k].state = "claimed" => rows'[k].state = "claimed",
           (\E t \in Seats : offers[k][t] > 0 \/ Awake(t, k)) =>
              \/ rows'[k].state = "claimed"
              \/ \E t \in Seats : offers'[k][t] > 0 \/ Awake(t, k)'
    PROVE  Carried(k)'
<1>1. ASSUME NEW t \in Seats, Carries(t, k)
      PROVE  Carries(t, k)'
  BY <1>1 DEF Carries
<1> QED
  BY <1>1 DEF Carried

(* Only a decline or a refusal adds to the history of a row.                 *)
LEMMA DeclinedFades ==
    ASSUME TypeOK, NEW s \in Seats, NEW m \in Messages,
           \/ ClaimPrune(s, m) \/ ClaimWin(s, m) \/ ClaimLose(s, m)
           \/ ReleaseCompleted(s, m) \/ ReleaseDelete(s, m) \/ ReleaseOmitted(s, m)
           \/ RequestLost(Cas(s, m))
           \/ Lapse(m) \/ Stale(m) \/ UNCHANGED vars
    PROVE  \A k \in Messages : rows'[k].declined \subseteq rows[k].declined
<1>1. \A k \in Messages : rows[k] \in Row
  BY DEF TypeOK
<1>2. CASE ClaimPrune(s, m)
  BY <1>2 DEF ClaimPrune, Absent
<1>3. CASE ClaimWin(s, m)
  <2>1. Won(rows[m], s).declined = rows[m].declined
    BY <1>1 DEF Won, Row
  <2> QED
    BY <1>3, <2>1 DEF ClaimWin, TypeOK
<1>4. CASE ReleaseCompleted(s, m)
  <2>1. rows' = rows \/ rows' = [rows EXCEPT ![m] = Tombstone(rows[m])]
    BY <1>4 DEF ReleaseCompleted
  <2>2. Tombstone(rows[m]).declined = rows[m].declined
    BY <1>1 DEF Tombstone, Row
  <2> QED
    BY <2>1, <2>2 DEF TypeOK
<1>5. CASE ReleaseDelete(s, m)
  <2>1. rows' = rows \/ rows' = [rows EXCEPT ![m] = Absent]
    BY <1>5 DEF ReleaseDelete
  <2> QED
    BY <1>1, <2>1 DEF Absent, TypeOK
<1>6. CASE Lapse(m) \/ Stale(m)
  BY <1>1, <1>6 DEF Lapse, Stale, Row, TypeOK
<1>7. CASE rows' = rows
  BY <1>7
<1> QED
  BY <1>2, <1>3, <1>4, <1>5, <1>6, <1>7 DEF ClaimLose, ReleaseOmitted, RequestLost, vars

(* A release that records a decline is the only step that adds to a decline  *)
(* history, and it records who passed the message on.                        *)
LEMMA KeptIsInductive ==
    HandoffTyped /\ HistoryIsKept /\ [HNext]_hvars => HistoryIsKept'
<1> SUFFICES ASSUME HandoffTyped, HistoryIsKept, [HNext]_hvars
             PROVE  HistoryIsKept'
  OBVIOUS
<1>a. /\ TypeOK /\ job \in [Seats -> Job \cup {None}]
      /\ passed \in [Messages -> SUBSET Seats]
  BY DEF HandoffTyped, HTypeOK
<1>b. ASSUME \A k \in Messages : rows'[k].declined \subseteq rows[k].declined,
             UNCHANGED <<passed, job>>
      PROVE  HistoryIsKept'
  BY <1>b DEF HistoryIsKept
<1>1. ASSUME NEW s \in Seats, NEW m \in Messages, DriverStep(s, m)
      PROVE  HistoryIsKept'
  <2>1. CASE BeginTurn(s, m) \/ Renew(s, m)
    BY <1>a, <1>b, <2>1, DeclinedFades DEF BeginTurn, Renew, driver
  <2>2. CASE Acquire(s, m) \/ RenewalWins(s, m)
    BY <1>a, <1>b, <2>2, DeclinedFades DEF Acquire, RenewalWins, driver
  <2>3. CASE StandDown(s, m) \/ ProceedPeerAware(s, m) \/ RenewalLoses(s, m)
    BY <1>a, <1>b, <2>3, DeclinedFades DEF StandDown, ProceedPeerAware, RenewalLoses
  <2>4. CASE FailOpen(s, m)
    BY <1>a, <1>b, <2>4, DeclinedFades DEF FailOpen
  <2>5. CASE Answer(s, m)
    BY <1>a, <1>b, <2>5, DeclinedFades DEF Answer
  <2>6. ASSUME NEW outcome \in {"declined", "refused"}, PassOn(s, m, outcome)
        PROVE  HistoryIsKept'
    <3>1. CASE HeldBy(rows[m], s)
      <4> DEFINE d == rows[m].declined \cup {s}
      <4>1. rows[m] \in Row
        BY <1>a DEF TypeOK
      <4>2. rows' = [rows EXCEPT ![m] = PassedOn(rows[m], s, outcome)]
        BY <2>6, <3>1 DEF PassOn, ReleasePassOn
      <4>3. rows'[m].declined = d /\ \A k \in Messages : k # m => rows'[k] = rows[k]
        BY <1>a, <4>1, <4>2 DEF PassedOn, Row, TypeOK
      <4>4. passed' = [passed EXCEPT ![m] = passed[m] \cup {s}]
        BY <2>6, <3>1 DEF PassOn
      <4>5. passed'[m] = passed[m] \cup {s} /\ \A k \in Messages : passed[k] \subseteq passed'[k]
        BY <1>a, <4>4
      <4>6. d \subseteq passed'[m]
        BY <4>5 DEF HistoryIsKept
      <4>7. job' = [job EXCEPT ![s] = [stage |-> "lookup", msg |-> m,
                                       declined |-> rows'[m].declined, left |-> {}]]
        BY <2>6, <3>1 DEF PassOn
      <4>8. job'[s].declined = d /\ job'[s].msg = m /\ \A t \in Seats : t # s => job'[t] = job[t]
        BY <1>a, <4>3, <4>7
      <4> HIDE DEF d
      <4>9. ASSUME NEW t \in Seats, job'[t] # None
            PROVE  job'[t].declined \subseteq passed'[job'[t].msg]
        <5>1. CASE t = s
          BY <4>6, <4>8, <5>1
        <5>2. CASE t # s
          <6>1. job[t] \in Job /\ job'[t] = job[t]
            BY <1>a, <4>8, <4>9, <5>2
          <6>2. job[t].msg \in Messages
            BY <6>1 DEF Job
          <6> QED
            BY <4>5, <4>9, <6>1, <6>2 DEF HistoryIsKept
        <5> QED
          BY <5>1, <5>2
      <4> QED
        BY <4>3, <4>5, <4>6, <4>9 DEF HistoryIsKept
    <3>2. CASE ~HeldBy(rows[m], s)
      BY <1>a, <1>b, <2>6, <3>2, DeclinedFades DEF PassOn
    <3> QED
      BY <3>1, <3>2
  <2>7. CASE EndUnclaimed(s, m) \/ EndTurn(s, m) \/ EndThrown(s, m) \/ ReleaseFails(s, m)
             \/ Crash(s, m)
    BY <1>a, <1>b, <2>7, DeclinedFades DEF EndUnclaimed, EndTurn, EndThrown, ReleaseFails, Crash
  <2>8. CASE LandDelete(s, m)
    BY <1>a, <1>b, <2>8, DeclinedFades DEF LandDelete, driver
  <2>9. CASE Throw(s, m)
    BY <1>a, <1>b, <2>9, DeclinedFades DEF Throw
  <2> QED
    BY <1>1, <2>1, <2>2, <2>3, <2>4, <2>5, <2>6, <2>7, <2>8, <2>9
       DEF DriverStep, ClaimAnswered, Finish
<1>2. ASSUME NEW s \in Seats, HandoffStep(s) \/ WakeOff(s)
      PROVE  HistoryIsKept'
  <2>1. UNCHANGED <<rows, passed>>
    BY <1>2 DEF HandoffStep, WakeOff, HandoffLookup, HandoffSkip, HandoffOffer,
                HandoffExhausted, HandoffLost, HandoffGoesOn, vars
  <2>2. \A t \in Seats : t # s => job'[t] = job[t]
    BY <1>2, <1>a DEF HandoffStep, WakeOff, HandoffLookup, HandoffSkip, HandoffOffer,
                      HandoffExhausted, HandoffLost, HandoffGoesOn
  <2>3. CASE job'[s] = None \/ job' = job
    BY <2>1, <2>2, <2>3 DEF HistoryIsKept
  <2>4. CASE HandoffLookup(s)
    <3> DEFINE q == woken[job[s].msg]
    <3>1. job[s] \in Job /\ job[s] # None
      BY <1>a, <2>4 DEF HandoffLookup
    <3>2. job'[s] = [job[s] EXCEPT !.stage = "walk", !.left = q]
      BY <1>a, <2>4 DEF HandoffLookup
    <3> HIDE DEF q
    <3>3. job'[s].declined = job[s].declined /\ job'[s].msg = job[s].msg
      BY <3>1, <3>2 DEF Job
    <3> QED
      BY <2>1, <2>2, <3>1, <3>3 DEF HistoryIsKept
  <2>5. ASSUME NEW u \in Seats, HandoffSkip(s, u)
        PROVE  HistoryIsKept'
    <3> DEFINE q == job[s].left \ {u}
    <3>1. job[s] \in Job /\ job[s] # None
      BY <1>a, <2>5 DEF HandoffSkip, Walking
    <3>2. job'[s] = [job[s] EXCEPT !.left = q]
      BY <1>a, <2>5 DEF HandoffSkip
    <3> HIDE DEF q
    <3>3. job'[s].declined = job[s].declined /\ job'[s].msg = job[s].msg
      BY <3>1, <3>2 DEF Job
    <3> QED
      BY <2>1, <2>2, <3>1, <3>3 DEF HistoryIsKept
  <2>6. CASE WakeOff(s) \/ (\E t \in Seats : HandoffOffer(s, t)) \/ HandoffExhausted(s) \/ HandoffLost(s)
    BY <1>a, <2>3, <2>6 DEF WakeOff, HandoffOffer, HandoffExhausted, HandoffLost
  <2> QED
    BY <1>2, <2>4, <2>5, <2>6 DEF HandoffStep, HandoffGoesOn
<1>3. ASSUME NEW m \in Messages, NEW s \in Seats, FanOutStep(m, s)
      PROVE  HistoryIsKept'
  BY <1>3 DEF FanOutStep, FanOut, FanOutFails, HistoryIsKept, vars
<1>4. ASSUME NEW m \in Messages, LeaseLapses(m) \/ RetentionEnds(m) \/ LeaseGoesStale(m)
      PROVE  HistoryIsKept'
  <2>1. Lapse(m) \/ Stale(m)
    BY <1>4 DEF LeaseLapses, RetentionEnds, LeaseGoesStale
  <2>2. \A k \in Messages : rows'[k].declined \subseteq rows[k].declined
    <3>1. rows[m] \in Row
      BY <1>a DEF TypeOK
    <3> QED
      BY <1>a, <2>1, <3>1 DEF Lapse, Stale, Row, TypeOK
  <2> QED
    BY <1>4, <1>b, <2>2 DEF LeaseLapses, RetentionEnds, LeaseGoesStale, driver
<1>5. CASE UNCHANGED hvars
  BY <1>5 DEF hvars, HistoryIsKept
<1> QED
  BY <1>1, <1>2, <1>3, <1>4, <1>5 DEF HNext

(* What a turn of seat s on message m does for a message k that stays        *)
(* undecided.                                                                *)
LEMMA DriverKeepsWatch ==
    ASSUME HandoffTyped, HandoffTyped', HistoryIsKept,
           NEW s \in Seats, NEW m \in Messages, DriverStep(s, m),
           NEW k \in Messages, Undecided(k), Undecided(k)', Worked(k), Carried(k)
    PROVE  Worked(k)' /\ Carried(k)'
<1>a. /\ rows \in [Messages -> Row] /\ rows[k] \in Row
      /\ turn \in [Seats -> Turn \cup {Resting}] /\ turn' \in [Seats -> Turn \cup {Resting}]
      /\ offers \in [Messages -> [Seats -> Nat]] /\ offers' \in [Messages -> [Seats -> Nat]]
      /\ passed \in [Messages -> SUBSET Seats] /\ job \in [Seats -> Job \cup {None}]
      /\ faults.loss \in Nat
  BY DEF HandoffTyped, HTypeOK, TypeOK, FaultsTyped
<1>b. \A t \in Seats, j \in Messages : offers[j][t] \in Nat /\ offers'[j][t] \in Nat
  BY <1>a
<1>1. CASE BeginTurn(s, m)
  <2>1. rows'[k] = rows[k] \/ (rows[k].state # "claimed" /\ rows'[k] = Absent)
    BY <1>1 DEF BeginTurn, ClaimPrune, Prunable, Terminal, Worked
  <2>2. turn' = [turn EXCEPT ![s] = [pc |-> "claiming", msg |-> m]] /\ turn[s] = Resting
    BY <1>1 DEF BeginTurn, Goes
  <2>3. At(s, m, "claiming")'
    BY <1>a, <2>2 DEF At
  <2>4. \A j \in Messages, t \in Seats : t # s \/ j # m => offers'[j][t] = offers[j][t]
    <3>1. offers[m][s] - 1 \in Nat
      BY <1>1, <1>b DEF BeginTurn
    <3> QED
      BY <1>1, <1>a, <3>1, OneOffer DEF BeginTurn
  <2>5. \A t \in Seats : Works(t, k) => Works(t, k)'
    <3>1. ASSUME NEW t \in Seats, t # s \/ k # m, Works(t, k)
          PROVE  Works(t, k)'
      BY <1>b, <2>2, <2>4, <3>1, WorksElsewhere
    <3> QED
      BY <2>3, <3>1 DEF Works
  <2>6. inFlight' = inFlight \cup {Cas(s, m)}
    BY <1>1 DEF BeginTurn, ClaimPrune
  <2>7. Works(s, m)'
    BY <2>3 DEF Works
  <2>d. \A t \in Seats : Delete(t, k) \in inFlight' => Drops(t, k)'
    <3>1. \A t \in Seats : Delete(t, k) \in inFlight' => Delete(t, k) \in inFlight
      BY <2>6, RequestsDiffer
    <3>2. Delete(s, m) \notin inFlight
      BY <1>1 DEF BeginTurn
    <3>3. TurnStep(s, m, k)
      <4>1. \A t \in Seats : t # s => turn'[t] = turn[t]
        BY <1>a, <2>2
      <4>2. turn'[s].msg = m
        BY <2>3 DEF At
      <4>3. \A t \in Seats : t # s \/ k # m => offers'[k][t] >= offers[k][t]
        BY <1>b, <2>4
      <4> QED
        BY <2>2, <3>1, <3>2, <4>1, <4>2, <4>3 DEF TurnStep
    <3> QED
      BY <3>3, DropsElsewhere
  <2>8. Worked(k)'
    BY <2>1, <2>5, <2>6, <2>7, <2>d, RequestsDiffer DEF Worked, Absent
  <2>9. (\E t \in Seats : offers[k][t] > 0 \/ Awake(t, k)) =>
           \E t \in Seats : offers'[k][t] > 0 \/ Awake(t, k)'
    <3>1. ASSUME NEW t \in Seats, t # s, Awake(t, k) PROVE Awake(t, k)'
      BY <1>a, <2>2, <3>1 DEF Awake, At
    <3>2. ~Awake(s, k) /\ Awake(s, m)'
      BY <2>2, <2>3 DEF Awake, At, Resting
    <3> QED
      BY <2>4, <3>1, <3>2
  <2>10. UNCHANGED <<wakeOn, unwoken, woken, job, passed>>
    BY <1>1 DEF BeginTurn
  <2>11. Carried(k)'
    BY <2>1, <2>9, <2>10, CarriedOn
  <2> QED
    BY <2>8, <2>11
<1>2. CASE Acquire(s, m) \/ RenewalWins(s, m)
  <2>1. /\ rows' = [rows EXCEPT ![m] = Won(rows[m], s)]
        /\ inFlight' = inFlight \ {Cas(s, m)} /\ Cas(s, m) \in inFlight
        /\ UNCHANGED <<wakeOn, unwoken, woken, job, passed, offers>>
    BY <1>2 DEF Acquire, RenewalWins, ClaimWin, driver
  <2>2. \A t \in Seats : Works(t, k) => Works(t, k)'
    <3>1. CASE Acquire(s, m)
      <4>1. turn' = [turn EXCEPT ![s] = [pc |-> "guarded", msg |-> m]] /\ At(s, m, "claiming")
        BY <3>1 DEF Acquire, Goes
      <4>2. At(s, m, "guarded")'
        BY <1>a, <4>1 DEF At
      <4>3. ASSUME NEW t \in Seats, t # s \/ k # m, Works(t, k)
            PROVE  Works(t, k)'
        BY <1>b, <2>1, <4>1, <4>3, WorksElsewhere DEF At
      <4> QED
        BY <4>2, <4>3 DEF Works
    <3>2. CASE RenewalWins(s, m)
      BY <3>2 DEF RenewalWins, driver, Works, At, OnIt
    <3> QED
      BY <1>2, <3>1, <3>2
  <2>3. k = m => rows'[k].state = "claimed" /\ rows'[k].holder = s /\ rows'[k].age = "live"
    BY <1>a, <2>1 DEF Won, Row
  <2>4. k # m => rows'[k] = rows[k]
    BY <1>a, <2>1
  <2>d. \A t \in Seats : Delete(t, k) \in inFlight' => Drops(t, k)'
    <3>1. CASE Acquire(s, m)
      <4>1. turn' = [turn EXCEPT ![s] = [pc |-> "guarded", msg |-> m]] /\ At(s, m, "claiming")
        BY <3>1 DEF Acquire, Goes
      <4>2. ~Drops(s, m)
        BY <4>1 DEF Drops, At, OnIt, Resting
      <4>3. k = m => Delete(s, m) \notin inFlight
        BY <4>2 DEF Worked
      <4>4. turn'[s].msg = m /\ \A t \in Seats : t # s => turn'[t] = turn[t]
        BY <1>a, <4>1
      <4>5. TurnStep(s, m, k)
        BY <1>b, <2>1, <4>1, <4>3, <4>4 DEF TurnStep, At
      <4> QED
        BY <4>5, DropsElsewhere
    <3>2. CASE RenewalWins(s, m)
      BY <2>1, <3>2 DEF RenewalWins, driver, Worked, Drops, At, OnIt
    <3> QED
      BY <1>2, <3>1, <3>2
  <2>5. Worked(k)'
    BY <2>1, <2>3, <2>4, <2>2, <2>d DEF Worked
  <2>6. CASE k = m
    BY <2>3, <2>5, <2>6 DEF Carried
  <2>7. CASE k # m
    <3>1. \A t \in Seats : Awake(t, k) => Awake(t, k)'
      BY <1>2, <1>a, <2>7 DEF Awake, At, Acquire, RenewalWins, Goes, driver
    <3> QED
      BY <2>1, <2>4, <2>5, <2>7, <3>1, CarriedOn
  <2> QED
    BY <2>5, <2>6, <2>7
<1>3. CASE StandDown(s, m) \/ ProceedPeerAware(s, m) \/ RenewalLoses(s, m)
  <2>1. /\ rows' = rows /\ inFlight' = inFlight \ {Cas(s, m)} /\ ~Winnable(rows[m], s)
        /\ UNCHANGED <<wakeOn, unwoken, woken, job, passed, offers>>
    BY <1>3 DEF StandDown, ProceedPeerAware, RenewalLoses, ClaimLose
  <2>2. k = m => rows[m].state = "claimed" /\ rows[m].holder # s
    BY <1>a, <2>1 DEF Winnable, Worked, Row, Terminal
  <2>t. turn' = turn \/ \E v : /\ turn' = [turn EXCEPT ![s] = v]
                               /\ v = Resting \/ v.msg = m
                               /\ turn[s].msg = m /\ OnIt(s, m) /\ ~At(s, m, "throwing")
    BY <1>3 DEF StandDown, ProceedPeerAware, RenewalLoses, Goes, Rests, At, OnIt, Resting
  <2>d. \A t \in Seats : Delete(t, k) \in inFlight' => Drops(t, k)'
    <3>1. CASE turn' = turn
      BY <2>1, <3>1 DEF Worked, Drops, At, OnIt
    <3>2. ASSUME NEW v, turn' = [turn EXCEPT ![s] = v], v = Resting \/ v.msg = m, turn[s].msg = m,
                 OnIt(s, m), ~At(s, m, "throwing")
          PROVE  \A t \in Seats : Delete(t, k) \in inFlight' => Drops(t, k)'
      <4>1. k = m => Delete(s, m) \notin inFlight
        BY <3>2 DEF Worked, Drops
      <4>2. \A t \in Seats : t # s => turn'[t] = turn[t]
        BY <1>a, <3>2
      <4>3. turn'[s] = Resting \/ turn'[s].msg = m
        BY <1>a, <3>2
      <4>4. TurnStep(s, m, k)
        BY <1>b, <2>1, <3>2, <4>1, <4>2, <4>3 DEF TurnStep
      <4> QED
        BY <4>4, DropsElsewhere
    <3> QED
      BY <2>t, <3>1, <3>2
  <2>3. \A t \in Seats : t # s \/ k # m => (Works(t, k) => Works(t, k)')
    <3>2. CASE turn' = turn
      BY <2>1, <3>2 DEF Works, At, OnIt
    <3>3. ASSUME NEW v, turn' = [turn EXCEPT ![s] = v], v = Resting \/ v.msg = m, turn[s].msg = m,
                 NEW t \in Seats, t # s \/ k # m, Works(t, k)
          PROVE  Works(t, k)'
      BY <1>b, <2>1, <3>3, WorksElsewhere
    <3> QED
      BY <2>t, <3>2, <3>3
  <2>4. Worked(k)'
    BY <1>a, <2>1, <2>2, <2>3, <2>d DEF Worked
  <2>5. \A t \in Seats : t # s \/ k # m => (Awake(t, k) => Awake(t, k)')
    BY <1>a, <2>t DEF Awake, At
  <2>6. CASE k = m
    BY <2>1, <2>2, <2>4, <2>6 DEF Carried
  <2>7. CASE k # m
    BY <2>1, <2>4, <2>5, <2>7, CarriedOn
  <2> QED
    BY <2>4, <2>6, <2>7
<1>4. CASE FailOpen(s, m) \/ ReleaseFails(s, m)
  BY <1>4, <1>a DEF FailOpen, ReleaseFails, Suffers, Undecided, HandoffTyped, FaultsTyped
<1>5. CASE Renew(s, m)
  <2>1. rows'[k] = rows[k] \/ (rows[k].state # "claimed" /\ rows'[k] = Absent)
    BY <1>5 DEF Renew, ClaimPrune, Prunable, Terminal, Worked
  <2>2. /\ inFlight' = inFlight \cup {Cas(s, m)} /\ At(s, m, "guarded")
        /\ UNCHANGED <<wakeOn, unwoken, woken, offers, turn, job, passed>>
    BY <1>5 DEF Renew, ClaimPrune, driver
  <2>3. \A t \in Seats : (Works(t, k) => Works(t, k)') /\ (Drops(t, k) => Drops(t, k)')
    BY <2>2 DEF Works, Drops, At, OnIt
  <2>4. Works(s, m)
    BY <2>2 DEF Works
  <2>5. Worked(k)'
    BY <2>1, <2>2, <2>3, <2>4, RequestsDiffer DEF Worked, Absent
  <2>6. Carried(k)'
    BY <2>1, <2>2, CarriedOn DEF Awake, At
  <2> QED
    BY <2>5, <2>6
<1>6. CASE Answer(s, m)
  <2>1. k # m
    BY <1>6 DEF Answer, Undecided
  <2>2. /\ inFlight' \subseteq inFlight \cup {Delete(s, m)} /\ rows'[k] = rows[k]
        /\ UNCHANGED <<wakeOn, unwoken, woken, offers, job, passed>>
        /\ turn' = [turn EXCEPT ![s] = [pc |-> "releasing", msg |-> m]] /\ turn[s].msg = m
    BY <1>6, <1>a, <2>1 DEF Answer, ReleaseCompleted, Goes, At
  <2>3. \A t \in Seats : Works(t, k) => Works(t, k)'
    BY <1>b, <2>1, <2>2, WorksElsewhere
  <2>d. \A t \in Seats : Delete(t, k) \in inFlight' => Drops(t, k)'
    <3>1. turn'[s].msg = m /\ \A t \in Seats : t # s => turn'[t] = turn[t]
      BY <1>a, <2>2
    <3>2. \A t \in Seats : Delete(t, k) \in inFlight' => Delete(t, k) \in inFlight
      BY <2>1, <2>2, RequestsDiffer
    <3>3. TurnStep(s, m, k)
      BY <1>b, <2>1, <2>2, <3>1, <3>2 DEF TurnStep
    <3> QED
      BY <3>3, DropsElsewhere
  <2>4. Worked(k)'
    BY <2>1, <2>2, <2>3, <2>d, RequestsDiffer DEF Worked
  <2>5. \A t \in Seats : Awake(t, k) => Awake(t, k)'
    BY <1>a, <2>1, <2>2 DEF Awake, At
  <2> QED
    BY <2>2, <2>4, <2>5, CarriedOn
<1>7. ASSUME NEW outcome \in {"declined", "refused"}, PassOn(s, m, outcome)
      PROVE  Worked(k)' /\ Carried(k)'
  <2>1. k = m => Cas(s, m) \notin inFlight
    BY <1>7 DEF PassOn, Sends, Undecided, HandoffTyped, FaultsTyped
  <2>2. /\ inFlight' = inFlight /\ turn[s].msg = m /\ At(s, m, "guarded")
        /\ UNCHANGED <<wakeOn, unwoken, woken, offers>>
    BY <1>7 DEF PassOn, ReleasePassOn, vars, At
  <2>3. \E v : turn' = [turn EXCEPT ![s] = v] /\ (v = Resting \/ v.msg = m)
    BY <1>7 DEF PassOn, Goes, Rests
  <2>4. \A t \in Seats : t # s \/ k # m => (Works(t, k) => Works(t, k)')
    BY <1>b, <2>2, <2>3, WorksElsewhere
  <2>d. \A t \in Seats : Delete(t, k) \in inFlight' => Drops(t, k)'
    <3>1. k = m => Delete(s, m) \notin inFlight
      BY <2>2 DEF Worked, Drops, At, OnIt, Resting
    <3>2. \A t \in Seats : t # s => turn'[t] = turn[t]
      BY <1>a, <2>3
    <3>3. turn'[s] = Resting \/ turn'[s].msg = m
      BY <1>a, <2>3
    <3>4. TurnStep(s, m, k)
      BY <1>b, <2>2, <3>1, <3>2, <3>3 DEF TurnStep
    <3> QED
      BY <3>4, DropsElsewhere
  <2>5. \A t \in Seats : Awake(t, k) => Awake(t, k)'
    <3>1. ~Awake(s, k)
      BY <2>2 DEF Awake, At
    <3> QED
      BY <1>a, <2>3, <3>1 DEF Awake, At
  <2>6. CASE HeldBy(rows[m], s)
    <3>1. rows' = [rows EXCEPT ![m] = PassedOn(rows[m], s, outcome)]
      BY <1>7, <2>6 DEF PassOn, ReleasePassOn
    <3>2. k # m => rows'[k] = rows[k]
      BY <1>a, <3>1
    <3>3. k = m => rows'[k].state = outcome /\ rows'[k].age = "live"
      BY <1>a, <3>1 DEF PassedOn, Row
    <3>4. Worked(k)'
      BY <2>1, <2>2, <2>4, <2>d, <3>2, <3>3 DEF Worked
    <3>5. job' = [job EXCEPT ![s] = [stage |-> "lookup", msg |-> m,
                                     declined |-> rows'[m].declined, left |-> {}]]
          /\ job[s] = None /\ passed' = [passed EXCEPT ![m] = passed[m] \cup {s}]
      BY <1>7, <2>6 DEF PassOn
    <3>6. CASE k = m
      <4>1. job'[s] \in Job \cup {None} /\ rows'[m].declined \in SUBSET Seats
        BY DEF HandoffTyped, HTypeOK, TypeOK, Row
      <4>2. [stage |-> "lookup", msg |-> m, declined |-> rows'[m].declined, left |-> {}] \in Job
        BY <4>1 DEF Job
      <4>3. job'[s] # None /\ job'[s].msg = m /\ job'[s].stage = "lookup"
        BY <1>a, <3>5, <4>2, NoneIsNoJob
      <4> QED
        BY <3>4, <3>6, <4>3 DEF Carried, Carries
    <3>7. CASE k # m
      <4>1. passed'[k] = passed[k] /\ \A t \in Seats : job[t] # None => job'[t] = job[t]
        BY <1>a, <3>5, <3>7
      <4>2. \A t \in Seats : Carries(t, k) => Carries(t, k)'
        BY <2>2, <4>1 DEF Carries
      <4> QED
        BY <2>2, <2>5, <3>2, <3>4, <3>7, <4>1, <4>2 DEF Carried
    <3> QED
      BY <3>6, <3>7
  <2>7. CASE ~HeldBy(rows[m], s)
    <3>1. UNCHANGED <<rows, job, passed>>
      BY <1>7, <2>7 DEF PassOn, vars
    <3>2. Worked(k)'
      BY <2>1, <2>2, <2>4, <2>7, <2>d, <3>1 DEF Worked, HeldBy
    <3> QED
      BY <2>2, <2>5, <3>1, <3>2, CarriedOn
  <2> QED
    BY <2>6, <2>7
<1>8. CASE EndUnclaimed(s, m) \/ EndTurn(s, m)
  <2>1. /\ UNCHANGED <<rows, inFlight, wakeOn, unwoken, woken, offers, job, passed>>
        /\ turn' = [turn EXCEPT ![s] = Resting] /\ turn[s].msg = m
        /\ OnIt(s, m) /\ ~At(s, m, "claiming") /\ ~At(s, m, "guarded") /\ ~At(s, m, "throwing")
    BY <1>8 DEF EndUnclaimed, EndTurn, Rests, vars, At, OnIt, Resting
  <2>2. \A t \in Seats : t # s \/ k # m => (Works(t, k) => Works(t, k)')
    BY <1>b, <2>1, WorksElsewhere
  <2>3. ~Works(s, m) /\ ~Drops(s, m)
    BY <2>1 DEF Works, Drops
  <2>d. \A t \in Seats : Delete(t, k) \in inFlight' => Drops(t, k)'
    <3>1. turn'[s] = Resting /\ \A t \in Seats : t # s => turn'[t] = turn[t]
      BY <1>a, <2>1
    <3>2. k = m => Delete(s, m) \notin inFlight
      BY <2>3 DEF Worked
    <3>3. TurnStep(s, m, k)
      BY <1>b, <2>1, <3>1, <3>2 DEF TurnStep
    <3> QED
      BY <3>3, DropsElsewhere
  <2>4. Worked(k)'
    BY <2>1, <2>2, <2>3, <2>d DEF Worked
  <2>5. \A t \in Seats : Awake(t, k) => Awake(t, k)'
    BY <1>a, <2>1 DEF Awake, At
  <2> QED
    BY <2>1, <2>4, <2>5, CarriedOn
<1>9. CASE LandDelete(s, m)
  <2>1. /\ inFlight' \subseteq inFlight /\ Delete(s, m) \in inFlight
        /\ (rows'[k] = rows[k] \/ (k = m /\ rows'[k] = Absent))
        /\ UNCHANGED <<wakeOn, unwoken, woken, offers, turn, job, passed>>
    BY <1>9, <1>a DEF LandDelete, ReleaseDelete, driver
  <2>2. Worked(k)'
    BY <2>1 DEF Worked, Works, Drops, At, OnIt, Absent
  <2>3. CASE k = m
    <3>1. offers[k][s] > 0 \/ Awake(s, k)
      BY <2>1, <2>3 DEF Worked, Drops, Awake
    <3> QED
      BY <2>1, <2>2, <3>1 DEF Carried, Awake, At
  <2>4. CASE k # m
    BY <2>1, <2>2, <2>4, CarriedOn DEF Awake, At
  <2> QED
    BY <2>3, <2>4
<1>10. CASE Crash(s, m) \/ EndThrown(s, m)
  <2>1. /\ UNCHANGED <<rows, inFlight, wakeOn, unwoken, woken, job, passed>>
        /\ turn' = [turn EXCEPT ![s] = Resting] /\ turn[s].msg = m
        /\ offers' = [offers EXCEPT ![m][s] = offers[m][s] + 1]
    BY <1>10 DEF Crash, EndThrown, Rests, At, vars
  <2>2. offers[m][s] + 1 \in Nat
    BY <1>b
  <2>3. \A j \in Messages, t \in Seats :
           offers'[j][t] = IF j = m /\ t = s THEN offers[m][s] + 1 ELSE offers[j][t]
    BY <1>a, <2>1, <2>2, OneOffer
  <2>4. offers'[m][s] > 0 /\ turn'[s] = Resting
    BY <1>a, <1>b, <2>1, <2>3
  <2>5. Works(s, m)' /\ Drops(s, m)'
    BY <2>4 DEF Works, Drops, OnIt
  <2>d. \A t \in Seats : Delete(t, k) \in inFlight' => Drops(t, k)'
    <3>1. \A t \in Seats : t # s \/ k # m => offers'[k][t] >= offers[k][t]
      BY <1>b, <2>3
    <3>2. turn'[s] = Resting /\ \A t \in Seats : t # s => turn'[t] = turn[t]
      BY <1>a, <2>1
    <3>3. TurnStep(s, m, k)
      BY <2>1, <2>5, <3>1, <3>2 DEF TurnStep
    <3> QED
      BY <3>3, DropsElsewhere
  <2>6. ASSUME NEW t \in Seats, t # s \/ k # m, Works(t, k)
        PROVE  Works(t, k)'
    BY <1>b, <2>1, <2>3, <2>6, WorksElsewhere
  <2>7. Worked(k)'
    BY <2>1, <2>5, <2>6, <2>d DEF Worked
  <2>8. (\E t \in Seats : offers[k][t] > 0 \/ Awake(t, k)) =>
           \E t \in Seats : offers'[k][t] > 0 \/ Awake(t, k)'
    <3>1. CASE k = m
      BY <2>4, <3>1
    <3>2. CASE k # m
      <4>1. \A t \in Seats : Awake(t, k) => Awake(t, k)'
        BY <1>a, <2>1, <3>2 DEF Awake, At
      <4> QED
        BY <2>3, <3>2, <4>1
    <3> QED
      BY <3>1, <3>2
  <2> QED
    BY <2>1, <2>7, <2>8, CarriedOn
<1>11. CASE Throw(s, m)
  <2>1. /\ UNCHANGED <<rows, wakeOn, unwoken, woken, offers, job, passed>>
        /\ inFlight' = inFlight \cup {Delete(s, m)} /\ At(s, m, "guarded")
        /\ turn' = [turn EXCEPT ![s] = [pc |-> "throwing", msg |-> m]] /\ turn[s].msg = m
    BY <1>11 DEF Throw, ReleaseOmitted, Goes, At
  <2>2. At(s, m, "throwing")'
    BY <1>a, <2>1 DEF At
  <2>3. Works(s, m)' /\ Drops(s, m)'
    BY <2>2 DEF Works, Drops
  <2>4. ASSUME NEW t \in Seats, t # s \/ k # m, Works(t, k)
        PROVE  Works(t, k)'
    BY <1>b, <2>1, <2>4, WorksElsewhere
  <2>5. \A t \in Seats : Delete(t, k) \in inFlight' => Drops(t, k)'
    <3>1. turn'[s].msg = m /\ \A t \in Seats : t # s => turn'[t] = turn[t]
      BY <1>a, <2>1
    <3>2. \A t \in Seats : t # s \/ k # m =>
             (Delete(t, k) \in inFlight' => Delete(t, k) \in inFlight)
      BY <2>1, RequestsDiffer
    <3>3. TurnStep(s, m, k)
      BY <1>b, <2>1, <2>3, <3>1, <3>2 DEF TurnStep
    <3> QED
      BY <3>3, DropsElsewhere
  <2>6. Worked(k)'
    BY <2>1, <2>3, <2>4, <2>5, RequestsDiffer DEF Worked
  <2>7. \A t \in Seats : Awake(t, k) => Awake(t, k)'
    BY <1>a, <2>1, <2>2 DEF Awake, At
  <2> QED
    BY <2>1, <2>6, <2>7, CarriedOn
<1> QED
  BY <1>1, <1>2, <1>3, <1>4, <1>5, <1>6, <1>7, <1>8, <1>9, <1>10, <1>11
     DEF DriverStep, ClaimAnswered, Finish

(* The handoff of a declined message reaches every seat that listens and has *)
(* not passed on it, or finds none.                                          *)
LEMMA HandoffKeepsWatch ==
    ASSUME HandoffTyped, HandoffTyped', HistoryIsKept,
           FannedOut, NEW s \in Seats, HandoffStep(s),
           NEW k \in Messages, Undecided(k), Undecided(k)', Worked(k), Carried(k)
    PROVE  Worked(k)' /\ Carried(k)'
<1>a. /\ offers \in [Messages -> [Seats -> Nat]] /\ offers' \in [Messages -> [Seats -> Nat]]
      /\ job \in [Seats -> Job \cup {None}] /\ job' \in [Seats -> Job \cup {None}]
      /\ woken \in [Messages -> SUBSET Seats] /\ faults.loss \in Nat
  BY DEF HandoffTyped, HTypeOK, FaultsTyped
<1>b. job[s] # None /\ job[s] \in Job
  BY <1>a DEF HandoffStep, HandoffLookup, HandoffSkip, HandoffOffer,
              HandoffExhausted, HandoffLost, HandoffGoesOn, Walking
<1>c. /\ job[s].msg \in Messages /\ job[s].left \in SUBSET Seats
      /\ job[s].stage \in {"lookup", "walk"}
  BY <1>b DEF Job
<1>d. UNCHANGED <<rows, inFlight, wakeOn, unwoken, woken, turn, passed>>
  BY DEF HandoffStep, HandoffLookup, HandoffSkip, HandoffOffer,
         HandoffExhausted, HandoffLost, HandoffGoesOn, vars
<1>e. \A t \in Seats : t # s => job'[t] = job[t]
  BY <1>a DEF HandoffStep, HandoffLookup, HandoffSkip, HandoffOffer,
              HandoffExhausted, HandoffLost, HandoffGoesOn
<1>f. \A j \in Messages, t \in Seats : offers'[j][t] >= offers[j][t]
  <2>1. ASSUME NEW u \in Seats, HandoffOffer(s, u)
        PROVE  \A j \in Messages, t \in Seats : offers'[j][t] >= offers[j][t]
    <3>3. offers[job[s].msg][u] + 1 \in Nat
      <4>1. \A j \in Messages, t \in Seats : offers[j][t] + 1 \in Nat
        BY <1>a
      <4> QED
        BY <1>c, <4>1
    <3>4. offers' = [offers EXCEPT ![job[s].msg][u] = offers[job[s].msg][u] + 1]
      BY <2>1 DEF HandoffOffer
    <3>5. \A j \in Messages, t \in Seats :
             offers'[j][t] = IF j = job[s].msg /\ t = u THEN offers[job[s].msg][u] + 1
                                                         ELSE offers[j][t]
      BY <1>a, <1>c, <3>3, <3>4, OneOffer
    <3>6. \A j \in Messages, t \in Seats : offers[j][t] \in Nat
      BY <1>a
    <3> QED
      BY <3>5, <3>6
  <2>2. CASE \A u \in Seats : ~HandoffOffer(s, u)
    <3>1. offers' = offers
      BY <2>2 DEF HandoffStep, HandoffLookup, HandoffSkip, HandoffExhausted, HandoffLost, HandoffGoesOn
    <3>2. \A j \in Messages, t \in Seats : offers[j][t] \in Nat
      BY <1>a
    <3> QED
      BY <3>1, <3>2
  <2> QED
    BY <2>1, <2>2
<1>g. \A j \in Messages, t \in Seats : offers[j][t] \in Nat /\ offers'[j][t] \in Nat
  BY <1>a
<1>1. \A t \in Seats : (Works(t, k) => Works(t, k)') /\ (Drops(t, k) => Drops(t, k)')
  BY <1>d, <1>f, <1>g DEF Works, Drops, At, OnIt
<1>2. Worked(k)'
  BY <1>1, <1>d DEF Worked
<1>3. \A t \in Seats : offers[k][t] > 0 \/ Awake(t, k) =>
                       offers'[k][t] > 0 \/ Awake(t, k)'
  BY <1>d, <1>f, <1>g DEF Awake, At
<1>4. \A t \in Seats : t # s /\ Carries(t, k) => Carries(t, k)'
  BY <1>d, <1>e DEF Carries
<1>5. ~Carries(s, k) \/ Carries(s, k)' => Carried(k)'
  BY <1>d, <1>3, <1>4 DEF Carried
<1>6. ASSUME Carries(s, k)
      PROVE  Carried(k)'
  <2>1. job[s].msg = k
    BY <1>6 DEF Carries
  <2>2. CASE HandoffLookup(s)
    <3> DEFINE q == woken[k]
    <3>1. CASE unwoken[k] # {}
      BY <1>d, <3>1 DEF Carried
    <3>2. CASE unwoken[k] = {}
      <4>1. job'[s] = [job[s] EXCEPT !.stage = "walk", !.left = q]
        BY <1>a, <2>1, <2>2 DEF HandoffLookup
      <4>3. q = Seats
        BY <3>2 DEF FannedOut, Undecided
      <4> HIDE DEF q
      <4>2. job'[s].msg = k /\ job'[s].left = q
        BY <1>b, <2>1, <4>1 DEF Job
      <4>4. job'[s] # None
        <5>1. [job[s] EXCEPT !.stage = "walk", !.left = q] \in Job
          <6>1. q \in SUBSET Seats
            BY <4>3
          <6> QED
            BY <1>b, <6>1 DEF Job
        <5> QED
          BY <4>1, <5>1, NoneIsNoJob
      <4>5. Carries(s, k)'
        BY <4>2, <4>3, <4>4 DEF Carries
      <4> QED
        BY <1>5, <4>5
    <3> QED
      BY <1>a, <3>1, <3>2
  <2>3. ASSUME NEW u \in Seats, HandoffSkip(s, u)
        PROVE  Carried(k)'
    <3> DEFINE q == job[s].left \ {u}
    <3>1. job[s].stage = "walk"
      BY <2>3 DEF HandoffSkip, Walking
    <3>2. job'[s] = [job[s] EXCEPT !.left = q]
      BY <1>a, <2>3 DEF HandoffSkip
    <3>3. q \in SUBSET Seats
      BY <1>c
    <3> HIDE DEF q
    <3>4. job'[s].msg = k /\ job'[s].left = q /\ job'[s] \in Job
      BY <1>b, <2>1, <3>2, <3>3 DEF Job
    <3>5. ~wakeOn[u] \/ u \in passed[k]
      BY <1>b, <2>1, <2>3 DEF HandoffSkip, Eligible, HistoryIsKept
    <3>6. \A t \in Seats : wakeOn[t] => t \in passed[k] \cup job[s].left
      BY <1>6, <3>1 DEF Carries
    <3>7. \A t \in job[s].left : t = u \/ t \in q
      BY DEF q
    <3>8. \A t \in Seats : wakeOn[t] => t \in passed[k] \cup q
      BY <3>5, <3>6, <3>7
    <3>9. Carries(s, k)'
      BY <1>d, <3>4, <3>8, NoneIsNoJob DEF Carries
    <3> QED
      BY <1>5, <3>9
  <2>4. ASSUME NEW u \in Seats, HandoffOffer(s, u)
        PROVE  Carried(k)'
    <3>3. offers[k][u] + 1 \in Nat
      BY <1>g
    <3>4. offers' = [offers EXCEPT ![k][u] = offers[k][u] + 1]
      BY <2>1, <2>4 DEF HandoffOffer
    <3>5. offers'[k][u] = offers[k][u] + 1
      BY <1>a, <3>3, <3>4, OneOffer
    <3>6. offers'[k][u] > 0
      BY <1>g, <3>5
    <3> QED
      BY <3>6 DEF Carried
  <2>5. CASE HandoffExhausted(s)
    <3>1. job[s].stage = "walk" /\ job[s].left = {}
      BY <1>c, <2>5 DEF HandoffExhausted
    <3>2. \A t \in Seats : wakeOn[t] => t \in passed[k]
      BY <1>6, <3>1 DEF Carries
    <3> QED
      BY <1>d, <3>2 DEF Carried
  <2>6. CASE HandoffLost(s)
    BY <1>a, <2>6 DEF HandoffLost, Suffers, Undecided, HandoffTyped, FaultsTyped
  <2> QED
    BY <2>2, <2>3, <2>4, <2>5, <2>6 DEF HandoffStep, HandoffGoesOn
<1> QED
  BY <1>2, <1>5, <1>6

(* Neither the fan-out, a seat that stops listening nor a row that ages      *)
(* loses a message.                                                          *)
LEMMA OthersKeepWatch ==
    ASSUME HandoffTyped, HandoffTyped',
           \/ \E s \in Seats : WakeOff(s)
           \/ \E s \in Seats, m \in Messages : FanOutStep(m, s)
           \/ \E m \in Messages : LeaseLapses(m) \/ RetentionEnds(m) \/ LeaseGoesStale(m)
           \/ UNCHANGED hvars,
           NEW k \in Messages, Undecided(k), Undecided(k)', Worked(k), Carried(k)
    PROVE  Worked(k)' /\ Carried(k)'
<1>a. /\ rows \in [Messages -> Row] /\ rows[k] \in Row
      /\ offers \in [Messages -> [Seats -> Nat]] /\ offers' \in [Messages -> [Seats -> Nat]]
      /\ wakeOn \in [Seats -> BOOLEAN] /\ unwoken \in [Messages -> SUBSET Seats]
      /\ faults.loss \in Nat
  BY DEF HandoffTyped, HTypeOK, TypeOK, FaultsTyped
<1>1. ASSUME NEW s \in Seats, WakeOff(s)
      PROVE  Worked(k)' /\ Carried(k)'
  <2>1. UNCHANGED <<rows, inFlight, unwoken, woken, offers, turn, job, passed>>
    BY <1>1 DEF WakeOff, vars
  <2>2. \A t \in Seats : wakeOn'[t] => wakeOn[t]
    BY <1>1, <1>a DEF WakeOff
  <2>3. Worked(k)'
    BY <2>1 DEF Worked, Works, Drops, At, OnIt
  <2>4. \A t \in Seats : Carries(t, k) => Carries(t, k)'
    BY <2>1, <2>2 DEF Carries
  <2>5. \A t \in Seats : Awake(t, k) => Awake(t, k)'
    BY <2>1 DEF Awake, At
  <2> QED
    BY <2>1, <2>2, <2>3, <2>4, <2>5 DEF Carried
<1>2. ASSUME NEW m \in Messages, NEW u \in Seats, FanOut(m, u)
      PROVE  Worked(k)' /\ Carried(k)'
  <2>1. UNCHANGED <<rows, inFlight, wakeOn, turn, job, passed>>
    BY <1>2 DEF FanOut, vars
  <2>3. offers' = [offers EXCEPT ![m][u] = offers[m][u] + 1]
    BY <1>2 DEF FanOut
  <2>4. \A j \in Messages, t \in Seats : offers[j][t] \in Nat /\ offers'[j][t] \in Nat
    BY <1>a
  <2>5. offers[m][u] + 1 \in Nat
    BY <2>4
  <2>6. \A j \in Messages, t \in Seats :
           offers'[j][t] = IF j = m /\ t = u THEN offers[m][u] + 1 ELSE offers[j][t]
    BY <1>a, <2>3, <2>5, OneOffer
  <2>7. \A j \in Messages, t \in Seats : offers'[j][t] >= offers[j][t]
    BY <2>4, <2>6
  <2>8. \A t \in Seats : (Works(t, k) => Works(t, k)') /\ (Drops(t, k) => Drops(t, k)')
    BY <2>1, <2>4, <2>7 DEF Works, Drops, At, OnIt
  <2>9. Worked(k)'
    BY <2>1, <2>8 DEF Worked
  <2>10. CASE m = k
    <3>1. offers'[k][u] > 0
      BY <2>4, <2>6, <2>10
    <3> QED
      BY <2>9, <3>1 DEF Carried
  <2>11. CASE m # k
    <3>1. unwoken'[k] = unwoken[k]
      BY <1>2, <1>a, <2>11 DEF FanOut
    <3>2. \A t \in Seats : Carries(t, k) => Carries(t, k)'
      BY <2>1 DEF Carries
    <3>3. \A t \in Seats : offers[k][t] > 0 \/ Awake(t, k) =>
                           offers'[k][t] > 0 \/ Awake(t, k)'
      BY <2>1, <2>4, <2>7 DEF Awake, At
    <3> QED
      BY <2>1, <2>9, <3>1, <3>2, <3>3 DEF Carried
  <2> QED
    BY <2>10, <2>11
<1>3. ASSUME NEW m \in Messages, LeaseLapses(m) \/ RetentionEnds(m)
      PROVE  Worked(k)' /\ Carried(k)'
  <2>1. /\ rows' = [rows EXCEPT ![m].age = "lapsed"]
        /\ UNCHANGED <<inFlight, wakeOn, unwoken, woken, offers, turn, job, passed>>
    BY <1>3 DEF LeaseLapses, RetentionEnds, Lapse, driver
  <2>2. rows'[k].state = rows[k].state /\ rows'[k].holder = rows[k].holder
        /\ rows'[k].age \in {rows[k].age, "lapsed"}
    BY <1>a, <2>1 DEF Row
  <2>3. Worked(k)'
    BY <2>1, <2>2 DEF Worked, Works, Drops, At, OnIt
  <2> QED
    BY <2>1, <2>2, <2>3, CarriedOn DEF Awake, At
<1>4. ASSUME NEW m \in Messages, LeaseGoesStale(m)
      PROVE  Worked(k)' /\ Carried(k)'
  BY <1>4, <1>a DEF LeaseGoesStale, Suffers, Undecided, HandoffTyped, FaultsTyped
<1>f. ASSUME NEW s \in Seats, NEW m \in Messages, FanOutFails(m, s)
      PROVE  FALSE
  BY <1>f, <1>a DEF FanOutFails, Suffers, Undecided, HandoffTyped, FaultsTyped
<1>5. CASE UNCHANGED hvars
  <2>1. UNCHANGED <<rows, inFlight, wakeOn, unwoken, woken, offers, turn, job, passed>>
    BY <1>5 DEF hvars
  <2>2. Worked(k)'
    BY <2>1 DEF Worked, Works, Drops, At, OnIt
  <2> QED
    BY <2>1, <2>2, CarriedOn DEF Awake, At
<1> QED
  BY <1>1, <1>2, <1>3, <1>4, <1>5, <1>f DEF FanOutStep

(* A message that is undecided after a step was so before it.                *)
LEMMA UndecidedBefore ==
    ASSUME HandoffTyped, [HNext]_hvars
    PROVE  /\ \A k \in Messages : Undecided(k)' => Undecided(k)
           /\ faults'.loss = 0 => faults.loss = 0
<1>1. faults.loss \in Nat
      /\ faults \in [crash : 0..MaxMishaps, loss : 0..MaxLosses, forget : 0..MaxForgets,
                     overtaken : SUBSET Messages]
  BY HandoffConstants DEF HandoffTyped, FaultsTyped
<1> DEFINE Grows == /\ faults.overtaken \subseteq faults'.overtaken
                    /\ faults'.loss = faults.loss \/ faults'.loss = faults.loss + 1
<1>2. ASSUME NEW s \in Seats, NEW m \in Messages, Sends(s, m)
      PROVE  Grows
  <2> DEFINE o == IF Cas(s, m) \in inFlight THEN faults.overtaken \cup {m} ELSE faults.overtaken
  <2>1. faults' = [faults EXCEPT !.overtaken = o]
    BY <1>2 DEF Sends
  <2>2. faults.overtaken \subseteq o
    OBVIOUS
  <2> HIDE DEF o
  <2> QED
    BY <1>1, <2>1, <2>2
<1>3. Suffers("crash") \/ Suffers("loss") \/ Suffers("forget") => Grows
  BY <1>1 DEF Suffers
<1>4. faults' = faults => Grows
  OBVIOUS
<1> HIDE DEF Grows
<1>5. ASSUME NEW s \in Seats, NEW m \in Messages, DriverStep(s, m)
      PROVE  answered \subseteq answered' /\ Grows
  <2>1. CASE BeginTurn(s, m) \/ ClaimAnswered(s, m) \/ RenewalLoses(s, m)
             \/ EndTurn(s, m) \/ EndThrown(s, m) \/ EndUnclaimed(s, m)
    BY <1>4, <2>1 DEF BeginTurn, ClaimAnswered, Acquire, StandDown, ProceedPeerAware,
                      RenewalLoses, EndTurn, EndThrown, EndUnclaimed
  <2>2. CASE Renew(s, m) \/ RenewalWins(s, m) \/ LandDelete(s, m)
    BY <1>4, <2>2 DEF Renew, RenewalWins, LandDelete, driver
  <2>3. CASE FailOpen(s, m) \/ Throw(s, m) \/ ReleaseFails(s, m) \/ Crash(s, m)
    BY <1>3, <2>3 DEF FailOpen, Throw, ReleaseFails, Crash
  <2>4. CASE Answer(s, m) \/ \E outcome \in {"declined", "refused"} : PassOn(s, m, outcome)
    BY <1>2, <2>4 DEF Answer, PassOn
  <2> QED
    BY <1>5, <2>1, <2>2, <2>3, <2>4 DEF DriverStep, Finish
<1>6. ASSUME NEW s \in Seats, HandoffStep(s) \/ WakeOff(s)
      PROVE  answered \subseteq answered' /\ Grows
  BY <1>3, <1>4, <1>6 DEF HandoffStep, HandoffLookup, HandoffSkip, HandoffOffer,
                          HandoffExhausted, HandoffLost, HandoffGoesOn, WakeOff
<1>7. ASSUME NEW m \in Messages, LeaseLapses(m) \/ RetentionEnds(m) \/ LeaseGoesStale(m)
      PROVE  answered \subseteq answered' /\ Grows
  BY <1>3, <1>4, <1>7 DEF LeaseLapses, RetentionEnds, LeaseGoesStale, driver
<1>f. ASSUME NEW s \in Seats, NEW m \in Messages, FanOutStep(m, s)
      PROVE  answered \subseteq answered' /\ Grows
  BY <1>3, <1>4, <1>f DEF FanOutStep, FanOut, FanOutFails
<1>8. UNCHANGED hvars => answered \subseteq answered' /\ Grows
  BY <1>4 DEF hvars
<1>9. answered \subseteq answered' /\ Grows
  BY <1>5, <1>6, <1>7, <1>8, <1>f DEF HNext
<1> QED
  BY <1>1, <1>9 DEF Grows, Undecided

(* No step but a fan-out that fails makes a seat's original wake vanish.     *)
LEMMA FannedOutIsInductive ==
    ASSUME HandoffTyped, FannedOut, [HNext]_hvars
    PROVE  FannedOut'
<1> SUFFICES ASSUME faults'.loss = 0
             PROVE  \A m \in Messages : unwoken'[m] \cup woken'[m] = Seats
  BY DEF FannedOut
<1>a. /\ \A m \in Messages : unwoken[m] \cup woken[m] = Seats
      /\ unwoken \in [Messages -> SUBSET Seats] /\ woken \in [Messages -> SUBSET Seats]
      /\ faults.loss = 0
  BY UndecidedBefore DEF FannedOut, HandoffTyped, HTypeOK
<1>1. ASSUME NEW s \in Seats, NEW m \in Messages, DriverStep(s, m)
      PROVE  UNCHANGED <<unwoken, woken>>
  BY <1>1 DEF DriverStep, ClaimAnswered, Finish, BeginTurn, Acquire, StandDown, ProceedPeerAware,
              FailOpen, Renew, RenewalWins, RenewalLoses, Answer, PassOn, EndUnclaimed, EndTurn,
              LandDelete, Throw, EndThrown, ReleaseFails, Crash, driver
<1>2. ASSUME NEW s \in Seats, HandoffStep(s)
      PROVE  UNCHANGED <<unwoken, woken>>
  BY <1>2 DEF HandoffStep, HandoffGoesOn, HandoffLookup, HandoffSkip, HandoffOffer,
              HandoffExhausted, HandoffLost
<1>3. ASSUME NEW s \in Seats, WakeOff(s)
      PROVE  UNCHANGED <<unwoken, woken>>
  BY <1>3 DEF WakeOff
<1>4. ASSUME NEW m \in Messages, LeaseLapses(m) \/ RetentionEnds(m) \/ LeaseGoesStale(m)
      PROVE  UNCHANGED <<unwoken, woken>>
  BY <1>4 DEF LeaseLapses, RetentionEnds, LeaseGoesStale, driver
<1>5. ASSUME NEW s \in Seats, NEW m \in Messages, FanOut(m, s)
      PROVE  \A k \in Messages : unwoken'[k] \cup woken'[k] = Seats
  BY <1>5, <1>a DEF FanOut
<1>6. ASSUME NEW s \in Seats, NEW m \in Messages, FanOutFails(m, s)
      PROVE  FALSE
  BY <1>6, <1>a DEF FanOutFails, Suffers, HandoffTyped, FaultsTyped
<1>7. UNCHANGED hvars => UNCHANGED <<unwoken, woken>>
  BY DEF hvars
<1> QED
  BY <1>a, <1>1, <1>2, <1>3, <1>4, <1>5, <1>6, <1>7 DEF HNext, FanOutStep

(* While no call is lost, every step leaves each undecided message with      *)
(* somebody to look at it.                                                   *)
LEMMA HandoffInvIsInductive == HandoffInv /\ [HNext]_hvars => HandoffInv'
<1> SUFFICES ASSUME HandoffInv, [HNext]_hvars
             PROVE  HandoffInv'
  OBVIOUS
<1>1. /\ HandoffTyped /\ HistoryIsKept /\ FannedOut
      /\ HandoffTyped' /\ HistoryIsKept' /\ FannedOut'
  BY HandoffTypeIsInductive, KeptIsInductive, FannedOutIsInductive DEF HandoffInv
<1>2. ASSUME NEW k \in Messages, Undecided(k)'
      PROVE  Worked(k)' /\ Carried(k)'
  <2>1. Undecided(k) /\ Worked(k) /\ Carried(k)
    BY <1>1, <1>2, UndecidedBefore DEF HandoffInv
  <2>2. ASSUME NEW s \in Seats, NEW m \in Messages, DriverStep(s, m)
        PROVE  Worked(k)' /\ Carried(k)'
    BY <1>1, <1>2, <2>1, <2>2, DriverKeepsWatch
  <2>3. ASSUME NEW s \in Seats, HandoffStep(s)
        PROVE  Worked(k)' /\ Carried(k)'
    BY <1>1, <1>2, <2>1, <2>3, HandoffKeepsWatch
  <2>4. CASE \/ \E s \in Seats : WakeOff(s)
             \/ \E s \in Seats, m \in Messages : FanOutStep(m, s)
             \/ \E m \in Messages : LeaseLapses(m) \/ RetentionEnds(m) \/ LeaseGoesStale(m)
             \/ UNCHANGED hvars
    BY <1>1, <1>2, <2>1, <2>4, OthersKeepWatch
  <2> QED
    BY <2>2, <2>3, <2>4 DEF HNext
<1> QED
  BY <1>1, <1>2 DEF HandoffInv

(* The strengthened invariant holds in every state.                          *)
LEMMA HandoffInvHolds == HSpec => []HandoffInv
<1>1. HInit => HandoffInv
  <2> SUFFICES ASSUME HInit PROVE HandoffInv
    OBVIOUS
  <2>1. HandoffTyped
    BY HandoffTypedAtFirst
  <2>2. \A m \in Messages : rows[m] = Absent /\ unwoken[m] = Seats /\ inFlight = {}
    BY DEF HInit, Init
  <2>3. \A s \in Seats : job[s] = None
    BY DEF HInit
  <2>4. HistoryIsKept /\ FannedOut
    BY <2>2, <2>3 DEF HistoryIsKept, FannedOut, Absent, HandoffTyped, HInit
  <2>5. ASSUME NEW m \in Messages
        PROVE  Worked(m)
    BY <2>2 DEF Worked, Absent
  <2>6. ASSUME NEW m \in Messages
        PROVE  Carried(m)
    BY <2>2 DEF Carried
  <2> QED
    BY <2>1, <2>4, <2>5, <2>6 DEF HandoffInv
<1> QED
  BY <1>1, HandoffInvIsInductive, PTL DEF HSpec

(* While no call has failed and no lease was left for an hour, however many  *)
(* drivers died and rows were pruned: a message nobody will look at any more *)
(* has been answered, every seat that still listens has passed on it, or a   *)
(* late renewal holds it.                                                    *)
THEOREM NothingIsLostSilently == HSpec => [](faults.loss = 0 => NoSilentLoss)
<1>1. HandoffInv => (faults.loss = 0 => NoSilentLoss)
  <2> SUFFICES ASSUME HandoffInv, faults.loss = 0, NEW m \in Messages, Settled(m),
                      m \notin answered \cup faults.overtaken
               PROVE  \A s \in Seats : wakeOn[s] => s \in passed[m]
    BY DEF NoSilentLoss
  <2>1. Worked(m) /\ Carried(m)
    BY DEF HandoffInv, Undecided
  <2>2. \A s \in Seats : ~Busy(s, m) /\ ~Carries(s, m)
    BY DEF Settled, Carries
  <2>3. \A s \in Seats : ~Works(s, m) /\ ~Awake(s, m) /\ ~(offers[m][s] > 0)
    BY <2>2 DEF Busy, Works, Awake, At, Resting
  <2>4. unwoken[m] = {}
    BY DEF Settled
  <2> QED
    BY <2>1, <2>2, <2>3, <2>4 DEF Worked, Carried
<1> QED
  BY <1>1, HandoffInvHolds, PTL

(* While no call fails, a seat that stands down from a message leaves it to  *)
(* a holder whose own wake is not acknowledged, unless the message was       *)
(* answered or a late renewal leased it.                                     *)
THEOREM StandingDownIsCovered ==
    ASSUME MaxLosses = 0
    PROVE  HSpec => StandDownIsCovered
<1> DEFINE Safe(s, m) == \/ m \in answered \cup faults.overtaken
                         \/ rows[m].holder \in Seats \ {s} /\ Busy(rows[m].holder, m)
           Leaves(s, m) == At(s, m, "claiming") /\ turn'[s] = Resting /\ offers' = offers
<1>1. ASSUME HandoffInv, [HNext]_hvars, NEW s \in Seats, NEW m \in Messages, Leaves(s, m)
      PROVE  Safe(s, m)
  <2>a. /\ turn \in [Seats -> Turn \cup {Resting}] /\ offers \in [Messages -> [Seats -> Nat]]
        /\ rows[m] \in Row /\ faults.loss = 0
    BY <1>1 DEF HandoffInv, HandoffTyped, HTypeOK, TypeOK, FaultsTyped
  <2>b. turn'[s] # turn[s] /\ turn[s].msg = m /\ turn[s].pc = "claiming" /\ turn'[s] = Resting
    BY <1>1 DEF At, Resting
  <2>1. StandDown(s, m)
    <3>1. ASSUME NEW t \in Seats, NEW k \in Messages, DriverStep(t, k)
          PROVE  StandDown(s, m)
      <4>1. CASE BeginTurn(t, k) \/ Acquire(t, k) \/ ProceedPeerAware(t, k) \/ FailOpen(t, k)
                 \/ Throw(t, k)
        BY <2>a, <2>b, <4>1
           DEF BeginTurn, Acquire, ProceedPeerAware, FailOpen, Throw, Goes, At, Resting
      <4>2. CASE Renew(t, k) \/ RenewalWins(t, k) \/ LandDelete(t, k)
        BY <2>b, <4>2 DEF Renew, RenewalWins, LandDelete, driver
      <4>3. CASE RenewalLoses(t, k)
        BY <2>a, <2>b, <4>3 DEF RenewalLoses, Goes, At, Resting
      <4>4. CASE Answer(t, k)
        BY <2>a, <2>b, <4>4 DEF Answer, Goes, At, Resting
      <4>5. ASSUME NEW outcome \in {"declined", "refused"}, PassOn(t, k, outcome)
            PROVE  FALSE
        <5>1. At(t, k, "guarded") /\ t # s
          BY <2>b, <4>5 DEF PassOn, At
        <5>2. turn'[s] = turn[s]
          BY <2>a, <4>5, <5>1 DEF PassOn, Goes, Rests
        <5> QED
          BY <2>b, <5>2
      <4>6. CASE EndUnclaimed(t, k) \/ EndTurn(t, k) \/ EndThrown(t, k) \/ ReleaseFails(t, k)
        BY <2>a, <2>b, <4>6 DEF EndUnclaimed, EndTurn, EndThrown, ReleaseFails, Rests, At
      <4>7. CASE Crash(t, k)
        <5>1. offers[k][t] + 1 \in Nat /\ offers[k][t] \in Nat
          BY <2>a
        <5>2. offers'[k][t] = offers[k][t] + 1
          BY <2>a, <4>7, <5>1, OneOffer DEF Crash
        <5> QED
          BY <1>1, <5>1, <5>2
      <4>8. CASE StandDown(t, k)
        <5>1. t = s
          BY <2>a, <2>b, <4>8 DEF StandDown, Rests
        <5>2. k = m
          BY <2>b, <4>8, <5>1 DEF StandDown, At
        <5> QED
          BY <4>8, <5>1, <5>2
      <4> QED
        BY <3>1, <4>1, <4>2, <4>3, <4>4, <4>5, <4>6, <4>7, <4>8
           DEF DriverStep, ClaimAnswered, Finish
    <3>2. ASSUME NEW t \in Seats, HandoffStep(t) \/ WakeOff(t)
          PROVE  turn' = turn
      BY <3>2 DEF HandoffStep, HandoffLookup, HandoffSkip, HandoffOffer,
                  HandoffExhausted, HandoffLost, HandoffGoesOn, WakeOff
    <3>3. ASSUME NEW k \in Messages, LeaseLapses(k) \/ RetentionEnds(k) \/ LeaseGoesStale(k)
          PROVE  turn' = turn
      BY <3>3 DEF LeaseLapses, RetentionEnds, LeaseGoesStale, driver
    <3>5. ASSUME NEW t \in Seats, NEW k \in Messages, FanOutStep(k, t)
          PROVE  turn' = turn
      BY <3>5 DEF FanOutStep, FanOut, FanOutFails
    <3>4. UNCHANGED hvars => turn' = turn
      BY DEF hvars
    <3> QED
      BY <1>1, <2>b, <3>1, <3>2, <3>3, <3>4, <3>5 DEF HNext
  <2>2. SUFFICES ASSUME m \notin answered \cup faults.overtaken
                 PROVE  rows[m].holder \in Seats \ {s} /\ Busy(rows[m].holder, m)
    OBVIOUS
  <2>3. Worked(m)
    BY <1>1, <2>a, <2>2 DEF HandoffInv, Undecided
  <2>4. ~Winnable(rows[m], s)
    BY <2>1 DEF StandDown, ClaimLose
  <2>5. rows[m].state = "claimed" /\ rows[m].holder # s
    BY <2>a, <2>3, <2>4 DEF Winnable, Worked, Row, Terminal
  <2>6. rows[m].holder \in Seats /\ Works(rows[m].holder, m)
    BY <2>3, <2>5 DEF Worked
  <2>7. Busy(rows[m].holder, m)
    BY <2>6 DEF Works, Busy, At, Resting
  <2> QED
    BY <2>5, <2>6, <2>7
<1>2. HandoffInv /\ [HNext]_hvars =>
          [\A s \in Seats, m \in Messages : Leaves(s, m) => Safe(s, m)]_hvars
  BY <1>1
<1> QED
  BY <1>2, HandoffInvHolds, PTL DEF HSpec, StandDownIsCovered
===============================================================================
