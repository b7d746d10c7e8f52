------------------------- MODULE InProcessTurnsProofs -------------------------
(* Proofs about the in-process turns of one agent in one pod, for any events,*)
(* replicas, cap and trouble.                                                *)
EXTENDS InProcessTurns, FiniteSetTheorems, TLAPS

-------------------------------------------------------------------------------
(* Types.                                                                    *)

LEMMA Bounds ==
  /\ Cardinality(Procs) \in Nat /\ Ceiling \in Nat /\ Cap \in Nat /\ 1 \in 1 .. Ceiling
  /\ Ceiling = Cap + Cardinality(Procs)
<1>1. Cardinality(Procs) \in Nat
  BY TurnConstants, FS_CardinalityType
<1> QED
  BY <1>1, TurnConstants DEF Ceiling

LEMMA Parts ==
  /\ \A d \in Deliveries : d[1] \in Events /\ d[2] \in 1 .. Ceiling /\ d = <<d[1], d[2]>>
  /\ \A e \in Events, n \in 1 .. Ceiling : <<e, n>> \in Deliveries
BY DEF Deliveries

(* What each update of a document leaves.                                    *)
LEMMA ClaimedIs ==
  ASSUME NEW r \in Row, r.attempts < Ceiling
  PROVE  /\ Claimed(r) \in Row /\ Claimed(r).status = "delivered" /\ Claimed(r).age = "fresh"
         /\ Claimed(r).attempts = r.attempts + 1 /\ Claimed(r).nonce = r.attempts + 1
         /\ r.attempts + 1 \in 1 .. Ceiling
<1>1. r.attempts + 1 \in 1 .. Ceiling /\ r.attempts + 1 \in 0 .. Ceiling
  BY Bounds DEF Row
<1> QED
  BY <1>1 DEF Claimed, Row

LEMMA TakenBackIs ==
  ASSUME NEW r \in Row
  PROVE  /\ TakenBack(r) \in Row /\ TakenBack(r).status = "pending"
         /\ TakenBack(r).attempts = r.attempts /\ TakenBack(r).nonce = NoNonce
<1>1. 0 \in 0 .. Ceiling
  BY Bounds
<1> QED
  BY <1>1 DEF TakenBack, Row, NoNonce

LEMMA EndedIs ==
  ASSUME NEW r \in Row, NEW s \in Final
  PROVE  /\ Ended(r, s) \in Row /\ Ended(r, s).status = s
         /\ Ended(r, s).attempts = r.attempts /\ Ended(r, s).nonce = NoNonce
<1>1. 0 \in 0 .. Ceiling
  BY Bounds
<1> QED
  BY <1>1 DEF Ended, Row, NoNonce

LEMMA TurnsAre ==
  /\ NoTurn \in Turn /\ NoTurn.pc = "none" /\ NoTurn.ahead = {} /\ ~NoTurn.superseded
  /\ \A p \in Procs : /\ Born(p) \in Turn /\ Born(p).pc = "born" /\ Born(p).at = p
                      /\ Born(p).ahead = {} /\ ~Born(p).superseded
  /\ \A t \in Turn : /\ Done(t) \in Turn /\ Done(t).pc = "done" /\ Done(t).at = t.at
                     /\ Done(t).ahead = {} /\ ~Done(t).superseded
BY DEF NoTurn, Turn, Born, Done

-------------------------------------------------------------------------------
(* What a sweep may claim.                                                   *)

Rescuers(e) == {p \in Procs : sweep[p].pc = "stranded" /\ sweep[p].ev = e}

(* Every rescue in flight may still deliver its event once, and the last     *)
(* delivery leaves one to spare.                                             *)
Room ==
  \A e \in Events : /\ rows[e].attempts + Cardinality(Rescuers(e)) < Ceiling
                    /\ rows[e].status = "none" => Rescuers(e) = {}

Sweeps ==
  \A p \in Procs :
    /\ sweep[p].pc # "idle" => sweep[p].ev \in Events /\ Alive(p)
    /\ sweep[p].pc = "idle" => sweep[p] = Resting
    /\ sweep[p].pc = "stuck" => sweep[p].nonce < Cap
    /\ sweep[p].pc = "claimed" => sweep[p].nonce \in 1 .. Ceiling

SweepOK == TypeOK /\ Room /\ Sweeps

LEMMA RowTyped ==
  ASSUME TypeOK, NEW e \in Events
  PROVE  /\ rows[e] \in Row /\ rows[e].attempts \in Nat /\ rows[e].attempts <= Ceiling
         /\ rows[e].nonce = IF rows[e].status = "delivered" THEN rows[e].attempts ELSE NoNonce
         /\ rows[e].age \in {"fresh", "stale"}
         /\ rows[e].status \in {"none", "pending", "delivered", "acked", "failed"}
BY Bounds DEF TypeOK, Row, Final

LEMMA RescuersAre ==
  ASSUME NEW e
  PROVE  /\ IsFiniteSet(Rescuers(e)) /\ Cardinality(Rescuers(e)) \in Nat
         /\ Cardinality(Rescuers(e)) <= Cardinality(Procs)
         /\ IsFiniteSet(Rescuers(e)') /\ Cardinality(Rescuers(e))' \in Nat
         /\ Cardinality(Rescuers(e))' <= Cardinality(Procs)
<1>1. Rescuers(e) \subseteq Procs /\ Rescuers(e)' \subseteq Procs
  BY DEF Rescuers
<1>2. IsFiniteSet(Rescuers(e)) /\ IsFiniteSet(Rescuers(e)')
  BY <1>1, TurnConstants, FS_Subset
<1>3. Cardinality(Rescuers(e)) <= Cardinality(Procs) /\ Cardinality(Rescuers(e)') <= Cardinality(Procs)
  BY <1>1, TurnConstants, FS_Subset
<1> QED
  BY <1>2, <1>3, FS_CardinalityType

LEMMA MayRescue ==
  ASSUME SweepOK, NEW p \in Procs, sweep[p].pc = "stranded"
  PROVE  /\ sweep[p].ev \in Events /\ rows[sweep[p].ev].attempts < Ceiling
         /\ Cardinality(Rescuers(sweep[p].ev) \ {p}) = Cardinality(Rescuers(sweep[p].ev)) - 1
<1> DEFINE e == sweep[p].ev
<1>1. e \in Events /\ p \in Rescuers(e)
  BY DEF SweepOK, Sweeps, Rescuers
<1> HIDE DEF e
<1>2. IsFiniteSet(Rescuers(e)) /\ Cardinality(Rescuers(e)) \in Nat
  BY RescuersAre
<1>3. Cardinality(Rescuers(e) \ {p}) = Cardinality(Rescuers(e)) - 1
  BY <1>1, <1>2, FS_RemoveElement
<1>4. Cardinality(Rescuers(e) \ {p}) \in Nat
  BY <1>2, FS_RemoveElement, FS_CardinalityType
<1>5. rows[e].attempts \in Nat /\ rows[e].attempts + Cardinality(Rescuers(e)) < Ceiling
  BY <1>1, RowTyped DEF SweepOK, Room
<1>6. rows[e].attempts < Ceiling
  BY <1>2, <1>3, <1>4, <1>5, Bounds
<1> QED
  BY <1>1, <1>3, <1>6 DEF e

LEMMA MayRestart ==
  ASSUME SweepOK, NEW p \in Procs, sweep[p].pc = "stuck",
         rows[sweep[p].ev].status = "delivered", rows[sweep[p].ev].nonce = sweep[p].nonce
  PROVE  sweep[p].ev \in Events /\ rows[sweep[p].ev].attempts < Cap
BY RowTyped DEF SweepOK, Sweeps

-------------------------------------------------------------------------------
(* Every step keeps the documents, turns and sweeps well formed.             *)

RowsOK(f) ==
  /\ f \in [Events -> Row]
  /\ \A e \in Events : f[e].nonce = IF f[e].status = "delivered" THEN f[e].attempts ELSE NoNonce

LEMMA RowPut ==
  ASSUME TypeOK, NEW e \in Events, NEW r \in Row,
         r.nonce = IF r.status = "delivered" THEN r.attempts ELSE NoNonce
  PROVE  RowsOK([rows EXCEPT ![e] = r])
BY DEF TypeOK, RowsOK

LEMMA RowsClaim ==
  ASSUME TypeOK, NEW e \in Events, rows[e].attempts < Ceiling
  PROVE  RowsOK([rows EXCEPT ![e] = Claimed(rows[e])])
BY RowTyped, ClaimedIs, RowPut

LEMMA RowsTakenBack ==
  ASSUME TypeOK, NEW e \in Events
  PROVE  RowsOK([rows EXCEPT ![e] = TakenBack(rows[e])])
BY RowTyped, TakenBackIs, RowPut

LEMMA RowsEnd ==
  ASSUME TypeOK, NEW e \in Events, NEW s \in Final
  PROVE  RowsOK([rows EXCEPT ![e] = Ended(rows[e], s)])
<1>1. s # "delivered"
  BY DEF Final
<1> QED
  BY <1>1, RowTyped, EndedIs, RowPut

LEMMA RowsRest == TypeOK /\ rows' = rows => RowsOK(rows')
BY DEF TypeOK, RowsOK

LEMMA HandedBack ==
  ASSUME TypeOK, NEW d \in Deliveries, HandBack(d)
  PROVE  RowsOK(rows')
BY Parts, RowsTakenBack, RowsRest DEF HandBack

LEMMA TurnMoves ==
  ASSUME TypeOK, NEW d \in Deliveries,
         NEW s \in {"none", "born", "queued", "ready", "model", "ok", "bad", "done", "lost"}
  PROVE  [turns EXCEPT ![d].pc = s] \in [Deliveries -> Turn]
<1>1. turns \in [Deliveries -> Turn]
  BY DEF TypeOK
<1>2. [turns[d] EXCEPT !.pc = s] \in Turn
  BY <1>1 DEF Turn
<1> QED
  BY <1>1, <1>2

LEMMA TurnPut ==
  ASSUME TypeOK, NEW d \in Deliveries, NEW t \in Turn
  PROVE  [turns EXCEPT ![d] = t] \in [Deliveries -> Turn]
BY DEF TypeOK

LEMMA TurnReady ==
  ASSUME NEW t \in Turn
  PROVE  /\ [t EXCEPT !.pc = "ready", !.ahead = {}] \in Turn
         /\ [t EXCEPT !.superseded = TRUE] \in Turn
BY DEF Turn

LEMMA TurnOf == TypeOK => \A d \in Deliveries : turns[d] \in Turn
BY DEF TypeOK

(* A turn that enters its lane.                                              *)
Before(p, d) == {x \in Deliveries : x # d /\ x[1] = d[1] /\ turns[x].at = p /\ ~Released(x)}

LEMMA EnteredIs ==
  ASSUME TypeOK, NEW p \in Procs, NEW d \in Deliveries
  PROVE  LET ahead == Lane(p) \ Before(p, d) IN
           /\ Entered(p, d) \in [Deliveries -> Turn]
           /\ \A x \in Deliveries \ {d} :
                /\ Entered(p, d)[x].pc = turns[x].pc /\ Entered(p, d)[x].at = turns[x].at
                /\ Entered(p, d)[x].ahead = turns[x].ahead
                /\ Entered(p, d)[x].superseded <=> turns[x].superseded \/ x \in Before(p, d)
           /\ Entered(p, d)[d].pc = IF ahead = {} THEN "ready" ELSE "queued"
           /\ Entered(p, d)[d].at = p /\ Entered(p, d)[d].ahead = ahead
           /\ ~Entered(p, d)[d].superseded
<1> DEFINE ahead == Lane(p) \ Before(p, d)
           t == [Born(p) EXCEPT !.ahead = ahead, !.pc = IF ahead = {} THEN "ready" ELSE "queued"]
           joined == [x \in Deliveries |-> IF x \in Before(p, d)
                                           THEN [turns[x] EXCEPT !.superseded = TRUE]
                                           ELSE turns[x]]
<1>1. Entered(p, d) = [joined EXCEPT ![d] = t]
  BY DEF Entered, Before
<1>2. ahead \in SUBSET Deliveries
  BY DEF Lane
<1> HIDE DEF ahead
<1>3. /\ t \in Turn /\ t.pc = (IF ahead = {} THEN "ready" ELSE "queued") /\ t.at = p
      /\ t.ahead = ahead /\ ~t.superseded
  BY <1>2 DEF Born, NoTurn, Turn
<1>4. \A x \in Deliveries :
        /\ joined[x] \in Turn /\ joined[x].pc = turns[x].pc /\ joined[x].at = turns[x].at
        /\ joined[x].ahead = turns[x].ahead
        /\ joined[x].superseded <=> turns[x].superseded \/ x \in Before(p, d)
  <2> TAKE x \in Deliveries
  <2>1. turns[x] \in Turn /\ turns[x].superseded \in BOOLEAN
    BY TurnOf DEF Turn
  <2>2. CASE x \in Before(p, d)
    <3>1. joined[x] = [turns[x] EXCEPT !.superseded = TRUE]
      BY <2>2
    <3> QED
      BY <2>1, <2>2, <3>1 DEF Turn
  <2>3. CASE x \notin Before(p, d)
    BY <2>1, <2>3
  <2> QED
    BY <2>2, <2>3
<1>5. joined \in [Deliveries -> Turn]
  BY <1>4
<1> HIDE DEF t, joined
<1>6. Entered(p, d) \in [Deliveries -> Turn] /\ Entered(p, d)[d] = t
  BY <1>1, <1>3, <1>5
<1>7. \A x \in Deliveries \ {d} : Entered(p, d)[x] = joined[x]
  BY <1>1, <1>5
<1> QED
  BY <1>3, <1>4, <1>6, <1>7 DEF ahead

Procing == {"up", "draining", "deadline", "down", "exited"}

Others ==
  /\ proc \in [Procs -> Procing]
  /\ succeeded \in [Events -> Nat]
  /\ late \subseteq Deliveries /\ lost \subseteq Deliveries /\ excused \subseteq Deliveries
  /\ skipped \subseteq Events
  /\ trouble \in Nat

LEMMA TypeParts ==
  TypeOK <=> /\ RowsOK(rows) /\ turns \in [Deliveries -> Turn] /\ sweep \in [Procs -> Job] /\ Others
BY DEF TypeOK, RowsOK, Others, Procing

LEMMA TypePartsNext ==
  TypeOK' <=> /\ RowsOK(rows') /\ turns' \in [Deliveries -> Turn] /\ sweep' \in [Procs -> Job]
              /\ Others'
BY DEF TypeOK, RowsOK, Others, Procing

LEMMA TroubleTyped == TypeOK /\ Trouble => trouble' \in Nat
BY DEF TypeOK, Trouble

LEMMA JobPut ==
  ASSUME TypeOK, NEW p \in Procs, NEW j \in Job
  PROVE  [sweep EXCEPT ![p] = j] \in [Procs -> Job]
BY DEF TypeOK

LEMMA RestingIs == Resting \in Job /\ Resting.pc = "idle"
<1>1. 0 \in 0 .. Ceiling
  BY Bounds
<1> QED
  BY <1>1 DEF Resting, Job, NoNonce

LEMMA HoldingIs ==
  ASSUME NEW j \in Job, NEW n \in 1 .. Ceiling
  PROVE  /\ Holding(j, n) \in Job /\ Holding(j, n).pc = "claimed" /\ Holding(j, n).ev = j.ev
         /\ Holding(j, n).nonce = n
<1>1. n \in 0 .. Ceiling
  BY Bounds
<1> QED
  BY <1>1 DEF Holding, Job

(* A turn at work is in the memory of a replica that runs.                   *)
Working == {"born", "queued", "ready", "model", "ok", "bad"}

Placed ==
  \A d \in Deliveries :
    /\ turns[d].pc \in Working => turns[d].at \in Procs /\ Alive(turns[d].at)
    /\ turns[d].pc = "lost" /\ turns[d].at \in Procs => proc[turns[d].at] = "down"
    /\ turns[d].pc = "none" => turns[d] = NoTurn

(* A turn's own steps.                                                       *)
LEMMA DispatchedTyped ==
  ASSUME TypeOK, NEW p \in Procs, NEW d \in Deliveries, Dispatched(p, d)
  PROVE  RowsOK(rows') /\ turns' \in [Deliveries -> Turn] /\ lost' \subseteq Deliveries
<1>1. CASE proc[p] = "up"
  <2>1. turns' = Entered(p, d) /\ UNCHANGED <<rows, lost>>
    BY <1>1 DEF Dispatched
  <2> QED
    BY <2>1, EnteredIs, RowsRest DEF TypeOK
<1>2. CASE proc[p] # "up"
  <2>1. HandBack(d) /\ turns' = [turns EXCEPT ![d] = Done(Born(p))] /\ lost' = lost \cup {d}
    BY <1>2 DEF Dispatched
  <2> QED
    BY <2>1, HandedBack, TurnPut, TurnsAre DEF TypeOK
<1> QED
  BY <1>1, <1>2

LEMMA TurnTyped ==
  ASSUME TypeOK, Placed, NEW d \in Deliveries, TurnNext(d)
  PROVE  TypeOK'
<1>0. /\ turns[d] \in Turn /\ d[1] \in Events /\ sweep \in [Procs -> Job] /\ Others
  BY TurnOf, Parts, TypeParts
<1>1. CASE Dispatch(d)
  <2>1. turns[d].at \in Procs
    BY <1>1 DEF Dispatch, Placed, Working
  <2> QED
    BY <1>0, <1>1, <2>1, DispatchedTyped, TypePartsNext DEF Dispatch, Others
<1>2. CASE Start(d)
  <2>1. RowsOK(rows')
    <3> DEFINE r == [rows[d[1]] EXCEPT !.age = "fresh", !.restarted = TRUE]
    <3>1. /\ r \in Row /\ r.status = rows[d[1]].status /\ r.attempts = rows[d[1]].attempts
          /\ r.nonce = rows[d[1]].nonce
      BY <1>0, RowTyped DEF Row
    <3>2. rows' = rows \/ rows' = [rows EXCEPT ![d[1]] = r]
      BY <1>2 DEF Start
    <3> HIDE DEF r
    <3>3. r.nonce = IF r.status = "delivered" THEN r.attempts ELSE NoNonce
      BY <1>0, <3>1, RowTyped
    <3> QED
      BY <1>0, <3>1, <3>2, <3>3, RowPut, RowsRest
  <2>2. turns' \in [Deliveries -> Turn]
    <3>1. /\ [turns[d] EXCEPT !.pc = "ready", !.ahead = {}] \in Turn
          /\ Done(turns[d]) \in Turn
      BY <1>0, TurnReady, TurnsAre
    <3>2. \/ turns' = [turns EXCEPT ![d] = [turns[d] EXCEPT !.pc = "ready", !.ahead = {}]]
          \/ turns' = [turns EXCEPT ![d] = Done(turns[d])]
      BY <1>2 DEF Start
    <3> QED
      BY <3>1, <3>2, TurnPut
  <2> QED
    BY <1>0, <1>2, <2>1, <2>2, TypePartsNext DEF Start, Others
<1>3. CASE StartUnchecked(d)
  <2>1. turns' \in [Deliveries -> Turn]
    BY <1>0, <1>3, TurnReady, TurnPut DEF StartUnchecked
  <2> QED
    BY <1>0, <1>3, <2>1, RowsRest, TroubleTyped, TypePartsNext DEF StartUnchecked, Others
<1>4. CASE Begin(d)
  <2>1. RowsOK(rows')
    BY <1>4, HandedBack, RowsRest DEF Begin
  <2>2. turns' \in [Deliveries -> Turn]
    <3>1. \/ turns' = [turns EXCEPT ![d].pc = "model"]
          \/ turns' = [turns EXCEPT ![d] = Done(turns[d])]
      BY <1>4 DEF Begin
    <3>2. [turns EXCEPT ![d].pc = "model"] \in [Deliveries -> Turn]
      BY TurnMoves
    <3>3. [turns EXCEPT ![d] = Done(turns[d])] \in [Deliveries -> Turn]
      BY <1>0, TurnsAre, TurnPut
    <3> QED
      BY <3>1, <3>2, <3>3
  <2> QED
    BY <1>0, <1>4, <2>1, <2>2, TypePartsNext DEF Begin, Others
<1>5. CASE RunSucceeds(d)
  <2>1. turns' \in [Deliveries -> Turn]
    BY <1>5, TurnMoves DEF RunSucceeds
  <2> QED
    BY <1>0, <1>5, <2>1, RowsRest, TypePartsNext DEF RunSucceeds, Others
<1>6. CASE RunFails(d)
  <2>1. turns' \in [Deliveries -> Turn]
    BY <1>6, TurnMoves DEF RunFails
  <2> QED
    BY <1>0, <1>6, <2>1, RowsRest, TypePartsNext DEF RunFails, Others
<1>7. CASE Settle(d)
  <2>1. Verdict(d) \in Final
    BY DEF Verdict, Final
  <2>2. RowsOK(rows')
    BY <1>0, <1>7, <2>1, RowsEnd, RowsRest DEF Settle
  <2>3. turns' \in [Deliveries -> Turn]
    BY <1>0, <1>7, TurnsAre, TurnPut DEF Settle
  <2> QED
    BY <1>0, <1>7, <2>2, <2>3, TypePartsNext DEF Settle, Others
<1>8. CASE SettleFails(d)
  <2>1. turns' \in [Deliveries -> Turn]
    BY <1>0, <1>8, TurnsAre, TurnPut DEF SettleFails
  <2> QED
    BY <1>0, <1>8, <2>1, RowsRest, TroubleTyped, TypePartsNext DEF SettleFails, Others
<1>9. CASE Overstays(d)
  BY <1>0, <1>9, RowsRest, TroubleTyped, TypeParts, TypePartsNext DEF Overstays, Others
<1> QED
  BY <1>1, <1>2, <1>3, <1>4, <1>5, <1>6, <1>7, <1>8, <1>9 DEF TurnNext

Counted ==
  \A e \in Events :
    /\ rows[e].status = "none" => rows[e].attempts = 0
    /\ rows[e].status = "delivered" => rows[e].attempts > 0

(* The events: enqueueing, time, and what a sweep does in one write.         *)
LEMMA EventTyped ==
  ASSUME TypeOK, Counted, NEW e \in Events, EventNext(e)
  PROVE  TypeOK'
<1>0. /\ rows[e] \in Row /\ sweep \in [Procs -> Job] /\ Others /\ turns \in [Deliveries -> Turn]
      /\ rows[e].nonce = IF rows[e].status = "delivered" THEN rows[e].attempts ELSE NoNonce
  BY RowTyped, TypeParts
<1>a. ASSUME NEW s \in {"none", "pending", "delivered", "acked", "failed"}, s # "delivered",
             rows[e].status # "delivered", rows' = [rows EXCEPT ![e] = [rows[e] EXCEPT !.status = s]]
      PROVE  RowsOK(rows')
  <2> DEFINE r == [rows[e] EXCEPT !.status = s]
  <2>1. r \in Row /\ r.status = s /\ r.nonce = NoNonce
    BY <1>0, <1>a DEF Row, Final
  <2>2. rows' = [rows EXCEPT ![e] = r]
    BY <1>a
  <2> HIDE DEF r
  <2> QED
    BY <1>a, <2>1, <2>2, RowPut
<1>b. ASSUME NEW a \in {"fresh", "stale"}, rows' = [rows EXCEPT ![e].age = a]
      PROVE  RowsOK(rows')
  <2> DEFINE r == [rows[e] EXCEPT !.age = a]
  <2>1. /\ r \in Row /\ r.status = rows[e].status /\ r.nonce = rows[e].nonce
        /\ r.attempts = rows[e].attempts
    BY <1>0 DEF Row
  <2>2. rows' = [rows EXCEPT ![e] = r]
    BY <1>b
  <2> HIDE DEF r
  <2> QED
    BY <1>0, <2>1, <2>2, RowPut
<1>1. ASSUME NEW p \in Procs, Enqueue(e, p) PROVE TypeOK'
  <2>1. rows[e].attempts < Ceiling
    BY <1>1, Bounds DEF Enqueue, Counted
  <2>2. RowsOK(rows')
    BY <1>1, <2>1, RowsClaim DEF Enqueue
  <2>3. turns' \in [Deliveries -> Turn]
    BY <1>1, Bounds, Parts, TurnsAre, TurnPut DEF Enqueue
  <2> QED
    BY <1>0, <1>1, <2>2, <2>3, TypePartsNext DEF Enqueue, Others
<1>2. ASSUME NEW p \in Procs, EnqueuePending(e, p) PROVE TypeOK'
  <2>1. RowsOK(rows')
    BY <1>a, <1>2 DEF EnqueuePending
  <2>2. trouble' \in Nat
    BY <1>0, <1>2, TroubleTyped DEF EnqueuePending, Others
  <2> QED
    BY <1>0, <1>2, <2>1, <2>2, TypePartsNext DEF EnqueuePending, Others
<1>3. CASE GoesStale(e)
  BY <1>0, <1>b, <1>3, TypePartsNext DEF GoesStale, Others
<1>4. CASE RefreshFails(e)
  <2>1. rows[e].attempts \in 1 .. Ceiling
    BY <1>4, RowTyped, Bounds DEF RefreshFails, Counted
  <2> QED
    BY <1>0, <1>b, <1>4, <2>1, Parts, TroubleTyped, TypePartsNext DEF RefreshFails, Others
<1>5. CASE GrowsOld(e)
  <2> DEFINE r == [rows[e] EXCEPT !.old = TRUE]
  <2>1. /\ r \in Row /\ r.status = rows[e].status /\ r.nonce = rows[e].nonce
        /\ r.attempts = rows[e].attempts
    BY <1>0 DEF Row
  <2>2. rows' = [rows EXCEPT ![e] = r]
    BY <1>5 DEF GrowsOld
  <2> HIDE DEF r
  <2>3. RowsOK(rows')
    BY <1>0, <2>1, <2>2, RowPut
  <2> QED
    BY <1>0, <1>5, <2>3, TypePartsNext DEF GrowsOld, Others
<1>6. ASSUME NEW p \in Procs, FindStuck(p, e) PROVE TypeOK'
  <2> DEFINE j == [pc |-> "stuck", ev |-> e, nonce |-> rows[e].nonce,
                   restarted |-> rows[e].restarted, finished |-> Finished(e)]
  <2>1. j \in Job
    BY <1>0 DEF Job, Row, Finished
  <2>2. sweep' = [sweep EXCEPT ![p] = j]
    BY <1>6 DEF FindStuck
  <2> HIDE DEF j
  <2> QED
    BY <1>0, <1>6, <2>1, <2>2, JobPut, RowsRest, TypePartsNext DEF FindStuck, Others
<1>7. ASSUME NEW p \in Procs, RequeueSkipped(p, e) PROVE TypeOK'
  <2>1. RowsOK(rows')
    BY <1>7, RowsTakenBack DEF RequeueSkipped
  <2>2. trouble' \in Nat
    BY <1>0, <1>7, TroubleTyped DEF RequeueSkipped, Others
  <2>3. skipped' \subseteq Events
    BY <1>0, <1>7 DEF RequeueSkipped, Others
  <2> QED
    BY <1>0, <1>7, <2>1, <2>2, <2>3, TypePartsNext DEF RequeueSkipped, Others
<1>8. ASSUME NEW p \in Procs, Retire(p, e) \/ CloseStranded(p, e) PROVE TypeOK'
  <2>1. RowsOK(rows')
    BY <1>8, RowsEnd DEF Retire, CloseStranded, Final
  <2> QED
    BY <1>0, <1>8, <2>1, TypePartsNext DEF Retire, CloseStranded, Others
<1>9. ASSUME NEW p \in Procs, FindStranded(p, e) PROVE TypeOK'
  <2> DEFINE j == [Resting EXCEPT !.pc = "stranded", !.ev = e]
  <2>1. j \in Job
    BY RestingIs DEF Job
  <2>2. sweep' = [sweep EXCEPT ![p] = j]
    BY <1>9 DEF FindStranded
  <2> HIDE DEF j
  <2> QED
    BY <1>0, <1>9, <2>1, <2>2, JobPut, RowsRest, TypePartsNext DEF FindStranded, Others
<1> QED
  BY <1>1, <1>2, <1>3, <1>4, <1>5, <1>6, <1>7, <1>8, <1>9 DEF EventNext

LEMMA HaltedTyped ==
  ASSUME TypeOK, NEW p \in Procs, NEW state \in Procing, Halted(p, state)
  PROVE  /\ proc' \in [Procs -> Procing] /\ turns' \in [Deliveries -> Turn]
         /\ lost' \subseteq Deliveries /\ sweep' \in [Procs -> Job]
<1>1. proc' \in [Procs -> Procing]
  BY DEF TypeOK, Halted, Procing
<1>2. turns' \in [Deliveries -> Turn]
  <2>1. ASSUME NEW d \in Deliveries
        PROVE  [Done(turns[d]) EXCEPT !.pc = IF turns[d].pc = "done" THEN "done" ELSE "lost"] \in Turn
    <3>1. Done(turns[d]) \in Turn
      BY TurnOf, TurnsAre
    <3> QED
      BY <3>1 DEF Turn
  <2> QED
    BY <2>1, TurnOf DEF Halted
<1>3. lost' \subseteq Deliveries
  BY DEF TypeOK, Halted, AtWork
<1>4. sweep' \in [Procs -> Job]
  BY RestingIs, JobPut DEF Halted
<1> QED
  BY <1>1, <1>2, <1>3, <1>4

(* The replicas and their sweeps.                                            *)
LEMMA ProcTyped ==
  ASSUME TypeOK, Room, Sweeps, NEW p \in Procs, ProcNext(p)
  PROVE  TypeOK'
<1>0. /\ sweep \in [Procs -> Job] /\ sweep[p] \in Job /\ Others /\ turns \in [Deliveries -> Turn]
      /\ SweepOK /\ rows \in [Events -> Row]
  BY TypeParts DEF SweepOK, TypeOK
<1>1. CASE ClaimStuck(p) \/ ClaimStranded(p)
  <2> DEFINE e == sweep[p].ev
  <2>1. \/ UNCHANGED rows /\ sweep' = [sweep EXCEPT ![p] = Resting]
        \/ /\ e \in Events /\ rows[e].attempts < Ceiling
           /\ rows' = [rows EXCEPT ![e] = Claimed(rows[e])]
           /\ sweep' = [sweep EXCEPT ![p] = Holding(sweep[p], rows[e].attempts + 1)]
    <3>1. CASE ClaimStuck(p)
      <4> DEFINE found == /\ proc[p] = "up"
                          /\ rows[e].status = "delivered" /\ rows[e].nonce = sweep[p].nonce
                          /\ rows[e].age = "stale" /\ rows[e].restarted = sweep[p].restarted
      <4>1. CASE found
        <5>1. e \in Events /\ rows[e].attempts < Cap
          BY <1>0, <3>1, <4>1, MayRestart DEF ClaimStuck
        <5>2. rows[e].attempts < Ceiling
          BY <1>0, <5>1, RowTyped, Bounds
        <5> QED
          BY <3>1, <4>1, <5>1, <5>2 DEF ClaimStuck
      <4>2. CASE ~found
        BY <3>1, <4>2 DEF ClaimStuck
      <4> QED
        BY <4>1, <4>2
    <3>2. CASE ClaimStranded(p)
      BY <1>0, <3>2, MayRescue DEF ClaimStranded
    <3> QED
      BY <1>1, <3>1, <3>2
  <2> HIDE DEF e
  <2>2. RowsOK(rows')
    BY <2>1, RowsRest, RowsClaim
  <2>3. sweep' \in [Procs -> Job]
    <3>1. CASE UNCHANGED rows /\ sweep' = [sweep EXCEPT ![p] = Resting]
      BY <3>1, RestingIs, JobPut
    <3>2. CASE /\ e \in Events /\ rows[e].attempts < Ceiling
               /\ sweep' = [sweep EXCEPT ![p] = Holding(sweep[p], rows[e].attempts + 1)]
      <4>1. rows[e].attempts + 1 \in 1 .. Ceiling
        BY <3>2, RowTyped, ClaimedIs
      <4> QED
        BY <1>0, <3>2, <4>1, HoldingIs, JobPut
    <3> QED
      BY <2>1, <3>1, <3>2
  <2> QED
    BY <1>0, <1>1, <2>2, <2>3, TypePartsNext DEF ClaimStuck, ClaimStranded, Others
<1>2. CASE Resume(p)
  <2> DEFINE d == <<sweep[p].ev, sweep[p].nonce>>
  <2>1. d \in Deliveries
    BY <1>2, Parts DEF Resume, Sweeps
  <2>2. sweep' \in [Procs -> Job]
    BY <1>2, RestingIs, JobPut DEF Resume
  <2>3. \/ Dispatched(p, d)
        \/ /\ rows' = IF Settles(d) THEN [rows EXCEPT ![d[1]] = Ended(rows[d[1]], "acked")] ELSE rows
           /\ UNCHANGED <<turns, lost>>
    BY <1>2 DEF Resume
  <2> HIDE DEF d
  <2>4. RowsOK(rows') /\ turns' \in [Deliveries -> Turn] /\ lost' \subseteq Deliveries
    <3>1. CASE Dispatched(p, d)
      BY <2>1, <3>1, DispatchedTyped
    <3>2. CASE ~Dispatched(p, d)
      <4>1. "acked" \in Final
        BY DEF Final
      <4> QED
        BY <1>0, <2>1, <2>3, <3>2, <4>1, Parts, RowsEnd, RowsRest DEF Others
    <3> QED
      BY <3>1, <3>2
  <2> QED
    BY <1>0, <1>2, <2>2, <2>4, TypePartsNext DEF Resume, Others
<1>3. CASE ResumeFails(p)
  <2>1. <<sweep[p].ev, sweep[p].nonce>> \in Deliveries
    BY <1>3, Parts DEF ResumeFails, Sweeps
  <2>2. sweep' \in [Procs -> Job]
    BY <1>3, RestingIs, JobPut DEF ResumeFails
  <2> QED
    BY <1>0, <1>3, <2>1, <2>2, RowsRest, TroubleTyped, TypePartsNext DEF ResumeFails, Others
<1>4. CASE Crash(p)
  <2>1. Halted(p, "down") /\ "down" \in Procing /\ trouble' \in Nat
    BY <1>4, TroubleTyped DEF Crash, Procing
  <2> QED
    BY <1>0, <1>4, <2>1, HaltedTyped, RowsRest, TypePartsNext DEF Crash, Others
<1>5. CASE DrainEnds(p)
  <2>1. Halted(p, "exited") /\ "exited" \in Procing
    BY <1>5 DEF DrainEnds, Procing
  <2> QED
    BY <1>0, <1>5, <2>1, HaltedTyped, RowsRest, TypePartsNext DEF DrainEnds, Others
<1>6. CASE Exit(p)
  <2>1. Halted(p, "down") /\ "down" \in Procing
    BY <1>6 DEF Exit, Procing
  <2> QED
    BY <1>0, <1>6, <2>1, HaltedTyped, RowsRest, TypePartsNext DEF Exit, Others
<1>7. CASE Boot(p)
  <2>1. \A d \in Deliveries : [turns[d] EXCEPT !.at = NoProc] \in Turn
    BY TurnOf DEF Turn
  <2>2. turns' \in [Deliveries -> Turn]
    BY <1>7, <2>1, TurnOf DEF Boot
  <2>3. proc' \in [Procs -> Procing]
    BY <1>0, <1>7 DEF Boot, Others, Procing
  <2> QED
    BY <1>0, <1>7, <2>2, <2>3, RowsRest, TypePartsNext DEF Boot, Others
<1>8. CASE Drain(p) \/ Deadline(p)
  <2>1. proc' \in [Procs -> Procing]
    BY <1>0, <1>8 DEF Drain, Deadline, Others, Procing
  <2>2. trouble' \in Nat
    BY <1>0, <1>8, TroubleTyped DEF Drain, Deadline, Others
  <2> QED
    BY <1>0, <1>8, <2>1, <2>2, RowsRest, TypePartsNext DEF Drain, Deadline, Others
<1>9. ASSUME NEW d \in Deliveries, RequeueAtDeadline(p, d) PROVE TypeOK'
  BY <1>0, <1>9, HandedBack, TypePartsNext DEF RequeueAtDeadline, Others
<1> QED
  BY <1>1, <1>2, <1>3, <1>4, <1>5, <1>6, <1>7, <1>8, <1>9 DEF ProcNext

-------------------------------------------------------------------------------
(* Who relies on a row.  A turn at work, or a sweep that has just claimed    *)
(* the event, owns its row and keeps it young, unless it overstays, could    *)
(* not check, or was given up.                                               *)

AtWorkPc == {"born", "ready", "model", "ok", "bad"}

InLanePc == {"queued", "ready", "model"}

Holder(d) == turns[d].pc \in AtWorkPc /\ d \notin late \cup excused

Swept(d) == \E p \in Procs : sweep[p].pc = "claimed" /\ sweep[p].ev = d[1] /\ sweep[p].nonce = d[2]

HoldersOwn == \A d \in Deliveries : Holder(d) \/ Swept(d) => Owns(d) /\ rows[d[1]].age = "fresh"

SweptOnce ==
  \A p, q \in Procs :
    sweep[p].pc = "claimed" /\ sweep[q].pc = "claimed" /\ sweep[p].ev = sweep[q].ev => p = q

SweptIsNew == \A d \in Deliveries : Swept(d) => turns[d].pc = "none"

(* A delivery with a turn is not a later one than the row's.                 *)
Known == \A d \in Deliveries : turns[d].pc # "none" => d[2] <= rows[d[1]].attempts

(* A turn is superseded by one that owns the row.                            *)
Superseded == \A d \in Deliveries : turns[d].superseded => ~Owns(d)

Started ==
  \A d \in Deliveries :
    /\ turns[d].pc \in {"none", "born"} => d \notin late \cup excused /\ ~turns[d].superseded
    /\ turns[d].pc # "queued" => turns[d].ahead = {}

Rely == HoldersOwn /\ SweptOnce /\ SweptIsNew /\ Known /\ Superseded /\ Started

(* Of two turns in a lane the later waits for the earlier.                   *)
InOrder ==
  \A c, d \in Deliveries :
    /\ c # d /\ turns[c].at = turns[d].at
    /\ turns[c].pc \in InLanePc /\ turns[d].pc \in InLanePc /\ ~Over(c) /\ ~Over(d)
    => c \in turns[d].ahead \/ d \in turns[c].ahead

(* What was cut off, or stays too long, is the only reason to deliver again. *)
Cut == lost \cup late

CutBefore ==
  \A e \in Events, n \in 1 .. Ceiling : n < rows[e].attempts => <<e, n>> \in Cut

Redeliverable(e) ==
  \/ rows[e].status = "pending"
  \/ rows[e].status = "delivered" /\ rows[e].age = "stale"

CutNow == \A e \in Events : Redeliverable(e) /\ rows[e].attempts > 0 => <<e, rows[e].attempts>> \in Cut

CutTurns ==
  \A d \in Deliveries : Owns(d) =>
    /\ turns[d].pc \in {"done", "lost"} => d \in Cut
    /\ turns[d].pc = "none" => d \in Cut \/ Swept(d)

CutFirst == CutBefore /\ CutNow /\ CutTurns

Steady == TypeOK /\ Room /\ Sweeps /\ Placed /\ Counted /\ Rely /\ InOrder /\ CutFirst

-------------------------------------------------------------------------------
(* How a step may move a row.                                                *)

Same(e) ==
  /\ rows'[e].status = rows[e].status /\ rows'[e].attempts = rows[e].attempts
  /\ rows'[e].age \in {rows[e].age, "fresh"}

Stales(e) ==
  /\ rows[e].status = "delivered" /\ rows'[e].status = "delivered"
  /\ rows'[e].attempts = rows[e].attempts

Leaves(e) == rows'[e].status \in {"pending", "acked", "failed"} /\ rows'[e].attempts = rows[e].attempts

Claims(e) ==
  /\ rows'[e].status = "delivered" /\ rows'[e].attempts = rows[e].attempts + 1
  /\ rows'[e].age = "fresh"

RowsStep == \A e \in Events : Same(e) \/ Stales(e) \/ Leaves(e) \/ Claims(e)

LEMMA OwnsIs ==
  /\ TypeOK => \A d \in Deliveries :
       Owns(d) <=> rows[d[1]].status = "delivered" /\ rows[d[1]].attempts = d[2]
  /\ TypeOK' => \A d \in Deliveries :
       Owns(d)' <=> rows'[d[1]].status = "delivered" /\ rows'[d[1]].attempts = d[2]
<1>1. ASSUME TypeOK, NEW d \in Deliveries
      PROVE  Owns(d) <=> rows[d[1]].status = "delivered" /\ rows[d[1]].attempts = d[2]
  BY <1>1, Parts DEF Owns, TypeOK
<1>2. ASSUME TypeOK', NEW d \in Deliveries
      PROVE  Owns(d)' <=> rows'[d[1]].status = "delivered" /\ rows'[d[1]].attempts = d[2]
  BY <1>2, Parts DEF Owns, TypeOK
<1> QED
  BY <1>1, <1>2

LEMMA OwnsStep ==
  ASSUME TypeOK, TypeOK', RowsStep, NEW d \in Deliveries, Owns(d)'
  PROVE  \/ Owns(d) /\ (Same(d[1]) \/ Stales(d[1]))
         \/ Claims(d[1]) /\ d[2] = rows[d[1]].attempts + 1
BY OwnsIs, Parts DEF RowsStep, Same, Stales, Leaves, Claims

LEMMA CountedKeeps ==
  ASSUME TypeOK, Counted, RowsStep
  PROVE  Counted'
<1> SUFFICES ASSUME NEW e \in Events
             PROVE  /\ rows'[e].status = "none" => rows'[e].attempts = 0
                    /\ rows'[e].status = "delivered" => rows'[e].attempts > 0
  BY DEF Counted
<1> QED
  BY RowTyped DEF Counted, RowsStep, Same, Stales, Leaves, Claims

LEMMA KnownKeeps ==
  ASSUME TypeOK, Known, RowsStep,
         \A d \in Deliveries :
           turns'[d].pc # "none" => turns[d].pc # "none" \/ d[2] = rows'[d[1]].attempts
  PROVE  Known'
<1> SUFFICES ASSUME NEW d \in Deliveries, turns'[d].pc # "none" PROVE d[2] <= rows'[d[1]].attempts
  BY DEF Known
<1>1. d[1] \in Events /\ d[2] \in Nat /\ rows[d[1]].attempts \in Nat
  BY Parts, RowTyped, Bounds
<1>2. rows'[d[1]].attempts \in {rows[d[1]].attempts, rows[d[1]].attempts + 1}
  BY <1>1 DEF RowsStep, Same, Stales, Leaves, Claims
<1> QED
  BY <1>1, <1>2 DEF Known

LEMMA SupersededKeeps ==
  ASSUME TypeOK, TypeOK', Known, Started, Superseded, RowsStep,
         \A d \in Deliveries : turns'[d].superseded => turns[d].superseded \/ ~Owns(d)'
  PROVE  Superseded'
<1> SUFFICES ASSUME NEW d \in Deliveries, turns'[d].superseded, Owns(d)' PROVE FALSE
  BY DEF Superseded
<1>1. turns[d].superseded /\ ~Owns(d)
  BY DEF Superseded
<1>2. d[2] <= rows[d[1]].attempts
  BY <1>1 DEF Started, Known
<1>3. d[2] = rows[d[1]].attempts + 1
  BY <1>1, OwnsStep
<1>4. rows[d[1]].attempts \in Nat
  BY Parts, RowTyped
<1> QED
  BY <1>2, <1>3, <1>4

LEMMA CutKeeps ==
  ASSUME TypeOK, TypeOK', CutFirst, RowsStep, Cut \subseteq Cut', CutTurns',
         \A e \in Events :
           /\ Claims(e) \/ Redeliverable(e)'
           /\ rows[e].attempts > 0
           => <<e, rows[e].attempts>> \in Cut'
  PROVE  CutFirst'
<1>1. CutBefore'
  <2> SUFFICES ASSUME NEW e \in Events, NEW n \in 1 .. Ceiling, n < rows'[e].attempts
               PROVE  <<e, n>> \in Cut'
    BY DEF CutBefore
  <2>1. rows[e].attempts \in Nat /\ n \in Nat /\ n > 0
    BY RowTyped, Bounds
  <2>2. CASE n < rows[e].attempts
    BY <2>2 DEF CutFirst, CutBefore
  <2>3. CASE ~(n < rows[e].attempts)
    <3>1. Claims(e) /\ n = rows[e].attempts
      BY <2>1, <2>3 DEF RowsStep, Same, Stales, Leaves, Claims
    <3> QED
      BY <2>1, <3>1
  <2> QED
    BY <2>2, <2>3
<1>2. CutNow'
  <2> SUFFICES ASSUME NEW e \in Events, Redeliverable(e)', rows'[e].attempts > 0
               PROVE  <<e, rows'[e].attempts>> \in Cut'
    BY DEF CutNow
  <2>1. rows'[e].attempts = rows[e].attempts
    BY DEF RowsStep, Same, Stales, Leaves, Claims, Redeliverable
  <2> QED
    BY <2>1
<1> QED
  BY <1>1, <1>2 DEF CutFirst

LEMMA RoomKeeps ==
  ASSUME TypeOK, TypeOK', Room,
         \A e \in Events :
           rows'[e].status = "none" => rows[e].status = "none" /\ Rescuers(e)' \subseteq Rescuers(e),
         \A e \in Events :
           \/ rows'[e].attempts < Cap
           \/ rows'[e].attempts <= Cap /\ \E p \in Procs : p \notin Rescuers(e)'
           \/ rows'[e].attempts = rows[e].attempts /\ Rescuers(e)' \subseteq Rescuers(e)
           \/ /\ rows'[e].attempts = rows[e].attempts + 1
              /\ \E p \in Rescuers(e) : /\ Rescuers(e)' \subseteq Rescuers(e) \ {p}
                                        /\ Cardinality(Rescuers(e) \ {p}) = Cardinality(Rescuers(e)) - 1
  PROVE  Room'
<1> SUFFICES ASSUME NEW e \in Events
             PROVE  /\ rows'[e].attempts + Cardinality(Rescuers(e)') < Ceiling
                    /\ rows'[e].status = "none" => Rescuers(e)' = {}
  BY Bounds DEF Room, Ceiling
<1>0. /\ rows[e].attempts \in Nat /\ rows'[e].attempts \in Nat
      /\ rows[e].attempts + Cardinality(Rescuers(e)) < Ceiling
  BY RowTyped, Bounds DEF Room, TypeOK, Row
<1>1. /\ IsFiniteSet(Rescuers(e)) /\ Cardinality(Rescuers(e)) \in Nat
      /\ Cardinality(Rescuers(e)') \in Nat /\ Cardinality(Rescuers(e)') <= Cardinality(Procs)
  BY RescuersAre
<1>2. rows'[e].status = "none" => Rescuers(e)' = {}
  BY DEF Room
<1>3. CASE rows'[e].attempts < Cap
  BY <1>0, <1>1, <1>2, <1>3, Bounds
<1>4. ASSUME rows'[e].attempts <= Cap, NEW p \in Procs, p \notin Rescuers(e)'
      PROVE  rows'[e].attempts + Cardinality(Rescuers(e)') < Ceiling
  <2>1. Rescuers(e)' \subseteq Procs \ {p}
    BY <1>4 DEF Rescuers
  <2>2. /\ IsFiniteSet(Procs \ {p}) /\ Cardinality(Procs \ {p}) = Cardinality(Procs) - 1
    BY TurnConstants, FS_RemoveElement
  <2>3. Cardinality(Rescuers(e)') <= Cardinality(Procs) - 1
    BY <2>1, <2>2, FS_Subset
  <2> QED
    BY <1>0, <1>1, <1>4, <2>3, Bounds
<1>5. CASE rows'[e].attempts = rows[e].attempts /\ Rescuers(e)' \subseteq Rescuers(e)
  <2>1. Cardinality(Rescuers(e)') <= Cardinality(Rescuers(e))
    BY <1>1, <1>5, FS_Subset
  <2> QED
    BY <1>0, <1>1, <1>2, <1>5, <2>1, Bounds
<1>6. ASSUME rows'[e].attempts = rows[e].attempts + 1,
             NEW p \in Rescuers(e), Rescuers(e)' \subseteq Rescuers(e) \ {p},
             Cardinality(Rescuers(e) \ {p}) = Cardinality(Rescuers(e)) - 1
      PROVE  rows'[e].attempts + Cardinality(Rescuers(e)') < Ceiling
  <2>1. IsFiniteSet(Rescuers(e) \ {p})
    BY <1>1, FS_Subset
  <2>2. Cardinality(Rescuers(e)') <= Cardinality(Rescuers(e)) - 1
    BY <1>6, <2>1, FS_Subset
  <2> QED
    BY <1>0, <1>1, <1>6, <2>2, Bounds
<1> QED
  BY <1>2, <1>3, <1>4, <1>5, <1>6

-------------------------------------------------------------------------------
(* Steps on a row and a sweep only.                                          *)

NewlyHeld(p) ==
  /\ Claims(sweep'[p].ev) /\ sweep'[p].nonce = rows'[sweep'[p].ev].attempts
  /\ \A q \in Procs \ {p} : sweep'[q] = sweep[q]

LEMMA RowStepKeeps ==
  ASSUME Steady, TypeOK', Room', Sweeps', RowsStep,
         UNCHANGED <<turns, proc, late>>, lost \subseteq lost', excused \subseteq excused',
         \A d \in excused' \ excused : turns[d].pc \in InLanePc,
         \A p \in Procs : sweep'[p].pc = "claimed" => sweep'[p] = sweep[p] \/ NewlyHeld(p),
         \A d \in Deliveries :
           \/ Same(d[1])
           \/ ~Holder(d)' /\ (Swept(d)' => Claims(d[1]) /\ d[2] = rows'[d[1]].attempts),
         \A d \in Deliveries : Swept(d) /\ Owns(d)' => Swept(d)' \/ d \in lost',
         \A d \in Deliveries : Claims(d[1]) /\ d[2] = rows'[d[1]].attempts => Swept(d)',
         \A e \in Events :
           /\ Claims(e) \/ Redeliverable(e)'
           /\ rows[e].attempts > 0
           => <<e, rows[e].attempts>> \in lost' \cup late
  PROVE  Steady'
<1>0. /\ TypeOK /\ HoldersOwn /\ SweptOnce /\ SweptIsNew /\ Known /\ Superseded /\ Started
      /\ \A d \in Deliveries : d[1] \in Events /\ d[2] \in Nat /\ rows[d[1]].attempts \in Nat
  BY Parts, RowTyped, Bounds DEF Steady, Rely
<1>1. \A d \in Deliveries : Holder(d)' => Holder(d)
  BY DEF Holder
<1>2. ASSUME NEW d \in Deliveries, Swept(d)'
      PROVE  Swept(d) \/ (Claims(d[1]) /\ d[2] = rows'[d[1]].attempts)
  BY <1>2 DEF Swept, NewlyHeld
<1>3. \A e \in Events : ~(Same(e) /\ Claims(e))
  BY RowTyped, <1>0 DEF Same, Claims
<1>4. HoldersOwn'
  <2> SUFFICES ASSUME NEW d \in Deliveries, Holder(d)' \/ Swept(d)'
               PROVE  Owns(d)' /\ rows'[d[1]].age = "fresh"
    BY DEF HoldersOwn
  <2>1. CASE Same(d[1])
    <3>1. Owns(d) /\ rows[d[1]].age = "fresh"
      BY <1>0, <1>1, <1>2, <1>3, <2>1 DEF HoldersOwn
    <3> QED
      BY <1>0, <2>1, <3>1, OwnsIs DEF Same
  <2>2. CASE ~Same(d[1])
    <3>1. Claims(d[1]) /\ d[2] = rows'[d[1]].attempts
      BY <2>2
    <3> QED
      BY <3>1, OwnsIs DEF Claims
  <2> QED
    BY <2>1, <2>2
<1>5. SweptOnce'
  <2>1. ASSUME NEW p \in Procs, NEW q \in Procs, p # q, NewlyHeld(p),
               sweep'[p].pc = "claimed", sweep'[q].pc = "claimed", sweep'[p].ev = sweep'[q].ev
        PROVE  FALSE
    <3>1. sweep'[q] = sweep[q]
      BY <2>1 DEF NewlyHeld
    <3>2. PICK d \in Deliveries : d[1] = sweep[q].ev /\ d[2] = sweep[q].nonce
      <4>1. <<sweep[q].ev, sweep[q].nonce>> \in Deliveries
        BY <2>1, <3>1, Parts DEF Steady, Sweeps
      <4> QED
        BY <4>1
    <3>3. Swept(d) /\ Swept(d)'
      BY <2>1, <3>1, <3>2 DEF Swept
    <3>4. Claims(d[1])
      BY <2>1, <3>1, <3>2 DEF NewlyHeld
    <3>5. d[2] = rows'[d[1]].attempts
      BY <1>0, <1>3, <3>2, <3>3, <3>4
    <3>6. rows[d[1]].attempts = d[2]
      BY <1>0, <3>2, <3>3, OwnsIs DEF HoldersOwn
    <3> QED
      BY <1>0, <3>2, <3>4, <3>5, <3>6 DEF Claims
  <2>2. ASSUME NEW p \in Procs, NEW q \in Procs,
               sweep'[p].pc = "claimed", sweep'[q].pc = "claimed", sweep'[p].ev = sweep'[q].ev
        PROVE  p = q
    <3>1. CASE sweep'[p] = sweep[p] /\ sweep'[q] = sweep[q]
      BY <1>0, <2>2, <3>1 DEF SweptOnce
    <3> QED
      BY <2>1, <2>2, <3>1
  <2> QED
    BY <2>2 DEF SweptOnce
<1>6. \A d \in Deliveries : Claims(d[1]) /\ d[2] = rows'[d[1]].attempts => turns[d].pc = "none"
  BY <1>0 DEF Claims, Known
<1>7. SweptIsNew'
  BY <1>0, <1>2, <1>6 DEF SweptIsNew
<1>8. Known' /\ Superseded'
  <2>1. \A d \in Deliveries : turns'[d].pc # "none" => turns[d].pc # "none"
    OBVIOUS
  <2>2. \A d \in Deliveries : turns'[d].superseded => turns[d].superseded
    OBVIOUS
  <2> QED
    BY <1>0, <2>1, <2>2, KnownKeeps, SupersededKeeps
<1>9. Started'
  BY <1>0 DEF Started, InLanePc
<1>10. Placed'
  BY DEF Steady, Placed, Alive
<1>11. InOrder'
  <2>1. \A d \in Deliveries : Over(d)' <=> Over(d)
    BY DEF Over, Released
  <2> QED
    BY <2>1 DEF Steady, InOrder
<1>12. CutFirst'
  <2>1. Cut' = lost' \cup late /\ Cut \subseteq Cut'
    BY DEF Cut
  <2>2. CutTurns'
    <3> SUFFICES ASSUME NEW d \in Deliveries, Owns(d)'
                 PROVE  /\ turns[d].pc \in {"done", "lost"} => d \in Cut'
                        /\ turns[d].pc = "none" => d \in Cut' \/ Swept(d)'
      BY DEF CutTurns
    <3>1. CASE Owns(d)
      <4>1. /\ turns[d].pc \in {"done", "lost"} => d \in Cut
            /\ turns[d].pc = "none" => d \in Cut \/ Swept(d)
        BY <3>1 DEF Steady, CutFirst, CutTurns
      <4>2. Swept(d) => Swept(d)' \/ d \in Cut'
        BY <2>1
      <4> QED
        BY <2>1, <4>1, <4>2
    <3>2. CASE Claims(d[1]) /\ d[2] = rows[d[1]].attempts + 1
      <4>1. d[2] = rows'[d[1]].attempts
        BY <3>2 DEF Claims
      <4>2. turns[d].pc = "none" /\ Swept(d)'
        BY <1>6, <3>2, <4>1
      <4> QED
        BY <4>2
    <3> QED
      BY <1>0, <3>1, <3>2, OwnsStep
  <2> QED
    BY <1>0, <2>1, <2>2, CutKeeps DEF Steady
<1>13. Counted'
  BY <1>0, CountedKeeps DEF Steady
<1> QED
  BY <1>4, <1>5, <1>7, <1>8, <1>9, <1>10, <1>11, <1>12, <1>13 DEF Steady, Rely

LEMMA RowAt ==
  ASSUME TypeOK, NEW e \in Events, NEW r, rows' = [rows EXCEPT ![e] = r]
  PROVE  rows'[e] = r /\ \A x \in Events \ {e} : rows'[x] = rows[x] /\ Same(x)
BY DEF TypeOK, Same

LEMMA SweepsPut ==
  ASSUME TypeOK, Sweeps, NEW p \in Procs, NEW j, sweep' = [sweep EXCEPT ![p] = j], proc' = proc,
         j.pc # "idle" => j.ev \in Events /\ Alive(p),
         j.pc = "idle" => j = Resting,
         j.pc = "stuck" => j.nonce < Cap,
         j.pc = "claimed" => j.nonce \in 1 .. Ceiling
  PROVE  Sweeps'
<1> SUFFICES ASSUME NEW q \in Procs
             PROVE  /\ sweep'[q].pc # "idle" => sweep'[q].ev \in Events /\ Alive(q)'
                    /\ sweep'[q].pc = "idle" => sweep'[q] = Resting
                    /\ sweep'[q].pc = "stuck" => sweep'[q].nonce < Cap
                    /\ sweep'[q].pc = "claimed" => sweep'[q].nonce \in 1 .. Ceiling
  BY DEF Sweeps
<1>1. sweep'[p] = j /\ \A x \in Procs \ {p} : sweep'[x] = sweep[x]
  BY DEF TypeOK
<1>2. CASE q = p
  BY <1>1, <1>2 DEF Alive
<1>3. CASE q # p
  BY <1>1, <1>3 DEF Sweeps, Alive
<1> QED
  BY <1>2, <1>3

LEMMA SweepRests ==
  ASSUME SweepOK, TypeOK', NEW p \in Procs, sweep' = [sweep EXCEPT ![p] = Resting], proc' = proc,
         \A x \in Events : /\ rows'[x].attempts = rows[x].attempts
                           /\ rows'[x].status = "none" => rows[x].status = "none"
  PROVE  Sweeps' /\ Room'
<1>1. sweep'[p] = Resting /\ \A q \in Procs \ {p} : sweep'[q] = sweep[q]
  BY DEF SweepOK, TypeOK
<1>2. \A x \in Events : Rescuers(x)' \subseteq Rescuers(x)
  BY <1>1, RestingIs DEF Rescuers
<1>3. Room'
  BY <1>2, RoomKeeps DEF SweepOK
<1> QED
  BY <1>3, RestingIs, SweepsPut DEF SweepOK

(* A row that nobody relies on is left, or goes stale.                       *)
LEMMA LeftRowKeeps ==
  ASSUME Steady, TypeOK', NEW e \in Events, NEW r, rows' = [rows EXCEPT ![e] = r],
         UNCHANGED <<turns, proc, late, sweep>>, lost \subseteq lost', excused \subseteq excused',
         \A d \in excused' \ excused : turns[d].pc \in InLanePc,
         Same(e) \/ Stales(e) \/ Leaves(e),
         Same(e) \/ \A d \in Deliveries : d[1] = e => ~Holder(d)' /\ ~Swept(d),
         Redeliverable(e)' /\ rows[e].attempts > 0 => <<e, rows[e].attempts>> \in lost' \cup late
  PROVE  Steady'
<1>0. /\ TypeOK /\ \A x \in Events \ {e} : rows'[x] = rows[x] /\ Same(x)
      /\ \A d \in Deliveries : d[1] \in Events
  BY RowAt, Parts DEF Steady
<1>1. RowsStep /\ \A x \in Events : /\ ~Claims(x) /\ rows'[x].attempts = rows[x].attempts
                                    /\ rows'[x].status = "none" => rows[x].status = "none"
  BY <1>0, RowTyped DEF RowsStep, Same, Stales, Leaves, Claims
<1>2. Room'
  BY <1>1, RoomKeeps DEF Steady, Rescuers
<1>3. Sweeps'
  BY DEF Steady, Sweeps, Alive
<1>4. \A d \in Deliveries : Swept(d)' <=> Swept(d)
  BY DEF Swept
<1>5. \A p \in Procs : sweep'[p] = sweep[p]
  OBVIOUS
<1>6. \A d \in Deliveries : Same(d[1]) \/ (~Holder(d)' /\ ~Swept(d)')
  BY <1>0, <1>4
<1>7. ASSUME NEW x \in Events, Redeliverable(x)', rows[x].attempts > 0
      PROVE  <<x, rows[x].attempts>> \in lost' \cup late
  <2>1. CASE x = e
    BY <1>7, <2>1
  <2>2. CASE x # e
    BY <1>0, <1>7, <2>2 DEF Steady, CutFirst, CutNow, Redeliverable, Cut
  <2> QED
    BY <2>1, <2>2
<1> QED
  BY <1>0, <1>1, <1>2, <1>3, <1>4, <1>5, <1>6, <1>7, RowStepKeeps

(* Nobody relies on a row that may be delivered again, or that has ended.    *)
LEMMA Unrelied ==
  ASSUME TypeOK, HoldersOwn, NEW e \in Events,
         rows[e].status # "delivered" \/ rows[e].age = "stale"
  PROVE  \A d \in Deliveries : d[1] = e => ~Holder(d) /\ ~Swept(d)
BY OwnsIs DEF HoldersOwn

(* A sweep picks an event, or gives it up.                                   *)
LEMMA SweepMoveKeeps ==
  ASSUME Steady, TypeOK', Room', Sweeps', NEW p \in Procs, NEW j, j.pc # "claimed",
         sweep' = [sweep EXCEPT ![p] = j], UNCHANGED <<rows, turns, proc, late, excused>>,
         lost \subseteq lost',
         sweep[p].pc = "claimed" => <<sweep[p].ev, sweep[p].nonce>> \in lost'
  PROVE  Steady'
<1>0. /\ TypeOK /\ sweep'[p] = j /\ \A q \in Procs \ {p} : sweep'[q] = sweep[q]
      /\ \A d \in Deliveries : d[1] \in Events /\ d = <<d[1], d[2]>>
  BY Parts DEF Steady, TypeOK
<1>1. /\ RowsStep /\ \A x \in Events : Same(x) /\ ~Claims(x)
  BY <1>0, RowTyped DEF RowsStep, Same, Claims
<1>2. \A q \in Procs : sweep'[q].pc = "claimed" => sweep'[q] = sweep[q]
  BY <1>0
<1>3. ASSUME NEW d \in Deliveries, Swept(d)
      PROVE  Swept(d)' \/ d \in lost'
  <2>1. PICK q \in Procs : sweep[q].pc = "claimed" /\ sweep[q].ev = d[1] /\ sweep[q].nonce = d[2]
    BY <1>3 DEF Swept
  <2>2. CASE q = p
    BY <1>0, <2>1, <2>2
  <2>3. CASE q # p
    BY <1>0, <2>1, <2>3 DEF Swept
  <2> QED
    BY <2>2, <2>3
<1>4. \A x \in Events : Redeliverable(x)' /\ rows[x].attempts > 0
                          => <<x, rows[x].attempts>> \in lost' \cup late
  BY DEF Steady, CutFirst, CutNow, Redeliverable, Cut
<1>5. \A d \in Deliveries : Same(d[1]) /\ ~Claims(d[1])
  BY <1>0, <1>1
<1> QED
  BY <1>0, <1>1, <1>2, <1>3, <1>4, <1>5, RowStepKeeps

(* A sweep delivers an event again.                                          *)
LEMMA SweepClaimKeeps ==
  ASSUME Steady, TypeOK', Room', Sweeps', NEW p \in Procs, NEW e \in Events,
         sweep[p].pc # "claimed", sweep[p].ev = e, Redeliverable(e), rows[e].attempts < Ceiling,
         rows' = [rows EXCEPT ![e] = Claimed(rows[e])],
         sweep' = [sweep EXCEPT ![p] = Holding(sweep[p], rows[e].attempts + 1)],
         UNCHANGED <<turns, proc, late, lost, excused>>
  PROVE  Steady'
<1>0. /\ TypeOK /\ HoldersOwn /\ sweep[p] \in Job /\ rows[e] \in Row /\ rows[e].attempts \in Nat
      /\ \A x \in Events \ {e} : rows'[x] = rows[x] /\ Same(x)
      /\ rows'[e] = Claimed(rows[e])
      /\ \A d \in Deliveries : d[1] \in Events
  BY RowAt, RowTyped, Parts DEF Steady, TypeOK, Rely
<1>1. /\ Claims(e) /\ rows'[e].attempts = rows[e].attempts + 1
      /\ rows[e].attempts + 1 \in 1 .. Ceiling
  BY <1>0, ClaimedIs DEF Claims
<1>2. /\ sweep'[p].pc = "claimed" /\ sweep'[p].ev = e /\ sweep'[p].nonce = rows'[e].attempts
      /\ \A q \in Procs \ {p} : sweep'[q] = sweep[q]
  <2>1. /\ sweep'[p] = Holding(sweep[p], rows[e].attempts + 1)
        /\ \A q \in Procs \ {p} : sweep'[q] = sweep[q]
    BY <1>0 DEF TypeOK
  <2> QED
    BY <1>0, <1>1, <2>1, HoldingIs
<1>3. RowsStep /\ NewlyHeld(p)
  BY <1>0, <1>1, <1>2 DEF RowsStep, NewlyHeld
<1>4. \A d \in Deliveries : d[1] = e => ~Holder(d) /\ ~Swept(d)
  BY <1>0, Unrelied DEF Redeliverable
<1>5. \A d \in Deliveries : Holder(d)' <=> Holder(d)
  BY DEF Holder
<1>6. ASSUME NEW d \in Deliveries
      PROVE  Same(d[1]) \/ (~Holder(d)' /\ (Swept(d)' => Claims(d[1]) /\ d[2] = rows'[d[1]].attempts))
  <2>1. CASE d[1] # e
    BY <1>0, <2>1
  <2>2. ASSUME d[1] = e, Swept(d)'
        PROVE  d[2] = rows'[d[1]].attempts
    <3>1. PICK q \in Procs : sweep'[q].pc = "claimed" /\ sweep'[q].ev = d[1] /\ sweep'[q].nonce = d[2]
      BY <2>2 DEF Swept
    <3>2. CASE q = p
      BY <1>2, <2>2, <3>1, <3>2
    <3>3. CASE q # p
      BY <1>2, <1>4, <2>2, <3>1, <3>3 DEF Swept
    <3> QED
      BY <3>2, <3>3
  <2> QED
    BY <1>1, <1>4, <1>5, <2>1, <2>2
<1>7. ASSUME NEW d \in Deliveries, Swept(d)
      PROVE  Swept(d)'
  <2>1. PICK q \in Procs : sweep[q].pc = "claimed" /\ sweep[q].ev = d[1] /\ sweep[q].nonce = d[2]
    BY <1>7 DEF Swept
  <2> QED
    BY <1>2, <2>1 DEF Swept
<1>8. ASSUME NEW d \in Deliveries, Claims(d[1]), d[2] = rows'[d[1]].attempts
      PROVE  Swept(d)'
  <2>1. d[1] = e
    BY <1>0, <1>8, RowTyped DEF Claims, Same
  <2> QED
    BY <1>2, <1>8, <2>1 DEF Swept
<1>9. ASSUME NEW x \in Events, Claims(x) \/ Redeliverable(x)', rows[x].attempts > 0
      PROVE  <<x, rows[x].attempts>> \in lost' \cup late
  <2>1. Redeliverable(x)
    <3>1. CASE x = e
      BY <3>1
    <3>2. CASE x # e
      BY <1>0, <1>9, <3>2, RowTyped DEF Redeliverable, Claims
    <3> QED
      BY <3>1, <3>2
  <2> QED
    BY <1>9, <2>1 DEF Steady, CutFirst, CutNow, Cut
<1>10. \A q \in Procs : sweep'[q].pc = "claimed" => sweep'[q] = sweep[q] \/ NewlyHeld(q)
  BY <1>2, <1>3
<1> QED
  BY <1>0, <1>3, <1>6, <1>7, <1>8, <1>9, <1>10, RowStepKeeps

LEMMA RowLeft ==
  ASSUME Steady, TypeOK', NEW e \in Events, NEW r \in Row, rows' = [rows EXCEPT ![e] = r],
         r.status \in {"pending", "acked", "failed"}, r.attempts = rows[e].attempts,
         rows[e].status # "delivered" \/ rows[e].age = "stale",
         r.status = "pending" /\ rows[e].attempts > 0 => Redeliverable(e),
         UNCHANGED <<turns, proc, late, lost, excused, sweep>>
  PROVE  Steady'
<1>1. TypeOK /\ HoldersOwn /\ rows'[e] = r
  BY RowAt DEF Steady, Rely
<1>2. \A d \in Deliveries : d[1] = e => ~Holder(d)' /\ ~Swept(d)
  BY <1>1, Unrelied DEF Holder
<1>3. Leaves(e)
  BY <1>1 DEF Leaves
<1>4. Redeliverable(e)' /\ rows[e].attempts > 0 => <<e, rows[e].attempts>> \in lost' \cup late
  BY <1>1 DEF Steady, CutFirst, CutNow, Cut, Redeliverable
<1> QED
  BY <1>2, <1>3, <1>4, LeftRowKeeps

(* The events' own steps, but for one that is born claimed.                  *)
LEMMA EventKeeps ==
  ASSUME Steady, NEW e \in Events, EventNext(e), \A p \in Procs : ~Enqueue(e, p)
  PROVE  Steady'
<1>0. /\ TypeOK /\ Counted /\ TypeOK' /\ rows[e] \in Row /\ HoldersOwn /\ SweptIsNew /\ Superseded
      /\ Started /\ CutTurns /\ Room /\ Sweeps
      /\ \A d \in Deliveries : d[1] \in Events /\ d = <<d[1], d[2]>>
      /\ rows[e].nonce = IF rows[e].status = "delivered" THEN rows[e].attempts ELSE NoNonce
      /\ rows[e].attempts \in Nat /\ rows[e].attempts <= Ceiling
  BY EventTyped, RowTyped, Parts DEF Steady, Rely, CutFirst
<1>1. ASSUME NEW p \in Procs, EnqueuePending(e, p) PROVE Steady'
  <2> DEFINE r == [rows[e] EXCEPT !.status = "pending"]
  <2>1. /\ rows' = [rows EXCEPT ![e] = r]
        /\ UNCHANGED <<turns, proc, late, lost, excused, sweep>>
    BY <1>1 DEF EnqueuePending
  <2>2. r \in Row /\ r.status = "pending" /\ r.attempts = rows[e].attempts
    BY <1>0 DEF Row
  <2>3. rows[e].status # "delivered" /\ ~(rows[e].attempts > 0)
    BY <1>0, <1>1 DEF EnqueuePending, Counted
  <2> HIDE DEF r
  <2> QED
    BY <1>0, <2>1, <2>2, <2>3, RowLeft
<1>2. ASSUME NEW a \in {"fresh", "stale"}, rows' = [rows EXCEPT ![e].age = a]
      PROVE  rows' = [rows EXCEPT ![e] = [rows[e] EXCEPT !.age = a]]
  BY <1>2
<1>3. ASSUME rows[e].status = "delivered", rows' = [rows EXCEPT ![e].age = "stale"],
             UNCHANGED <<turns, proc, late, excused, sweep>>, lost \subseteq lost',
             \A d \in Deliveries : d[1] = e => ~Holder(d) /\ ~Swept(d),
             <<e, rows[e].attempts>> \in lost' \cup late
      PROVE  Steady'
  <2> DEFINE r == [rows[e] EXCEPT !.age = "stale"]
  <2>1. rows' = [rows EXCEPT ![e] = r] /\ rows'[e] = r
    BY <1>0, <1>3, RowAt
  <2>2. r.status = "delivered" /\ r.attempts = rows[e].attempts
    BY <1>0, <1>3 DEF Row
  <2> HIDE DEF r
  <2>3. Stales(e)
    BY <1>3, <2>1, <2>2 DEF Stales
  <2>4. \A d \in Deliveries : d[1] = e => ~Holder(d)' /\ ~Swept(d)
    BY <1>3 DEF Holder
  <2>5. \A d \in excused' \ excused : turns[d].pc \in InLanePc
    BY <1>3
  <2> QED
    BY <1>0, <1>3, <2>1, <2>3, <2>4, <2>5, LeftRowKeeps
<1>4. ASSUME rows[e].status = "delivered"
      PROVE  /\ rows[e].attempts \in 1 .. Ceiling /\ <<e, rows[e].attempts>> \in Deliveries
             /\ Owns(<<e, rows[e].attempts>>) /\ rows[e].nonce = rows[e].attempts
             /\ \A d \in Deliveries : d[1] = e /\ Owns(d) => d = <<e, rows[e].attempts>>
  <2>1. rows[e].attempts \in 1 .. Ceiling
    BY <1>0, <1>4, Bounds DEF Counted
  <2>2. <<e, rows[e].attempts>> \in Deliveries
    BY <2>1, Parts
  <2> QED
    BY <1>0, <1>4, <2>1, <2>2, OwnsIs
<1>5. CASE GoesStale(e)
  <2>1. PICK d \in Deliveries : d = <<e, rows[e].attempts>> /\ d[1] = e
    BY <1>4, <1>5 DEF GoesStale
  <2>2. Owns(d) /\ ~KeptFresh(d) /\ ~SweepHolds(d[1], d[2]) /\ d[2] = rows[e].attempts
    BY <1>4, <1>5, <2>1 DEF GoesStale
  <2>3. ~Holder(d) /\ ~Swept(d)
    BY <2>2 DEF KeptFresh, Holder, AtWorkPc, Swept, SweepHolds
  <2>4. \A c \in Deliveries : c[1] = e => ~Holder(c) /\ ~Swept(c)
    BY <1>0, <1>4, <1>5, <2>1, <2>3 DEF HoldersOwn, GoesStale
  <2>5. turns[d].pc \in {"none", "done", "lost"} \/ d \in late
    <3>1. turns[d] \in Turn /\ ~turns[d].superseded
      BY <1>0, <2>2, TurnOf DEF Superseded
    <3> QED
      BY <2>2, <3>1 DEF KeptFresh, Turn
  <2>6. d \in lost \cup late
    BY <1>0, <2>2, <2>3, <2>5 DEF CutTurns, Cut
  <2> QED
    BY <1>3, <1>5, <2>1, <2>4, <2>6 DEF GoesStale
<1>6. CASE RefreshFails(e)
  <2>1. PICK d \in Deliveries : d = <<e, rows[e].attempts>> /\ d[1] = e
    BY <1>4, <1>6 DEF RefreshFails
  <2>2. Owns(d) /\ turns[d].pc = "queued" /\ d \in lost'
    BY <1>4, <1>6, <2>1 DEF RefreshFails
  <2>3. ~Holder(d) /\ ~Swept(d)
    BY <1>0, <2>2 DEF Holder, AtWorkPc, SweptIsNew
  <2>4. \A c \in Deliveries : c[1] = e => ~Holder(c) /\ ~Swept(c)
    BY <1>0, <1>4, <1>6, <2>1, <2>3 DEF HoldersOwn, RefreshFails
  <2> QED
    BY <1>3, <1>6, <2>1, <2>2, <2>4 DEF RefreshFails
<1>7. CASE GrowsOld(e)
  <2> DEFINE r == [rows[e] EXCEPT !.old = TRUE]
  <2>1. rows' = [rows EXCEPT ![e] = r] /\ UNCHANGED <<turns, proc, late, lost, excused, sweep>>
    BY <1>7 DEF GrowsOld
  <2>2. r \in Row /\ r.status = "pending" /\ r.attempts = rows[e].attempts
    BY <1>0, <1>7 DEF Row, GrowsOld
  <2> HIDE DEF r
  <2> QED
    BY <1>0, <1>7, <2>1, <2>2, RowLeft DEF GrowsOld, Redeliverable
<1>8. ASSUME NEW p \in Procs, FindStuck(p, e) PROVE Steady'
  <2> DEFINE j == [pc |-> "stuck", ev |-> e, nonce |-> rows[e].nonce,
                   restarted |-> rows[e].restarted, finished |-> Finished(e)]
  <2>1. /\ sweep' = [sweep EXCEPT ![p] = j] /\ sweep[p] = Resting /\ proc[p] = "up"
        /\ UNCHANGED <<rows, turns, proc, late, lost, excused>>
    BY <1>8 DEF FindStuck
  <2>2. j.pc = "stuck" /\ j.ev = e /\ j.nonce < Cap
    BY <1>0, <1>8 DEF FindStuck, Stuck
  <2> HIDE DEF j
  <2>3. sweep'[p] = j /\ \A q \in Procs \ {p} : sweep'[q] = sweep[q]
    BY <1>0, <2>1 DEF TypeOK
  <2>4. Sweeps'
    BY <1>0, <2>1, <2>2, SweepsPut DEF Alive
  <2>5. Room'
    <3>1. \A x \in Events : rows'[x] = rows[x] /\ Rescuers(x)' \subseteq Rescuers(x)
      BY <2>1, <2>2, <2>3 DEF Rescuers
    <3> QED
      BY <1>0, <3>1, RoomKeeps
  <2> QED
    BY <1>0, <2>1, <2>2, <2>4, <2>5, RestingIs, SweepMoveKeeps
<1>9. ASSUME NEW p \in Procs, RequeueSkipped(p, e) PROVE Steady'
  <2> DEFINE r == TakenBack(rows[e])
  <2>1. rows' = [rows EXCEPT ![e] = r] /\ UNCHANGED <<turns, proc, late, lost, excused, sweep>>
    BY <1>9 DEF RequeueSkipped
  <2>2. r \in Row /\ r.status = "pending" /\ r.attempts = rows[e].attempts
    BY <1>0, TakenBackIs
  <2> HIDE DEF r
  <2>3. rows[e].age = "stale" /\ Redeliverable(e)
    BY <1>9 DEF RequeueSkipped, Stuck, Redeliverable
  <2> QED
    BY <1>0, <2>1, <2>2, <2>3, RowLeft
<1>10. ASSUME NEW p \in Procs, Retire(p, e) \/ CloseStranded(p, e) PROVE Steady'
  <2>1. /\ rows' = [rows EXCEPT ![e] = Ended(rows[e], "failed")]
        /\ UNCHANGED <<turns, proc, late, lost, excused, sweep>>
    BY <1>10 DEF Retire, CloseStranded
  <2>2. /\ Ended(rows[e], "failed") \in Row /\ Ended(rows[e], "failed").status = "failed"
        /\ Ended(rows[e], "failed").attempts = rows[e].attempts
    BY <1>0, EndedIs DEF Final
  <2>3. rows[e].status # "delivered" \/ rows[e].age = "stale"
    BY <1>10 DEF Retire, CloseStranded, Closeable
  <2> QED
    BY <1>0, <2>1, <2>2, <2>3, RowLeft
<1>11. ASSUME NEW p \in Procs, FindStranded(p, e) PROVE Steady'
  <2> DEFINE j == [Resting EXCEPT !.pc = "stranded", !.ev = e]
  <2>1. /\ sweep' = [sweep EXCEPT ![p] = j] /\ sweep[p] = Resting /\ proc[p] = "up"
        /\ UNCHANGED <<rows, turns, proc, late, lost, excused>>
    BY <1>11 DEF FindStranded
  <2>2. j.pc = "stranded" /\ j.ev = e
    BY DEF Resting
  <2> HIDE DEF j
  <2>3. sweep'[p] = j /\ \A q \in Procs \ {p} : sweep'[q] = sweep[q]
    BY <1>0, <2>1 DEF TypeOK
  <2>4. Sweeps'
    BY <1>0, <2>1, <2>2, SweepsPut DEF Alive
  <2>5. Room'
    <3>1. rows'[e].attempts < Cap /\ rows'[e].status # "none"
      BY <1>0, <1>11, <2>1, Bounds DEF FindStranded, Stranded
    <3>2. \A x \in Events \ {e} : rows'[x] = rows[x] /\ Rescuers(x)' \subseteq Rescuers(x)
      BY <2>1, <2>2, <2>3 DEF Rescuers
    <3> QED
      BY <1>0, <3>1, <3>2, RoomKeeps
  <2> QED
    BY <1>0, <2>1, <2>2, <2>4, <2>5, RestingIs, SweepMoveKeeps
<1> QED
  BY <1>1, <1>5, <1>6, <1>7, <1>8, <1>9, <1>10, <1>11 DEF EventNext

(* A sweep's steps, but for the one that runs a turn.                        *)
LEMMA SweepGivesUp ==
  ASSUME Steady, TypeOK', NEW p \in Procs, sweep' = [sweep EXCEPT ![p] = Resting],
         UNCHANGED <<rows, turns, proc, late, excused>>, lost \subseteq lost',
         sweep[p].pc = "claimed" => <<sweep[p].ev, sweep[p].nonce>> \in lost'
  PROVE  Steady'
<1>1. Sweeps' /\ Room'
  BY SweepRests DEF Steady, SweepOK
<1> QED
  BY <1>1, RestingIs, SweepMoveKeeps

LEMMA ClaimStuckKeeps ==
  ASSUME Steady, TypeOK', NEW p \in Procs, ClaimStuck(p)
  PROVE  Steady'
<1>e. PICK e \in Events : e = sweep[p].ev
  BY DEF Steady, Sweeps, ClaimStuck
<1>0. /\ TypeOK /\ SweepOK /\ sweep[p].pc = "stuck" /\ e \in Events /\ sweep[p] \in Job /\ Alive(p)
      /\ UNCHANGED <<turns, proc, late, lost, excused>>
      /\ rows[e] \in Row /\ rows[e].attempts \in Nat
  BY <1>e, RowTyped DEF Steady, Sweeps, SweepOK, ClaimStuck, TypeOK
<1>1. CASE sweep' = [sweep EXCEPT ![p] = Resting] /\ UNCHANGED rows
  BY <1>0, <1>1, SweepGivesUp
<1>2. CASE /\ rows[e].status = "delivered" /\ rows[e].nonce = sweep[p].nonce
           /\ rows[e].age = "stale"
           /\ rows' = [rows EXCEPT ![e] = Claimed(rows[e])]
           /\ sweep' = [sweep EXCEPT ![p] = Holding(sweep[p], rows[e].attempts + 1)]
  <2>1. rows[e].attempts < Cap /\ rows[e].attempts < Ceiling
    BY <1>0, <1>e, <1>2, MayRestart, Bounds
  <2>2. /\ rows[e].attempts + 1 \in 1 .. Ceiling /\ rows'[e] = Claimed(rows[e])
        /\ rows'[e].attempts <= Cap /\ rows'[e].status = "delivered"
        /\ \A x \in Events \ {e} : rows'[x] = rows[x]
    <3>1. rows'[e] = Claimed(rows[e]) /\ \A x \in Events \ {e} : rows'[x] = rows[x]
      BY <1>0, <1>2, RowAt
    <3>2. /\ Claimed(rows[e]).attempts = rows[e].attempts + 1
          /\ Claimed(rows[e]).status = "delivered"
          /\ rows[e].attempts + 1 \in 1 .. Ceiling
      BY <1>0, <2>1, ClaimedIs
    <3> QED
      BY <1>0, <2>1, <3>1, <3>2, Bounds
  <2> DEFINE j == Holding(sweep[p], rows[e].attempts + 1)
  <2>3. j.pc = "claimed" /\ j.ev = e /\ j.nonce \in 1 .. Ceiling
    BY <1>0, <1>e, <2>2, HoldingIs
  <2>4. sweep' = [sweep EXCEPT ![p] = j]
    BY <1>2
  <2> HIDE DEF j
  <2>5. Sweeps'
    BY <1>0, <2>3, <2>4, SweepsPut DEF SweepOK
  <2>6. p \notin Rescuers(e)' /\ \A x \in Events : Rescuers(x)' \subseteq Rescuers(x)
    BY <1>0, <2>3, <2>4 DEF Rescuers, TypeOK
  <2>7. Room'
    BY <1>0, <2>2, <2>6, RoomKeeps DEF SweepOK
  <2>8. sweep[p].ev = e /\ sweep[p].pc # "claimed" /\ Redeliverable(e)
    BY <1>0, <1>e, <1>2 DEF Redeliverable
  <2> QED
    BY <1>0, <1>2, <2>1, <2>5, <2>7, <2>8, SweepClaimKeeps
<1> QED
  BY <1>e, <1>1, <1>2 DEF ClaimStuck

LEMMA ClaimStrandedKeeps ==
  ASSUME Steady, TypeOK', NEW p \in Procs, ClaimStranded(p)
  PROVE  Steady'
<1>e. PICK e \in Events : e = sweep[p].ev
  BY DEF Steady, Sweeps, ClaimStranded
<1>0. /\ TypeOK /\ SweepOK /\ sweep[p].pc = "stranded" /\ e \in Events /\ sweep[p] \in Job /\ Alive(p)
      /\ UNCHANGED <<turns, proc, late, lost, excused>>
      /\ rows[e] \in Row /\ rows[e].attempts \in Nat
  BY <1>e, RowTyped DEF Steady, Sweeps, SweepOK, ClaimStranded, TypeOK
<1>1. CASE sweep' = [sweep EXCEPT ![p] = Resting] /\ UNCHANGED rows
  BY <1>0, <1>1, SweepGivesUp
<1>2. CASE /\ rows[e].status = "pending"
           /\ rows' = [rows EXCEPT ![e] = Claimed(rows[e])]
           /\ sweep' = [sweep EXCEPT ![p] = Holding(sweep[p], rows[e].attempts + 1)]
  <2>1. /\ rows[e].attempts < Ceiling
        /\ Cardinality(Rescuers(e) \ {p}) = Cardinality(Rescuers(e)) - 1
    BY <1>0, <1>e, MayRescue
  <2>2. /\ rows[e].attempts + 1 \in 1 .. Ceiling /\ rows'[e] = Claimed(rows[e])
        /\ rows'[e].attempts = rows[e].attempts + 1 /\ rows'[e].status = "delivered"
        /\ \A x \in Events \ {e} : rows'[x] = rows[x]
    BY <1>0, <1>2, <2>1, ClaimedIs, RowAt
  <2> DEFINE j == Holding(sweep[p], rows[e].attempts + 1)
  <2>3. j.pc = "claimed" /\ j.ev = e /\ j.nonce \in 1 .. Ceiling
    BY <1>0, <1>e, <2>2, HoldingIs
  <2>4. sweep' = [sweep EXCEPT ![p] = j]
    BY <1>2
  <2> HIDE DEF j
  <2>5. Sweeps'
    BY <1>0, <2>3, <2>4, SweepsPut DEF SweepOK
  <2>6. /\ p \in Rescuers(e) /\ Rescuers(e)' \subseteq Rescuers(e) \ {p}
        /\ \A x \in Events : Rescuers(x)' \subseteq Rescuers(x)
    BY <1>0, <1>e, <2>3, <2>4 DEF Rescuers, TypeOK
  <2>7. Room'
    BY <1>0, <2>1, <2>2, <2>6, RoomKeeps DEF SweepOK
  <2>8. sweep[p].ev = e /\ sweep[p].pc # "claimed" /\ Redeliverable(e)
    BY <1>0, <1>e, <1>2 DEF Redeliverable
  <2> QED
    BY <1>0, <1>2, <2>1, <2>5, <2>7, <2>8, SweepClaimKeeps
<1> QED
  BY <1>e, <1>1, <1>2 DEF ClaimStranded, Claimable

(* The sweep acknowledges what was answered.                                 *)
LEMMA ResumeEndsKeeps ==
  ASSUME Steady, TypeOK', NEW p \in Procs, sweep[p].pc = "claimed",
         NEW d \in Deliveries, d = <<sweep[p].ev, sweep[p].nonce>>,
         rows' = IF Settles(d) THEN [rows EXCEPT ![d[1]] = Ended(rows[d[1]], "acked")] ELSE rows,
         sweep' = [sweep EXCEPT ![p] = Resting],
         UNCHANGED <<turns, proc, late, lost, excused>>
  PROVE  Steady'
<1>0. /\ TypeOK /\ SweepOK /\ HoldersOwn /\ SweptOnce /\ SweptIsNew
      /\ d[1] \in Events /\ d[2] \in 1 .. Ceiling /\ d[1] = sweep[p].ev /\ d[2] = sweep[p].nonce
      /\ rows[d[1]] \in Row
      /\ \A c \in Deliveries : c[1] \in Events /\ c[2] \in 1 .. Ceiling /\ c = <<c[1], c[2]>>
  BY Parts, RowTyped DEF Steady, SweepOK, Rely
<1>1. Swept(d) /\ Owns(d) /\ turns[d].pc = "none"
  BY <1>0 DEF Swept, HoldersOwn, SweptIsNew
<1>2. rows' = [rows EXCEPT ![d[1]] = Ended(rows[d[1]], "acked")]
  BY <1>1 DEF Owns, Settles
<1>3. /\ rows'[d[1]].status = "acked" /\ rows'[d[1]].attempts = rows[d[1]].attempts
      /\ \A x \in Events \ {d[1]} : rows'[x] = rows[x] /\ Same(x)
  <2>1. rows'[d[1]] = Ended(rows[d[1]], "acked")
        /\ \A x \in Events \ {d[1]} : rows'[x] = rows[x] /\ Same(x)
    BY <1>0, <1>2, RowAt
  <2> QED
    BY <1>0, <2>1, EndedIs DEF Final
<1>4. sweep'[p] = Resting /\ \A q \in Procs \ {p} : sweep'[q] = sweep[q]
  BY <1>0 DEF TypeOK
<1>5. Sweeps' /\ Room'
  BY <1>0, <1>3, SweepRests
<1>6. RowsStep /\ \A x \in Events : ~Claims(x)
  BY <1>0, <1>3, RowTyped DEF RowsStep, Leaves, Claims
<1>7. \A c \in Deliveries : c[1] = d[1] /\ Owns(c) => c = d
  BY <1>0, <1>1, OwnsIs
<1>8. ASSUME NEW c \in Deliveries
      PROVE  Same(c[1]) \/ (~Holder(c)' /\ ~Swept(c)')
  <2>1. CASE c[1] # d[1]
    BY <1>0, <1>3, <2>1
  <2>2. CASE c[1] = d[1]
    <3>1. ~Holder(c)
      BY <1>0, <1>1, <1>7, <2>2 DEF HoldersOwn, Holder, AtWorkPc
    <3>2. ASSUME NEW q \in Procs, sweep'[q].pc = "claimed", sweep'[q].ev = c[1]
          PROVE  FALSE
      <4>1. q # p
        BY <1>4, <3>2, RestingIs
      <4> QED
        BY <1>0, <1>4, <2>2, <3>2, <4>1 DEF SweptOnce
    <3> QED
      BY <3>1, <3>2 DEF Holder, Swept
  <2> QED
    BY <2>1, <2>2
<1>9. ASSUME NEW c \in Deliveries, Swept(c), Owns(c)'
      PROVE  Swept(c)'
  <2>1. PICK q \in Procs : sweep[q].pc = "claimed" /\ sweep[q].ev = c[1] /\ sweep[q].nonce = c[2]
    BY <1>9 DEF Swept
  <2>2. q # p
    BY <1>0, <1>3, <1>9, <2>1 DEF Owns
  <2> QED
    BY <1>4, <2>1, <2>2 DEF Swept
<1>10. ASSUME NEW x \in Events, Redeliverable(x)', rows[x].attempts > 0
       PROVE  <<x, rows[x].attempts>> \in lost' \cup late
  <2>1. x # d[1]
    BY <1>3, <1>10 DEF Redeliverable
  <2> QED
    BY <1>3, <1>10, <2>1 DEF Steady, CutFirst, CutNow, Redeliverable, Cut
<1>11. \A q \in Procs : sweep'[q].pc = "claimed" => sweep'[q] = sweep[q]
  BY <1>4, RestingIs
<1> QED
  BY <1>0, <1>5, <1>6, <1>8, <1>9, <1>10, <1>11, RowStepKeeps

LEMMA RequeueAtDeadlineKeeps ==
  ASSUME Steady, TypeOK', NEW p \in Procs, NEW d \in Deliveries, RequeueAtDeadline(p, d)
  PROVE  Steady'
<1> DEFINE r == TakenBack(rows[d[1]])
<1>0. /\ TypeOK /\ HoldersOwn /\ SweptIsNew /\ d[1] \in Events /\ rows[d[1]] \in Row
      /\ Owns(d) /\ turns[d].pc \in InLanePc /\ lost' = lost \cup {d} /\ excused' = excused \cup {d}
      /\ UNCHANGED <<turns, proc, late, sweep>>
      /\ rows' = [rows EXCEPT ![d[1]] = r]
  BY Parts, RowTyped DEF Steady, Rely, RequeueAtDeadline, InProcessRunning, InLanePc, HandBack
<1>1. r.status = "pending" /\ r.attempts = rows[d[1]].attempts
  BY <1>0, TakenBackIs
<1> HIDE DEF r
<1>2. rows'[d[1]] = r
  BY <1>0, RowAt
<1>3. Leaves(d[1])
  BY <1>1, <1>2 DEF Leaves
<1>4. \A c \in Deliveries : c[1] = d[1] /\ Owns(c) => c = d
  BY <1>0, OwnsIs, Parts
<1>5. \A c \in Deliveries : c[1] = d[1] => ~Holder(c)' /\ ~Swept(c)
  BY <1>0, <1>4 DEF HoldersOwn, SweptIsNew, Holder, InLanePc
<1>6. <<d[1], rows[d[1]].attempts>> \in lost'
  BY <1>0, OwnsIs, Parts
<1>7. \A c \in excused' \ excused : turns[c].pc \in InLanePc
  BY <1>0
<1> QED
  BY <1>0, <1>3, <1>5, <1>6, <1>7, LeftRowKeeps

-------------------------------------------------------------------------------
(* One turn moves on.                                                        *)
LEMMA TurnMoveKeeps ==
  ASSUME Steady, TypeOK', Room', Sweeps', NEW d \in Deliveries, UNCHANGED proc,
         turns[d].pc # "none" \/ Swept(d),
         \A c \in Deliveries \ {d} : turns'[c] = turns[c],
         \/ turns'[d] = turns[d] /\ turns[d].pc \notin {"none", "born"}
         \/ turns'[d].pc \in {"ready", "model", "ok", "bad", "done"} /\ turns'[d].ahead = {},
         turns'[d].superseded => turns[d].superseded,
         turns'[d].pc \in Working => turns[d].pc \in Working /\ turns'[d].at = turns[d].at,
         turns'[d].pc \in InLanePc =>
           /\ turns[d].pc \in InLanePc /\ turns'[d].superseded = turns[d].superseded
           /\ turns'[d].ahead = turns[d].ahead \/ \A x \in turns[d].ahead : Over(x),
         lost \subseteq lost', late \subseteq late', excused \subseteq excused',
         late' \cup excused' \subseteq late \cup excused \cup {d},
         \A p \in Procs : sweep'[p].pc = "claimed" => sweep'[p] = sweep[p],
         ~Swept(d)', \A c \in Deliveries \ {d} : Swept(c) => Swept(c)',
         \A e \in Events \ {d[1]} : rows'[e] = rows[e],
         Same(d[1]) \/ (Leaves(d[1]) /\ Owns(d) /\ turns'[d].pc = "done"),
         rows'[d[1]].status = "pending" /\ Owns(d) => d \in lost',
         Holder(d)' => Holder(d) \/ (Owns(d) /\ rows'[d[1]].age = "fresh"),
         Owns(d)' /\ turns'[d].pc = "done" => d \in lost' \cup late'
  PROVE  Steady'
<1>0. /\ TypeOK /\ HoldersOwn /\ SweptOnce /\ SweptIsNew /\ Known /\ Superseded /\ Started
      /\ \A c \in Deliveries : c[1] \in Events /\ c[2] \in Nat /\ rows[c[1]].attempts \in Nat
      /\ \A c \in Deliveries : c = <<c[1], c[2]>>
  BY Parts, RowTyped, Bounds DEF Steady, Rely
<1>1. RowsStep /\ \A e \in Events : ~Claims(e) /\ rows'[e].attempts = rows[e].attempts
  BY <1>0, RowTyped DEF RowsStep, Same, Leaves, Claims
<1>2. \A c \in Deliveries : Owns(c)' => Owns(c) /\ Same(c[1])
  <2> TAKE c \in Deliveries
  <2>1. Owns(c)' => rows'[c[1]].status = "delivered"
    BY DEF Owns
  <2>2. Same(c[1]) \/ Leaves(c[1])
    BY <1>0 DEF Same
  <2> QED
    BY <1>0, <1>1, <2>1, <2>2, OwnsStep DEF Leaves
<1>3. \A c \in Deliveries : Swept(c)' => Swept(c) /\ c # d
  BY DEF Swept
<1>4. \A c \in Deliveries \ {d} : Holder(c)' => Holder(c)
  BY DEF Holder
<1>5. \A c \in Deliveries : c[1] = d[1] /\ Owns(c) /\ Owns(d) => c = d
  BY <1>0, OwnsIs
<1>6. HoldersOwn'
  <2> SUFFICES ASSUME NEW c \in Deliveries, Holder(c)' \/ Swept(c)'
               PROVE  Owns(c)' /\ rows'[c[1]].age = "fresh"
    BY DEF HoldersOwn
  <2>1. CASE c # d
    <3>1. Owns(c) /\ rows[c[1]].age = "fresh"
      BY <1>0, <1>3, <1>4, <2>1 DEF HoldersOwn
    <3>2. Same(c[1])
      BY <1>0, <1>5, <2>1, <3>1 DEF Same
    <3> QED
      BY <1>0, <3>1, <3>2, OwnsIs DEF Same
  <2>2. CASE c = d
    <3>1. Holder(d)'
      BY <2>2
    <3>2. Same(d[1])
      BY <3>1 DEF Holder, AtWorkPc
    <3>3. Owns(d) /\ (rows[d[1]].age = "fresh" \/ rows'[d[1]].age = "fresh")
      BY <1>0, <3>1 DEF HoldersOwn
    <3> QED
      BY <1>0, <2>2, <3>2, <3>3, OwnsIs DEF Same
  <2> QED
    BY <2>1, <2>2
<1>7. SweptOnce'
  BY <1>0 DEF SweptOnce
<1>8. SweptIsNew'
  BY <1>0, <1>3 DEF SweptIsNew
<1>9. Known'
  <2>1. \A c \in Deliveries : turns'[c].pc # "none" => turns[c].pc # "none" \/ c[2] = rows'[c[1]].attempts
    BY <1>0, <1>1, OwnsIs DEF HoldersOwn
  <2> QED
    BY <1>0, <1>1, <2>1, KnownKeeps
<1>10. Superseded'
  BY <1>0, <1>2 DEF Superseded
<1>11. Started'
  BY <1>0 DEF Started
<1>12. Placed'
  <2> SUFFICES ASSUME NEW c \in Deliveries
               PROVE  /\ turns'[c].pc \in Working =>
                           /\ turns'[c].at \in Procs
                           /\ proc[turns'[c].at] \in {"up", "draining", "deadline"}
                      /\ turns'[c].pc = "lost" /\ turns'[c].at \in Procs => proc[turns'[c].at] = "down"
                      /\ turns'[c].pc = "none" => turns'[c] = NoTurn
    BY DEF Placed, Alive
  <2>1. /\ turns[c].pc \in Working =>
             turns[c].at \in Procs /\ proc[turns[c].at] \in {"up", "draining", "deadline"}
        /\ turns[c].pc = "lost" /\ turns[c].at \in Procs => proc[turns[c].at] = "down"
        /\ turns[c].pc = "none" => turns[c] = NoTurn
    BY DEF Steady, Placed, Alive
  <2> QED
    BY <2>1 DEF Working
<1>13. InOrder'
  <2>1. \A c \in Deliveries : turns'[c].pc \in InLanePc /\ Over(c) => Over(c)'
    BY DEF Over, Released, InLanePc
  <2>2. \A c \in Deliveries : turns'[c].pc \in InLanePc => turns[c].pc \in InLanePc /\ turns'[c].at = turns[c].at
    BY DEF Working, InLanePc
  <2> SUFFICES ASSUME NEW b \in Deliveries, NEW c \in Deliveries, b # c, turns'[b].at = turns'[c].at,
                      turns'[b].pc \in InLanePc, turns'[c].pc \in InLanePc, ~Over(b)', ~Over(c)'
               PROVE  b \in turns'[c].ahead \/ c \in turns'[b].ahead
    BY DEF InOrder
  <2>3. b \in turns[c].ahead \/ c \in turns[b].ahead
    BY <2>1, <2>2 DEF Steady, InOrder
  <2>4. \A a \in Deliveries : turns'[a].pc \in InLanePc =>
          turns'[a].ahead = turns[a].ahead \/ \A x \in turns[a].ahead : Over(x)
    OBVIOUS
  <2> QED
    BY <2>1, <2>3, <2>4
<1>14. CutFirst'
  <2>1. Cut \subseteq Cut' /\ Cut' = lost' \cup late'
    BY DEF Cut
  <2>2. CutTurns'
    <3> SUFFICES ASSUME NEW c \in Deliveries, Owns(c)'
                 PROVE  /\ turns'[c].pc \in {"done", "lost"} => c \in Cut'
                        /\ turns'[c].pc = "none" => c \in Cut' \/ Swept(c)'
      BY DEF CutTurns
    <3>1. /\ turns[c].pc \in {"done", "lost"} => c \in Cut
          /\ turns[c].pc = "none" => c \in Cut \/ Swept(c)
      BY <1>2 DEF Steady, CutFirst, CutTurns
    <3> QED
      BY <2>1, <3>1
  <2>3. ASSUME NEW e \in Events, Redeliverable(e)', rows[e].attempts > 0
        PROVE  <<e, rows[e].attempts>> \in Cut'
    <3>1. CASE Same(e)
      <4>1. Redeliverable(e)
        BY <2>3, <3>1 DEF Same, Redeliverable
      <4> QED
        BY <2>1, <2>3, <4>1 DEF Steady, CutFirst, CutNow
    <3>2. CASE ~Same(e)
      <4>1. e = d[1] /\ Leaves(e) /\ Owns(d)
        BY <3>2 DEF Same
      <4>2. rows'[e].status = "pending" /\ d = <<e, rows[e].attempts>>
        BY <1>0, <2>3, <4>1, OwnsIs DEF Redeliverable, Leaves
      <4> QED
        BY <2>1, <4>1, <4>2
    <3> QED
      BY <3>1, <3>2
  <2> QED
    BY <1>0, <1>1, <2>1, <2>2, <2>3, CutKeeps DEF Steady
<1>15. Counted'
  BY <1>0, <1>1, CountedKeeps DEF Steady
<1> QED
  BY <1>6, <1>7, <1>8, <1>9, <1>10, <1>11, <1>12, <1>13, <1>14, <1>15 DEF Steady, Rely

LEMMA OwnTurnKeeps ==
  ASSUME Steady, TypeOK', NEW d \in Deliveries, UNCHANGED <<proc, sweep, late>>,
         turns[d].pc \in Working,
         NEW t, turns' = [turns EXCEPT ![d] = t],
         t.pc \in {"ready", "model", "ok", "bad", "done"}, t.ahead = {}, t.at = turns[d].at,
         t.superseded => turns[d].superseded,
         t.pc \in InLanePc =>
           /\ turns[d].pc \in InLanePc /\ t.superseded = turns[d].superseded
           /\ \A x \in turns[d].ahead : Over(x),
         lost \subseteq lost', excused \subseteq excused', excused' \subseteq excused \cup {d},
         NEW r, rows' = [rows EXCEPT ![d[1]] = r], r.attempts = rows[d[1]].attempts,
         \/ r.status = rows[d[1]].status /\ r.age \in {rows[d[1]].age, "fresh"}
         \/ r.status \in {"pending", "acked", "failed"} /\ Owns(d) /\ t.pc = "done",
         r.status = "pending" /\ Owns(d) => d \in lost',
         \/ turns[d].pc \in AtWorkPc
         \/ d \in excused'
         \/ t.pc = "done"
         \/ Owns(d) /\ r.age = "fresh",
         t.pc = "done" /\ r.status = "delivered" /\ Owns(d) => d \in lost' \cup late
  PROVE  Steady'
<1>0. TypeOK /\ SweptIsNew /\ d[1] \in Events
  BY Parts DEF Steady, Rely
<1>1. turns'[d] = t /\ \A c \in Deliveries \ {d} : turns'[c] = turns[c]
  BY <1>0 DEF TypeOK
<1>2. rows'[d[1]] = r /\ \A e \in Events \ {d[1]} : rows'[e] = rows[e]
  BY <1>0, RowAt
<1>3. \A e \in Events : rows'[e].attempts = rows[e].attempts
  BY <1>2
<1>4. Room' /\ Sweeps'
  <2>1. \A e \in Events : Rescuers(e)' \subseteq Rescuers(e)
    BY DEF Rescuers
  <2> QED
    BY <1>0, <1>3, <2>1, RoomKeeps DEF Steady, Sweeps, Alive
<1>5. \A c \in Deliveries : Swept(c)' <=> Swept(c)
  BY DEF Swept
<1>6. ~Swept(d)'
  BY <1>0, <1>5 DEF SweptIsNew, Working
<1>7. Same(d[1]) \/ (Leaves(d[1]) /\ Owns(d) /\ turns'[d].pc = "done")
  BY <1>0, <1>1, <1>2 DEF Same, Leaves
<1>8. Holder(d)' => Holder(d) \/ (Owns(d) /\ rows'[d[1]].age = "fresh")
  BY <1>1, <1>2 DEF Holder, AtWorkPc
<1>9. Owns(d)' /\ turns'[d].pc = "done" => d \in lost' \cup late'
  <2> SUFFICES ASSUME Owns(d)', turns'[d].pc = "done" PROVE d \in lost' \cup late'
    OBVIOUS
  <2>1. r.status = "delivered" /\ rows[d[1]].attempts = d[2]
    BY <1>2, OwnsIs
  <2>2. Owns(d)
    BY <1>0, <2>1, OwnsIs
  <2> QED
    BY <1>1, <2>1, <2>2
<1>10. turns[d].pc # "none" /\ \A p \in Procs : sweep'[p] = sweep[p]
  BY DEF Working
<1>11. late' \cup excused' \subseteq late \cup excused \cup {d}
  OBVIOUS
<1>12. rows'[d[1]].status = "pending" /\ Owns(d) => d \in lost'
  BY <1>2
<1>13. turns'[d].pc \in InLanePc =>
         /\ turns[d].pc \in InLanePc /\ turns'[d].superseded = turns[d].superseded
         /\ turns'[d].ahead = turns[d].ahead \/ \A x \in turns[d].ahead : Over(x)
  BY <1>1
<1> QED
  BY <1>1, <1>2, <1>4, <1>5, <1>6, <1>7, <1>8, <1>9, <1>10, <1>11, <1>12, <1>13, TurnMoveKeeps

(* A delivery that is handed back.                                           *)
LEMMA HandedBackIs ==
  ASSUME TypeOK, NEW d \in Deliveries, HandBack(d)
  PROVE  \E r \in Row :
           /\ rows' = [rows EXCEPT ![d[1]] = r] /\ r.attempts = rows[d[1]].attempts
           /\ IF Owns(d) THEN r.status = "pending" ELSE r = rows[d[1]]
<1>1. d[1] \in Events /\ rows[d[1]] \in Row /\ rows = [rows EXCEPT ![d[1]] = rows[d[1]]]
  BY Parts, RowTyped DEF TypeOK
<1>2. CASE Owns(d)
  <2>1. /\ TakenBack(rows[d[1]]) \in Row /\ TakenBack(rows[d[1]]).status = "pending"
        /\ TakenBack(rows[d[1]]).attempts = rows[d[1]].attempts
    BY <1>1, TakenBackIs
  <2>2. rows' = [rows EXCEPT ![d[1]] = TakenBack(rows[d[1]])]
    BY <1>2 DEF HandBack
  <2> QED
    BY <1>2, <2>1, <2>2
<1>3. CASE ~Owns(d)
  BY <1>1, <1>3 DEF HandBack
<1> QED
  BY <1>2, <1>3

LEMMA GivenUpKeeps ==
  ASSUME Steady, TypeOK', NEW d \in Deliveries, turns[d].pc \in Working, HandBack(d),
         NEW t, turns' = [turns EXCEPT ![d] = t],
         t.pc = "done", t.ahead = {}, t.at = turns[d].at, ~t.superseded,
         lost' = lost \cup {d}, UNCHANGED <<proc, sweep, late, excused>>
  PROVE  Steady'
<1>1. PICK r \in Row :
        /\ rows' = [rows EXCEPT ![d[1]] = r] /\ r.attempts = rows[d[1]].attempts
        /\ IF Owns(d) THEN r.status = "pending" ELSE r = rows[d[1]]
  BY HandedBackIs DEF Steady
<1> QED
  BY <1>1, OwnTurnKeeps DEF InLanePc

LEMMA MovesKeep ==
  ASSUME Steady, TypeOK', NEW d \in Deliveries,
         \/ Start(d) \/ StartUnchecked(d) \/ Begin(d) \/ RunSucceeds(d) \/ RunFails(d)
         \/ Settle(d) \/ SettleFails(d) \/ Overstays(d)
  PROVE  Steady'
<1>0. /\ TypeOK /\ HoldersOwn /\ SweptIsNew /\ Superseded /\ Started
      /\ d[1] \in Events /\ rows[d[1]] \in Row /\ turns[d] \in Turn
      /\ rows = [rows EXCEPT ![d[1]] = rows[d[1]]]
      /\ Done(turns[d]).pc = "done" /\ Done(turns[d]).at = turns[d].at
      /\ Done(turns[d]).ahead = {} /\ ~Done(turns[d]).superseded
  BY Parts, RowTyped, TurnOf, TurnsAre DEF Steady, Rely, TypeOK
<1>a. ASSUME NEW s \in {"model", "ok", "bad"}, turns' = [turns EXCEPT ![d].pc = s],
             s = "model" => turns[d].pc \in InLanePc,
             turns[d].pc \in {"ready", "model"},
             UNCHANGED <<rows, proc, sweep, late, lost, excused>>
      PROVE  Steady'
  <2> DEFINE t == [turns[d] EXCEPT !.pc = s]
  <2>1. turns' = [turns EXCEPT ![d] = t] /\ UNCHANGED <<proc, sweep, late>>
    BY <1>a
  <2>2. t.pc = s /\ t.ahead = {} /\ t.at = turns[d].at /\ t.superseded = turns[d].superseded
    BY <1>0, <1>a DEF Turn, Started
  <2> HIDE DEF t
  <2>3. turns[d].pc \in Working /\ turns[d].pc \in AtWorkPc /\ turns[d].ahead = {}
    BY <1>0, <1>a DEF Working, AtWorkPc, Started
  <2>4. t.pc \in InLanePc => turns[d].pc \in InLanePc
    BY <1>a, <2>2 DEF InLanePc
  <2>5. rows' = [rows EXCEPT ![d[1]] = rows[d[1]]] /\ t.pc # "done" /\ t.pc \in {"model", "ok", "bad"}
    BY <1>0, <1>a, <2>2
  <2>6. rows[d[1]].status = "pending" => ~Owns(d)
    BY DEF Owns
  <2>7. /\ \A x \in turns[d].ahead : Over(x)
        /\ t.superseded => turns[d].superseded
        /\ lost \subseteq lost' /\ excused \subseteq excused' /\ excused' \subseteq excused \cup {d}
    BY <1>a, <2>2, <2>3
  <2> QED
    BY <2>1, <2>2, <2>3, <2>4, <2>5, <2>6, <2>7, OwnTurnKeeps
<1>1. CASE Start(d)
  <2>1. turns[d].pc = "queued" /\ \A x \in turns[d].ahead : Over(x)
    BY <1>1 DEF Start, MayStart
  <2>2. CASE ~turns[d].superseded /\ StillOurs(d)
    <3> DEFINE r == [rows[d[1]] EXCEPT !.age = "fresh", !.restarted = TRUE]
               t == [turns[d] EXCEPT !.pc = "ready", !.ahead = {}]
    <3>1. /\ rows' = [rows EXCEPT ![d[1]] = r] /\ turns' = [turns EXCEPT ![d] = t] /\ Owns(d)
          /\ UNCHANGED <<proc, sweep, late, lost, excused>>
      BY <1>1, <2>2 DEF Start, StillOurs
    <3>2. r.status = rows[d[1]].status /\ r.attempts = rows[d[1]].attempts /\ r.age = "fresh"
      BY <1>0 DEF Row
    <3>3. r.status = "delivered"
      BY <3>1, <3>2 DEF Owns
    <3>4. t.pc = "ready" /\ t.ahead = {} /\ t.at = turns[d].at /\ t.superseded = turns[d].superseded
      BY <1>0 DEF Turn
    <3> HIDE DEF r, t
    <3> QED
      BY <1>0, <2>1, <3>1, <3>2, <3>3, <3>4, OwnTurnKeeps DEF Working, InLanePc
  <2>3. CASE ~(~turns[d].superseded /\ StillOurs(d))
    <3>1. /\ turns' = [turns EXCEPT ![d] = Done(turns[d])]
          /\ UNCHANGED <<rows, proc, sweep, late, lost, excused>>
      BY <1>1, <2>3 DEF Start
    <3>2. ~Owns(d)
      BY <1>0, <2>3 DEF Superseded, StillOurs
    <3> QED
      BY <1>0, <2>1, <3>1, <3>2, OwnTurnKeeps DEF Working, InLanePc
  <2> QED
    BY <2>2, <2>3
<1>2. CASE StartUnchecked(d)
  <2> DEFINE t == [turns[d] EXCEPT !.pc = "ready", !.ahead = {}]
  <2>1. /\ turns[d].pc = "queued" /\ \A x \in turns[d].ahead : Over(x)
        /\ turns' = [turns EXCEPT ![d] = t] /\ excused' = excused \cup {d}
        /\ UNCHANGED <<rows, proc, sweep, late, lost>>
    BY <1>2 DEF StartUnchecked, MayStart
  <2>2. t.pc = "ready" /\ t.ahead = {} /\ t.at = turns[d].at /\ t.superseded = turns[d].superseded
    BY <1>0 DEF Turn
  <2> HIDE DEF t
  <2>3. rows' = [rows EXCEPT ![d[1]] = rows[d[1]]] /\ d \in excused'
    BY <1>0, <2>1
  <2>4. rows[d[1]].status = "pending" => ~Owns(d)
    BY DEF Owns
  <2> QED
    BY <2>1, <2>2, <2>3, <2>4, OwnTurnKeeps DEF Working, InLanePc
<1>3. CASE Begin(d)
  <2>1. CASE proc[turns[d].at] = "up"
    BY <1>a, <1>3, <2>1 DEF Begin, InLanePc
  <2>2. CASE proc[turns[d].at] # "up"
    <3>1. /\ turns[d].pc \in Working /\ HandBack(d) /\ turns' = [turns EXCEPT ![d] = Done(turns[d])]
          /\ lost' = lost \cup {d} /\ UNCHANGED <<proc, sweep, late, excused>>
      BY <1>3, <2>2 DEF Begin, Working
    <3> QED
      BY <1>0, <3>1, GivenUpKeeps
  <2> QED
    BY <2>1, <2>2
<1>4. CASE RunSucceeds(d)
  BY <1>a, <1>4 DEF RunSucceeds
<1>5. CASE RunFails(d)
  BY <1>a, <1>5 DEF RunFails
<1>6. CASE Settle(d)
  <2>1. /\ turns[d].pc \in {"ok", "bad"} /\ turns' = [turns EXCEPT ![d] = Done(turns[d])]
        /\ UNCHANGED <<proc, sweep, late, lost, excused>>
    BY <1>6 DEF Settle
  <2>2. Settles(d) <=> Owns(d)
    <3>1. /\ d[2] \in 1 .. Ceiling
          /\ rows[d[1]].nonce = IF rows[d[1]].status = "delivered" THEN rows[d[1]].attempts ELSE NoNonce
      BY <1>0, Parts, RowTyped
    <3> QED
      BY <3>1 DEF Settles, Owns, NoNonce
  <2>3. CASE Owns(d)
    <3>1. Verdict(d) \in Final
      BY DEF Verdict, Final
    <3> DEFINE r == Ended(rows[d[1]], Verdict(d))
    <3>2. rows' = [rows EXCEPT ![d[1]] = r]
      BY <1>6, <2>2, <2>3 DEF Settle
    <3>3. r.status \in {"acked", "failed"} /\ r.attempts = rows[d[1]].attempts
      BY <1>0, <3>1, EndedIs DEF Final
    <3> HIDE DEF r
    <3> QED
      BY <1>0, <2>1, <2>3, <3>2, <3>3, OwnTurnKeeps DEF Working, InLanePc
  <2>4. CASE ~Owns(d)
    <3>1. rows' = [rows EXCEPT ![d[1]] = rows[d[1]]]
      BY <1>0, <1>6, <2>2, <2>4 DEF Settle
    <3> QED
      BY <1>0, <2>1, <2>4, <3>1, OwnTurnKeeps DEF Working, InLanePc
  <2> QED
    BY <2>3, <2>4
<1>7. CASE SettleFails(d)
  <2>1. /\ turns[d].pc \in {"ok", "bad"} /\ turns' = [turns EXCEPT ![d] = Done(turns[d])]
        /\ lost' = lost \cup {d} /\ UNCHANGED <<rows, proc, sweep, late, excused>>
    BY <1>7 DEF SettleFails
  <2> QED
    BY <1>0, <2>1, OwnTurnKeeps DEF Working, InLanePc
<1>8. CASE Overstays(d)
  <2>1. /\ turns[d].pc \in {"ready", "model", "ok", "bad"} /\ late' = late \cup {d}
        /\ UNCHANGED <<rows, proc, turns, sweep, lost, excused>>
    BY <1>8 DEF Overstays
  <2>2. Room' /\ Sweeps'
    BY <2>1, <1>0, RoomKeeps DEF Steady, Rescuers, Sweeps, Alive
  <2>3. \A c \in Deliveries : Swept(c)' <=> Swept(c)
    BY <2>1 DEF Swept
  <2>4. ~Swept(d)' /\ Same(d[1])
    BY <1>0, <2>1, <2>3 DEF SweptIsNew, Same
  <2>5. Holder(d)' => Holder(d)
    BY <2>1 DEF Holder
  <2>6. rows[d[1]].status = "pending" => ~Owns(d)
    BY DEF Owns
  <2> QED
    BY <1>0, <2>1, <2>2, <2>3, <2>4, <2>5, <2>6, TurnMoveKeeps
<1> QED
  BY <1>1, <1>2, <1>3, <1>4, <1>5, <1>6, <1>7, <1>8

(* A delivery whose replica no longer takes work is handed back.             *)
LEMMA DispatchRefusedKeeps ==
  ASSUME Steady, TypeOK', NEW d \in Deliveries, Dispatch(d), proc[turns[d].at] # "up"
  PROVE  Steady'
<1> DEFINE t == Done(Born(turns[d].at))
<1>1. /\ turns[d].pc \in Working /\ turns[d].at \in Procs
      /\ HandBack(d) /\ turns' = [turns EXCEPT ![d] = t] /\ lost' = lost \cup {d}
      /\ UNCHANGED <<proc, sweep, late, excused>>
  BY DEF Dispatch, Dispatched, Working, Steady, Placed
<1>2. t.pc = "done" /\ t.ahead = {} /\ t.at = turns[d].at /\ ~t.superseded
  BY <1>1, TurnsAre
<1> HIDE DEF t
<1> QED
  BY <1>1, <1>2, GivenUpKeeps

(* A sweep that claimed an event, and nothing else relies on its row.        *)
LEMMA ResumedIs ==
  ASSUME Steady, TypeOK', NEW p \in Procs, sweep[p].pc = "claimed",
         NEW d \in Deliveries, d = <<sweep[p].ev, sweep[p].nonce>>,
         sweep' = [sweep EXCEPT ![p] = Resting], proc' = proc,
         \A e \in Events : /\ rows'[e].attempts = rows[e].attempts
                           /\ rows'[e].status = "none" => rows[e].status = "none"
  PROVE  /\ Swept(d) /\ Owns(d) /\ rows[d[1]].age = "fresh" /\ turns[d].pc = "none"
         /\ Sweeps' /\ Room' /\ ~Swept(d)'
         /\ \A q \in Procs : sweep'[q].pc = "claimed" => sweep'[q] = sweep[q]
         /\ \A c \in Deliveries \ {d} : Swept(c) => Swept(c)'
<1>0. TypeOK /\ SweepOK /\ HoldersOwn /\ SweptOnce /\ SweptIsNew
  BY DEF Steady, SweepOK, Rely
<1>1. Swept(d)
  BY DEF Swept
<1>2. Owns(d) /\ rows[d[1]].age = "fresh" /\ turns[d].pc = "none"
  BY <1>0, <1>1 DEF HoldersOwn, SweptIsNew
<1>3. Sweeps' /\ Room'
  BY <1>0, SweepRests
<1>4. sweep'[p] = Resting /\ \A q \in Procs \ {p} : sweep'[q] = sweep[q]
  BY <1>0 DEF TypeOK
<1>5. ~Swept(d)'
  <2>1. ASSUME NEW q \in Procs, sweep'[q].pc = "claimed", sweep'[q].ev = d[1]
        PROVE  FALSE
    <3>1. q # p
      BY <1>4, <2>1, RestingIs
    <3> QED
      BY <1>0, <1>4, <2>1, <3>1 DEF SweptOnce
  <2> QED
    BY <2>1 DEF Swept
<1>6. ASSUME NEW c \in Deliveries \ {d}, Swept(c) PROVE Swept(c)'
  <2>1. PICK q \in Procs : sweep[q].pc = "claimed" /\ sweep[q].ev = c[1] /\ sweep[q].nonce = c[2]
    BY <1>6 DEF Swept
  <2>2. q # p
    BY <2>1, Parts
  <2> QED
    BY <1>4, <2>1, <2>2 DEF Swept
<1> QED
  BY <1>1, <1>2, <1>3, <1>4, <1>5, <1>6, RestingIs

LEMMA ResumeRefusedKeeps ==
  ASSUME Steady, TypeOK', NEW p \in Procs, sweep[p].pc = "claimed", proc[p] # "up",
         NEW d \in Deliveries, d = <<sweep[p].ev, sweep[p].nonce>>, Dispatched(p, d),
         sweep' = [sweep EXCEPT ![p] = Resting], UNCHANGED <<proc, late, excused>>
  PROVE  Steady'
<1> DEFINE t == Done(Born(p))
<1>0. TypeOK /\ d[1] \in Events
  BY Parts DEF Steady
<1>1. HandBack(d) /\ turns' = [turns EXCEPT ![d] = t] /\ lost' = lost \cup {d}
  BY DEF Dispatched
<1>2. t.pc = "done" /\ t.ahead = {} /\ ~t.superseded
  BY TurnsAre
<1> HIDE DEF t
<1>3. PICK r \in Row :
        /\ rows' = [rows EXCEPT ![d[1]] = r] /\ r.attempts = rows[d[1]].attempts
        /\ IF Owns(d) THEN r.status = "pending" ELSE r = rows[d[1]]
  BY <1>0, <1>1, HandedBackIs
<1>4. rows'[d[1]] = r /\ \A e \in Events \ {d[1]} : rows'[e] = rows[e]
  BY <1>0, <1>3, RowAt
<1>5. \A e \in Events : /\ rows'[e].attempts = rows[e].attempts
                        /\ rows'[e].status = "none" => rows[e].status = "none"
  BY <1>3, <1>4
<1>6. /\ Swept(d) /\ Owns(d) /\ turns[d].pc = "none" /\ Sweeps' /\ Room' /\ ~Swept(d)'
      /\ \A q \in Procs : sweep'[q].pc = "claimed" => sweep'[q] = sweep[q]
      /\ \A c \in Deliveries \ {d} : Swept(c) => Swept(c)'
  BY <1>5, ResumedIs
<1>7. turns'[d] = t /\ \A c \in Deliveries \ {d} : turns'[c] = turns[c]
  BY <1>0, <1>1 DEF TypeOK
<1>8. Leaves(d[1])
  BY <1>3, <1>4, <1>6 DEF Leaves
<1>9. ~Holder(d)' /\ turns'[d].pc \notin Working /\ turns'[d].pc \notin InLanePc
  BY <1>2, <1>7 DEF Holder, AtWorkPc, Working, InLanePc
<1>10. d \in lost' /\ lost \subseteq lost'
  BY <1>1
<1> QED
  BY <1>2, <1>4, <1>6, <1>7, <1>8, <1>9, <1>10, TurnMoveKeeps

-------------------------------------------------------------------------------
(* A turn enters its lane.                                                   *)
LEMMA EnterKeeps ==
  ASSUME Steady, TypeOK', Room', Sweeps', NEW p \in Procs, proc[p] = "up", NEW d \in Deliveries,
         (turns[d].pc = "born" /\ turns[d].at = p) \/ (turns[d].pc = "none" /\ Swept(d)),
         ~Swept(d)', \A q \in Procs : sweep'[q].pc = "claimed" => sweep'[q] = sweep[q],
         \A c \in Deliveries \ {d} : Swept(c) => Swept(c)',
         turns' = Entered(p, d), UNCHANGED <<rows, proc, lost, late, excused>>
  PROVE  Steady'
<1>0. /\ TypeOK /\ HoldersOwn /\ SweptOnce /\ SweptIsNew /\ Known /\ Superseded /\ Started /\ Placed
      /\ \A c \in Deliveries : c[1] \in Events /\ c[2] \in Nat /\ rows[c[1]].attempts \in Nat
  BY Parts, RowTyped, Bounds DEF Steady, Rely
<1> DEFINE ahead == Lane(p) \ Before(p, d)
<1>1. /\ \A x \in Deliveries \ {d} :
           /\ turns'[x].pc = turns[x].pc /\ turns'[x].at = turns[x].at
           /\ turns'[x].ahead = turns[x].ahead
           /\ turns'[x].superseded <=> turns[x].superseded \/ x \in Before(p, d)
      /\ turns'[d].pc = IF ahead = {} THEN "ready" ELSE "queued"
      /\ turns'[d].at = p /\ turns'[d].ahead = ahead /\ ~turns'[d].superseded
  BY <1>0, EnteredIs
<1> HIDE DEF ahead
<1>2. d \notin late \cup excused /\ Owns(d) /\ rows[d[1]].age = "fresh"
  BY <1>0 DEF Started, HoldersOwn, Holder, AtWorkPc
<1>3. \A c \in Deliveries : c[1] = d[1] /\ Owns(c) => c = d
  BY <1>0, <1>2, OwnsIs, Parts
<1>4. \A c \in Deliveries : (Swept(c)' => Swept(c)) /\ (Owns(c)' <=> Owns(c))
  BY DEF Swept, Owns
<1>5. HoldersOwn'
  <2> SUFFICES ASSUME NEW c \in Deliveries, Holder(c)' \/ Swept(c)'
               PROVE  Owns(c)' /\ rows'[c[1]].age = "fresh"
    BY DEF HoldersOwn
  <2>1. c # d => Holder(c) \/ Swept(c)
    BY <1>1, <1>4 DEF Holder
  <2> QED
    BY <1>0, <1>2, <1>4, <2>1 DEF HoldersOwn
<1>6. SweptOnce' /\ SweptIsNew'
  BY <1>0, <1>1, <1>4 DEF SweptOnce, SweptIsNew
<1>7. Known'
  <2>1. d[2] = rows[d[1]].attempts
    BY <1>0, <1>2, OwnsIs
  <2> QED
    BY <1>0, <1>1, <2>1 DEF Known
<1>8. Superseded'
  BY <1>0, <1>1, <1>3, <1>4 DEF Superseded, Before
<1>9. \A c \in Before(p, d) : turns[c].pc \notin {"none", "born"}
  <2> SUFFICES ASSUME NEW c \in Before(p, d), turns[c].pc \in {"none", "born"} PROVE FALSE
    OBVIOUS
  <2>1. c \in Deliveries /\ c # d /\ c[1] = d[1] /\ turns[c].at = p
    BY DEF Before
  <2>2. CASE turns[c].pc = "none"
    <3>1. turns[c] = NoTurn
      BY <1>0, <2>1, <2>2 DEF Placed
    <3> QED
      BY <2>1, <3>1, TurnConstants DEF NoTurn
  <2>3. CASE turns[c].pc = "born"
    <3>1. Owns(c)
      BY <1>0, <2>1, <2>3 DEF Started, Holder, AtWorkPc, HoldersOwn
    <3> QED
      BY <1>3, <2>1, <3>1
  <2> QED
    BY <2>2, <2>3
<1>10. Started'
  <2> SUFFICES ASSUME NEW c \in Deliveries
               PROVE  /\ turns'[c].pc \in {"none", "born"} =>
                           c \notin late \cup excused /\ ~turns'[c].superseded
                      /\ turns'[c].pc # "queued" => turns'[c].ahead = {}
    BY DEF Started
  <2>1. CASE c = d
    BY <1>1, <2>1
  <2>2. CASE c # d
    BY <1>0, <1>1, <1>9, <2>2 DEF Started
  <2> QED
    BY <2>1, <2>2
<1>11. Placed'
  <2> SUFFICES ASSUME NEW c \in Deliveries
               PROVE  /\ turns'[c].pc \in Working =>
                           /\ turns'[c].at \in Procs
                           /\ proc[turns'[c].at] \in {"up", "draining", "deadline"}
                      /\ turns'[c].pc = "lost" /\ turns'[c].at \in Procs => proc[turns'[c].at] = "down"
                      /\ turns'[c].pc = "none" => turns'[c] = NoTurn
    BY DEF Placed, Alive
  <2>1. CASE c = d
    BY <1>1, <2>1
  <2>2. CASE c # d /\ turns'[c].pc # "none"
    BY <1>0, <1>1, <2>2 DEF Placed, Alive
  <2>3. CASE c # d /\ turns'[c].pc = "none"
    <3>1. c \notin Before(p, d) /\ turns[c] = NoTurn
      BY <1>0, <1>1, <1>9, <2>3 DEF Placed
    <3>2. turns'[c] \in Turn /\ turns[c] \in Turn
      BY <1>0 DEF TypeOK
    <3>3. turns'[c].superseded = turns[c].superseded
      BY <1>1, <2>3, <3>1, <3>2 DEF Turn
    <3>4. \A t \in Turn : t = [pc |-> t.pc, at |-> t.at, ahead |-> t.ahead,
                             superseded |-> t.superseded]
      BY DEF Turn
    <3>5. /\ turns'[c].pc = turns[c].pc /\ turns'[c].at = turns[c].at
          /\ turns'[c].ahead = turns[c].ahead
      BY <1>1, <2>3
    <3>6. turns'[c] = turns[c]
      BY <3>2, <3>3, <3>4, <3>5
    <3> QED
      BY <2>3, <3>1, <3>6 DEF Working
  <2> QED
    BY <2>1, <2>2, <2>3
<1>12. InOrder'
  <2>1. \A c \in Deliveries \ {d} : Over(c) => Over(c)'
    BY <1>1 DEF Over, Released
  <2>2. ASSUME NEW c \in Deliveries \ {d}, turns'[c].at = p, turns'[c].pc \in InLanePc, ~Over(c)'
        PROVE  c \in turns'[d].ahead
    <3>1. c \in Lane(p)
      BY <1>1, <2>1, <2>2 DEF Lane, InLanePc
    <3>2. c \notin Before(p, d)
      BY <1>1, <2>2 DEF Over, Released
    <3> QED
      BY <1>1, <3>1, <3>2 DEF ahead
  <2> SUFFICES ASSUME NEW b \in Deliveries, NEW c \in Deliveries, b # c, turns'[b].at = turns'[c].at,
                      turns'[b].pc \in InLanePc, turns'[c].pc \in InLanePc, ~Over(b)', ~Over(c)'
               PROVE  b \in turns'[c].ahead \/ c \in turns'[b].ahead
    BY DEF InOrder
  <2>3. CASE b = d \/ c = d
    BY <1>1, <2>2, <2>3
  <2>4. CASE b # d /\ c # d
    BY <1>1, <2>1, <2>4 DEF Steady, InOrder
  <2> QED
    BY <2>3, <2>4
<1>13. CutFirst'
  <2>1. Cut' = Cut
    BY DEF Cut
  <2>2. CutBefore' /\ CutNow'
    BY <2>1 DEF Steady, CutFirst, CutBefore, CutNow, Redeliverable
  <2>3. CutTurns'
    BY <1>1, <1>4, <2>1 DEF Steady, CutFirst, CutTurns
  <2> QED
    BY <2>2, <2>3 DEF CutFirst
<1>14. Counted'
  BY DEF Steady, Counted
<1> QED
  BY <1>5, <1>6, <1>7, <1>8, <1>10, <1>11, <1>12, <1>13, <1>14 DEF Steady, Rely

LEMMA DispatchKeeps ==
  ASSUME Steady, TypeOK', NEW d \in Deliveries, Dispatch(d)
  PROVE  Steady'
<1>1. CASE proc[turns[d].at] = "up"
  <2>1. PICK p \in Procs : p = turns[d].at
    BY DEF Dispatch, Steady, Placed, Working
  <2>2. /\ turns[d].pc = "born" /\ turns' = Entered(p, d)
        /\ UNCHANGED <<rows, lost, proc, sweep, late, excused>>
    BY <1>1, <2>1 DEF Dispatch, Dispatched
  <2>3. \A c \in Deliveries : Swept(c)' <=> Swept(c)
    BY <2>2 DEF Swept
  <2>4. ~Swept(d)'
    BY <2>2, <2>3 DEF Steady, Rely, SweptIsNew
  <2>5. Room' /\ Sweeps'
    BY <2>2 DEF Steady, Room, Rescuers, Sweeps, Alive
  <2> QED
    BY <1>1, <2>1, <2>2, <2>3, <2>4, <2>5, EnterKeeps
<1>2. CASE proc[turns[d].at] # "up"
  BY <1>2, DispatchRefusedKeeps
<1> QED
  BY <1>1, <1>2

LEMMA ResumeKeeps ==
  ASSUME Steady, TypeOK', NEW p \in Procs, Resume(p)
  PROVE  Steady'
<1>1. PICK d \in Deliveries : d = <<sweep[p].ev, sweep[p].nonce>>
  BY Parts DEF Resume, Steady, Sweeps
<1>2. /\ sweep[p].pc = "claimed" /\ sweep' = [sweep EXCEPT ![p] = Resting]
      /\ UNCHANGED <<proc, late, excused>>
  BY DEF Resume
<1>3. CASE sweep[p].finished
  <2>1. /\ rows' = IF Settles(d) THEN [rows EXCEPT ![d[1]] = Ended(rows[d[1]], "acked")] ELSE rows
        /\ UNCHANGED <<turns, lost>>
    BY <1>1, <1>3 DEF Resume
  <2> QED
    BY <1>1, <1>2, <2>1, ResumeEndsKeeps
<1>4. CASE ~sweep[p].finished
  <2>1. Dispatched(p, d)
    BY <1>1, <1>4 DEF Resume
  <2>2. CASE proc[p] = "up"
    <3>1. turns' = Entered(p, d) /\ UNCHANGED <<rows, lost>>
      BY <2>1, <2>2 DEF Dispatched
    <3> QED
      BY <1>1, <1>2, <2>2, <3>1, ResumedIs, EnterKeeps
  <2>3. CASE proc[p] # "up"
    BY <1>1, <1>2, <2>1, <2>3, ResumeRefusedKeeps
  <2> QED
    BY <2>2, <2>3
<1> QED
  BY <1>3, <1>4

(* An event is born claimed.                                                 *)
LEMMA EnqueueKeeps ==
  ASSUME Steady, TypeOK', NEW e \in Events, NEW p \in Procs, Enqueue(e, p)
  PROVE  Steady'
<1>0. /\ TypeOK /\ HoldersOwn /\ SweptOnce /\ SweptIsNew /\ Known /\ Superseded /\ Started /\ Placed
      /\ Counted /\ CutFirst /\ Room /\ Sweeps
      /\ \A c \in Deliveries : c[1] \in Events /\ c[2] \in Nat /\ rows[c[1]].attempts \in Nat
  BY Parts, RowTyped, Bounds DEF Steady, Rely
<1>1. PICK d \in Deliveries : d = <<e, 1>> /\ d[1] = e /\ d[2] = 1
  BY Bounds, Parts
<1>2. /\ rows[e].status = "none" /\ rows[e].attempts = 0 /\ proc[p] = "up"
      /\ rows' = [rows EXCEPT ![e] = Claimed(rows[e])]
      /\ turns' = [turns EXCEPT ![d] = Born(p)]
      /\ UNCHANGED <<proc, sweep, late, lost, excused>>
  BY <1>0, <1>1 DEF Enqueue, Counted
<1>3. /\ rows'[e] = Claimed(rows[e]) /\ \A x \in Events \ {e} : rows'[x] = rows[x] /\ Same(x)
  BY <1>0, <1>2, RowAt
<1>4. /\ Claims(e) /\ rows'[e].attempts = 1
  <2>1. rows[e] \in Row /\ rows[e].attempts < Ceiling
    BY <1>0, <1>2, RowTyped, Bounds
  <2>2. /\ Claimed(rows[e]).status = "delivered" /\ Claimed(rows[e]).age = "fresh"
        /\ Claimed(rows[e]).attempts = rows[e].attempts + 1
    BY <2>1, ClaimedIs
  <2> QED
    BY <1>2, <1>3, <2>2 DEF Claims
<1>5. RowsStep
  BY <1>3, <1>4 DEF RowsStep
<1>6. /\ turns'[d].pc = "born" /\ turns'[d].at = p /\ turns'[d].ahead = {} /\ ~turns'[d].superseded
      /\ \A c \in Deliveries \ {d} : turns'[c] = turns[c]
  <2>1. turns'[d] = Born(p) /\ \A c \in Deliveries \ {d} : turns'[c] = turns[c]
    BY <1>0, <1>2 DEF TypeOK
  <2> QED
    BY <2>1, TurnsAre
<1>7. \A c \in Deliveries : c[1] = e => ~Owns(c) /\ ~Holder(c) /\ ~Swept(c) /\ turns[c].pc = "none"
  <2> SUFFICES ASSUME NEW c \in Deliveries, c[1] = e
               PROVE  ~Owns(c) /\ turns[c].pc = "none"
    BY <1>0 DEF HoldersOwn
  <2>1. c[2] > 0
    BY Parts, Bounds
  <2> QED
    BY <1>0, <1>2, <2>1 DEF Known, Owns
<1>8. d \notin late \cup excused
  BY <1>0, <1>1, <1>7 DEF Started
<1>9. \A c \in Deliveries : Swept(c)' <=> Swept(c)
  BY <1>2 DEF Swept
<1>10. Owns(d)' /\ rows'[e].age = "fresh"
  BY <1>1, <1>4, OwnsIs DEF Claims
<1>11. \A c \in Deliveries : c[1] # e => (Owns(c)' <=> Owns(c))
  BY <1>0, <1>3 DEF Owns
<1>12. HoldersOwn'
  <2> SUFFICES ASSUME NEW c \in Deliveries, Holder(c)' \/ Swept(c)'
               PROVE  Owns(c)' /\ rows'[c[1]].age = "fresh"
    BY DEF HoldersOwn
  <2>1. CASE c = d
    BY <1>1, <1>10, <2>1
  <2>2. CASE c # d
    <3>1. Holder(c) \/ Swept(c)
      BY <1>2, <1>6, <1>9, <2>2 DEF Holder
    <3>2. c[1] # e
      BY <1>7, <3>1
    <3> QED
      BY <1>0, <1>3, <1>11, <3>1, <3>2 DEF HoldersOwn
  <2> QED
    BY <2>1, <2>2
<1>13. SweptOnce' /\ SweptIsNew'
  <2>1. ~Swept(d)
    BY <1>1, <1>7
  <2> QED
    BY <1>0, <1>2, <1>6, <1>9, <2>1 DEF SweptOnce, SweptIsNew
<1>14. Known'
  <2>1. \A c \in Deliveries : turns'[c].pc # "none" => turns[c].pc # "none" \/ c[2] = rows'[c[1]].attempts
    BY <1>1, <1>4, <1>6
  <2> QED
    BY <1>0, <1>5, <2>1, KnownKeeps
<1>15. Superseded'
  <2>1. \A c \in Deliveries : turns'[c].superseded => turns[c].superseded
    BY <1>6
  <2> QED
    BY <1>0, <1>5, <2>1, SupersededKeeps
<1>16. Started'
  BY <1>0, <1>2, <1>6, <1>8 DEF Started
<1>17. Placed'
  <2> SUFFICES ASSUME NEW c \in Deliveries
               PROVE  /\ turns'[c].pc \in Working =>
                           /\ turns'[c].at \in Procs
                           /\ proc[turns'[c].at] \in {"up", "draining", "deadline"}
                      /\ turns'[c].pc = "lost" /\ turns'[c].at \in Procs => proc[turns'[c].at] = "down"
                      /\ turns'[c].pc = "none" => turns'[c] = NoTurn
    BY <1>2 DEF Placed, Alive
  <2>1. CASE c = d
    BY <1>2, <1>6, <2>1
  <2>2. CASE c # d
    BY <1>0, <1>6, <2>2 DEF Placed, Alive
  <2> QED
    BY <2>1, <2>2
<1>18. InOrder'
  <2>1. \A c \in Deliveries : turns'[c].pc \in InLanePc =>
          c # d /\ turns'[c] = turns[c] /\ (Over(c)' <=> Over(c))
    BY <1>2, <1>6 DEF InLanePc, Over, Released
  <2> QED
    BY <2>1 DEF Steady, InOrder
<1>19. CutFirst'
  <2>1. Cut' = Cut
    BY <1>2 DEF Cut
  <2>2. CutTurns'
    <3> SUFFICES ASSUME NEW c \in Deliveries, Owns(c)'
                 PROVE  /\ turns'[c].pc \in {"done", "lost"} => c \in Cut'
                        /\ turns'[c].pc = "none" => c \in Cut' \/ Swept(c)'
      BY DEF CutTurns
    <3>1. CASE c = d
      BY <1>6, <3>1
    <3>2. CASE c # d
      <4>1. c[1] # e
        <5>1. c[1] = e => c[2] = 1
          BY <1>4, OwnsIs
        <5> QED
          BY <1>1, <3>2, <5>1, Parts
      <4> QED
        BY <1>0, <1>6, <1>9, <1>11, <2>1, <3>2, <4>1 DEF CutFirst, CutTurns
    <3> QED
      BY <3>1, <3>2
  <2>3. ASSUME NEW x \in Events, Claims(x) \/ Redeliverable(x)', rows[x].attempts > 0
        PROVE  <<x, rows[x].attempts>> \in Cut'
    <3>1. x # e
      BY <1>2, <2>3
    <3>2. Redeliverable(x)
      BY <1>3, <2>3, <3>1, RowTyped, <1>0 DEF Redeliverable, Claims
    <3> QED
      BY <1>0, <2>1, <2>3, <3>2 DEF CutFirst, CutNow
  <2> QED
    BY <1>0, <1>5, <2>1, <2>2, <2>3, CutKeeps
<1>20. Counted'
  BY <1>0, <1>5, CountedKeeps
<1>21. Room' /\ Sweeps'
  <2>1. /\ rows'[e].attempts <= Cap /\ rows'[e].status = "delivered"
        /\ \A x \in Events \ {e} : rows'[x] = rows[x]
        /\ \A x \in Events : Rescuers(x)' \subseteq Rescuers(x)
        /\ p \notin Rescuers(e)
    <3>1. rows'[e].attempts <= Cap /\ rows'[e].status = "delivered"
      BY <1>4, Bounds, TurnConstants DEF Claims
    <3>2. Rescuers(e) = {} /\ \A x \in Events : Rescuers(x)' = Rescuers(x)
      BY <1>0, <1>2 DEF Room, Rescuers
    <3> QED
      BY <1>3, <3>1, <3>2
  <2>2. Room'
    BY <1>0, <2>1, RoomKeeps
  <2> QED
    BY <1>0, <1>2, <2>2 DEF Sweeps, Alive
<1> QED
  BY <1>12, <1>13, <1>14, <1>15, <1>16, <1>17, <1>18, <1>19, <1>20, <1>21 DEF Steady, Rely

-------------------------------------------------------------------------------
(* The replicas: turns at work stay or are lost.                             *)
LEMMA RestKeeps ==
  ASSUME Steady, TypeOK', Room', Sweeps', Placed', UNCHANGED <<rows, late, excused>>,
         lost \subseteq lost',
         \A c \in Deliveries : turns'[c].pc \in Working => turns'[c] = turns[c],
         \A c \in Deliveries : turns'[c].pc \notin Working => turns'[c].ahead = {},
         \A c \in Deliveries : turns'[c].superseded => turns[c].superseded,
         \A c \in Deliveries : turns'[c].pc = "none" <=> turns[c].pc = "none",
         \A c \in Deliveries :
           turns'[c].pc \in {"done", "lost"} => turns[c].pc \in {"done", "lost"} \/ c \in lost',
         \A q \in Procs : sweep'[q].pc = "claimed" => sweep'[q] = sweep[q],
         \A c \in Deliveries : Swept(c) => Swept(c)' \/ c \in lost'
  PROVE  Steady'
<1>0. /\ TypeOK /\ HoldersOwn /\ SweptOnce /\ SweptIsNew /\ Known /\ Superseded /\ Started
      /\ Counted /\ CutFirst /\ InOrder
  BY DEF Steady, Rely
<1>1. \A c \in Deliveries : /\ Owns(c)' <=> Owns(c)
                            /\ Swept(c)' => Swept(c)
                            /\ Holder(c)' => Holder(c)
  BY DEF Owns, Swept, Holder, AtWorkPc, Working
<1>2. HoldersOwn'
  BY <1>0, <1>1 DEF HoldersOwn
<1>3. SweptOnce' /\ SweptIsNew'
  BY <1>0, <1>1 DEF SweptOnce, SweptIsNew
<1>4. Known' /\ Superseded'
  BY <1>0, <1>1 DEF Known, Superseded
<1>5. Started'
  BY <1>0 DEF Started, Working
<1>6. InOrder'
  <2>1. \A c \in Deliveries : turns'[c].pc \in InLanePc => turns'[c] = turns[c] /\ (Over(c)' <=> Over(c))
    BY DEF InLanePc, Working, Over, Released
  <2> QED
    BY <1>0, <2>1 DEF InOrder
<1>7. CutFirst'
  <2>1. Cut \subseteq Cut' /\ lost' \subseteq Cut'
    BY DEF Cut
  <2>2. CutBefore' /\ CutNow'
    BY <1>0, <2>1 DEF CutFirst, CutBefore, CutNow, Redeliverable
  <2>3. CutTurns'
    BY <1>0, <1>1, <2>1 DEF CutFirst, CutTurns
  <2> QED
    BY <2>2, <2>3 DEF CutFirst
<1>8. Counted'
  BY <1>0 DEF Counted
<1> QED
  BY <1>2, <1>3, <1>4, <1>5, <1>6, <1>7, <1>8 DEF Steady, Rely

LEMMA HaltedKeeps ==
  ASSUME Steady, TypeOK', NEW p \in Procs, Alive(p), NEW state \in {"down", "exited"},
         Halted(p, state), state = "exited" => Settled(p), UNCHANGED <<rows, late, excused>>
  PROVE  Steady'
<1>0. TypeOK /\ SweepOK /\ Placed /\ Started
  BY DEF Steady, SweepOK, Rely
<1>1. /\ proc' = [proc EXCEPT ![p] = state] /\ lost' = lost \cup AtWork(p)
      /\ sweep' = [sweep EXCEPT ![p] = Resting]
  BY DEF Halted
<1>2. /\ proc'[p] = state /\ \A q \in Procs \ {p} : proc'[q] = proc[q]
      /\ sweep'[p] = Resting /\ \A q \in Procs \ {p} : sweep'[q] = sweep[q]
  BY <1>0, <1>1 DEF TypeOK
<1>3. ASSUME NEW c \in Deliveries
      PROVE  \/ turns'[c] = turns[c] /\ (turns[c].at # p \/ turns[c].pc = "none")
             \/ /\ turns[c].at = p /\ turns[c].pc # "none"
                /\ turns'[c].pc = (IF turns[c].pc = "done" THEN "done" ELSE "lost")
                /\ turns'[c].at = p /\ turns'[c].ahead = {} /\ ~turns'[c].superseded
  <2>1. turns'[c] = IF turns[c].at # p \/ turns[c].pc = "none" THEN turns[c]
                    ELSE [Done(turns[c]) EXCEPT !.pc = IF turns[c].pc = "done" THEN "done" ELSE "lost"]
    BY DEF Halted
  <2>2. CASE turns[c].at # p \/ turns[c].pc = "none"
    BY <2>1, <2>2
  <2>3. CASE ~(turns[c].at # p \/ turns[c].pc = "none")
    <3>1. /\ Done(turns[c]) \in Turn /\ Done(turns[c]).at = turns[c].at
          /\ Done(turns[c]).ahead = {} /\ ~Done(turns[c]).superseded
      BY <1>0, TurnOf, TurnsAre
    <3>2. turns'[c] = [Done(turns[c]) EXCEPT !.pc = IF turns[c].pc = "done" THEN "done" ELSE "lost"]
      BY <2>1, <2>3
    <3> QED
      BY <2>3, <3>1, <3>2 DEF Turn
  <2> QED
    BY <2>2, <2>3
<1>4. \A c \in Deliveries : turns'[c].pc \in Working => turns'[c] = turns[c] /\ turns[c].at # p
  BY <1>0, <1>3 DEF Working
<1>5. ASSUME NEW c \in Deliveries, turns[c].at = p, turns[c].pc # "none"
      PROVE  turns[c].pc \in {"done", "lost"} \/ c \in AtWork(p)
  <2>1. turns[c].pc \in {"born", "queued", "ready", "model", "ok", "bad", "done", "lost"}
    BY <1>0, <1>5, TurnOf DEF Turn
  <2> QED
    BY <1>5, <2>1 DEF AtWork
<1>6. ASSUME NEW c \in Deliveries, turns'[c].pc = "lost", turns'[c].at = p
      PROVE  state = "down"
  <2>1. turns[c].at = p /\ turns[c].pc # "none" /\ turns[c].pc # "done"
    BY <1>3, <1>6
  <2>2. turns[c].pc # "lost"
    BY <1>0, <2>1 DEF Placed, Alive
  <2> QED
    BY <1>5, <2>1, <2>2 DEF Settled
<1>7. Placed'
  <2> SUFFICES ASSUME NEW c \in Deliveries
               PROVE  /\ turns'[c].pc \in Working =>
                           /\ turns'[c].at \in Procs
                           /\ proc'[turns'[c].at] \in {"up", "draining", "deadline"}
                      /\ turns'[c].pc = "lost" /\ turns'[c].at \in Procs => proc'[turns'[c].at] = "down"
                      /\ turns'[c].pc = "none" => turns'[c] = NoTurn
    BY DEF Placed, Alive
  <2>1. /\ turns[c].pc \in Working =>
             turns[c].at \in Procs /\ proc[turns[c].at] \in {"up", "draining", "deadline"}
        /\ turns[c].pc = "lost" /\ turns[c].at \in Procs => proc[turns[c].at] = "down"
        /\ turns[c].pc = "none" => turns[c] = NoTurn
    BY <1>0 DEF Placed, Alive
  <2>2. CASE turns'[c].pc \in Working
    BY <1>2, <1>4, <2>1, <2>2 DEF Working
  <2>3. CASE turns'[c].pc = "lost"
    BY <1>2, <1>3, <1>6, <2>1, <2>3 DEF Working
  <2>4. CASE turns'[c].pc = "none"
    BY <1>3, <2>1, <2>4 DEF Working
  <2> QED
    BY <2>2, <2>3, <2>4
<1>8. Sweeps' /\ Room'
  <2>1. \A x \in Events : Rescuers(x)' \subseteq Rescuers(x)
    BY <1>2, RestingIs DEF Rescuers
  <2>2. Room'
    BY <1>0, <2>1, RoomKeeps DEF SweepOK
  <2>3. Sweeps'
    <3> SUFFICES ASSUME NEW q \in Procs
                 PROVE  /\ sweep'[q].pc # "idle" =>
                             sweep'[q].ev \in Events /\ proc'[q] \in {"up", "draining", "deadline"}
                        /\ sweep'[q].pc = "idle" => sweep'[q] = Resting
                        /\ sweep'[q].pc = "stuck" => sweep'[q].nonce < Cap
                        /\ sweep'[q].pc = "claimed" => sweep'[q].nonce \in 1 .. Ceiling
      BY DEF Sweeps, Alive
    <3>1. CASE q = p
      BY <1>2, <3>1, RestingIs
    <3>2. CASE q # p
      BY <1>0, <1>2, <3>2 DEF SweepOK, Sweeps, Alive
    <3> QED
      BY <3>1, <3>2
  <2> QED
    BY <2>2, <2>3
<1>9. ASSUME NEW c \in Deliveries, Swept(c)
      PROVE  Swept(c)' \/ c \in lost'
  <2>1. PICK q \in Procs : sweep[q].pc = "claimed" /\ sweep[q].ev = c[1] /\ sweep[q].nonce = c[2]
    BY <1>9 DEF Swept
  <2>2. CASE q = p
    BY <1>1, <2>1, <2>2, Parts DEF AtWork
  <2>3. CASE q # p
    BY <1>2, <2>1, <2>3 DEF Swept
  <2> QED
    BY <2>2, <2>3
<1>10. \A c \in Deliveries :
         turns'[c].pc \in {"done", "lost"} => turns[c].pc \in {"done", "lost"} \/ c \in lost'
  BY <1>1, <1>3, <1>5
<1>11. \A c \in Deliveries : turns'[c].pc \notin Working => turns'[c].ahead = {}
  BY <1>0, <1>3 DEF Started, Working
<1>12. \A c \in Deliveries : /\ turns'[c].superseded => turns[c].superseded
                             /\ turns'[c].pc = "none" <=> turns[c].pc = "none"
  BY <1>3
<1>13. \A q \in Procs : sweep'[q].pc = "claimed" => sweep'[q] = sweep[q]
  BY <1>2, RestingIs
<1>14. lost \subseteq lost'
  BY <1>1
<1> QED
  BY <1>4, <1>7, <1>8, <1>9, <1>10, <1>11, <1>12, <1>13, <1>14, RestKeeps

LEMMA BootKeeps ==
  ASSUME Steady, TypeOK', NEW p \in Procs, Boot(p)
  PROVE  Steady'
<1>0. TypeOK /\ SweepOK /\ Placed /\ Started
  BY DEF Steady, SweepOK, Rely
<1>1. /\ ~Alive(p) /\ proc'[p] = "up" /\ \A q \in Procs \ {p} : proc'[q] = proc[q]
      /\ UNCHANGED <<rows, sweep, late, lost, excused>>
  BY <1>0 DEF Boot, TypeOK, Alive
<1>2. ASSUME NEW c \in Deliveries
      PROVE  \/ turns'[c] = turns[c] /\ turns[c].at # p
             \/ /\ turns[c].at = p /\ turns'[c].at = NoProc /\ turns'[c].pc = turns[c].pc
                /\ turns'[c].ahead = turns[c].ahead /\ turns'[c].superseded = turns[c].superseded
  <2>1. turns'[c] = IF turns[c].at = p THEN [turns[c] EXCEPT !.at = NoProc] ELSE turns[c]
    BY DEF Boot
  <2> QED
    BY <1>0, <2>1, TurnOf DEF Turn
<1>3. ASSUME NEW c \in Deliveries, turns[c].at = p
      PROVE  turns[c].pc \notin Working /\ turns[c].pc # "none"
  BY <1>0, <1>1, <1>3, TurnConstants DEF Placed, NoTurn
<1>4. \A c \in Deliveries : turns'[c].pc \in Working => turns'[c] = turns[c]
  BY <1>2, <1>3
<1>5. Placed'
  <2> SUFFICES ASSUME NEW c \in Deliveries
               PROVE  /\ turns'[c].pc \in Working =>
                           /\ turns'[c].at \in Procs
                           /\ proc'[turns'[c].at] \in {"up", "draining", "deadline"}
                      /\ turns'[c].pc = "lost" /\ turns'[c].at \in Procs => proc'[turns'[c].at] = "down"
                      /\ turns'[c].pc = "none" => turns'[c] = NoTurn
    BY DEF Placed, Alive
  <2>1. CASE turns[c].at = p
    BY <1>2, <1>3, <2>1, TurnConstants
  <2>2. CASE turns[c].at # p
    BY <1>0, <1>1, <1>2, <2>2 DEF Placed, Alive
  <2> QED
    BY <2>1, <2>2
<1>6. Sweeps' /\ Room'
  <2>1. \A q \in Procs : Alive(q) => q # p /\ proc'[q] = proc[q]
    BY <1>1
  <2> QED
    BY <1>0, <1>1, <2>1 DEF SweepOK, Sweeps, Room, Rescuers, Alive
<1>7. \A c \in Deliveries : /\ turns'[c].pc = turns[c].pc /\ turns'[c].ahead = turns[c].ahead
                            /\ turns'[c].superseded = turns[c].superseded
  BY <1>2
<1>8. \A c \in Deliveries : turns'[c].pc \notin Working => turns'[c].ahead = {}
  BY <1>0, <1>7 DEF Started, Working
<1>9. \A c \in Deliveries : Swept(c)' <=> Swept(c)
  BY <1>1 DEF Swept
<1>10. \A q \in Procs : sweep'[q] = sweep[q]
  BY <1>1
<1>11. \A c \in Deliveries : turns'[c].superseded => turns[c].superseded
  BY <1>7
<1> QED
  BY <1>1, <1>4, <1>5, <1>6, <1>7, <1>8, <1>9, <1>10, <1>11, RestKeeps

(* A replica starts to drain, or its drain times out.                        *)
LEMMA DrainingKeeps ==
  ASSUME Steady, TypeOK', NEW p \in Procs, Alive(p), NEW state \in {"draining", "deadline"},
         proc' = [proc EXCEPT ![p] = state], UNCHANGED <<rows, turns, sweep, late, lost, excused>>
  PROVE  Steady'
<1>0. TypeOK /\ SweepOK /\ Placed /\ Started
  BY DEF Steady, SweepOK, Rely
<1>1. proc'[p] = state /\ \A q \in Procs \ {p} : proc'[q] = proc[q]
  BY <1>0 DEF TypeOK
<1>2. \A q \in Procs : Alive(q) => Alive(q)'
  BY <1>1 DEF Alive
<1>3. Sweeps' /\ Room'
  BY <1>0, <1>2 DEF SweepOK, Sweeps, Room, Rescuers
<1>4. Placed'
  <2> SUFFICES ASSUME NEW c \in Deliveries
               PROVE  /\ turns[c].pc \in Working =>
                           /\ turns[c].at \in Procs
                           /\ proc'[turns[c].at] \in {"up", "draining", "deadline"}
                      /\ turns[c].pc = "lost" /\ turns[c].at \in Procs => proc'[turns[c].at] = "down"
                      /\ turns[c].pc = "none" => turns[c] = NoTurn
    BY DEF Placed, Alive
  <2>1. /\ turns[c].pc \in Working =>
             turns[c].at \in Procs /\ proc[turns[c].at] \in {"up", "draining", "deadline"}
        /\ turns[c].pc = "lost" /\ turns[c].at \in Procs => proc[turns[c].at] = "down"
        /\ turns[c].pc = "none" => turns[c] = NoTurn
    BY <1>0 DEF Placed, Alive
  <2> QED
    BY <1>1, <2>1 DEF Alive
<1>5. \A c \in Deliveries : Swept(c)' <=> Swept(c)
  BY DEF Swept
<1>6. \A c \in Deliveries : turns'[c].pc \notin Working => turns'[c].ahead = {}
  BY <1>0 DEF Started, Working
<1> QED
  BY <1>3, <1>4, <1>5, <1>6, RestKeeps

-------------------------------------------------------------------------------
LEMMA ProcKeeps ==
  ASSUME Steady, NEW p \in Procs, ProcNext(p)
  PROVE  Steady'
<1>0. TypeOK /\ TypeOK'
  BY ProcTyped DEF Steady
<1>1. CASE ClaimStuck(p)
  BY <1>0, <1>1, ClaimStuckKeeps
<1>2. CASE Resume(p)
  BY <1>0, <1>2, ResumeKeeps
<1>3. CASE ResumeFails(p)
  <2>1. /\ sweep' = [sweep EXCEPT ![p] = Resting]
        /\ lost' = lost \cup {<<sweep[p].ev, sweep[p].nonce>>}
        /\ UNCHANGED <<rows, turns, proc, late, excused>>
    BY <1>3 DEF ResumeFails
  <2>2. lost \subseteq lost' /\ <<sweep[p].ev, sweep[p].nonce>> \in lost'
    BY <2>1
  <2> QED
    BY <1>0, <2>1, <2>2, SweepGivesUp
<1>4. CASE ClaimStranded(p)
  BY <1>0, <1>4, ClaimStrandedKeeps
<1>5. CASE Crash(p)
  BY <1>0, <1>5, HaltedKeeps DEF Crash
<1>6. CASE Boot(p)
  BY <1>0, <1>6, BootKeeps
<1>7. CASE Drain(p)
  BY <1>0, <1>7, DrainingKeeps DEF Drain, Alive
<1>8. CASE DrainEnds(p)
  BY <1>0, <1>8, HaltedKeeps DEF DrainEnds, Alive
<1>9. CASE Deadline(p)
  BY <1>0, <1>9, DrainingKeeps DEF Deadline, Alive
<1>10. CASE Exit(p)
  BY <1>0, <1>10, HaltedKeeps DEF Exit, Alive
<1>11. ASSUME NEW d \in Deliveries, RequeueAtDeadline(p, d) PROVE Steady'
  BY <1>0, <1>11, RequeueAtDeadlineKeeps
<1> QED
  BY <1>1, <1>2, <1>3, <1>4, <1>5, <1>6, <1>7, <1>8, <1>9, <1>10, <1>11 DEF ProcNext

LEMMA TurnKeeps ==
  ASSUME Steady, NEW d \in Deliveries, TurnNext(d)
  PROVE  Steady'
<1>1. TypeOK'
  BY TurnTyped DEF Steady
<1>2. CASE Dispatch(d)
  BY <1>1, <1>2, DispatchKeeps
<1>3. CASE ~Dispatch(d)
  BY <1>1, <1>3, MovesKeep DEF TurnNext
<1> QED
  BY <1>2, <1>3

LEMMA StutterKeeps ==
  ASSUME Steady, UNCHANGED vars
  PROVE  Steady'
<1>1. UNCHANGED <<rows, proc, turns, sweep, succeeded, late, trouble, lost, excused, skipped>>
  BY DEF vars
<1>2. TypeOK' /\ Placed' /\ Sweeps'
  BY <1>1 DEF Steady, TypeOK, Placed, Sweeps, Alive
<1>3. \A c \in Deliveries : Swept(c)' <=> Swept(c)
  BY <1>1 DEF Swept
<1>4. \A c \in Deliveries : turns'[c].pc \notin Working => turns'[c].ahead = {}
  BY <1>1 DEF Steady, Rely, Started, Working
<1>5. Room'
  BY <1>1 DEF Steady, Room, Rescuers
<1> QED
  BY <1>1, <1>2, <1>3, <1>4, <1>5, RestKeeps

LEMMA NextKeeps == Steady /\ [Next]_vars => Steady'
<1> SUFFICES ASSUME Steady, [Next]_vars PROVE Steady'
  OBVIOUS
<1>1. ASSUME NEW d \in Deliveries, TurnNext(d) PROVE Steady'
  BY <1>1, TurnKeeps
<1>2. ASSUME NEW e \in Events, EventNext(e) PROVE Steady'
  <2>1. TypeOK'
    BY <1>2, EventTyped DEF Steady
  <2>2. ASSUME NEW p \in Procs, Enqueue(e, p) PROVE Steady'
    BY <2>1, <2>2, EnqueueKeeps
  <2>3. CASE \A p \in Procs : ~Enqueue(e, p)
    BY <1>2, <2>3, EventKeeps
  <2> QED
    BY <2>2, <2>3
<1>3. ASSUME NEW p \in Procs, ProcNext(p) PROVE Steady'
  BY <1>3, ProcKeeps
<1>4. CASE UNCHANGED vars
  BY <1>4, StutterKeeps
<1> QED
  BY <1>1, <1>2, <1>3, <1>4 DEF Next

LEMMA InitSteady == Init => Steady
<1> SUFFICES ASSUME Init PROVE Steady
  OBVIOUS
<1>0. /\ \A e \in Events : rows[e] = Unborn
      /\ \A d \in Deliveries : turns[d] = NoTurn
      /\ \A p \in Procs : sweep[p] = Resting /\ proc[p] = "up"
      /\ late = {} /\ lost = {} /\ excused = {}
  BY DEF Init
<1>1. /\ Unborn \in Row /\ Unborn.status = "none" /\ Unborn.attempts = 0 /\ Unborn.nonce = NoNonce
  <2>1. 0 \in 0 .. Ceiling
    BY Bounds
  <2> QED
    BY <2>1 DEF Unborn, Row, NoNonce
<1>2. TypeOK
  <2>1. RowsOK(rows)
    BY <1>1 DEF Init, RowsOK
  <2>2. turns \in [Deliveries -> Turn]
    BY TurnsAre DEF Init
  <2>3. sweep \in [Procs -> Job]
    BY RestingIs DEF Init
  <2>4. Others
    BY DEF Init, Others, Procing
  <2> QED
    BY <2>1, <2>2, <2>3, <2>4, TypeParts
<1>3. Room
  <2> SUFFICES ASSUME NEW e \in Events
               PROVE  rows[e].attempts + Cardinality(Rescuers(e)) < Ceiling /\ Rescuers(e) = {}
    BY DEF Room
  <2>1. Rescuers(e) = {}
    BY <1>0, RestingIs DEF Rescuers
  <2>2. Cardinality(Rescuers(e)) = 0
    BY <2>1, FS_EmptySet
  <2> QED
    BY <1>0, <1>1, <2>1, <2>2, Bounds, TurnConstants
<1>4. Sweeps
  BY <1>0, RestingIs DEF Sweeps
<1>5. \A d \in Deliveries : ~Holder(d) /\ ~Swept(d) /\ ~Owns(d) /\ d[1] \in Events
  BY <1>0, <1>1, TurnsAre, RestingIs, Parts DEF Holder, AtWorkPc, Swept, Owns
<1>6. Placed /\ Counted
  BY <1>0, <1>1, TurnsAre DEF Placed, Counted, Working
<1>7. Rely
  BY <1>0, <1>5, TurnsAre, RestingIs DEF Rely, HoldersOwn, SweptOnce, SweptIsNew, Known, Superseded, Started
<1>8. InOrder
  BY <1>0, TurnsAre DEF InOrder, InLanePc
<1>9. CutFirst
  <2>1. \A e \in Events : ~(rows[e].attempts > 0) /\ \A n \in 1 .. Ceiling : ~(n < rows[e].attempts)
    BY <1>0, <1>1
  <2> QED
    BY <1>5, <2>1 DEF CutFirst, CutBefore, CutNow, CutTurns
<1> QED
  BY <1>2, <1>3, <1>4, <1>6, <1>7, <1>8, <1>9 DEF Steady

LEMMA AlwaysSteady == Spec => []Steady
<1> QED
  BY InitSteady, NextKeeps, PTL DEF Spec

-------------------------------------------------------------------------------
(* Documents, turns, lanes and sweeps stay well formed, and no document is   *)
(* delivered more often than the cap and the rescues in flight allow         *)
(* (agentEventService.ts, redispatchStuckInProcess and                       *)
(* rescueStrandedPendingInProcess).                                          *)
THEOREM TurnsTyped == Spec => []TypeOK
<1>1. Steady => TypeOK
  BY DEF Steady
<1> QED
  BY <1>1, AlwaysSteady, PTL

(* Two deliveries run the model together, for one event or in one replica,   *)
(* only when one of them has outstayed its bound, was given up at the        *)
(* drain's deadline, or could not re-check its claim (enterInProcessLane,    *)
(* dispatchInProcess).                                                       *)
THEOREM TurnsNeverOverlap == Spec => []TurnsDoNotOverlap
<1>1. Steady => TurnsDoNotOverlap
  <2> SUFFICES ASSUME Steady, NEW c \in Deliveries, NEW d \in Deliveries, c # d,
                      turns[c].pc = "model", turns[d].pc = "model",
                      c[1] = d[1] \/ turns[c].at = turns[d].at,
                      c \notin late \cup excused, d \notin late \cup excused
               PROVE  FALSE
    BY DEF TurnsDoNotOverlap
  <2>0. TypeOK /\ HoldersOwn /\ Superseded /\ Started
    BY DEF Steady, Rely
  <2>1. Owns(c) /\ Owns(d)
    BY <2>0 DEF HoldersOwn, Holder, AtWorkPc
  <2>2. c[1] # d[1]
    BY <2>0, <2>1, OwnsIs, Parts
  <2>3. ~Over(c) /\ ~Over(d) /\ turns[c].ahead = {} /\ turns[d].ahead = {}
    BY <2>0, <2>1 DEF Superseded, Started, Over, Released
  <2> QED
    BY <2>2, <2>3 DEF Steady, InOrder, InLanePc
<1> QED
  BY <1>1, AlwaysSteady, PTL

(* An attempt is spent only after the delivery before it was cut off or      *)
(* outstayed its bound: waiting for the lane never costs one                 *)
(* (refreshWhileQueued).                                                     *)
THEOREM DeliveriesRepeatOnlyLost == Spec => []OnlyLostIsRepeated
<1>1. Steady => OnlyLostIsRepeated
  BY DEF Steady, CutFirst, CutBefore, Cut, OnlyLostIsRepeated
<1> QED
  BY <1>1, AlwaysSteady, PTL

(* A drain that ends in time leaves no delivery of its replica whose turn    *)
(* was cut off (drainInProcess, trackInProcessWork).                         *)
THEOREM DrainLeaves == Spec => []DrainLeavesNothing
<1>1. Steady => DrainLeavesNothing
  <2> SUFFICES ASSUME Steady, NEW p \in Procs, NEW d \in Deliveries,
                      proc[p] = "exited", turns[d].at = p, turns[d].pc # "done"
               PROVE  FALSE
    BY DEF DrainLeavesNothing
  <2>1. turns[d].pc \in {"none", "born", "queued", "ready", "model", "ok", "bad", "lost"}
    BY TurnOf DEF Steady, Turn
  <2> QED
    BY <2>1, TurnConstants DEF Steady, Placed, Working, Alive, NoTurn
<1> QED
  BY <1>1, AlwaysSteady, PTL

-------------------------------------------------------------------------------
(* The delivery that polled events have.                                     *)

LEMMA PhaseIs ==
  \A r : /\ r.status = "none" => Phase(r) = "none"
         /\ r.status = "pending" => Phase(r) = "waiting"
         /\ r.status = "delivered" => Phase(r) = "out"
         /\ r.status \in {"acked", "failed"} => Phase(r) = "ended"
BY DEF Phase

(* What a step does to one row, as the abstract delivery sees it.            *)
Moves(e) ==
  \/ rows[e].status = "none" /\ rows'[e].status = "pending" /\ rows'[e].attempts = rows[e].attempts
  \/ /\ rows[e].status = "none" /\ rows'[e].status = "delivered"
     /\ rows'[e].attempts = rows[e].attempts + 1
  \/ /\ rows[e].status \in {"pending", "delivered"} /\ rows'[e].status = "delivered"
     /\ rows[e].attempts < Ceiling /\ rows'[e].attempts = rows[e].attempts + 1
  \/ /\ rows[e].status = "delivered" /\ rows'[e].status = "pending"
     /\ rows[e].attempts < Ceiling /\ rows'[e].attempts = rows[e].attempts
  \/ /\ rows[e].status \in {"pending", "delivered"} /\ rows'[e].status \in Final
     /\ rows'[e].attempts = rows[e].attempts

Still(e) == rows'[e].status = rows[e].status /\ rows'[e].attempts = rows[e].attempts

LEMMA MovesDeliver ==
  ASSUME TypeOK, TypeOK', NEW e \in Events, Moves(e), \A x \in Events \ {e} : Still(x)
  PROVE  Delivery!QNext
<1> DEFINE phase == [x \in Events |-> Phase(rows[x])]
           tries == [x \in Events |-> rows[x].attempts]
           nextPhase == [x \in Events |-> Phase(rows'[x])]
           nextTries == [x \in Events |-> rows'[x].attempts]
<1>1. \A x \in Events \ {e} : Phase(rows'[x]) = Phase(rows[x]) /\ rows'[x].attempts = rows[x].attempts
  BY DEF Still, Phase
<1>2. \A v : nextPhase = [phase EXCEPT ![e] = v] <=> Phase(rows'[e]) = v
  BY <1>1
<1>3. \A v : nextTries = [tries EXCEPT ![e] = v] <=> rows'[e].attempts = v
  BY <1>1
<1>4. (nextPhase = phase <=> Phase(rows'[e]) = Phase(rows[e]))
      /\ (nextTries = tries <=> rows'[e].attempts = rows[e].attempts)
  BY <1>1
<1>5. phase[e] = Phase(rows[e]) /\ tries[e] = rows[e].attempts
  OBVIOUS
<1> HIDE DEF phase, tries, nextPhase, nextTries
<1>6. CASE /\ rows[e].status = "none" /\ rows'[e].status = "pending"
           /\ rows'[e].attempts = rows[e].attempts
  <2>1. Delivery!Offer(e)
    BY <1>2, <1>4, <1>5, <1>6, PhaseIs DEF Delivery!Offer, phase, tries, nextPhase, nextTries
  <2> QED
    BY <2>1 DEF Delivery!QNext
<1>7. CASE /\ rows[e].status = "none" /\ rows'[e].status = "delivered"
           /\ rows'[e].attempts = rows[e].attempts + 1
  <2>1. Delivery!OfferOut(e)
    BY <1>2, <1>3, <1>5, <1>7, PhaseIs DEF Delivery!OfferOut, phase, tries, nextPhase, nextTries
  <2> QED
    BY <2>1 DEF Delivery!QNext
<1>8. CASE /\ rows[e].status = "pending" /\ rows'[e].status = "delivered"
           /\ rows[e].attempts < Ceiling /\ rows'[e].attempts = rows[e].attempts + 1
  <2>1. Delivery!Deliver(e)
    BY <1>2, <1>3, <1>5, <1>8, PhaseIs DEF Delivery!Deliver, phase, tries, nextPhase, nextTries
  <2> QED
    BY <2>1 DEF Delivery!QNext
<1>9. CASE /\ rows[e].status = "delivered" /\ rows'[e].status = "delivered"
           /\ rows[e].attempts < Ceiling /\ rows'[e].attempts = rows[e].attempts + 1
  <2>1. Delivery!HandOver(e)
    BY <1>3, <1>4, <1>5, <1>9, PhaseIs DEF Delivery!HandOver, phase, tries, nextPhase, nextTries
  <2> QED
    BY <2>1 DEF Delivery!QNext
<1>10. CASE /\ rows[e].status = "delivered" /\ rows'[e].status = "pending"
            /\ rows[e].attempts < Ceiling /\ rows'[e].attempts = rows[e].attempts
  <2>1. Delivery!TakeBack(e)
    BY <1>2, <1>4, <1>5, <1>10, PhaseIs DEF Delivery!TakeBack, phase, tries, nextPhase, nextTries
  <2> QED
    BY <2>1 DEF Delivery!QNext
<1>11. CASE /\ rows[e].status \in {"pending", "delivered"} /\ rows'[e].status \in Final
            /\ rows'[e].attempts = rows[e].attempts
  <2>1. Delivery!Settle(e)
    BY <1>2, <1>4, <1>5, <1>11, PhaseIs
       DEF Delivery!Settle, Final, phase, tries, nextPhase, nextTries
  <2> QED
    BY <2>1 DEF Delivery!QNext
<1> QED
  BY <1>6, <1>7, <1>8, <1>9, <1>10, <1>11 DEF Moves

LEMMA RoomIs ==
  ASSUME TypeOK, Room, NEW e \in Events
  PROVE  rows[e].attempts < Ceiling
BY RowTyped, RescuersAre, Bounds DEF Room

OneMoves == (\A x \in Events : Still(x)) \/ \E e \in Events : Moves(e) /\ \A x \in Events \ {e} : Still(x)

LEMMA PutMoves ==
  ASSUME TypeOK, NEW e \in Events, NEW r, rows' = [rows EXCEPT ![e] = r],
         Moves(e) \/ Still(e)
  PROVE  OneMoves
<1>1. \A x \in Events \ {e} : Still(x)
  BY RowAt DEF Still
<1> QED
  BY <1>1 DEF OneMoves

LEMMA RestMoves == UNCHANGED rows => OneMoves
BY DEF OneMoves, Still

LEMMA ClaimMoves ==
  ASSUME TypeOK, Room, NEW e \in Events, rows' = [rows EXCEPT ![e] = Claimed(rows[e])],
         rows[e].status \in {"none", "pending", "delivered"}
  PROVE  OneMoves
<1>1. rows[e] \in Row /\ rows[e].attempts < Ceiling /\ rows'[e] = Claimed(rows[e])
  BY RowTyped, RoomIs, RowAt
<1>2. Claimed(rows[e]).status = "delivered" /\ Claimed(rows[e]).attempts = rows[e].attempts + 1
  BY <1>1, ClaimedIs
<1>3. Moves(e)
  BY <1>1, <1>2 DEF Moves
<1> QED
  BY <1>3, PutMoves

LEMMA TakeBackMoves ==
  ASSUME TypeOK, Room, NEW e \in Events, rows' = [rows EXCEPT ![e] = TakenBack(rows[e])],
         rows[e].status = "delivered"
  PROVE  OneMoves
<1>1. rows[e] \in Row /\ rows[e].attempts < Ceiling /\ rows'[e] = TakenBack(rows[e])
  BY RowTyped, RoomIs, RowAt
<1>2. TakenBack(rows[e]).status = "pending" /\ TakenBack(rows[e]).attempts = rows[e].attempts
  BY <1>1, TakenBackIs
<1>3. Moves(e)
  BY <1>1, <1>2 DEF Moves
<1> QED
  BY <1>3, PutMoves

LEMMA EndMoves ==
  ASSUME TypeOK, NEW e \in Events, NEW s \in Final, rows' = [rows EXCEPT ![e] = Ended(rows[e], s)],
         rows[e].status \in {"pending", "delivered"}
  PROVE  OneMoves
<1>1. rows[e] \in Row /\ rows'[e] = Ended(rows[e], s)
  BY RowTyped, RowAt
<1>2. Ended(rows[e], s).status = s /\ Ended(rows[e], s).attempts = rows[e].attempts
  BY <1>1, EndedIs
<1>3. Moves(e)
  BY <1>1, <1>2 DEF Moves
<1> QED
  BY <1>3, PutMoves

LEMMA HandBackMoves ==
  ASSUME TypeOK, Room, NEW d \in Deliveries, HandBack(d)
  PROVE  OneMoves
<1>1. CASE Owns(d)
  BY <1>1, Parts, TakeBackMoves DEF HandBack, Owns
<1>2. CASE ~Owns(d)
  BY <1>2, RestMoves DEF HandBack
<1> QED
  BY <1>1, <1>2

LEMMA TurnStepMoves ==
  ASSUME TypeOK, Room, NEW d \in Deliveries, TurnNext(d)
  PROVE  OneMoves
<1>0. d[1] \in Events /\ rows[d[1]] \in Row
  BY Parts, RowTyped
<1>1. CASE Dispatch(d)
  BY <1>1, HandBackMoves, RestMoves DEF Dispatch, Dispatched
<1>2. CASE Start(d)
  <2> DEFINE r == [rows[d[1]] EXCEPT !.age = "fresh", !.restarted = TRUE]
  <2>1. r.status = rows[d[1]].status /\ r.attempts = rows[d[1]].attempts
    BY <1>0 DEF Row
  <2>2. rows' = rows \/ rows' = [rows EXCEPT ![d[1]] = r]
    BY <1>2 DEF Start
  <2> HIDE DEF r
  <2>3. CASE rows' = [rows EXCEPT ![d[1]] = r]
    <3>1. Still(d[1])
      BY <1>0, <2>1, <2>3, RowAt DEF Still
    <3> QED
      BY <1>0, <2>3, <3>1, PutMoves
  <2> QED
    BY <2>2, <2>3, RestMoves
<1>3. CASE Begin(d)
  BY <1>3, HandBackMoves, RestMoves DEF Begin
<1>4. CASE Settle(d)
  <2>1. Verdict(d) \in Final
    BY DEF Verdict, Final
  <2> QED
    BY <1>0, <1>4, <2>1, EndMoves, RestMoves DEF Settle, Settles
<1>5. CASE StartUnchecked(d) \/ RunSucceeds(d) \/ RunFails(d) \/ SettleFails(d) \/ Overstays(d)
  BY <1>5, RestMoves DEF StartUnchecked, RunSucceeds, RunFails, SettleFails, Overstays
<1> QED
  BY <1>1, <1>2, <1>3, <1>4, <1>5 DEF TurnNext

LEMMA EventStepMoves ==
  ASSUME TypeOK, Room, NEW e \in Events, EventNext(e)
  PROVE  OneMoves
<1>0. rows[e] \in Row
  BY RowTyped
<1>1. ASSUME NEW a \in {"fresh", "stale"}, rows' = [rows EXCEPT ![e].age = a]
      PROVE  OneMoves
  <2> DEFINE r == [rows[e] EXCEPT !.age = a]
  <2>1. r.status = rows[e].status /\ r.attempts = rows[e].attempts
    BY <1>0 DEF Row
  <2>2. rows' = [rows EXCEPT ![e] = r]
    BY <1>1
  <2> HIDE DEF r
  <2>3. Still(e)
    BY <2>1, <2>2, RowAt DEF Still
  <2> QED
    BY <2>2, <2>3, PutMoves
<1>2. CASE GoesStale(e) \/ RefreshFails(e)
  BY <1>1, <1>2 DEF GoesStale, RefreshFails
<1>3. CASE GrowsOld(e)
  <2> DEFINE r == [rows[e] EXCEPT !.old = TRUE]
  <2>1. r.status = rows[e].status /\ r.attempts = rows[e].attempts
    BY <1>0 DEF Row
  <2>2. rows' = [rows EXCEPT ![e] = r]
    BY <1>3 DEF GrowsOld
  <2> HIDE DEF r
  <2>3. Still(e)
    BY <2>1, <2>2, RowAt DEF Still
  <2> QED
    BY <2>2, <2>3, PutMoves
<1>4. ASSUME NEW p \in Procs, Enqueue(e, p) PROVE OneMoves
  BY <1>4, ClaimMoves DEF Enqueue
<1>5. ASSUME NEW p \in Procs, EnqueuePending(e, p) PROVE OneMoves
  <2> DEFINE r == [rows[e] EXCEPT !.status = "pending"]
  <2>1. r.status = "pending" /\ r.attempts = rows[e].attempts
    BY <1>0 DEF Row
  <2>2. rows' = [rows EXCEPT ![e] = r] /\ rows[e].status = "none"
    BY <1>5 DEF EnqueuePending
  <2> HIDE DEF r
  <2>3. Moves(e)
    BY <2>1, <2>2, RowAt DEF Moves
  <2> QED
    BY <2>2, <2>3, PutMoves
<1>6. ASSUME NEW p \in Procs, RequeueSkipped(p, e) PROVE OneMoves
  BY <1>6, TakeBackMoves DEF RequeueSkipped, Stuck
<1>7. ASSUME NEW p \in Procs, Retire(p, e) \/ CloseStranded(p, e) PROVE OneMoves
  BY <1>7, EndMoves DEF Retire, CloseStranded, Closeable, Final
<1>8. ASSUME NEW p \in Procs, FindStuck(p, e) \/ FindStranded(p, e) PROVE OneMoves
  BY <1>8, RestMoves DEF FindStuck, FindStranded
<1> QED
  BY <1>2, <1>3, <1>4, <1>5, <1>6, <1>7, <1>8 DEF EventNext

LEMMA ProcStepMoves ==
  ASSUME TypeOK, Room, Sweeps, NEW p \in Procs, ProcNext(p)
  PROVE  OneMoves
<1>0. sweep[p].pc # "idle" => sweep[p].ev \in Events
  BY DEF Sweeps
<1>1. CASE ClaimStuck(p)
  BY <1>0, <1>1, ClaimMoves, RestMoves DEF ClaimStuck
<1>2. CASE ClaimStranded(p)
  BY <1>0, <1>2, ClaimMoves, RestMoves DEF ClaimStranded, Claimable
<1>3. CASE Resume(p)
  <2>1. PICK d \in Deliveries : d = <<sweep[p].ev, sweep[p].nonce>>
    BY <1>3, Parts DEF Resume, Sweeps
  <2>2. CASE sweep[p].finished
    <3>1. rows' = IF Settles(d) THEN [rows EXCEPT ![d[1]] = Ended(rows[d[1]], "acked")] ELSE rows
      BY <1>3, <2>1, <2>2 DEF Resume
    <3>2. "acked" \in Final /\ d[1] \in Events
      BY <2>1, Parts DEF Final
    <3> QED
      BY <3>1, <3>2, EndMoves, RestMoves DEF Settles
  <2>3. CASE ~sweep[p].finished
    <3>1. Dispatched(p, d)
      BY <1>3, <2>1, <2>3 DEF Resume
    <3> QED
      BY <3>1, HandBackMoves, RestMoves DEF Dispatched
  <2> QED
    BY <2>2, <2>3
<1>4. ASSUME NEW d \in Deliveries, RequeueAtDeadline(p, d) PROVE OneMoves
  BY <1>4, HandBackMoves DEF RequeueAtDeadline
<1>5. CASE ResumeFails(p) \/ Crash(p) \/ Boot(p) \/ Drain(p) \/ DrainEnds(p) \/ Deadline(p) \/ Exit(p)
  BY <1>5, RestMoves DEF ResumeFails, Crash, Boot, Drain, DrainEnds, Deadline, Exit
<1> QED
  BY <1>1, <1>2, <1>3, <1>4, <1>5 DEF ProcNext

(* An in-process event is offered, goes out, is taken back, is handed over   *)
(* and ends as the events that runners poll: at most Ceiling deliveries, and *)
(* it ends once (agentEventService.ts).                                      *)
THEOREM TurnsImplementDelivery == Spec => ImplementsDelivery
<1>1. Init => Delivery!QInit
  BY PhaseIs DEF Init, Unborn, Delivery!QInit
<1>2. Steady /\ Steady' /\ [Next]_vars => [Delivery!QNext]_Delivery!qvars
  <2> SUFFICES ASSUME Steady, Steady', [Next]_vars
               PROVE  Delivery!QNext \/ UNCHANGED Delivery!qvars
    OBVIOUS
  <2>1. TypeOK /\ TypeOK' /\ Room /\ Sweeps
    BY DEF Steady
  <2>2. OneMoves
    <3>1. ASSUME NEW d \in Deliveries, TurnNext(d) PROVE OneMoves
      BY <2>1, <3>1, TurnStepMoves
    <3>2. ASSUME NEW e \in Events, EventNext(e) PROVE OneMoves
      BY <2>1, <3>2, EventStepMoves
    <3>3. ASSUME NEW p \in Procs, ProcNext(p) PROVE OneMoves
      BY <2>1, <3>3, ProcStepMoves
    <3>4. CASE UNCHANGED vars
      BY <3>4, RestMoves DEF vars
    <3> QED
      BY <3>1, <3>2, <3>3, <3>4 DEF Next
  <2>3. CASE \A x \in Events : Still(x)
    <3>1. \A x \in Events : Phase(rows'[x]) = Phase(rows[x]) /\ rows'[x].attempts = rows[x].attempts
      BY <2>3 DEF Still, Phase
    <3> QED
      BY <3>1 DEF Delivery!qvars
  <2>4. ASSUME NEW e \in Events, Moves(e), \A x \in Events \ {e} : Still(x)
        PROVE  Delivery!QNext
    BY <2>1, <2>4, MovesDeliver
  <2> QED
    BY <2>2, <2>3, <2>4 DEF OneMoves
<1> QED
  BY <1>1, <1>2, AlwaysSteady, PTL DEF Spec, ImplementsDelivery, Delivery!QSpec

-------------------------------------------------------------------------------
(* What was answered is not run again.                                       *)

Clean(e) == e \notin skipped /\ \A n \in 1 .. Ceiling : <<e, n>> \notin late \cup excused

(* A sweep has read the delivery that the row still is.                      *)
Found(p, e) ==
  /\ sweep[p].pc = "stuck" /\ sweep[p].ev = e
  /\ rows[e].status = "delivered" /\ rows[e].nonce = sweep[p].nonce

Unmoved(p, e) == Found(p, e) /\ sweep[p].restarted = rows[e].restarted

(* Its turn has not started, or there is none yet.                           *)
Early(d) == turns[d].pc \in {"born", "queued"} \/ Swept(d)

Looked ==
  /\ \A p \in Procs : sweep[p].pc = "stuck" => sweep[p].nonce <= rows[sweep[p].ev].attempts
  /\ \A p \in Procs, e \in Events : Found(p, e) /\ sweep[p].restarted => rows[e].restarted
  /\ \A p \in Procs, e \in Events : Unmoved(p, e) => rows[e].age = "stale"
  /\ \A d \in Deliveries : Early(d) /\ Owns(d) => ~rows[d[1]].restarted

RunPc == {"born", "queued", "ready", "model"}

Unfinished(d) ==
  \E p \in Procs : /\ sweep[p].pc = "claimed" /\ sweep[p].ev = d[1] /\ sweep[p].nonce = d[2]
                   /\ ~sweep[p].finished

WillRun(d) == Owns(d) /\ (turns[d].pc \in RunPc \/ Unfinished(d))

AnsweredIs(e) ==
  /\ succeeded[e] = 1
  /\ rows[e].status \notin {"none", "pending"}
  /\ \A d \in Deliveries : d[1] = e => ~WillRun(d)
  /\ \A p \in Procs : Unmoved(p, e) => sweep[p].finished

Answered == \A e \in Events : Clean(e) /\ succeeded[e] > 0 => AnsweredIs(e)

(* How a step moves a row, as a sweep that looked at it can tell.            *)
RowMove(e) ==
  \/ /\ rows'[e].status = rows[e].status /\ rows'[e].nonce = rows[e].nonce
     /\ rows'[e].restarted = rows[e].restarted /\ rows'[e].age \in {rows[e].age, "stale"}
  \/ /\ rows[e].status = "delivered" /\ rows'[e].nonce = rows[e].nonce
     /\ rows'[e].restarted /\ ~rows[e].restarted
  \/ rows'[e].nonce = rows[e].attempts + 1
  \/ rows'[e].status # "delivered"

LooksNow(p) ==
  /\ sweep'[p].ev \in Events /\ sweep'[p].nonce <= rows'[sweep'[p].ev].attempts
  /\ sweep'[p].restarted = rows'[sweep'[p].ev].restarted
  /\ rows'[sweep'[p].ev].age = "stale"
  /\ succeeded[sweep'[p].ev] > 0 => sweep'[p].finished

Offline(e) == rows[e].status \in {"none", "pending"}

Shape ==
  /\ \A e \in Events : rows'[e].attempts >= rows[e].attempts /\ RowMove(e)
  /\ \A p \in Procs : sweep'[p].pc = "stuck" => sweep'[p] = sweep[p] \/ LooksNow(p)
  /\ \A d \in Deliveries : Early(d)' /\ Owns(d)' =>
       \/ Early(d) /\ Owns(d) /\ rows'[d[1]].restarted = rows[d[1]].restarted
       \/ ~rows'[d[1]].restarted
  /\ \A e \in Events : succeeded[e] > 0 /\ Offline(e)' =>
       Offline(e) \/ e \in skipped' \/ \E d \in Deliveries : d[1] = e /\ WillRun(d)
  /\ \A d \in Deliveries : WillRun(d)' =>
       \/ WillRun(d) \/ Offline(d[1]) \/ d \in excused'
       \/ \E p \in Procs : Unmoved(p, d[1]) /\ ~sweep[p].finished

LEMMA LookedKeeps ==
  ASSUME TypeOK, TypeOK', Sweeps, Sweeps', Looked, Shape
  PROVE  Looked'
<1>0. /\ \A p \in Procs : sweep[p] \in Job /\ sweep'[p] \in Job
      /\ \A e \in Events : rows[e] \in Row /\ rows'[e] \in Row
      /\ \A e \in Events : rows[e].attempts \in Nat /\ rows'[e].attempts \in Nat
      /\ \A d \in Deliveries : d[1] \in Events
  BY Parts, Bounds DEF TypeOK, Row
<1>1. ASSUME NEW p \in Procs, sweep'[p].pc = "stuck"
      PROVE  sweep'[p].nonce <= rows'[sweep'[p].ev].attempts
  <2>1. CASE LooksNow(p)
    BY <2>1 DEF LooksNow
  <2>2. CASE sweep'[p] = sweep[p]
    <3>1. sweep[p].ev \in Events /\ sweep[p].nonce \in Nat /\ sweep[p].nonce <= rows[sweep[p].ev].attempts
      BY <1>0, <1>1, <2>2, Bounds DEF Looked, Sweeps, Job
    <3>2. rows'[sweep[p].ev].attempts >= rows[sweep[p].ev].attempts
      BY <3>1 DEF Shape
    <3> QED
      BY <1>0, <2>2, <3>1, <3>2
  <2> QED
    BY <1>1, <2>1, <2>2 DEF Shape
<1>2. ASSUME NEW p \in Procs, NEW e \in Events, Found(p, e)', sweep'[p] = sweep[p]
      PROVE  /\ Found(p, e)
             /\ \/ rows'[e].restarted = rows[e].restarted /\ rows'[e].age \in {rows[e].age, "stale"}
                \/ rows'[e].restarted /\ ~rows[e].restarted
  <2>1. /\ sweep[p].pc = "stuck" /\ sweep[p].ev = e /\ rows'[e].status = "delivered"
        /\ rows'[e].nonce = sweep[p].nonce
    BY <1>2 DEF Found
  <2>2. sweep[p].nonce # rows[e].attempts + 1
    <3>1. sweep[p].nonce <= rows[e].attempts /\ sweep[p].nonce \in Nat
      BY <1>0, <2>1, Bounds DEF Looked, Job
    <3> QED
      BY <1>0, <3>1
  <2>3. RowMove(e)
    BY DEF Shape
  <2> QED
    BY <2>1, <2>2, <2>3 DEF RowMove, Found
<1>3. ASSUME NEW p \in Procs, NEW e \in Events, Found(p, e)', sweep'[p].restarted
      PROVE  rows'[e].restarted
  <2>1. sweep'[p].pc = "stuck" /\ sweep'[p].ev = e
    BY <1>3 DEF Found
  <2>2. CASE LooksNow(p)
    BY <1>3, <2>1, <2>2 DEF LooksNow
  <2>3. CASE sweep'[p] = sweep[p]
    <3>1. Found(p, e) /\ sweep[p].restarted
      BY <1>2, <1>3, <2>3
    <3>2. rows[e].restarted
      BY <3>1 DEF Looked
    <3> QED
      BY <1>2, <1>3, <2>3, <3>2
  <2> QED
    BY <2>1, <2>2, <2>3 DEF Shape
<1>4. ASSUME NEW p \in Procs, NEW e \in Events, Unmoved(p, e)'
      PROVE  rows'[e].age = "stale"
  <2>1. /\ Found(p, e)' /\ sweep'[p].restarted = rows'[e].restarted
        /\ sweep'[p].pc = "stuck" /\ sweep'[p].ev = e
    BY <1>4 DEF Unmoved, Found
  <2>2. CASE LooksNow(p)
    BY <2>1, <2>2 DEF LooksNow
  <2>3. CASE sweep'[p] = sweep[p]
    <3>1. Found(p, e)
      BY <1>2, <2>1, <2>3
    <3>2. CASE rows'[e].restarted = rows[e].restarted /\ rows'[e].age \in {rows[e].age, "stale"}
      <4>1. Unmoved(p, e)
        BY <2>1, <2>3, <3>1, <3>2 DEF Unmoved
      <4> QED
        BY <3>2, <4>1 DEF Looked
    <3>3. CASE rows'[e].restarted /\ ~rows[e].restarted
      BY <2>1, <2>3, <3>1, <3>3 DEF Looked
    <3> QED
      BY <1>2, <2>1, <2>3, <3>2, <3>3
  <2> QED
    BY <2>1, <2>2, <2>3 DEF Shape
<1>5. ASSUME NEW d \in Deliveries, Early(d)', Owns(d)'
      PROVE  ~rows'[d[1]].restarted
  BY <1>5 DEF Shape, Looked
<1> QED
  BY <1>1, <1>3, <1>4, <1>5 DEF Looked

LEMMA AnsweredKeeps ==
  ASSUME TypeOK, TypeOK', Sweeps', Looked, Answered, Shape, NEW e \in Events, Clean(e)',
         succeeded'[e] = succeeded[e], succeeded[e] > 0,
         skipped \subseteq skipped', late \subseteq late', excused \subseteq excused'
  PROVE  AnsweredIs(e)'
<1>0. Clean(e) /\ e \notin skipped' /\ \A d \in Deliveries : d[1] = e => d \notin excused'
  BY Parts DEF Clean
<1>1. AnsweredIs(e)
  BY <1>0 DEF Answered
<1>2. rows'[e].status \notin {"none", "pending"}
  BY <1>0, <1>1 DEF Shape, Offline, AnsweredIs
<1>3. \A d \in Deliveries : d[1] = e => ~WillRun(d)'
  BY <1>0, <1>1 DEF Shape, Offline, AnsweredIs
<1>4. ASSUME NEW p \in Procs, Unmoved(p, e)'
      PROVE  sweep'[p].finished
  <2>1. /\ sweep'[p].pc = "stuck" /\ sweep'[p].ev = e /\ rows'[e].status = "delivered"
        /\ sweep'[p].nonce = rows'[e].nonce /\ sweep'[p].restarted = rows'[e].restarted
    BY <1>4 DEF Unmoved, Found
  <2>2. CASE LooksNow(p)
    BY <2>1, <2>2 DEF LooksNow
  <2>3. CASE sweep'[p] = sweep[p]
    <3>1. rows[e].attempts \in Nat /\ sweep[p].nonce \in Nat /\ sweep[p].nonce <= rows[e].attempts
      BY <2>1, <2>3, RowTyped, Bounds DEF Looked, TypeOK, Job
    <3>2. sweep[p].nonce # rows[e].attempts + 1
      BY <3>1
    <3>3. CASE rows'[e].restarted /\ ~rows[e].restarted /\ rows[e].status = "delivered" /\ rows'[e].nonce = rows[e].nonce
      BY <2>1, <2>3, <3>3 DEF Looked, Found
    <3>4. CASE /\ rows'[e].status = rows[e].status /\ rows'[e].nonce = rows[e].nonce
               /\ rows'[e].restarted = rows[e].restarted
      <4>1. Unmoved(p, e)
        BY <2>1, <2>3, <3>4 DEF Unmoved, Found
      <4> QED
        BY <1>1, <2>3, <4>1 DEF AnsweredIs
    <3> QED
      BY <2>1, <2>3, <3>2, <3>3, <3>4 DEF Shape, RowMove
  <2> QED
    BY <2>1, <2>2, <2>3 DEF Shape
<1> QED
  BY <1>1, <1>2, <1>3, <1>4 DEF AnsweredIs

(* The steps that claim nothing: a sweep at most looks, a turn at most goes  *)
(* on, and a row keeps its delivery or leaves it.                            *)
Calm ==
  /\ \A p \in Procs : sweep'[p].pc = "stuck" => sweep'[p] = sweep[p] \/ LooksNow(p)
  /\ \A d \in Deliveries : Early(d)' => Early(d)
  /\ \A d \in Deliveries :
       turns'[d].pc \in RunPc \/ Unfinished(d)' => turns[d].pc \in RunPc \/ Unfinished(d)

Tame(e) ==
  /\ rows'[e].attempts = rows[e].attempts
  /\ \/ /\ rows'[e].status = rows[e].status /\ rows'[e].nonce = rows[e].nonce
        /\ rows'[e].restarted = rows[e].restarted /\ rows'[e].age \in {rows[e].age, "stale"}
     \/ /\ rows'[e].status # "delivered"
        /\ succeeded[e] > 0 /\ Offline(e)' =>
             \/ Offline(e) \/ e \in skipped'
             \/ \E d \in Deliveries : d[1] = e /\ WillRun(d)

LEMMA TameShape ==
  ASSUME TypeOK, Calm, \A e \in Events : Tame(e)
  PROVE  Shape
<1>1. ASSUME NEW e \in Events
      PROVE  rows'[e].attempts >= rows[e].attempts /\ RowMove(e)
  <2>1. Tame(e) /\ rows[e].attempts \in Nat
    BY RowTyped
  <2> QED
    BY <2>1 DEF Tame, RowMove
<1>2. ASSUME NEW d \in Deliveries, Owns(d)'
      PROVE  Owns(d) /\ rows'[d[1]].restarted = rows[d[1]].restarted
  <2>1. Tame(d[1])
    BY Parts
  <2> QED
    BY <1>2, <2>1 DEF Tame, Owns
<1>3. ASSUME NEW d \in Deliveries, Early(d)', Owns(d)'
      PROVE  Early(d) /\ Owns(d) /\ rows'[d[1]].restarted = rows[d[1]].restarted
  BY <1>2, <1>3 DEF Calm
<1>4. ASSUME NEW e \in Events, succeeded[e] > 0, Offline(e)'
      PROVE  Offline(e) \/ e \in skipped' \/ \E d \in Deliveries : d[1] = e /\ WillRun(d)
  BY <1>4 DEF Tame, Offline
<1>5. ASSUME NEW d \in Deliveries, WillRun(d)'
      PROVE  WillRun(d)
  BY <1>2, <1>5 DEF WillRun, Calm
<1> QED
  BY <1>1, <1>3, <1>4, <1>5 DEF Shape, Calm

LEMMA CalmIs ==
  ASSUME \A d \in Deliveries :
           \/ turns'[d].pc = turns[d].pc
           \/ turns'[d].pc \notin RunPc
           \/ turns'[d].pc \in {"ready", "model"} /\ turns[d].pc \in RunPc
           \/ turns'[d].pc \in {"queued", "ready"} /\ (turns[d].pc = "born" \/ Unfinished(d)),
         \A p \in Procs :
           \/ sweep'[p] = sweep[p]
           \/ sweep'[p].pc \notin {"stuck", "claimed"}
           \/ sweep'[p].pc = "stuck" /\ LooksNow(p)
  PROVE  Calm
<1>1. \A d \in Deliveries : (Swept(d)' => Swept(d)) /\ (Unfinished(d)' => Unfinished(d))
  BY DEF Swept, Unfinished
<1>2. \A d \in Deliveries : Unfinished(d) => Swept(d)
  BY DEF Swept, Unfinished
<1>3. \A d \in Deliveries : Early(d)' => Early(d)
  BY <1>1, <1>2 DEF Early, RunPc
<1>4. \A d \in Deliveries : turns'[d].pc \in RunPc => turns[d].pc \in RunPc \/ Unfinished(d)
  BY DEF RunPc
<1> QED
  BY <1>1, <1>3, <1>4 DEF Calm

LEMMA SameTame ==
  ASSUME NEW e \in Events, rows'[e] = rows[e]
  PROVE  Tame(e)
BY DEF Tame

LEMMA PutTame ==
  ASSUME TypeOK, NEW e \in Events, NEW r, rows' = [rows EXCEPT ![e] = r],
         r.attempts = rows[e].attempts,
         \/ /\ r.status = rows[e].status /\ r.nonce = rows[e].nonce
            /\ r.restarted = rows[e].restarted /\ r.age \in {rows[e].age, "stale"}
         \/ /\ r.status # "delivered"
            /\ succeeded[e] > 0 /\ r.status \in {"none", "pending"} =>
                 \/ Offline(e) \/ e \in skipped'
                 \/ \E d \in Deliveries : d[1] = e /\ WillRun(d)
  PROVE  \A x \in Events : Tame(x)
<1>1. rows'[e] = r /\ \A x \in Events \ {e} : rows'[x] = rows[x]
  BY RowAt
<1>2. Tame(e)
  BY <1>1 DEF Tame, Offline
<1> QED
  BY <1>1, <1>2, SameTame

LEMMA RestTame == UNCHANGED rows => \A e \in Events : Tame(e)
BY SameTame

LEMMA BackTame ==
  ASSUME TypeOK, NEW d \in Deliveries, HandBack(d), Owns(d) => WillRun(d)
  PROVE  \A e \in Events : Tame(e)
<1>1. PICK r \in Row :
        /\ rows' = [rows EXCEPT ![d[1]] = r] /\ r.attempts = rows[d[1]].attempts
        /\ IF Owns(d) THEN r.status = "pending" ELSE r = rows[d[1]]
  BY HandedBackIs
<1>2. d[1] \in Events
  BY Parts
<1>3. CASE Owns(d)
  BY <1>1, <1>2, <1>3, PutTame
<1>4. CASE ~Owns(d)
  BY <1>1, <1>2, <1>4, PutTame
<1> QED
  BY <1>3, <1>4

(* A claim: the row's next delivery, which nobody has run.                   *)
LEMMA ClaimShape ==
  ASSUME TypeOK, TypeOK', NEW e \in Events, rows[e].attempts < Ceiling,
         rows' = [rows EXCEPT ![e] = Claimed(rows[e])],
         \A p \in Procs : sweep'[p].pc = "stuck" => sweep'[p] = sweep[p],
         \A d \in Deliveries : d[1] # e =>
           /\ turns'[d].pc = turns[d].pc
           /\ (Swept(d)' => Swept(d)) /\ (Unfinished(d)' => Unfinished(d)),
         \/ Offline(e)
         \/ \E p \in Procs : Unmoved(p, e) /\ ~sweep[p].finished
         \/ \A d \in Deliveries : d[1] = e /\ Owns(d)' =>
              turns'[d].pc \notin RunPc /\ ~Unfinished(d)'
  PROVE  Shape
<1>0. /\ rows[e] \in Row /\ rows[e].attempts \in Nat /\ \A d \in Deliveries : d[1] \in Events
      /\ rows'[e] = Claimed(rows[e]) /\ \A x \in Events \ {e} : rows'[x] = rows[x]
  BY RowTyped, RowAt, Parts
<1>1. /\ rows'[e].attempts = rows[e].attempts + 1 /\ rows'[e].nonce = rows[e].attempts + 1
      /\ rows'[e].status = "delivered" /\ ~rows'[e].restarted
  <2>1. \A r \in Row : ~Claimed(r).restarted
    BY DEF Claimed, Row
  <2> QED
    BY <1>0, <2>1, ClaimedIs
<1>2. ASSUME NEW x \in Events
      PROVE  rows'[x].attempts >= rows[x].attempts /\ RowMove(x)
  <2>1. rows[x].attempts \in Nat
    BY RowTyped
  <2> QED
    BY <1>0, <1>1, <2>1 DEF RowMove
<1>3. \A d \in Deliveries : d[1] # e => (Owns(d)' <=> Owns(d))
  BY <1>0 DEF Owns
<1>4. ASSUME NEW d \in Deliveries, Early(d)', Owns(d)'
      PROVE  \/ Early(d) /\ Owns(d) /\ rows'[d[1]].restarted = rows[d[1]].restarted
             \/ ~rows'[d[1]].restarted
  BY <1>0, <1>1, <1>3, <1>4 DEF Early
<1>5. ASSUME NEW x \in Events, Offline(x)'
      PROVE  Offline(x)
  BY <1>0, <1>1, <1>5 DEF Offline
<1>6. ASSUME NEW d \in Deliveries, WillRun(d)'
      PROVE  WillRun(d) \/ Offline(d[1]) \/ \E p \in Procs : Unmoved(p, d[1]) /\ ~sweep[p].finished
  BY <1>3, <1>6 DEF WillRun
<1> QED
  BY <1>2, <1>4, <1>5, <1>6 DEF Shape

(* A turn that waited moves its row's time and starts.                       *)
LEMMA StartShape ==
  ASSUME Steady, TypeOK', Looked, NEW d \in Deliveries, Start(d)
  PROVE  Shape
<1>0. /\ TypeOK /\ d[1] \in Events /\ rows[d[1]] \in Row /\ turns[d] \in Turn
      /\ Done(turns[d]).pc = "done" /\ turns[d].pc = "queued" /\ UNCHANGED <<sweep, excused>>
      /\ \A c \in Deliveries : c[1] \in Events /\ c = <<c[1], c[2]>>
  BY Parts, RowTyped, TurnOf, TurnsAre DEF Steady, Start, MayStart
<1>1. CASE ~(~turns[d].superseded /\ StillOurs(d))
  <2>1. UNCHANGED rows /\ turns' = [turns EXCEPT ![d] = Done(turns[d])]
    BY <1>1 DEF Start
  <2>2. \A c \in Deliveries : turns'[c].pc = turns[c].pc \/ turns'[c].pc \notin RunPc
    BY <1>0, <2>1 DEF TypeOK, RunPc
  <2>3. Calm
    BY <1>0, <2>2, CalmIs
  <2> QED
    BY <1>0, <2>1, <2>3, RestTame, TameShape
<1>2. CASE ~turns[d].superseded /\ StillOurs(d)
  <2> DEFINE r == [rows[d[1]] EXCEPT !.age = "fresh", !.restarted = TRUE]
             t == [turns[d] EXCEPT !.pc = "ready", !.ahead = {}]
  <2>1. rows' = [rows EXCEPT ![d[1]] = r] /\ turns' = [turns EXCEPT ![d] = t] /\ Owns(d)
    BY <1>2 DEF Start, StillOurs
  <2>2. /\ r.status = rows[d[1]].status /\ r.attempts = rows[d[1]].attempts
        /\ r.nonce = rows[d[1]].nonce /\ r.restarted
    BY <1>0 DEF Row
  <2>3. t.pc = "ready"
    BY <1>0 DEF Turn
  <2> HIDE DEF r, t
  <2>4. rows'[d[1]] = r /\ \A x \in Events \ {d[1]} : rows'[x] = rows[x]
    BY <1>0, <2>1, RowAt
  <2>5. turns'[d].pc = "ready" /\ \A c \in Deliveries \ {d} : turns'[c] = turns[c]
    BY <1>0, <2>1, <2>3 DEF TypeOK
  <2>6. ~rows[d[1]].restarted /\ rows[d[1]].status = "delivered"
    BY <1>0, <2>1 DEF Looked, Early, Owns
  <2>7. \A c \in Deliveries : Owns(c)' <=> Owns(c)
    BY <1>0, <2>2, <2>4 DEF Owns
  <2>8. \A c \in Deliveries : (Swept(c)' <=> Swept(c)) /\ (Unfinished(c)' <=> Unfinished(c))
    BY <1>0 DEF Swept, Unfinished
  <2>9. ~Swept(d)
    BY <1>0 DEF Steady, Rely, SweptIsNew
  <2>10. ASSUME NEW x \in Events
         PROVE  rows'[x].attempts >= rows[x].attempts /\ RowMove(x)
    <3>1. rows[x].attempts \in Nat
      BY <1>0, RowTyped
    <3> QED
      BY <2>2, <2>4, <2>6, <3>1 DEF RowMove
  <2>11. ASSUME NEW c \in Deliveries, Early(c)', Owns(c)'
         PROVE  Early(c) /\ Owns(c) /\ rows'[c[1]].restarted = rows[c[1]].restarted
    <3>1. c # d
      BY <2>5, <2>8, <2>9, <2>11 DEF Early
    <3>2. c[1] # d[1]
      BY <1>0, <2>1, <2>7, <2>11, <3>1 DEF Owns
    <3> QED
      BY <1>0, <2>4, <2>5, <2>7, <2>8, <2>11, <3>1, <3>2 DEF Early
  <2>12. \A x \in Events : Offline(x)' => Offline(x)
    BY <2>2, <2>4 DEF Offline
  <2>13. \A c \in Deliveries : WillRun(c)' => WillRun(c)
    BY <1>0, <2>5, <2>7, <2>8 DEF WillRun, RunPc
  <2> QED
    BY <1>0, <2>10, <2>11, <2>12, <2>13 DEF Shape
<1> QED
  BY <1>1, <1>2

LEMMA TurnShape ==
  ASSUME Steady, TypeOK', Looked, NEW d \in Deliveries, TurnNext(d)
  PROVE  Shape
<1>0. /\ TypeOK /\ d[1] \in Events /\ rows[d[1]] \in Row /\ turns[d] \in Turn
      /\ Done(turns[d]).pc = "done" /\ UNCHANGED sweep
      /\ \A p \in Procs : Done(Born(p)).pc = "done"
  BY Parts, RowTyped, TurnOf, TurnsAre
     DEF Steady, TurnNext, Dispatch, Start, StartUnchecked, Begin, RunSucceeds, RunFails, Settle,
         SettleFails, Overstays
<1>a. ASSUME NEW t, turns' = [turns EXCEPT ![d] = t],
             \/ t.pc = turns[d].pc
             \/ t.pc \notin RunPc
             \/ t.pc \in {"ready", "model"} /\ turns[d].pc \in RunPc
      PROVE  Calm
  <2>1. turns'[d] = t /\ \A c \in Deliveries \ {d} : turns'[c] = turns[c]
    BY <1>0, <1>a DEF TypeOK
  <2>2. \A c \in Deliveries :
          \/ turns'[c].pc = turns[c].pc
          \/ turns'[c].pc \notin RunPc
          \/ turns'[c].pc \in {"ready", "model"} /\ turns[c].pc \in RunPc
    BY <1>a, <2>1
  <2> QED
    BY <1>0, <2>2, CalmIs
<1>b. ASSUME NEW s \in {"model", "ok", "bad"}, turns' = [turns EXCEPT ![d].pc = s],
             s = "model" => turns[d].pc \in RunPc, UNCHANGED rows
      PROVE  Shape
  <2> DEFINE t == [turns[d] EXCEPT !.pc = s]
  <2>1. turns' = [turns EXCEPT ![d] = t]
    BY <1>b
  <2>2. t.pc = s
    BY <1>0 DEF Turn
  <2> HIDE DEF t
  <2>3. Calm
    BY <1>a, <1>b, <2>1, <2>2 DEF RunPc
  <2> QED
    BY <1>0, <1>b, <2>3, RestTame, TameShape
<1>1. CASE Dispatch(d)
  <2>1. PICK p \in Procs : p = turns[d].at
    BY <1>1 DEF Dispatch, Steady, Placed, Working
  <2>2. turns[d].pc = "born" /\ Dispatched(p, d)
    BY <1>1, <2>1 DEF Dispatch
  <2>3. CASE proc[p] = "up"
    <3>1. turns' = Entered(p, d) /\ UNCHANGED rows
      BY <2>2, <2>3 DEF Dispatched
    <3>2. /\ \A c \in Deliveries \ {d} : turns'[c].pc = turns[c].pc
          /\ turns'[d].pc \in {"queued", "ready"}
      BY <1>0, <3>1, EnteredIs
    <3>3. Calm
      BY <1>0, <2>2, <3>2, CalmIs
    <3> QED
      BY <1>0, <3>1, <3>3, RestTame, TameShape
  <2>4. CASE proc[p] # "up"
    <3>1. HandBack(d) /\ turns' = [turns EXCEPT ![d] = Done(Born(p))]
      BY <2>2, <2>4 DEF Dispatched
    <3>2. Owns(d) => WillRun(d)
      BY <2>2 DEF WillRun, RunPc
    <3>3. Calm
      BY <1>0, <1>a, <3>1 DEF RunPc
    <3> QED
      BY <1>0, <3>1, <3>2, <3>3, BackTame, TameShape
  <2> QED
    BY <2>3, <2>4
<1>2. CASE Start(d)
  BY <1>2, StartShape
<1>3. CASE StartUnchecked(d)
  <2>1. /\ turns[d].pc = "queued" /\ UNCHANGED rows
        /\ turns' = [turns EXCEPT ![d] = [turns[d] EXCEPT !.pc = "ready", !.ahead = {}]]
    BY <1>3 DEF StartUnchecked, MayStart
  <2>2. [turns[d] EXCEPT !.pc = "ready", !.ahead = {}].pc = "ready"
    BY <1>0 DEF Turn
  <2>3. Calm
    BY <1>a, <2>1, <2>2 DEF RunPc
  <2> QED
    BY <1>0, <2>1, <2>3, RestTame, TameShape
<1>4. CASE Begin(d)
  <2>1. turns[d].pc \in RunPc
    BY <1>4 DEF Begin, RunPc
  <2>2. CASE proc[turns[d].at] = "up"
    BY <1>4, <1>b, <2>1, <2>2 DEF Begin
  <2>3. CASE proc[turns[d].at] # "up"
    <3>1. HandBack(d) /\ turns' = [turns EXCEPT ![d] = Done(turns[d])]
      BY <1>4, <2>3 DEF Begin
    <3>2. Owns(d) => WillRun(d)
      BY <2>1 DEF WillRun
    <3>3. Calm
      BY <1>0, <1>a, <3>1 DEF RunPc
    <3> QED
      BY <1>0, <3>1, <3>2, <3>3, BackTame, TameShape
  <2> QED
    BY <2>2, <2>3
<1>5. CASE RunSucceeds(d) \/ RunFails(d)
  BY <1>5, <1>b DEF RunSucceeds, RunFails
<1>6. CASE Settle(d)
  <2>1. turns' = [turns EXCEPT ![d] = Done(turns[d])]
    BY <1>6 DEF Settle
  <2>2. Calm
    BY <1>0, <1>a, <2>1 DEF RunPc
  <2>3. Verdict(d) \in Final /\ "pending" \notin Final /\ "none" \notin Final /\ "delivered" \notin Final
    BY DEF Verdict, Final
  <2>4. /\ Ended(rows[d[1]], Verdict(d)).status = Verdict(d)
        /\ Ended(rows[d[1]], Verdict(d)).attempts = rows[d[1]].attempts
    BY <1>0, <2>3, EndedIs
  <2>5. \A e \in Events : Tame(e)
    <3>1. CASE rows' = rows
      BY <3>1, RestTame
    <3>2. CASE rows' = [rows EXCEPT ![d[1]] = Ended(rows[d[1]], Verdict(d))]
      BY <1>0, <2>3, <2>4, <3>2, PutTame
    <3> QED
      BY <1>6, <3>1, <3>2 DEF Settle
  <2> QED
    BY <1>0, <2>2, <2>5, TameShape
<1>7. CASE SettleFails(d)
  <2>1. turns' = [turns EXCEPT ![d] = Done(turns[d])] /\ UNCHANGED rows
    BY <1>7 DEF SettleFails
  <2>2. Calm
    BY <1>0, <1>a, <2>1 DEF RunPc
  <2> QED
    BY <1>0, <2>1, <2>2, RestTame, TameShape
<1>8. CASE Overstays(d)
  <2>1. UNCHANGED <<turns, rows>>
    BY <1>8 DEF Overstays
  <2>2. Calm
    BY <1>0, <2>1, CalmIs
  <2> QED
    BY <1>0, <2>1, <2>2, RestTame, TameShape
<1> QED
  BY <1>1, <1>2, <1>3, <1>4, <1>5, <1>6, <1>7, <1>8 DEF TurnNext

LEMMA EnqueueShape ==
  ASSUME Steady, TypeOK', NEW e \in Events, NEW p \in Procs, Enqueue(e, p)
  PROVE  Shape
<1>0. /\ TypeOK /\ Offline(e) /\ UNCHANGED sweep /\ rows' = [rows EXCEPT ![e] = Claimed(rows[e])]
      /\ turns' = [turns EXCEPT ![<<e, 1>>] = Born(p)]
  BY DEF Steady, Enqueue, Offline
<1>1. rows[e].attempts < Ceiling
  BY Bounds DEF Enqueue, Steady, Counted
<1>2. \A d \in Deliveries : d[1] # e => turns'[d] = turns[d]
  BY <1>0 DEF TypeOK
<1>3. \A d \in Deliveries : (Swept(d)' => Swept(d)) /\ (Unfinished(d)' => Unfinished(d))
  BY <1>0 DEF Swept, Unfinished
<1> QED
  BY <1>0, <1>1, <1>2, <1>3, ClaimShape

LEMMA EventShape ==
  ASSUME Steady, TypeOK', NEW e \in Events, EventNext(e)
  PROVE  Shape
<1>0. TypeOK /\ rows[e] \in Row /\ sweep \in [Procs -> Job]
  BY RowTyped DEF Steady, TypeOK
<1>1. ASSUME NEW p \in Procs, Enqueue(e, p) PROVE Shape
  BY <1>1, EnqueueShape
<1>2. ASSUME NEW p \in Procs, FindStuck(p, e) PROVE Shape
  <2> DEFINE j == [pc |-> "stuck", ev |-> e, nonce |-> rows[e].nonce,
                   restarted |-> rows[e].restarted, finished |-> Finished(e)]
  <2>1. UNCHANGED <<rows, turns>> /\ sweep' = [sweep EXCEPT ![p] = j]
    BY <1>2 DEF FindStuck
  <2>2. j.ev = e /\ j.nonce = rows[e].nonce /\ j.restarted = rows[e].restarted
    OBVIOUS
  <2>3. succeeded[e] > 0 => j.finished
    BY DEF Finished
  <2> HIDE DEF j
  <2>4. sweep'[p] = j /\ \A q \in Procs \ {p} : sweep'[q] = sweep[q]
    BY <1>0, <2>1
  <2>5. rows[e].age = "stale" /\ rows[e].nonce <= rows[e].attempts
    BY <1>0, <1>2, RowTyped DEF FindStuck, Stuck
  <2>6. LooksNow(p)
    BY <2>1, <2>2, <2>3, <2>4, <2>5 DEF LooksNow
  <2>7. sweep'[p].pc = "stuck"
    BY <1>0, <1>2 DEF FindStuck
  <2>8. Calm
    BY <2>1, <2>4, <2>6, <2>7, CalmIs
  <2> QED
    BY <1>0, <2>1, <2>8, RestTame, TameShape
<1>3. ASSUME NEW p \in Procs, FindStranded(p, e) PROVE Shape
  <2> DEFINE j == [Resting EXCEPT !.pc = "stranded", !.ev = e]
  <2>1. UNCHANGED <<rows, turns>> /\ sweep' = [sweep EXCEPT ![p] = j]
    BY <1>3 DEF FindStranded
  <2>2. j.pc = "stranded"
    BY DEF Resting
  <2> HIDE DEF j
  <2>3. sweep'[p] = j /\ \A q \in Procs \ {p} : sweep'[q] = sweep[q]
    BY <1>0, <2>1
  <2>4. Calm
    BY <2>1, <2>2, <2>3, CalmIs
  <2> QED
    BY <1>0, <2>1, <2>4, RestTame, TameShape
<1>a. ASSUME UNCHANGED <<turns, sweep>>, \A x \in Events : Tame(x) PROVE Shape
  <2>1. Calm
    BY <1>a, CalmIs
  <2> QED
    BY <1>0, <1>a, <2>1, TameShape
<1>4. CASE GoesStale(e) \/ RefreshFails(e)
  <2> DEFINE r == [rows[e] EXCEPT !.age = "stale"]
  <2>1. /\ r.status = rows[e].status /\ r.nonce = rows[e].nonce /\ r.attempts = rows[e].attempts
        /\ r.restarted = rows[e].restarted /\ r.age = "stale"
    BY <1>0 DEF Row
  <2>2. rows' = [rows EXCEPT ![e] = r] /\ UNCHANGED <<turns, sweep>>
    BY <1>4 DEF GoesStale, RefreshFails
  <2> HIDE DEF r
  <2>3. \A x \in Events : Tame(x)
    BY <1>0, <2>1, <2>2, PutTame
  <2> QED
    BY <1>a, <2>2, <2>3
<1>5. CASE GrowsOld(e)
  <2> DEFINE r == [rows[e] EXCEPT !.old = TRUE]
  <2>1. /\ r.status = rows[e].status /\ r.nonce = rows[e].nonce /\ r.attempts = rows[e].attempts
        /\ r.restarted = rows[e].restarted /\ r.age = rows[e].age
    BY <1>0 DEF Row
  <2>2. rows' = [rows EXCEPT ![e] = r] /\ UNCHANGED <<turns, sweep>>
    BY <1>5 DEF GrowsOld
  <2> HIDE DEF r
  <2>3. \A x \in Events : Tame(x)
    BY <1>0, <2>1, <2>2, PutTame
  <2> QED
    BY <1>a, <2>2, <2>3
<1>6. ASSUME NEW p \in Procs, EnqueuePending(e, p) PROVE Shape
  <2> DEFINE r == [rows[e] EXCEPT !.status = "pending"]
  <2>1. r.status = "pending" /\ r.attempts = rows[e].attempts
    BY <1>0 DEF Row
  <2>2. rows' = [rows EXCEPT ![e] = r] /\ UNCHANGED <<turns, sweep>> /\ Offline(e)
    BY <1>6 DEF EnqueuePending, Offline
  <2> HIDE DEF r
  <2>3. \A x \in Events : Tame(x)
    BY <1>0, <2>1, <2>2, PutTame
  <2> QED
    BY <1>a, <2>2, <2>3
<1>7. ASSUME NEW p \in Procs, RequeueSkipped(p, e) PROVE Shape
  <2>1. /\ rows' = [rows EXCEPT ![e] = TakenBack(rows[e])] /\ UNCHANGED <<turns, sweep>>
        /\ succeeded[e] > 0 => e \in skipped'
    BY <1>7 DEF RequeueSkipped
  <2>2. TakenBack(rows[e]).status = "pending" /\ TakenBack(rows[e]).attempts = rows[e].attempts
    BY <1>0, TakenBackIs
  <2>3. \A x \in Events : Tame(x)
    BY <1>0, <2>1, <2>2, PutTame
  <2> QED
    BY <1>a, <2>1, <2>3
<1>8. ASSUME NEW p \in Procs, Retire(p, e) \/ CloseStranded(p, e) PROVE Shape
  <2>1. /\ rows' = [rows EXCEPT ![e] = Ended(rows[e], "failed")] /\ UNCHANGED <<turns, sweep>>
    BY <1>8 DEF Retire, CloseStranded
  <2>2. Ended(rows[e], "failed").status = "failed"
        /\ Ended(rows[e], "failed").attempts = rows[e].attempts
    BY <1>0, EndedIs DEF Final
  <2>3. \A x \in Events : Tame(x)
    BY <1>0, <2>1, <2>2, PutTame
  <2> QED
    BY <1>a, <2>1, <2>3
<1> QED
  BY <1>1, <1>2, <1>3, <1>4, <1>5, <1>6, <1>7, <1>8 DEF EventNext

(* The steps of a replica.                                                   *)
LEMMA ClaimsShape ==
  ASSUME Steady, TypeOK', NEW p \in Procs, ClaimStuck(p) \/ ClaimStranded(p)
  PROVE  Shape
<1>e. PICK e \in Events : e = sweep[p].ev
  BY DEF Steady, Sweeps, ClaimStuck, ClaimStranded
<1>0. /\ TypeOK /\ SweepOK /\ UNCHANGED turns /\ rows[e] \in Row /\ rows[e].attempts \in Nat
      /\ sweep[p] \in Job /\ sweep \in [Procs -> Job]
  BY RowTyped DEF Steady, SweepOK, ClaimStuck, ClaimStranded, TypeOK
<1>1. CASE sweep' = [sweep EXCEPT ![p] = Resting] /\ UNCHANGED rows
  <2>1. sweep'[p].pc = "idle" /\ \A q \in Procs \ {p} : sweep'[q] = sweep[q]
    BY <1>0, <1>1, RestingIs
  <2>2. Calm
    BY <1>0, <2>1, CalmIs
  <2> QED
    BY <1>0, <1>1, <2>2, RestTame, TameShape
<1>2. CASE /\ rows' = [rows EXCEPT ![e] = Claimed(rows[e])]
           /\ sweep' = [sweep EXCEPT ![p] = Holding(sweep[p], rows[e].attempts + 1)]
           /\ Offline(e) \/ (Found(p, e) /\ sweep[p].restarted = rows[e].restarted)
  <2>1. rows[e].attempts < Ceiling
    <3>1. CASE ClaimStranded(p)
      BY <1>0, <1>e, <3>1, MayRescue DEF ClaimStranded
    <3>2. CASE ClaimStuck(p)
      <4>1. sweep[p].pc = "stuck" /\ rows[e].status = "delivered" /\ rows[e].nonce = sweep[p].nonce
        <5>1. sweep[p].pc = "stuck" /\ sweep' # [sweep EXCEPT ![p] = Resting]
          <6>1. rows[e].attempts + 1 \in Nat /\ Holding(sweep[p], rows[e].attempts + 1).pc = "claimed"
            BY <1>0 DEF Holding, Job
          <6>2. sweep'[p].pc = "claimed"
            BY <1>0, <1>2, <6>1
          <6>3. [sweep EXCEPT ![p] = Resting][p].pc = "idle"
            BY <1>0, RestingIs
          <6> QED
            BY <3>2, <6>2, <6>3 DEF ClaimStuck
        <5> QED
          BY <1>e, <3>2, <5>1 DEF ClaimStuck
      <4>2. rows[e].attempts < Cap
        BY <1>0, <1>e, <4>1, MayRestart
      <4> QED
        BY <1>0, <4>2, Bounds
    <3> QED
      BY <3>1, <3>2
  <2>2. rows[e].attempts + 1 \in 1 .. Ceiling
    BY <1>0, <2>1, ClaimedIs
  <2> DEFINE j == Holding(sweep[p], rows[e].attempts + 1)
  <2>3. j.pc = "claimed" /\ j.ev = e /\ j.finished = sweep[p].finished
    BY <1>0, <1>e DEF Holding, Job
  <2>4. sweep' = [sweep EXCEPT ![p] = j]
    BY <1>2
  <2> HIDE DEF j
  <2>5. sweep'[p] = j /\ \A q \in Procs \ {p} : sweep'[q] = sweep[q]
    BY <1>0, <2>4
  <2>6. \A q \in Procs : sweep'[q].pc = "stuck" => sweep'[q] = sweep[q]
    BY <2>3, <2>5
  <2>7. \A d \in Deliveries : d[1] # e => (Swept(d)' => Swept(d)) /\ (Unfinished(d)' => Unfinished(d))
    BY <2>3, <2>5 DEF Swept, Unfinished
  <2>8. CASE Offline(e)
    BY <1>0, <1>2, <2>1, <2>6, <2>7, <2>8, ClaimShape
  <2>9. CASE Unmoved(p, e) /\ ~sweep[p].finished
    BY <1>0, <1>2, <2>1, <2>6, <2>7, <2>9, ClaimShape
  <2>10. CASE Unmoved(p, e) /\ sweep[p].finished
    <3>1. ASSUME NEW d \in Deliveries, d[1] = e, Owns(d)'
          PROVE  turns'[d].pc \notin RunPc /\ ~Unfinished(d)'
      <4>1. d[2] = rows[e].attempts + 1
        <5>1. rows'[e] = Claimed(rows[e])
          BY <1>0, <1>2, RowAt
        <5>2. Claimed(rows[e]).nonce = rows[e].attempts + 1
          BY <1>0, <2>1, ClaimedIs
        <5> QED
          BY <3>1, <5>1, <5>2 DEF Owns
      <4>2. ~(d[2] <= rows[e].attempts)
        BY <1>0, <4>1
      <4>3. turns[d].pc = "none"
        BY <3>1, <4>2 DEF Steady, Rely, Known
      <4>4. ASSUME NEW q \in Procs, sweep'[q].pc = "claimed", sweep'[q].ev = d[1],
                   sweep'[q].nonce = d[2], ~sweep'[q].finished
            PROVE  FALSE
        <5>1. q # p
          BY <2>3, <2>5, <2>10, <4>4
        <5>2. Swept(d)
          BY <2>5, <4>4, <5>1 DEF Swept
        <5>3. Owns(d)
          BY <5>2 DEF Steady, Rely, HoldersOwn
        <5> QED
          BY <1>0, <3>1, <4>2, <5>3, OwnsIs
      <4> QED
        BY <1>0, <4>3, <4>4 DEF RunPc, Unfinished
    <3> QED
      BY <1>0, <1>2, <2>1, <2>6, <2>7, <3>1, ClaimShape
  <2> QED
    BY <1>2, <2>8, <2>9, <2>10 DEF Unmoved
<1> QED
  BY <1>e, <1>1, <1>2 DEF ClaimStuck, ClaimStranded, Claimable, Offline, Found

LEMMA ResumeShape ==
  ASSUME Steady, TypeOK', NEW p \in Procs, Resume(p)
  PROVE  Shape
<1>d. PICK d \in Deliveries : d = <<sweep[p].ev, sweep[p].nonce>>
  BY Parts DEF Resume, Steady, Sweeps
<1>0. /\ TypeOK /\ sweep[p].pc = "claimed" /\ sweep' = [sweep EXCEPT ![p] = Resting]
      /\ d[1] \in Events /\ rows[d[1]] \in Row /\ d[1] = sweep[p].ev /\ d[2] = sweep[p].nonce
  BY <1>d, Parts, RowTyped DEF Steady, Resume
<1>1. sweep'[p].pc = "idle" /\ \A q \in Procs \ {p} : sweep'[q] = sweep[q]
  BY <1>0, RestingIs DEF TypeOK
<1>2. \A q \in Procs : sweep'[q] = sweep[q] \/ sweep'[q].pc \notin {"stuck", "claimed"}
  BY <1>1
<1>3. CASE sweep[p].finished
  <2>1. /\ rows' = IF Settles(d) THEN [rows EXCEPT ![d[1]] = Ended(rows[d[1]], "acked")] ELSE rows
        /\ UNCHANGED turns
    BY <1>d, <1>3 DEF Resume
  <2>2. Ended(rows[d[1]], "acked").status = "acked"
        /\ Ended(rows[d[1]], "acked").attempts = rows[d[1]].attempts
    BY <1>0, EndedIs DEF Final
  <2>3. \A x \in Events : Tame(x)
    <3>1. CASE rows' = rows
      BY <3>1, RestTame
    <3>2. CASE rows' = [rows EXCEPT ![d[1]] = Ended(rows[d[1]], "acked")]
      BY <1>0, <2>2, <3>2, PutTame
    <3> QED
      BY <2>1, <3>1, <3>2
  <2>4. Calm
    BY <1>2, <2>1, CalmIs
  <2> QED
    BY <1>0, <2>3, <2>4, TameShape
<1>4. CASE ~sweep[p].finished
  <2>1. Dispatched(p, d)
    BY <1>d, <1>4 DEF Resume
  <2>2. Unfinished(d)
    BY <1>0, <1>4 DEF Unfinished
  <2>3. CASE proc[p] = "up"
    <3>1. turns' = Entered(p, d) /\ UNCHANGED rows
      BY <2>1, <2>3 DEF Dispatched
    <3>2. /\ \A c \in Deliveries \ {d} : turns'[c].pc = turns[c].pc
          /\ turns'[d].pc \in {"queued", "ready"}
      BY <1>0, <3>1, EnteredIs
    <3>3. Calm
      BY <1>2, <2>2, <3>2, CalmIs
    <3> QED
      BY <1>0, <3>1, <3>3, RestTame, TameShape
  <2>4. CASE proc[p] # "up"
    <3>1. HandBack(d) /\ turns' = [turns EXCEPT ![d] = Done(Born(p))]
      BY <2>1, <2>4 DEF Dispatched
    <3>2. Owns(d) => WillRun(d)
      BY <2>2 DEF WillRun
    <3>3. Done(Born(p)).pc = "done"
      BY TurnsAre
    <3>4. \A c \in Deliveries : turns'[c].pc = turns[c].pc \/ turns'[c].pc \notin RunPc
      BY <1>0, <3>1, <3>3 DEF TypeOK, RunPc
    <3>5. Calm
      BY <1>2, <3>4, CalmIs
    <3> QED
      BY <1>0, <3>1, <3>2, <3>5, BackTame, TameShape
  <2> QED
    BY <2>3, <2>4
<1> QED
  BY <1>3, <1>4

LEMMA ProcShape ==
  ASSUME Steady, TypeOK', NEW p \in Procs, ProcNext(p)
  PROVE  Shape
<1>0. TypeOK /\ sweep \in [Procs -> Job]
  BY DEF Steady, TypeOK
<1>1. CASE ClaimStuck(p) \/ ClaimStranded(p)
  BY <1>1, ClaimsShape
<1>2. CASE Resume(p)
  BY <1>2, ResumeShape
<1>3. CASE ResumeFails(p)
  <2>1. UNCHANGED <<rows, turns>> /\ sweep' = [sweep EXCEPT ![p] = Resting]
    BY <1>3 DEF ResumeFails
  <2>2. sweep'[p].pc = "idle" /\ \A q \in Procs \ {p} : sweep'[q] = sweep[q]
    BY <1>0, <2>1, RestingIs
  <2>3. Calm
    BY <2>1, <2>2, CalmIs
  <2> QED
    BY <1>0, <2>1, <2>3, RestTame, TameShape
<1>4. ASSUME NEW state, Halted(p, state), UNCHANGED rows
      PROVE  Shape
  <2>1. ASSUME NEW d \in Deliveries
        PROVE  turns'[d].pc = turns[d].pc \/ turns'[d].pc \notin RunPc
    <3>1. turns'[d] = IF turns[d].at # p \/ turns[d].pc = "none" THEN turns[d]
                      ELSE [Done(turns[d]) EXCEPT !.pc = IF turns[d].pc = "done" THEN "done" ELSE "lost"]
      BY <1>4 DEF Halted
    <3>2. Done(turns[d]) \in Turn
      BY <1>0, TurnOf, TurnsAre
    <3> QED
      BY <3>1, <3>2 DEF Turn, RunPc
  <2>2. sweep'[p].pc = "idle" /\ \A q \in Procs \ {p} : sweep'[q] = sweep[q]
    BY <1>0, <1>4, RestingIs DEF Halted
  <2>3. Calm
    BY <2>1, <2>2, CalmIs
  <2> QED
    BY <1>0, <1>4, <2>3, RestTame, TameShape
<1>5. CASE Crash(p) \/ DrainEnds(p) \/ Exit(p)
  BY <1>4, <1>5 DEF Crash, DrainEnds, Exit
<1>6. CASE Boot(p)
  <2>1. UNCHANGED <<rows, sweep>>
    BY <1>6 DEF Boot
  <2>2. ASSUME NEW d \in Deliveries
        PROVE  turns'[d].pc = turns[d].pc
    <3>1. turns'[d] = IF turns[d].at = p THEN [turns[d] EXCEPT !.at = NoProc] ELSE turns[d]
      BY <1>6 DEF Boot
    <3> QED
      BY <1>0, <3>1, TurnOf DEF Turn
  <2>3. Calm
    BY <2>1, <2>2, CalmIs
  <2> QED
    BY <1>0, <2>1, <2>3, RestTame, TameShape
<1>7. CASE Drain(p) \/ Deadline(p)
  <2>1. UNCHANGED <<rows, sweep, turns>>
    BY <1>7 DEF Drain, Deadline
  <2>2. Calm
    BY <2>1, CalmIs
  <2> QED
    BY <1>0, <2>1, <2>2, RestTame, TameShape
<1>8. ASSUME NEW d \in Deliveries, RequeueAtDeadline(p, d) PROVE Shape
  <2>1. HandBack(d) /\ UNCHANGED <<turns, sweep>> /\ d \in InProcessRunning(p)
    BY <1>8 DEF RequeueAtDeadline
  <2>2. Owns(d) => WillRun(d)
    BY <2>1 DEF InProcessRunning, WillRun, RunPc
  <2>3. Calm
    BY <2>1, CalmIs
  <2> QED
    BY <1>0, <2>1, <2>2, <2>3, BackTame, TameShape
<1> QED
  BY <1>1, <1>2, <1>3, <1>5, <1>6, <1>7, <1>8 DEF ProcNext

(* A run that ends well is its event's first.                                *)
LEMMA SuccessAnswers ==
  ASSUME Steady, Looked, Answered, NEW d \in Deliveries, RunSucceeds(d), Clean(d[1])'
  PROVE  AnsweredIs(d[1])'
<1>0. /\ TypeOK /\ d[1] \in Events /\ turns[d] \in Turn /\ succeeded[d[1]] \in Nat
      /\ turns[d].pc = "model" /\ turns' = [turns EXCEPT ![d].pc = "ok"]
      /\ succeeded' = [succeeded EXCEPT ![d[1]] = succeeded[d[1]] + 1]
      /\ UNCHANGED <<rows, sweep, late, excused, skipped>>
      /\ \A c \in Deliveries : c[1] \in Events /\ c[2] \in 1 .. Ceiling /\ c = <<c[1], c[2]>>
  BY Parts, TurnOf DEF Steady, RunSucceeds, TypeOK
<1>1. Clean(d[1]) /\ d \notin late \cup excused
  BY <1>0 DEF Clean
<1>2. Owns(d) /\ rows[d[1]].age = "fresh"
  BY <1>0, <1>1 DEF Steady, Rely, HoldersOwn, Holder, AtWorkPc
<1>3. WillRun(d)
  BY <1>0, <1>2 DEF WillRun, RunPc
<1>4. ~(succeeded[d[1]] > 0)
  BY <1>0, <1>1, <1>3 DEF Answered, AnsweredIs
<1>5. succeeded'[d[1]] = 1
  <2>1. succeeded'[d[1]] = succeeded[d[1]] + 1
    BY <1>0 DEF TypeOK
  <2> QED
    BY <1>0, <1>4, <2>1
<1>6. rows'[d[1]].status \notin {"none", "pending"}
  BY <1>0, <1>2 DEF Owns
<1>7. ASSUME NEW c \in Deliveries, c[1] = d[1], WillRun(c)'
      PROVE  FALSE
  <2>1. Owns(c)
    BY <1>0, <1>7 DEF WillRun, Owns
  <2>2. c = d
    BY <1>0, <1>2, <1>7, <2>1 DEF Owns
  <2>3. turns'[d].pc = "ok"
    BY <1>0 DEF Turn, TypeOK
  <2>4. Swept(d)
    BY <1>0, <1>7, <2>2, <2>3 DEF WillRun, RunPc, Unfinished, Swept
  <2> QED
    BY <1>0, <2>4 DEF Steady, Rely, SweptIsNew
<1>8. \A p \in Procs : ~Unmoved(p, d[1])'
  <2> SUFFICES ASSUME NEW p \in Procs, Unmoved(p, d[1])' PROVE FALSE
    OBVIOUS
  <2>1. Unmoved(p, d[1])
    BY <1>0 DEF Unmoved, Found
  <2> QED
    BY <1>0, <1>2, <2>1 DEF Looked
<1> QED
  BY <1>5, <1>6, <1>7, <1>8 DEF AnsweredIs

Minded == Steady /\ Looked /\ Answered

LEMMA NextMinded == Minded /\ [Next]_vars => Minded'
<1> SUFFICES ASSUME Minded, [Next]_vars PROVE Minded'
  OBVIOUS
<1>0. /\ Steady /\ Looked /\ Answered /\ Steady' /\ TypeOK /\ TypeOK' /\ Sweeps /\ Sweeps'
      /\ succeeded \in [Events -> Nat]
  BY NextKeeps DEF Minded, Steady, TypeOK
<1>1. CASE UNCHANGED vars
  <2>1. Looked'
    BY <1>0, <1>1 DEF vars, Looked, Found, Unmoved, Early, Swept, Owns
  <2>2. ASSUME NEW e \in Events PROVE AnsweredIs(e)' <=> AnsweredIs(e)
    BY <1>1 DEF vars, AnsweredIs, WillRun, Unfinished, Owns, Unmoved, Found
  <2>3. Answered'
    BY <1>0, <1>1, <2>2 DEF vars, Answered, Clean
  <2> QED
    BY <1>0, <2>1, <2>3 DEF Minded
<1>2. CASE Next
  <2>1. Shape
    BY <1>0, <1>2, TurnShape, EventShape, ProcShape DEF Next
  <2>2. Looked'
    BY <1>0, <2>1, LookedKeeps
  <2>3. skipped \subseteq skipped' /\ late \subseteq late' /\ excused \subseteq excused'
    <3>1. ASSUME NEW d \in Deliveries, TurnNext(d)
          PROVE  skipped \subseteq skipped' /\ late \subseteq late' /\ excused \subseteq excused'
      BY <3>1 DEF TurnNext, Dispatch, Start, StartUnchecked, Begin, RunSucceeds, RunFails, Settle,
                  SettleFails, Overstays
    <3>2. ASSUME NEW e \in Events, EventNext(e)
          PROVE  skipped \subseteq skipped' /\ late \subseteq late' /\ excused \subseteq excused'
      BY <3>2 DEF EventNext, GoesStale, RefreshFails, GrowsOld, Enqueue, EnqueuePending, FindStuck,
                  RequeueSkipped, Retire, CloseStranded, FindStranded
    <3>3. ASSUME NEW p \in Procs, ProcNext(p)
          PROVE  skipped \subseteq skipped' /\ late \subseteq late' /\ excused \subseteq excused'
      BY <3>3 DEF ProcNext, ClaimStuck, Resume, ResumeFails, ClaimStranded, Crash, Boot, Drain,
                  DrainEnds, Deadline, Exit, RequeueAtDeadline
    <3> QED
      BY <1>2, <3>1, <3>2, <3>3 DEF Next
  <2>4. ASSUME NEW e \in Events, Clean(e)', succeeded'[e] = succeeded[e], succeeded[e] > 0
        PROVE  AnsweredIs(e)'
    BY <1>0, <2>1, <2>3, <2>4, AnsweredKeeps
  <2>5. ASSUME succeeded' = succeeded
        PROVE  Answered'
    <3> SUFFICES ASSUME NEW e \in Events, Clean(e)', succeeded'[e] > 0 PROVE AnsweredIs(e)'
      BY DEF Answered
    <3>1. succeeded'[e] = succeeded[e] /\ succeeded[e] > 0
      BY <2>5
    <3> QED
      BY <2>4, <3>1
  <2>6. ASSUME NEW d \in Deliveries, RunSucceeds(d)
        PROVE  Answered'
    <3> SUFFICES ASSUME NEW e \in Events, Clean(e)', succeeded'[e] > 0 PROVE AnsweredIs(e)'
      BY DEF Answered
    <3>1. CASE e = d[1]
      BY <1>0, <2>6, <3>1, SuccessAnswers
    <3>2. CASE e # d[1]
      <4>1. succeeded'[e] = succeeded[e]
        BY <1>0, <2>6, <3>2 DEF RunSucceeds
      <4> QED
        BY <2>4, <4>1
    <3> QED
      BY <3>1, <3>2
  <2>7. succeeded' = succeeded \/ \E d \in Deliveries : RunSucceeds(d)
    <3>1. ASSUME NEW d \in Deliveries, TurnNext(d)
          PROVE  succeeded' = succeeded \/ RunSucceeds(d)
      BY <3>1 DEF TurnNext, Dispatch, Start, StartUnchecked, Begin, RunFails, Settle,
                  SettleFails, Overstays
    <3>2. ASSUME NEW e \in Events, EventNext(e)
          PROVE  succeeded' = succeeded
      BY <3>2 DEF EventNext, GoesStale, RefreshFails, GrowsOld, Enqueue, EnqueuePending, FindStuck,
                  RequeueSkipped, Retire, CloseStranded, FindStranded
    <3>3. ASSUME NEW p \in Procs, ProcNext(p)
          PROVE  succeeded' = succeeded
      BY <3>3 DEF ProcNext, ClaimStuck, Resume, ResumeFails, ClaimStranded, Crash, Boot, Drain,
                  DrainEnds, Deadline, Exit, RequeueAtDeadline
    <3> QED
      BY <1>2, <3>1, <3>2, <3>3 DEF Next
  <2> QED
    BY <1>0, <2>2, <2>5, <2>6, <2>7 DEF Minded
<1> QED
  BY <1>1, <1>2

LEMMA InitMinded == Init => Minded
<1> SUFFICES ASSUME Init PROVE Minded
  OBVIOUS
<1>1. /\ \A e \in Events : rows[e] = Unborn /\ ~(succeeded[e] > 0)
      /\ \A p \in Procs : sweep[p] = Resting
  BY DEF Init
<1>2. /\ \A d \in Deliveries : ~Owns(d)
      /\ \A p \in Procs : sweep[p].pc = "idle" /\ \A e \in Events : ~Found(p, e)
  BY <1>1, Parts, RestingIs DEF Owns, Unborn, Found
<1>3. Looked
  BY <1>2 DEF Looked, Unmoved
<1>4. Answered
  BY <1>1 DEF Answered
<1> QED
  BY <1>3, <1>4, InitSteady DEF Minded

(* A run that succeeded is not run again; the exceptions are deliveries that *)
(* may overlap and events the requeue took before the restart sweep looked   *)
(* (redispatchStuckInProcess).                                               *)
THEOREM AnsweredRunsOnce == Spec => []AnsweredOnce
<1>1. Minded => AnsweredOnce
  <2> SUFFICES ASSUME Minded, NEW e \in Events, succeeded[e] > 1,
                      e \notin skipped, \A n \in 1 .. Ceiling : <<e, n>> \notin late \cup excused
               PROVE  FALSE
    BY DEF AnsweredOnce
  <2>1. Clean(e) /\ succeeded[e] \in Nat
    BY DEF Clean, Minded, Steady, TypeOK
  <2>2. succeeded[e] > 0
    BY <2>1
  <2>3. succeeded[e] = 1
    BY <2>1, <2>2 DEF Minded, Answered, AnsweredIs
  <2> QED
    BY <2>3
<1>2. Spec => []Minded
  BY InitMinded, NextMinded, PTL DEF Spec
<1> QED
  BY <1>1, <1>2, PTL
===============================================================================
