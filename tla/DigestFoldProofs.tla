---------------------------- MODULE DigestFoldProofs ----------------------------
(* Proofs about the digests of one seat in one pod, for any number of        *)
(* digests, wakes and retention passes.                                      *)
EXTENDS DigestFold, FiniteSetTheorems, TLAPS

-------------------------------------------------------------------------------
(* The inductive invariant.                                                  *)
Settled == {"acked", "gone"}
Folded == {"folding", "gone"}
Safe == inRollup \cup seen \cup inherited

InOrder == \A i \in Arrived : \A j \in Ids : j <= i => j \in Arrived

(* The rollup stands for digests up to its cursor, each counted once.        *)
Tally ==
    /\ CountedOnce
    /\ \A i \in inRollup : i <= rollup.cursor
    /\ ~rollup.exists => inRollup = {} /\ rollup.cursor = NoId /\ rollup.rev = NoRevision

(* Everything up to the cursor is on its way out, and safe.                  *)
Counted ==
    \A i \in Ids : i <= rollup.cursor => dig[i] \in Settled \cup {"folding"} /\ i \in Safe

(* A pass holds the oldest unread digest, marked; once it has counted the    *)
(* digest the cursor is past it.                                             *)
PassOf(w) ==
    /\ work[w].pc \notin {"idle", "next"} =>
          /\ work[w].id \in Arrived
          /\ \A j \in Ids : j < work[w].id => dig[j] \in Settled
    /\ work[w].pc \in {"read", "create", "update", "delete"} => dig[work[w].id] \in Folded
    /\ work[w].pc = "mark" => \E s \in Unread : <<work[w].id, s>> \in work[w].page
    /\ work[w].pc = "update" => work[w].cursor < work[w].id
    /\ work[w].pc = "delete" => work[w].id <= rollup.cursor
    /\ \A i \in Ids : \A s \in Unread : <<i, s>> \in work[w].page =>
          i \in Arrived /\ (s = "folding" => dig[i] \in Folded)

(* What the turn t of the wake k will settle it has shown, unless the        *)
(* document still has it from an earlier delivery.                           *)
TurnFits(t, k) ==
    /\ t.pc = "claiming" => /\ t.cands \cup t.carried \subseteq t.snapshotAt
                            /\ ~k.oldSnap => k.snap = {}
    /\ t.pc \in {"claiming", "attach", "write"} => (~k.oldRev => k.rev = NoRevision)
    /\ t.pc \in {"attach", "write", "out"} =>
          /\ t.carried \subseteq t.shown
          /\ ~k.oldSnap => k.snap \subseteq t.shown
    /\ t.pc = "write" => /\ t.rev <= rollup.rev
                         /\ t.rev = rollup.rev => inRollup \subseteq t.roll
    /\ t.pc = "out" => (~k.oldRev /\ SettlesRevision(k.rev) => inRollup \subseteq t.shown)
    /\ t.pc \in {"rows", "rollup"} => (~k.oldRev /\ SettlesRevision(k.rev)
                                          => inRollup \subseteq seen)
    /\ t.pc = "rows" => (~k.oldSnap => k.snap \subseteq seen)
    /\ t.pc \in {"rows", "rollup", "none"} => t.carried \subseteq seen
    /\ k.rev <= rollup.rev

Sound ==
    /\ TypeOK /\ InOrder /\ Tally /\ Counted /\ UnreadIsNeverLost
    /\ \A w \in Workers : PassOf(w)
    /\ \A e \in Wakes : TurnFits(turn[e], wake[e])

-------------------------------------------------------------------------------
(* What every step does: digests only move on, and so does the rollup.       *)
DigestsMoveOn ==
    \A i \in Ids : /\ dig[i] # "none" => dig'[i] # "none"
                   /\ dig[i] \in Settled => dig'[i] = dig[i]
                   /\ dig[i] \in Folded => dig'[i] \in Folded

RollupMovesOn ==
    /\ rollup.cursor <= rollup'.cursor /\ rollup.rev <= rollup'.rev
    /\ rollup'.rev = rollup.rev => inRollup' = inRollup
    /\ seen \subseteq seen' /\ Safe \subseteq Safe'

LEMMA PassStays ==
  ASSUME TypeOK, NEW w \in Workers, PassOf(w),
         DigestsMoveOn, rollup.cursor <= rollup'.cursor, TypeOK',
         work'[w] = work[w]
  PROVE  PassOf(w)'
<1>1. /\ work[w] \in Work /\ \A i \in Ids : dig[i] # "none" => dig'[i] # "none"
      /\ \A i \in Ids : dig[i] \in Settled => dig'[i] \in Settled
      /\ \A i \in Ids : dig[i] \in Folded => dig'[i] \in Folded
      /\ rollup.cursor \in Nat /\ rollup'.cursor \in Nat /\ work[w].id \in Nat
  BY DigestConstants DEF TypeOK, DigestsMoveOn, Work
<1> QED
  BY <1>1 DEF PassOf, Arrived, Ids

LEMMA TurnStays ==
  ASSUME TypeOK, TypeOK', NEW e \in Wakes, TurnFits(turn[e], wake[e]), RollupMovesOn,
         turn'[e] = turn[e], wake'[e] = wake[e]
  PROVE  TurnFits(turn[e], wake[e])'
<1>1. /\ turn[e].rev \in Nat /\ wake[e].rev \in Nat /\ rollup.rev \in Nat /\ rollup'.rev \in Nat
  BY DEF TypeOK, Turn, WakeDoc
<1> QED
  BY <1>1 DEF TurnFits, RollupMovesOn, SettlesRevision

(* A step that leaves the cursor alone.                                      *)
LEMMA CountedStays ==
  ASSUME TypeOK, Counted, DigestsMoveOn, RollupMovesOn, rollup'.cursor = rollup.cursor,
         dig' \in [Ids -> {"none", "acked", "gone"} \cup Unread],
         \A i \in Ids : dig[i] = "folding" => dig'[i] \in Folded
  PROVE  Counted'
  BY DEF Counted, DigestsMoveOn, RollupMovesOn, Folded, Settled

LEMMA OrderStays ==
  ASSUME InOrder, DigestsMoveOn, \A i \in Ids : dig[i] = "none" => dig'[i] = "none"
  PROVE  InOrder'
  BY DEF InOrder, DigestsMoveOn, Arrived
LEMMA IdsFinite == IsFiniteSet(Ids) /\ Cardinality(Ids) = N
<1>1. 1 \in Int /\ N \in Int
  BY DigestConstants
<1>2. IsFiniteSet(1 .. N) /\ Cardinality(1 .. N) = IF 1 > N THEN 0 ELSE N - 1 + 1
  BY <1>1, FS_Interval
<1> QED
  BY <1>2, DigestConstants DEF Ids

-------------------------------------------------------------------------------
(* Types.                                                                    *)
LEMMA Blank == NoTurn \in Turn /\ NoWork \in Work
  BY DigestConstants DEF NoTurn, Turn, NoWork, Work, NoId, NoRevision, Ids

LEMMA TroubleTyped ==
  ASSUME trouble \in 0 .. MaxTrouble, Trouble
  PROVE  trouble' \in 0 .. MaxTrouble
  BY DigestConstants DEF Trouble

LEMMA InitTyped == Init => TypeOK
<1> SUFFICES ASSUME Init PROVE TypeOK
  OBVIOUS
<1>1. dig \in [Ids -> {"none", "acked", "gone"} \cup Unread] /\ expired \subseteq Arrived
  BY DEF Init
<1>2. wake \in [Wakes -> WakeDoc]
  BY DEF Init, NoRevision, WakeDoc
<1>3. turn \in [Wakes -> Turn] /\ work \in [Workers -> Work]
  BY Blank DEF Init
<1>4. rollup \in [exists : BOOLEAN, count : 0 .. N, cursor : 0 .. N, rev : Nat]
  BY DigestConstants DEF Init, NoId, NoRevision
<1>5. /\ trouble \in 0 .. MaxTrouble
      /\ inRollup \subseteq Ids /\ seen \subseteq Ids /\ inherited \subseteq Ids
  BY DigestConstants DEF Init
<1> QED
  BY <1>1, <1>2, <1>3, <1>4, <1>5 DEF TypeOK

LEMMA OutsideTyped ==
  ASSUME TypeOK, NEW i \in Ids, Arrive(i) \/ Expires(i) \/ RequeueDigest(i)
  PROVE  TypeOK'
<1>1. /\ dig' \in [Ids -> {"none", "acked", "gone"} \cup Unread]
      /\ Arrived \subseteq Arrived' /\ expired' \subseteq Arrived'
  BY DEF TypeOK, Arrive, Expires, RequeueDigest, Arrived, Unread
<1>2. turn' \in [Wakes -> Turn]
  <2>1. CASE RequeueDigest(i)
    <3>1. \A e \in Wakes : [turn[e] EXCEPT !.carried = @ \ {i}] \in Turn
      BY DEF TypeOK, Turn
    <3> QED
      BY <2>1, <3>1 DEF RequeueDigest
  <2> QED
    BY <2>1 DEF TypeOK, Arrive, Expires, RequeueDigest
<1>3. UNCHANGED <<wake, rollup, work, trouble, inRollup, seen, inherited>>
  BY DEF Arrive, Expires, RequeueDigest
<1> QED
  BY <1>1, <1>2, <1>3 DEF TypeOK

(* One delivery of a wake changes its own document and turn only.            *)
LEMMA OneTurn ==
  ASSUME Sound, NEW e \in Wakes, turn'[e] \in Turn, wake'[e] \in WakeDoc,
         turn' = [turn EXCEPT ![e] = turn'[e]], wake' = [wake EXCEPT ![e] = wake'[e]],
         dig' \in [Ids -> {"none", "acked", "gone"} \cup Unread],
         trouble' \in 0 .. MaxTrouble,
         rollup' \in [exists : BOOLEAN, count : 0 .. N, cursor : 0 .. N, rev : Nat],
         inRollup' \subseteq Ids, seen' \subseteq Ids, inherited' \subseteq Ids,
         UNCHANGED <<expired, work>>,
         DigestsMoveOn, \A i \in Ids : dig[i] = "none" => dig'[i] = "none",
         RollupMovesOn, rollup'.cursor = rollup.cursor,
         Tally', UnreadIsNeverLost', TurnFits(turn[e], wake[e])'
  PROVE  Sound'
<1>1. TypeOK'
  <2>1. turn' \in [Wakes -> Turn] /\ wake' \in [Wakes -> WakeDoc]
    BY DEF Sound, TypeOK
  <2>2. Arrived \subseteq Arrived'
    BY DEF DigestsMoveOn, Arrived
  <2> QED
    BY <2>1, <2>2 DEF Sound, TypeOK
<1>2. InOrder'
  BY OrderStays DEF Sound
<1>3. Counted'
  <2>1. \A i \in Ids : dig[i] = "folding" => dig'[i] \in Folded
    BY DEF DigestsMoveOn, Folded
  <2> QED
    BY <2>1, CountedStays DEF Sound
<1>4. \A w \in Workers : PassOf(w)'
  <2>1. ASSUME NEW w \in Workers PROVE PassOf(w)'
    <3>1. rollup.cursor <= rollup'.cursor /\ work'[w] = work[w]
      BY DEF RollupMovesOn
    <3> QED
      BY <1>1, <3>1, PassStays DEF Sound
  <2> QED
    BY <2>1
<1>5. \A f \in Wakes : TurnFits(turn[f], wake[f])'
  <2>1. ASSUME NEW f \in Wakes, f # e PROVE TurnFits(turn[f], wake[f])'
    <3>1. turn'[f] = turn[f] /\ wake'[f] = wake[f]
      BY <2>1 DEF Sound, TypeOK
    <3> QED
      BY <1>1, <3>1, TurnStays DEF Sound
  <2> QED
    BY <2>1
<1> QED
  BY <1>1, <1>2, <1>3, <1>4, <1>5 DEF Sound
(* A poll settles nothing.                                                   *)
LEMMA OnePoll ==
  ASSUME Sound, NEW e \in Wakes, turn'[e] \in Turn, wake'[e] \in WakeDoc,
         turn' = [turn EXCEPT ![e] = turn'[e]], wake' = [wake EXCEPT ![e] = wake'[e]],
         dig' \in [Ids -> {"none", "acked", "gone"} \cup Unread],
         \A i \in Ids : dig'[i] = dig[i] \/ (dig[i] = "pending" /\ dig'[i] = "delivered"),
         trouble' \in 0 .. MaxTrouble,
         UNCHANGED <<expired, rollup, work, inRollup, seen, inherited>>,
         TurnFits(turn'[e], wake'[e])
  PROVE  Sound'
<1>1. /\ DigestsMoveOn /\ \A i \in Ids : dig[i] = "none" => dig'[i] = "none"
      /\ \A i \in Ids : dig'[i] \in Settled => dig[i] \in Settled
  BY DEF DigestsMoveOn, Settled, Folded
<1>2. /\ rollup' \in [exists : BOOLEAN, count : 0 .. N, cursor : 0 .. N, rev : Nat]
      /\ inRollup' \subseteq Ids /\ seen' \subseteq Ids /\ inherited' \subseteq Ids
  BY DEF Sound, TypeOK
<1>3. RollupMovesOn /\ Tally' /\ UnreadIsNeverLost'
  <2>1. RollupMovesOn
    BY <1>2 DEF RollupMovesOn, Safe
  <2>2. Tally'
    BY DEF Sound, Tally, CountedOnce
  <2>3. UnreadIsNeverLost'
    BY <1>1 DEF Sound, UnreadIsNeverLost, Settled
  <2> QED
    BY <2>1, <2>2, <2>3
<1>4. TurnFits(turn[e], wake[e])'
  BY DEF TurnFits, SettlesRevision
<1> QED
  BY <1>1, <1>2, <1>3, <1>4, OneTurn

LEMMA PollSound ==
  ASSUME Sound, NEW e \in Wakes, PollStep(e)
  PROVE  Sound'
<1>1. /\ turn[e] \in Turn /\ turn \in [Wakes -> Turn]
      /\ wake[e] \in WakeDoc /\ wake \in [Wakes -> WakeDoc]
      /\ wake[e].rev \in Nat /\ trouble \in 0 .. MaxTrouble
      /\ dig \in [Ids -> {"none", "acked", "gone"} \cup Unread]
      /\ TurnFits(turn[e], wake[e])
      /\ rollup.rev \in Nat /\ inRollup \in SUBSET Ids
  BY DEF Sound, TypeOK, WakeDoc
<1>2. CASE ClaimWake(e)
  <2> DEFINE x == [NoTurn EXCEPT !.pc = "claiming", !.snapshotAt = Arrived,
                                 !.cands = Newest(DigestSlots,
                                                  {i \in Ids : dig[i] = "pending"})]
             y == [wake[e] EXCEPT !.status = "delivered", !.oldSnap = wake[e].snap # {},
                                  !.oldRev = wake[e].rev # NoRevision]
  <2>1. /\ Newest(DigestSlots, {i \in Ids : dig[i] = "pending"}) \subseteq Arrived
        /\ Arrived \subseteq Ids
    BY DEF Newest, Arrived
  <2>2. x \in Turn /\ y \in WakeDoc
    BY <1>1, <2>1, Blank DEF Turn, WakeDoc
  <2>3. TurnFits(x, y)
    BY <1>1, <2>1 DEF TurnFits, NoTurn, WakeDoc
  <2>4. turn' = [turn EXCEPT ![e] = x] /\ wake' = [wake EXCEPT ![e] = y]
    BY <1>2 DEF ClaimWake
  <2> HIDE DEF x, y
  <2>5. turn'[e] = x /\ wake'[e] = y
    BY <1>1, <2>4
  <2>6. UNCHANGED <<dig, expired, rollup, work, trouble, inRollup, seen, inherited>>
    BY <1>2 DEF ClaimWake
  <2> QED
    BY <1>1, <2>2, <2>3, <2>4, <2>5, <2>6, OnePoll
<1>3. ASSUME NEW i \in Ids, ClaimDigest(e, i) PROVE Sound'
  <2> DEFINE x == IF dig[i] = "pending"
                  THEN [turn[e] EXCEPT !.cands = turn[e].cands \ {i},
                                       !.carried = turn[e].carried \cup {i}]
                  ELSE [turn[e] EXCEPT !.cands = turn[e].cands \ {i}]
  <2>1. x \in Turn
    BY <1>1 DEF Turn
  <2>2. TurnFits(x, wake[e])
    BY <1>1, <1>3 DEF ClaimDigest, TurnFits, Turn
  <2>3. turn' = [turn EXCEPT ![e] = x]
    BY <1>3 DEF ClaimDigest
  <2> HIDE DEF x
  <2>4. turn'[e] = x /\ wake' = wake /\ wake = [wake EXCEPT ![e] = wake[e]]
    BY <1>1, <1>3, <2>3 DEF ClaimDigest
  <2>5. /\ dig' \in [Ids -> {"none", "acked", "gone"} \cup Unread]
        /\ \A j \in Ids : dig'[j] = dig[j] \/ (dig[j] = "pending" /\ dig'[j] = "delivered")
    <3>1. dig' \in {dig, [dig EXCEPT ![i] = "delivered"]} /\ (dig[i] # "pending" => dig' = dig)
      BY <1>3 DEF ClaimDigest
    <3> QED
      BY <1>1, <3>1 DEF Unread
  <2>6. UNCHANGED <<expired, rollup, work, trouble, inRollup, seen, inherited>>
    BY <1>3 DEF ClaimDigest
  <2> QED
    BY <1>1, <2>1, <2>2, <2>3, <2>4, <2>5, <2>6, OnePoll
<1>4. CASE MarkSnapshot(e)
  <2> DEFINE covers == IF turn[e].carried # {} THEN turn[e].snapshotAt ELSE {}
             x == [turn[e] EXCEPT !.pc = "attach", !.shown = covers, !.snapshotAt = {}]
             y == IF covers = {} THEN wake[e]
                  ELSE [wake[e] EXCEPT !.snap = covers, !.oldSnap = FALSE]
  <2>1. covers \in SUBSET Ids
    BY <1>1 DEF Turn
  <2>2. turn' = [turn EXCEPT ![e] = x] /\ wake' = [wake EXCEPT ![e] = y]
    BY <1>1, <1>4 DEF MarkSnapshot
  <2>3. turn[e].pc = "claiming" /\ turn[e].carried \subseteq covers
    BY <1>1, <1>4 DEF MarkSnapshot, TurnFits
  <2> HIDE DEF covers
  <2>4. x \in Turn /\ y \in WakeDoc
    BY <1>1, <2>1 DEF Turn, WakeDoc
  <2>5. TurnFits(x, y)
    BY <1>1, <2>1, <2>3 DEF TurnFits, Turn, WakeDoc
  <2> HIDE DEF x, y
  <2>6. turn'[e] = x /\ wake'[e] = y
    BY <1>1, <2>2
  <2>7. UNCHANGED <<dig, expired, rollup, work, trouble, inRollup, seen, inherited>>
    BY <1>4 DEF MarkSnapshot
  <2> QED
    BY <1>1, <2>2, <2>4, <2>5, <2>6, <2>7, OnePoll
<1>5. CASE ReadRollup(e)
  <2> DEFINE x == IF rollup.count > 0
                  THEN [turn[e] EXCEPT !.pc = "write", !.rev = rollup.rev, !.roll = inRollup]
                  ELSE [turn[e] EXCEPT !.pc = "out"]
  <2>1. x \in Turn
    BY <1>1 DEF Turn
  <2>2. TurnFits(x, wake[e])
    <3>1. rollup.count \in Nat /\ (rollup.count = 0 => inRollup = {})
      <4>1. IsFiniteSet(inRollup)
        BY <1>1, IdsFinite, FS_Subset
      <4> QED
        BY <4>1, FS_EmptySet DEF Sound, Tally, CountedOnce, TypeOK
    <3>2. turn[e].pc = "attach"
      BY <1>5 DEF ReadRollup
    <3>3. CASE rollup.count > 0
      BY <1>1, <3>2, <3>3 DEF TurnFits, Turn
    <3>4. CASE ~(rollup.count > 0)
      BY <1>1, <3>1, <3>2, <3>4 DEF TurnFits, Turn
    <3> QED
      BY <3>3, <3>4
  <2>3. turn' = [turn EXCEPT ![e] = x]
    BY <1>5 DEF ReadRollup
  <2> HIDE DEF x
  <2>4. turn'[e] = x /\ wake' = wake /\ wake = [wake EXCEPT ![e] = wake[e]]
    BY <1>1, <1>5, <2>3 DEF ReadRollup
  <2>5. UNCHANGED <<dig, expired, rollup, work, trouble, inRollup, seen, inherited>>
    BY <1>5 DEF ReadRollup
  <2> QED
    BY <1>1, <2>1, <2>2, <2>3, <2>4, <2>5, OnePoll
<1>6. CASE WriteRevision(e)
  <2> DEFINE x == [turn[e] EXCEPT !.pc = "out", !.shown = turn[e].shown \cup turn[e].roll,
                                  !.rev = NoRevision, !.roll = {}]
             y == [wake[e] EXCEPT !.rev = turn[e].rev, !.oldRev = FALSE]
  <2>1. x \in Turn /\ y \in WakeDoc
    BY <1>1 DEF Turn, WakeDoc, NoRevision
  <2>2. TurnFits(x, y)
    <3>1. turn[e].pc = "write"
      BY <1>6 DEF WriteRevision
    <3>2. /\ x.pc = "out" /\ x.carried = turn[e].carried
          /\ x.shown = turn[e].shown \cup turn[e].roll
      BY <1>1 DEF Turn
    <3>3. /\ y.rev = turn[e].rev /\ ~y.oldRev
          /\ y.snap = wake[e].snap /\ y.oldSnap = wake[e].oldSnap
      BY <1>1 DEF WakeDoc
    <3> HIDE DEF x, y
    <3> QED
      BY <1>1, <3>1, <3>2, <3>3 DEF TurnFits, SettlesRevision
  <2>3. turn' = [turn EXCEPT ![e] = x] /\ wake' = [wake EXCEPT ![e] = y]
    BY <1>6 DEF WriteRevision
  <2> HIDE DEF x, y
  <2>4. turn'[e] = x /\ wake'[e] = y
    BY <1>1, <2>3
  <2>5. UNCHANGED <<dig, expired, rollup, work, trouble, inRollup, seen, inherited>>
    BY <1>6 DEF WriteRevision
  <2> QED
    BY <1>1, <2>1, <2>2, <2>3, <2>4, <2>5, OnePoll
<1>7. CASE AttachFails(e)
  <2> DEFINE x == [turn[e] EXCEPT !.pc = "out", !.rev = NoRevision, !.roll = {}]
  <2>1. x \in Turn
    BY <1>1 DEF Turn, NoRevision
  <2>2. TurnFits(x, wake[e])
    BY <1>1, <1>7 DEF AttachFails, TurnFits, Turn, SettlesRevision
  <2>3. turn' = [turn EXCEPT ![e] = x]
    BY <1>7 DEF AttachFails
  <2> HIDE DEF x
  <2>4. turn'[e] = x /\ wake' = wake /\ wake = [wake EXCEPT ![e] = wake[e]]
    BY <1>1, <1>7, <2>3 DEF AttachFails
  <2>5. UNCHANGED <<dig, expired, rollup, work, trouble, inRollup, seen, inherited>>
    BY <1>7 DEF AttachFails
  <2> QED
    BY <1>1, <2>1, <2>2, <2>3, <2>4, <2>5, OnePoll
<1>8. CASE RequeueWake(e)
  <2> DEFINE y == [wake[e] EXCEPT !.status = "pending"]
  <2>1. y \in WakeDoc
    BY <1>1 DEF WakeDoc
  <2>2. TurnFits(NoTurn, y)
    BY <1>1 DEF TurnFits, NoTurn, WakeDoc
  <2>3. turn' = [turn EXCEPT ![e] = NoTurn] /\ wake' = [wake EXCEPT ![e] = y]
    BY <1>8 DEF RequeueWake
  <2> HIDE DEF y
  <2>4. turn'[e] = NoTurn /\ wake'[e] = y
    BY <1>1, <2>3
  <2>5. trouble' \in 0 .. MaxTrouble
    BY <1>1, <1>8, TroubleTyped DEF RequeueWake
  <2>6. UNCHANGED <<dig, expired, rollup, work, inRollup, seen, inherited>>
    BY <1>8 DEF RequeueWake
  <2> QED
    BY <1>1, <2>1, <2>2, <2>3, <2>4, <2>5, <2>6, Blank, OnePoll
<1> QED
  BY <1>2, <1>3, <1>4, <1>5, <1>6, <1>7, <1>8 DEF PollStep
-------------------------------------------------------------------------------
(* Consuming a wake: what it has shown is seen, and only that is settled.    *)
LEMMA AckSound ==
  ASSUME Sound, NEW e \in Wakes, AckStep(e)
  PROVE  Sound'
<1>1. /\ turn[e] \in Turn /\ turn \in [Wakes -> Turn]
      /\ wake[e] \in WakeDoc /\ wake \in [Wakes -> WakeDoc]
      /\ wake[e].rev \in Nat /\ trouble \in 0 .. MaxTrouble
      /\ dig \in [Ids -> {"none", "acked", "gone"} \cup Unread]
      /\ TurnFits(turn[e], wake[e])
      /\ rollup \in [exists : BOOLEAN, count : 0 .. N, cursor : 0 .. N, rev : Nat]
      /\ rollup.rev \in Nat /\ rollup.cursor \in Nat
      /\ inRollup \subseteq Ids /\ seen \subseteq Ids /\ inherited \subseteq Ids
      /\ Tally /\ UnreadIsNeverLost
  BY DigestConstants DEF Sound, TypeOK, WakeDoc
<1>2. ASSUME dig' = dig, UNCHANGED <<rollup, inRollup, inherited>>, seen \subseteq seen'
      PROVE  /\ DigestsMoveOn /\ \A i \in Ids : dig[i] = "none" => dig'[i] = "none"
             /\ RollupMovesOn /\ Tally' /\ UnreadIsNeverLost'
  <2>1. DigestsMoveOn /\ \A i \in Ids : dig[i] = "none" => dig'[i] = "none"
    BY <1>2 DEF DigestsMoveOn
  <2>2. RollupMovesOn
    BY <1>1, <1>2 DEF RollupMovesOn, Safe
  <2>3. Tally'
    BY <1>1, <1>2 DEF Tally, CountedOnce
  <2>4. UnreadIsNeverLost'
    BY <1>1, <1>2 DEF UnreadIsNeverLost
  <2> QED
    BY <2>1, <2>2, <2>3, <2>4
<1>3. CASE ConsumedAck(e)
  <2> DEFINE x == [turn[e] EXCEPT !.pc = "rows", !.shown = {}]
             y == [wake[e] EXCEPT !.status = "acked"]
  <2>1. x \in Turn /\ y \in WakeDoc
    BY <1>1 DEF Turn, WakeDoc
  <2>2. turn' = [turn EXCEPT ![e] = x] /\ wake' = [wake EXCEPT ![e] = y]
    BY <1>3 DEF ConsumedAck
  <2>3. /\ dig' = dig /\ seen' = seen \cup turn[e].shown /\ turn[e].pc = "out"
        /\ UNCHANGED <<expired, rollup, work, trouble, inRollup, inherited>>
    BY <1>3 DEF ConsumedAck
  <2>4. seen' \subseteq Ids
    BY <1>1, <2>3 DEF Turn
  <2>5. /\ x.pc = "rows" /\ x.carried = turn[e].carried
        /\ y.rev = wake[e].rev /\ y.snap = wake[e].snap
        /\ y.oldRev = wake[e].oldRev /\ y.oldSnap = wake[e].oldSnap
    BY <1>1 DEF Turn, WakeDoc
  <2> HIDE DEF x, y
  <2>6. turn'[e] = x /\ wake'[e] = y
    BY <1>1, <2>2
  <2>7. TurnFits(turn[e], wake[e])'
    BY <1>1, <2>3, <2>5, <2>6 DEF TurnFits, SettlesRevision
  <2> QED
    BY <1>1, <1>2, <2>1, <2>2, <2>3, <2>4, <2>6, <2>7, OneTurn
<1>4. CASE RefusedAck(e)
  <2> DEFINE y == [wake[e] EXCEPT !.status = "acked"]
  <2>1. y \in WakeDoc /\ TurnFits(NoTurn, y)
    BY <1>1 DEF WakeDoc, TurnFits, NoTurn
  <2>2. turn' = [turn EXCEPT ![e] = NoTurn] /\ wake' = [wake EXCEPT ![e] = y]
    BY <1>4 DEF RefusedAck
  <2> HIDE DEF y
  <2>3. turn'[e] = NoTurn /\ wake'[e] = y
    BY <1>1, <2>2
  <2>4. UNCHANGED <<dig, expired, rollup, work, trouble, inRollup, seen, inherited>>
    BY <1>4 DEF RefusedAck
  <2> QED
    BY <1>1, <2>1, <2>2, <2>3, <2>4, Blank, OnePoll
<1>5. ASSUME NEW i \in Ids, SettleRow(e, i) PROVE Sound'
  <2>1. /\ dig' = [dig EXCEPT ![i] = "acked"] /\ dig[i] \in {"pending", "delivered"}
        /\ turn[e].pc = "rows" /\ i \in wake[e].snap
        /\ inherited' = IF wake[e].oldSnap THEN inherited \cup {i} ELSE inherited
        /\ UNCHANGED <<expired, wake, turn, rollup, work, trouble, inRollup, seen>>
    BY <1>5 DEF SettleRow, Settleable
  <2>2. inherited' \subseteq Ids /\ inherited \subseteq inherited' /\ i \in inherited' \cup seen
    BY <1>1, <2>1 DEF TurnFits
  <2>3. /\ dig' \in [Ids -> {"none", "acked", "gone"} \cup Unread]
        /\ \A j \in Ids : dig'[j] = IF j = i THEN "acked" ELSE dig[j]
    BY <1>1, <2>1
  <2>4. DigestsMoveOn /\ \A j \in Ids : dig[j] = "none" => dig'[j] = "none"
    BY <2>1, <2>3 DEF DigestsMoveOn, Settled, Folded
  <2>5. RollupMovesOn /\ Tally' /\ UnreadIsNeverLost'
    <3>1. RollupMovesOn
      BY <1>1, <2>1, <2>2 DEF RollupMovesOn, Safe
    <3>2. Tally'
      BY <1>1, <2>1 DEF Tally, CountedOnce
    <3>3. UnreadIsNeverLost'
      BY <1>1, <2>1, <2>2, <2>3 DEF UnreadIsNeverLost
    <3> QED
      BY <3>1, <3>2, <3>3
  <2>6. /\ turn'[e] = turn[e] /\ turn = [turn EXCEPT ![e] = turn[e]]
        /\ wake'[e] = wake[e] /\ wake = [wake EXCEPT ![e] = wake[e]]
    BY <1>1, <2>1
  <2>7. TurnFits(turn[e], wake[e])'
    BY <1>1, <2>1 DEF TurnFits, SettlesRevision
  <2> QED
    BY <1>1, <2>1, <2>2, <2>3, <2>4, <2>5, <2>6, <2>7, OneTurn
<1>6. CASE RowsSettled(e) \/ SettleFails(e)
  <2>1. PICK pc \in {"rollup", "none"} : turn' = [turn EXCEPT ![e].pc = pc]
    BY <1>6 DEF RowsSettled, SettleFails
  <2> DEFINE x == [turn[e] EXCEPT !.pc = pc]
  <2>2. x \in Turn /\ x.pc = pc /\ x.carried = turn[e].carried
    BY <1>1 DEF Turn
  <2>3. turn' = [turn EXCEPT ![e] = x]
    BY <2>1
  <2> HIDE DEF x
  <2>4. TurnFits(x, wake[e])
    <3>1. turn[e].pc \in {"rows", "rollup"}
      BY <1>6 DEF RowsSettled, SettleFails
    <3> QED
      BY <1>1, <2>2, <3>1 DEF TurnFits
  <2>5. UNCHANGED <<dig, expired, wake, rollup, work, trouble, inRollup, seen, inherited>>
    BY <1>6 DEF RowsSettled, SettleFails
  <2>6. turn'[e] = x /\ wake'[e] = wake[e] /\ wake = [wake EXCEPT ![e] = wake[e]]
    BY <1>1, <2>3, <2>5
  <2> QED
    BY <1>1, <2>2, <2>3, <2>4, <2>5, <2>6, OnePoll
<1>7. CASE SettleRollup(e)
  <2> DEFINE x == [turn[e] EXCEPT !.pc = "none"]
  <2>1. x \in Turn /\ x.pc = "none" /\ x.carried = turn[e].carried
    BY <1>1 DEF Turn
  <2>2. /\ turn' = [turn EXCEPT ![e] = x] /\ turn[e].pc = "rollup"
        /\ UNCHANGED <<dig, expired, wake, work, trouble, seen>>
    BY <1>7 DEF SettleRollup
  <2> HIDE DEF x
  <2>3. turn'[e] = x /\ wake'[e] = wake[e] /\ wake = [wake EXCEPT ![e] = wake[e]]
    BY <1>1, <2>2
  <2>4. CASE SettlesRevision(wake[e].rev)
    <3>1. /\ rollup' = [rollup EXCEPT !.count = 0, !.rev = rollup.rev + 1]
          /\ inRollup' = {}
          /\ inherited' = IF wake[e].oldRev THEN inherited \cup inRollup ELSE inherited
      BY <1>7, <2>4 DEF SettleRollup
    <3>2. /\ rollup' \in [exists : BOOLEAN, count : 0 .. N, cursor : 0 .. N, rev : Nat]
          /\ rollup'.cursor = rollup.cursor /\ rollup'.exists = rollup.exists
          /\ rollup'.count = 0 /\ rollup'.rev = rollup.rev + 1
      <4>1. 0 \in 0 .. N /\ rollup.rev + 1 \in Nat
        BY <1>1, DigestConstants
      <4> QED
        BY <1>1, <3>1, <4>1
    <3>3. inRollup \subseteq seen \cup inherited' /\ inherited \subseteq inherited'
          /\ inherited' \subseteq Ids
      BY <1>1, <2>2, <2>4, <3>1 DEF TurnFits
    <3>4. DigestsMoveOn /\ \A j \in Ids : dig[j] = "none" => dig'[j] = "none"
      BY <2>2 DEF DigestsMoveOn
    <3>5. RollupMovesOn
      <4>1. rollup.cursor <= rollup'.cursor /\ rollup.rev <= rollup'.rev
            /\ rollup'.rev # rollup.rev
        BY <1>1, <3>2
      <4> QED
        BY <2>2, <3>1, <3>3, <4>1 DEF RollupMovesOn, Safe
    <3>6. Tally'
      BY <1>1, <2>4, <3>1, <3>2, FS_EmptySet DEF Tally, CountedOnce, SettlesRevision
    <3>7. UnreadIsNeverLost'
      BY <1>1, <2>2, <3>1, <3>3 DEF UnreadIsNeverLost
    <3>8. TurnFits(turn[e], wake[e])'
      BY <1>1, <2>1, <2>2, <2>3, <3>2 DEF TurnFits, SettlesRevision
    <3>9. inRollup' \subseteq Ids
      BY <3>1
    <3> QED
      BY <1>1, <2>1, <2>2, <2>3, <3>2, <3>3, <3>4, <3>5, <3>6, <3>7, <3>8, <3>9, OneTurn
  <2>5. CASE ~SettlesRevision(wake[e].rev)
    <3>1. UNCHANGED <<rollup, inRollup, inherited>>
      BY <1>7, <2>5 DEF SettleRollup
    <3>2. TurnFits(x, wake[e])
      BY <1>1, <2>1, <2>2 DEF TurnFits
    <3> QED
      BY <1>1, <2>1, <2>2, <2>3, <3>1, <3>2, OnePoll
  <2> QED
    BY <2>4, <2>5
<1>8. ASSUME NEW i \in Ids, AckCompanion(e, i) PROVE Sound'
  <2> DEFINE x == [turn[e] EXCEPT !.carried = turn[e].carried \ {i}]
  <2>1. /\ x \in Turn /\ x.pc = turn[e].pc /\ x.carried \subseteq turn[e].carried
    BY <1>1 DEF Turn
  <2>2. /\ turn' = [turn EXCEPT ![e] = x] /\ turn[e].pc = "none" /\ i \in turn[e].carried
        /\ dig' = IF dig[i] = "delivered" THEN [dig EXCEPT ![i] = "acked"] ELSE dig
        /\ UNCHANGED <<expired, wake, rollup, work, trouble, inRollup, seen, inherited>>
    BY <1>8 DEF AckCompanion
  <2> HIDE DEF x
  <2>3. turn'[e] = x /\ wake'[e] = wake[e] /\ wake = [wake EXCEPT ![e] = wake[e]]
    BY <1>1, <2>2
  <2>4. i \in seen
    BY <1>1, <2>2 DEF TurnFits
  <2>5. /\ dig' \in [Ids -> {"none", "acked", "gone"} \cup Unread]
        /\ \A j \in Ids :
              dig'[j] = dig[j] \/ (j = i /\ dig[j] = "delivered" /\ dig'[j] = "acked")
    <3>1. CASE dig[i] = "delivered"
      BY <1>1, <2>2, <3>1
    <3>2. CASE dig[i] # "delivered"
      BY <1>1, <2>2, <3>2
    <3> QED
      BY <3>1, <3>2
  <2>6. DigestsMoveOn /\ \A j \in Ids : dig[j] = "none" => dig'[j] = "none"
    BY <2>5 DEF DigestsMoveOn, Settled, Folded
  <2>7. RollupMovesOn /\ Tally' /\ UnreadIsNeverLost'
    <3>1. RollupMovesOn
      BY <1>1, <2>2 DEF RollupMovesOn, Safe
    <3>2. Tally'
      BY <1>1, <2>2 DEF Tally, CountedOnce
    <3>3. UnreadIsNeverLost'
      BY <1>1, <2>2, <2>4, <2>5 DEF UnreadIsNeverLost
    <3> QED
      BY <3>1, <3>2, <3>3
  <2>8. TurnFits(turn[e], wake[e])'
    BY <1>1, <2>1, <2>2, <2>3 DEF TurnFits
  <2> QED
    BY <1>1, <2>1, <2>2, <2>3, <2>5, <2>6, <2>7, <2>8, OneTurn
<1> QED
  BY <1>3, <1>4, <1>5, <1>6, <1>7, <1>8 DEF AckStep
-------------------------------------------------------------------------------
(* A retention pass.                                                         *)
LEMMA OnePass ==
  ASSUME Sound, NEW w \in Workers, work'[w] \in Work, work' = [work EXCEPT ![w] = work'[w]],
         UNCHANGED <<expired, wake, turn, seen, inherited>>,
         dig' \in [Ids -> {"none", "acked", "gone"} \cup Unread],
         trouble' \in 0 .. MaxTrouble,
         rollup' \in [exists : BOOLEAN, count : 0 .. N, cursor : 0 .. N, rev : Nat],
         inRollup' \subseteq Ids,
         DigestsMoveOn, \A i \in Ids : dig[i] = "none" => dig'[i] = "none",
         RollupMovesOn, Tally', Counted', UnreadIsNeverLost', PassOf(w)'
  PROVE  Sound'
<1>1. TypeOK'
  <2>1. work' \in [Workers -> Work]
    BY DEF Sound, TypeOK
  <2>2. Arrived \subseteq Arrived'
    BY DEF DigestsMoveOn, Arrived
  <2> QED
    BY <2>1, <2>2 DEF Sound, TypeOK
<1>2. InOrder'
  BY OrderStays DEF Sound
<1>3. \A v \in Workers : PassOf(v)'
  <2>1. ASSUME NEW v \in Workers, v # w PROVE PassOf(v)'
    <3>1. rollup.cursor <= rollup'.cursor /\ work'[v] = work[v]
      BY <2>1 DEF RollupMovesOn, Sound, TypeOK
    <3> QED
      BY <1>1, <3>1, PassStays DEF Sound
  <2> QED
    BY <2>1
<1>4. \A e \in Wakes : TurnFits(turn[e], wake[e])'
  <2>1. ASSUME NEW e \in Wakes PROVE TurnFits(turn[e], wake[e])'
    BY <1>1, TurnStays DEF Sound
  <2> QED
    BY <2>1
<1> QED
  BY <1>1, <1>2, <1>3, <1>4 DEF Sound

LEMMA OnlyThePass ==
  ASSUME Sound, NEW w \in Workers, work'[w] \in Work, work' = [work EXCEPT ![w] = work'[w]],
         trouble' \in 0 .. MaxTrouble, PassOf(w)',
         UNCHANGED <<dig, expired, wake, turn, rollup, inRollup, seen, inherited>>
  PROVE  Sound'
<1>1. /\ dig' \in [Ids -> {"none", "acked", "gone"} \cup Unread]
      /\ rollup' \in [exists : BOOLEAN, count : 0 .. N, cursor : 0 .. N, rev : Nat]
      /\ inRollup' \subseteq Ids /\ rollup.cursor \in Nat
  BY DigestConstants DEF Sound, TypeOK
<1>2. DigestsMoveOn /\ \A i \in Ids : dig[i] = "none" => dig'[i] = "none"
  BY DEF DigestsMoveOn
<1>3. RollupMovesOn
  BY <1>1 DEF RollupMovesOn, Safe
<1>4. Tally' /\ Counted' /\ UnreadIsNeverLost'
  BY DEF Sound, Tally, CountedOnce, Counted, UnreadIsNeverLost, Safe
<1> QED
  BY <1>1, <1>2, <1>3, <1>4, OnePass

LEMMA NextSound ==
  ASSUME Sound, NEW w \in Workers, FindExpired(w) \/ NextCandidate(w) \/ ReadState(w) \/ PassStops(w)
  PROVE  Sound'
<1>1. /\ work[w] \in Work /\ work \in [Workers -> Work] /\ PassOf(w)
      /\ trouble \in 0 .. MaxTrouble /\ InOrder
      /\ dig \in [Ids -> {"none", "acked", "gone"} \cup Unread]
      /\ rollup \in [exists : BOOLEAN, count : 0 .. N, cursor : 0 .. N, rev : Nat]
      /\ rollup.cursor \in Nat /\ work[w].id \in Nat
  BY DigestConstants DEF Sound, TypeOK, Work
<1>2. /\ UNCHANGED <<dig, expired, wake, turn, rollup, inRollup, seen, inherited>>
      /\ trouble' \in 0 .. MaxTrouble
  BY <1>1, TroubleTyped DEF FindExpired, NextCandidate, ReadState, PassStops
<1>3. SUFFICES \E x \in Work : /\ work' = [work EXCEPT ![w] = x]
                               /\ work'[w] = x => PassOf(w)'
  <2>1. PICK x \in Work : work' = [work EXCEPT ![w] = x] /\ (work'[w] = x => PassOf(w)')
    BY <1>3
  <2>2. work'[w] = x
    BY <1>1, <2>1
  <2> QED
    BY <1>2, <2>1, <2>2, OnlyThePass
<1>4. work'[w] = NoWork => PassOf(w)'
  BY DEF NoWork, PassOf
<1>5. CASE FindExpired(w)
  <2> DEFINE page == {<<i, dig[i]>> : i \in {j \in Ids : Foldable(j)}}
             x == [work[w] EXCEPT !.pc = "next", !.page = page]
  <2>1. page \in SUBSET (Ids \X Unread)
    BY DEF Foldable
  <2>2. \A i \in Ids : \A s \in Unread : <<i, s>> \in page => dig[i] = s
    OBVIOUS
  <2>3. x \in Work /\ x.pc = "next" /\ x.page = page
    BY <1>1, <2>1 DEF Work
  <2>4. work' = [work EXCEPT ![w] = x]
    BY <1>5 DEF FindExpired
  <2> HIDE DEF page, x
  <2>5. work'[w] = x => PassOf(w)'
    BY <1>2, <2>2, <2>3 DEF PassOf, Arrived, Folded, Unread
  <2> QED
    BY <2>3, <2>4, <2>5
<1>6. CASE NextCandidate(w)
  <2>1. CASE work' = [work EXCEPT ![w] = NoWork]
    BY <1>4, <2>1, Blank
  <2>2. ASSUME NEW p \in work[w].page, ~OlderUnread(p[1]),
               work' = [work EXCEPT ![w] = [@ EXCEPT !.pc = "mark", !.id = p[1]]]
        PROVE  \E x \in Work : /\ work' = [work EXCEPT ![w] = x]
                               /\ work'[w] = x => PassOf(w)'
    <3> DEFINE x == [work[w] EXCEPT !.pc = "mark", !.id = p[1]]
    <3>1. PICK i \in Ids, s \in Unread : p = <<i, s>>
      BY <1>1 DEF Work
    <3>2. i \in 0 .. N /\ i \in Arrived /\ p[1] = i
      BY <1>1, <2>2, <3>1 DEF PassOf, Ids
    <3>3. x \in Work /\ x.pc = "mark" /\ x.id = i /\ x.page = work[w].page
      BY <1>1, <3>2 DEF Work
    <3>4. work' = [work EXCEPT ![w] = x]
      BY <2>2
    <3> HIDE DEF x
    <3>5. \A j \in Ids : j < i => dig[j] \in Settled
      <4>1. \A j \in Ids : j < i => dig[j] \notin Unread
        BY <2>2, <3>2 DEF OlderUnread
      <4>2. \A j \in Ids : j < i => j \in Arrived
        BY <1>1, <3>2 DEF InOrder, Ids
      <4> QED
        BY <1>1, <4>1, <4>2 DEF Arrived, Settled
    <3>6. work'[w] = x => PassOf(w)'
      <4>1. ASSUME work'[w] = x PROVE PassOf(w)'
        BY <1>1, <1>2, <2>2, <3>1, <3>2, <3>3, <3>5, <4>1 DEF PassOf, Arrived
      <4> QED
        BY <4>1
    <3> QED
      BY <3>3, <3>4, <3>6
  <2> QED
    BY <1>6, <2>1, <2>2 DEF NextCandidate
<1>7. CASE ReadState(w)
  <2> DEFINE pc == IF ~rollup.exists THEN "create"
                   ELSE IF AlreadyCounted(rollup.cursor, work[w].id) THEN "delete" ELSE "update"
             x == [work[w] EXCEPT !.pc = pc, !.cursor = rollup.cursor, !.count = rollup.count]
  <2>1. /\ pc \in {"create", "delete", "update"}
        /\ pc = "delete" => work[w].id <= rollup.cursor
        /\ pc = "update" => rollup.cursor < work[w].id
    BY <1>1 DEF AlreadyCounted
  <2>2. work' = [work EXCEPT ![w] = x] /\ work[w].pc = "read"
    BY <1>7 DEF ReadState
  <2> HIDE DEF pc
  <2>3. /\ x \in Work /\ x.pc = pc /\ x.id = work[w].id /\ x.page = work[w].page
        /\ x.cursor = rollup.cursor
    BY <1>1, <2>1 DEF Work
  <2> HIDE DEF x
  <2>4. ASSUME work'[w] = x PROVE PassOf(w)'
    BY <1>1, <1>2, <2>1, <2>2, <2>3, <2>4 DEF PassOf, Arrived
  <2> QED
    BY <2>2, <2>3, <2>4
<1>8. CASE PassStops(w)
  BY <1>4, <1>8, Blank DEF PassStops
<1> QED
  BY <1>5, <1>6, <1>7, <1>8
LEMMA MarkSound ==
  ASSUME Sound, NEW w \in Workers, MarkFolding(w)
  PROVE  Sound'
<1>1. /\ work[w] \in Work /\ work \in [Workers -> Work] /\ PassOf(w)
      /\ trouble \in 0 .. MaxTrouble
      /\ dig \in [Ids -> {"none", "acked", "gone"} \cup Unread]
      /\ rollup \in [exists : BOOLEAN, count : 0 .. N, cursor : 0 .. N, rev : Nat]
      /\ rollup.cursor \in Nat /\ inRollup \subseteq Ids /\ Tally /\ Counted /\ UnreadIsNeverLost
  BY DigestConstants DEF Sound, TypeOK
<1>2. /\ work[w].pc = "mark"
      /\ UNCHANGED <<expired, wake, turn, rollup, trouble, inRollup, seen, inherited>>
  BY DEF MarkFolding
<1> DEFINE i == work[w].id
           was == CHOOSE s \in Unread : <<i, s>> \in work[w].page
           x == [work[w] EXCEPT !.pc = "read"]
<1>3. /\ was \in Unread /\ <<i, was>> \in work[w].page
      /\ i \in Ids /\ dig[i] # "none"
      /\ \A j \in Ids : j < i => dig[j] \in Settled
  BY <1>1, <1>2 DEF PassOf, Arrived
<1>4. was = "folding" => dig[i] \in Folded
  BY <1>1, <1>3 DEF PassOf
<1>5. \/ was = "folding" /\ work' = [work EXCEPT ![w] = x] /\ dig' = dig
      \/ /\ was # "folding" /\ dig[i] = was
         /\ work' = [work EXCEPT ![w] = x] /\ dig' = [dig EXCEPT ![i] = "folding"]
      \/ work' = [work EXCEPT ![w] = NoWork] /\ dig' = dig
  BY DEF MarkFolding
<1>6. x \in Work /\ x.pc = "read" /\ x.id = i /\ x.page = work[w].page
  BY <1>1 DEF Work
<1> HIDE DEF i, was, x
<1>7. CASE was = "folding" /\ work' = [work EXCEPT ![w] = x] /\ dig' = dig
  <2>1. work'[w] = x
    BY <1>1, <1>7
  <2>2. PassOf(w)'
    BY <1>1, <1>2, <1>3, <1>4, <1>6, <1>7, <2>1 DEF PassOf, Arrived
  <2> QED
    BY <1>1, <1>2, <1>6, <1>7, <2>1, <2>2, OnlyThePass
<1>8. CASE /\ was # "folding" /\ dig[i] = was
           /\ work' = [work EXCEPT ![w] = x] /\ dig' = [dig EXCEPT ![i] = "folding"]
  <2>1. work'[w] = x /\ work'[w] \in Work /\ work' = [work EXCEPT ![w] = work'[w]]
    BY <1>1, <1>6, <1>8
  <2>2. /\ dig' \in [Ids -> {"none", "acked", "gone"} \cup Unread]
        /\ \A j \in Ids : dig'[j] = IF j = i THEN "folding" ELSE dig[j]
        /\ dig[i] \in {"pending", "delivered"}
    BY <1>1, <1>3, <1>8 DEF Unread
  <2>3. DigestsMoveOn /\ \A j \in Ids : dig[j] = "none" => dig'[j] = "none"
    BY <1>3, <2>2 DEF DigestsMoveOn, Settled, Folded
  <2>4. RollupMovesOn
    BY <1>1, <1>2 DEF RollupMovesOn, Safe
  <2>5. Tally' /\ Counted' /\ UnreadIsNeverLost'
    <3>1. Tally'
      BY <1>1, <1>2 DEF Tally, CountedOnce
    <3>2. Counted'
      BY <1>1, <1>2, <2>2 DEF Counted, Safe
    <3>3. UnreadIsNeverLost'
      BY <1>1, <1>2, <2>2 DEF UnreadIsNeverLost
    <3> QED
      BY <3>1, <3>2, <3>3
  <2>6. PassOf(w)'
    <3>1. \A j \in Ids : /\ dig[j] \in Settled => dig'[j] \in Settled
                         /\ dig[j] \in Folded => dig'[j] \in Folded
                         /\ dig[j] # "none" => dig'[j] # "none"
      BY <2>3 DEF DigestsMoveOn
    <3>2. dig'[i] \in Folded
      BY <1>3, <2>2 DEF Folded
    <3> QED
      BY <1>1, <1>2, <1>3, <1>6, <2>1, <3>1, <3>2 DEF PassOf, Arrived
  <2>7. /\ rollup' \in [exists : BOOLEAN, count : 0 .. N, cursor : 0 .. N, rev : Nat]
        /\ inRollup' \subseteq Ids /\ trouble' \in 0 .. MaxTrouble
    BY <1>1, <1>2
  <2> QED
    BY <1>2, <2>1, <2>2, <2>3, <2>4, <2>5, <2>6, <2>7, OnePass
<1>9. CASE work' = [work EXCEPT ![w] = NoWork] /\ dig' = dig
  <2>1. work'[w] = NoWork
    BY <1>1, <1>9
  <2>2. PassOf(w)'
    BY <2>1 DEF PassOf, NoWork
  <2> QED
    BY <1>1, <1>2, <1>9, <2>1, <2>2, Blank, OnlyThePass
<1> QED
  BY <1>5, <1>7, <1>8, <1>9

(* What counting the digest of a pass makes of the rollup.                   *)
LEMMA CountSound ==
  ASSUME Sound, NEW w \in Workers, NEW i \in Ids, i = work[w].id, rollup.cursor < i,
         work[w].pc \in {"create", "update"},
         work' = [work EXCEPT ![w] = [@ EXCEPT !.pc = "delete"]],
         rollup'.exists, rollup'.count = rollup.count + 1, rollup'.cursor = i,
         rollup'.rev = rollup.rev + 1,
         rollup' = [exists |-> rollup'.exists, count |-> rollup'.count,
                    cursor |-> rollup'.cursor, rev |-> rollup'.rev],
         inRollup' = inRollup \cup {i},
         UNCHANGED <<dig, expired, wake, turn, trouble, seen, inherited>>
  PROVE  Sound'
<1>1. /\ work[w] \in Work /\ work \in [Workers -> Work] /\ PassOf(w)
      /\ trouble \in 0 .. MaxTrouble
      /\ dig \in [Ids -> {"none", "acked", "gone"} \cup Unread]
      /\ rollup.cursor \in Nat /\ rollup.count \in Nat /\ rollup.rev \in Nat
      /\ inRollup \subseteq Ids /\ Tally /\ Counted /\ UnreadIsNeverLost
  BY DigestConstants DEF Sound, TypeOK
<1> DEFINE x == [work[w] EXCEPT !.pc = "delete"]
<1>2. x \in Work /\ x.pc = "delete" /\ x.id = i /\ x.page = work[w].page
  BY <1>1 DEF Work
<1>3. work' = [work EXCEPT ![w] = x]
  OBVIOUS
<1> HIDE DEF x
<1>4. work'[w] = x
  BY <1>1, <1>3
<1>5. /\ i \in Arrived /\ dig[i] \in Folded
      /\ \A j \in Ids : j < i => dig[j] \in Settled
  BY <1>1 DEF PassOf
<1>6. Tally'
  <2>1. i \notin inRollup
    BY <1>1 DEF Tally, Ids
  <2>2. IsFiniteSet(inRollup)
    BY <1>1, IdsFinite, FS_Subset
  <2>3. Cardinality(inRollup \cup {i}) = Cardinality(inRollup) + 1
    BY <2>1, <2>2, FS_AddElement
  <2>4. CountedOnce'
    BY <1>1, <2>3 DEF Tally, CountedOnce
  <2>5. \A j \in inRollup' : j <= rollup'.cursor
    BY <1>1 DEF Tally, Ids
  <2> QED
    BY <2>4, <2>5 DEF Tally
<1>7. rollup' \in [exists : BOOLEAN, count : 0 .. N, cursor : 0 .. N, rev : Nat]
  <2>1. inRollup' \subseteq Ids
    BY <1>1
  <2>2. Cardinality(inRollup') \in Nat /\ Cardinality(inRollup') <= N
    BY <2>1, IdsFinite, FS_Subset, FS_CardinalityType
  <2>3. rollup'.count \in 0 .. N
    BY <1>6, <2>2, DigestConstants DEF Tally, CountedOnce
  <2>4. rollup'.rev \in Nat /\ rollup'.cursor \in 0 .. N /\ rollup'.exists \in BOOLEAN
    BY <1>1, DigestConstants DEF Ids
  <2> QED
    BY <2>3, <2>4
<1>8. Counted'
  <2>1. ASSUME NEW j \in Ids, j < i PROVE dig[j] \in Settled /\ j \in Safe
    BY <1>1, <1>5, <2>1 DEF UnreadIsNeverLost, Settled, Safe
  <2>2. \A j \in Ids : j <= i => j = i \/ j < i
    BY DEF Ids
  <2> QED
    BY <1>5, <2>1, <2>2 DEF Counted, Safe, Settled, Folded
<1>9. RollupMovesOn /\ UnreadIsNeverLost'
  <2>1. rollup.cursor <= rollup'.cursor /\ rollup.rev <= rollup'.rev /\ rollup'.rev # rollup.rev
    BY <1>1 DEF Ids
  <2> QED
    BY <1>1, <2>1 DEF RollupMovesOn, Safe, UnreadIsNeverLost
<1>10. DigestsMoveOn /\ \A j \in Ids : dig[j] = "none" => dig'[j] = "none"
  BY DEF DigestsMoveOn
<1>11. PassOf(w)'
  <2>1. i <= rollup'.cursor
    BY DEF Ids
  <2> QED
    BY <1>1, <1>2, <1>4, <1>5, <2>1 DEF PassOf, Arrived
<1> QED
  BY <1>1, <1>2, <1>3, <1>4, <1>6, <1>7, <1>8, <1>9, <1>10, <1>11, OnePass
LEMMA FoldSound ==
  ASSUME Sound, NEW w \in Workers, FoldStep(w) \/ PassStops(w)
  PROVE  Sound'
<1>1. /\ work[w] \in Work /\ work \in [Workers -> Work] /\ PassOf(w)
      /\ trouble \in 0 .. MaxTrouble
      /\ dig \in [Ids -> {"none", "acked", "gone"} \cup Unread]
      /\ rollup \in [exists : BOOLEAN, count : 0 .. N, cursor : 0 .. N, rev : Nat]
      /\ rollup.cursor \in Nat /\ inRollup \subseteq Ids /\ Tally /\ Counted /\ UnreadIsNeverLost
  BY DigestConstants DEF Sound, TypeOK
<1>2. work[w].pc \notin {"idle", "next"} =>
         work[w].id \in Ids /\ work[w].id \in Arrived
  BY <1>1 DEF PassOf, Arrived
<1>3. ASSUME work[w].pc \in {"create", "update"},
             work' = [work EXCEPT ![w] = [@ EXCEPT !.pc = "read"]],
             UNCHANGED <<dig, expired, wake, turn, rollup, trouble, inRollup, seen, inherited>>
      PROVE  Sound'
  <2> DEFINE x == [work[w] EXCEPT !.pc = "read"]
  <2>1. x \in Work /\ x.pc = "read" /\ x.id = work[w].id /\ x.page = work[w].page
    BY <1>1 DEF Work
  <2>2. work' = [work EXCEPT ![w] = x]
    BY <1>3
  <2> HIDE DEF x
  <2>3. work'[w] = x
    BY <1>1, <2>2
  <2>4. PassOf(w)'
    BY <1>1, <1>3, <2>1, <2>3 DEF PassOf, Arrived
  <2> QED
    BY <1>1, <1>3, <2>1, <2>2, <2>3, <2>4, OnlyThePass
<1>4. CASE CreateState(w)
  <2>1. CASE rollup.exists
    BY <1>3, <1>4, <2>1 DEF CreateState
  <2>2. CASE ~rollup.exists
    <3>1. /\ rollup' = [exists |-> TRUE, count |-> 1, cursor |-> work[w].id, rev |-> 1]
          /\ inRollup' = {work[w].id} /\ work[w].pc = "create"
          /\ work' = [work EXCEPT ![w] = [@ EXCEPT !.pc = "delete"]]
          /\ UNCHANGED <<dig, expired, wake, turn, trouble, seen, inherited>>
      BY <1>4, <2>2 DEF CreateState
    <3>2. /\ inRollup = {} /\ rollup.cursor = 0 /\ rollup.count = 0 /\ rollup.rev = 0
      BY <1>1, <2>2, FS_EmptySet DEF Tally, CountedOnce, NoId, NoRevision
    <3>3. /\ rollup'.exists /\ rollup'.count = rollup.count + 1
          /\ rollup'.cursor = work[w].id /\ rollup'.rev = rollup.rev + 1
          /\ rollup' = [exists |-> rollup'.exists, count |-> rollup'.count,
                        cursor |-> rollup'.cursor, rev |-> rollup'.rev]
      BY <3>1, <3>2
    <3>4. rollup.cursor < work[w].id /\ inRollup' = inRollup \cup {work[w].id}
      BY <1>2, <3>1, <3>2 DEF Ids
    <3> QED
      BY <1>2, <3>1, <3>3, <3>4, CountSound
  <2> QED
    BY <2>1, <2>2
<1>5. CASE UpdateState(w)
  <2>1. CASE StateUnchanged(w)
    <3>1. /\ rollup' = [rollup EXCEPT !.count = work[w].count + 1, !.rev = rollup.rev + 1,
                                      !.cursor = work[w].id]
          /\ inRollup' = inRollup \cup {work[w].id} /\ work[w].pc = "update"
          /\ work' = [work EXCEPT ![w] = [@ EXCEPT !.pc = "delete"]]
          /\ UNCHANGED <<dig, expired, wake, turn, trouble, seen, inherited>>
      BY <1>5, <2>1 DEF UpdateState
    <3>2. /\ rollup.exists /\ rollup.cursor < work[w].id /\ rollup.count = work[w].count
      BY <1>1, <2>1, <3>1 DEF StateUnchanged, PassOf
    <3>3. /\ rollup'.exists /\ rollup'.count = rollup.count + 1
          /\ rollup'.cursor = work[w].id /\ rollup'.rev = rollup.rev + 1
          /\ rollup' = [exists |-> rollup'.exists, count |-> rollup'.count,
                        cursor |-> rollup'.cursor, rev |-> rollup'.rev]
      BY <1>1, <3>1, <3>2
    <3> QED
      BY <1>2, <3>1, <3>2, <3>3, CountSound
  <2>2. CASE ~StateUnchanged(w)
    BY <1>3, <1>5, <2>2 DEF UpdateState
  <2> QED
    BY <2>1, <2>2
<1>6. CASE DeleteFolded(w)
  <2> DEFINE i == work[w].id
             x == [NoWork EXCEPT !.pc = "next", !.page = {p \in work[w].page : p[1] # i}]
  <2>1. /\ work[w].pc = "delete" /\ work' = [work EXCEPT ![w] = x]
        /\ dig' = IF dig[i] = "folding" THEN [dig EXCEPT ![i] = "gone"] ELSE dig
        /\ UNCHANGED <<expired, wake, turn, rollup, trouble, inRollup, seen, inherited>>
    BY <1>6 DEF DeleteFolded
  <2>2. i \in Ids /\ i <= rollup.cursor /\ i \in Safe
    BY <1>1, <1>2, <2>1 DEF PassOf, Counted
  <2>3. x \in Work /\ x.pc = "next" /\ x.page \subseteq work[w].page
    BY <1>1, Blank DEF Work
  <2> HIDE DEF i, x
  <2>4. work'[w] = x /\ work' = [work EXCEPT ![w] = work'[w]]
    BY <1>1, <2>1
  <2>5. /\ dig' \in [Ids -> {"none", "acked", "gone"} \cup Unread]
        /\ \A j \in Ids : dig'[j] = dig[j] \/ (j = i /\ dig[j] = "folding" /\ dig'[j] = "gone")
    <3>1. CASE dig[i] = "folding"
      BY <1>1, <2>1, <3>1
    <3>2. CASE dig[i] # "folding"
      BY <1>1, <2>1, <3>2
    <3> QED
      BY <3>1, <3>2
  <2>6. DigestsMoveOn /\ \A j \in Ids : dig[j] = "none" => dig'[j] = "none"
    BY <2>5 DEF DigestsMoveOn, Settled, Folded
  <2>7. RollupMovesOn
    BY <1>1, <2>1 DEF RollupMovesOn, Safe
  <2>8. Tally' /\ Counted' /\ UnreadIsNeverLost'
    <3>1. Tally'
      BY <1>1, <2>1 DEF Tally, CountedOnce
    <3>2. Counted'
      BY <1>1, <2>1, <2>5 DEF Counted, Safe, Settled
    <3>3. UnreadIsNeverLost'
      BY <1>1, <2>1, <2>2, <2>5 DEF UnreadIsNeverLost, Safe
    <3> QED
      BY <3>1, <3>2, <3>3
  <2>9. PassOf(w)'
    BY <1>1, <2>3, <2>4, <2>6 DEF PassOf, Arrived, DigestsMoveOn
  <2>10. /\ rollup' \in [exists : BOOLEAN, count : 0 .. N, cursor : 0 .. N, rev : Nat]
         /\ inRollup' \subseteq Ids /\ trouble' \in 0 .. MaxTrouble
    BY <1>1, <2>1
  <2> QED
    BY <2>1, <2>3, <2>4, <2>5, <2>6, <2>7, <2>8, <2>9, <2>10, OnePass
<1>7. CASE FindExpired(w) \/ NextCandidate(w) \/ ReadState(w) \/ PassStops(w)
  BY <1>7, NextSound
<1>8. CASE MarkFolding(w)
  BY <1>8, MarkSound
<1> QED
  BY <1>4, <1>5, <1>6, <1>7, <1>8 DEF FoldStep

-------------------------------------------------------------------------------
(* Digests that arrive, expire or are put back.                              *)
LEMMA OutsideSound ==
  ASSUME Sound, NEW i \in Ids, Arrive(i) \/ Expires(i) \/ RequeueDigest(i)
  PROVE  Sound'
<1>1. TypeOK'
  BY OutsideTyped DEF Sound
<1>2. /\ dig \in [Ids -> {"none", "acked", "gone"} \cup Unread] /\ rollup.cursor \in Nat
      /\ turn \in [Wakes -> Turn]
      /\ InOrder /\ Tally /\ Counted /\ UnreadIsNeverLost
  BY DigestConstants DEF Sound, TypeOK
<1>3. UNCHANGED <<wake, rollup, work, inRollup, seen, inherited>>
  BY DEF Arrive, Expires, RequeueDigest
<1>4. \A j \in Ids :
         dig'[j] = dig[j] \/ (dig[j] \in {"none", "delivered"} /\ dig'[j] = "pending")
  BY <1>2 DEF Arrive, Expires, RequeueDigest
<1>5. DigestsMoveOn /\ RollupMovesOn
  <2>1. DigestsMoveOn
    BY <1>4 DEF DigestsMoveOn, Settled, Folded
  <2>2. rollup.rev \in Nat
    BY DEF Sound, TypeOK
  <2>3. RollupMovesOn
    BY <1>2, <1>3, <2>2 DEF RollupMovesOn, Safe
  <2> QED
    BY <2>1, <2>3
<1>6. InOrder'
  <2>1. CASE Arrive(i)
    <3>1. \A j \in Ids : j <= i => j = i \/ j \in 1 .. i - 1
      BY DEF Ids
    <3>2. Arrived' = Arrived \cup {i}
      BY <1>2, <2>1 DEF Arrive, Arrived
    <3> QED
      BY <1>2, <2>1, <3>1, <3>2 DEF Arrive, InOrder
  <2>2. CASE ~Arrive(i)
    <3>1. \A j \in Ids : dig[j] = "none" => dig'[j] = "none"
      BY <1>2, <2>2 DEF Expires, RequeueDigest
    <3> QED
      BY <1>2, <1>5, <3>1, OrderStays
  <2> QED
    BY <2>1, <2>2
<1>7. Tally' /\ Counted' /\ UnreadIsNeverLost'
  <2>1. Tally'
    BY <1>2, <1>3 DEF Tally, CountedOnce
  <2>2. Counted'
    BY <1>2, <1>3, <1>4 DEF Counted, Safe, Settled
  <2>3. UnreadIsNeverLost'
    BY <1>2, <1>3, <1>4 DEF UnreadIsNeverLost
  <2> QED
    BY <2>1, <2>2, <2>3
<1>8. \A w \in Workers : PassOf(w)'
  <2>1. ASSUME NEW w \in Workers PROVE PassOf(w)'
    BY <1>1, <1>2, <1>3, <1>5, PassStays DEF Sound
  <2> QED
    BY <2>1
<1>9. \A e \in Wakes : TurnFits(turn[e], wake[e])'
  <2>1. ASSUME NEW e \in Wakes PROVE TurnFits(turn[e], wake[e])'
    <3>1. CASE RequeueDigest(i)
      <4> DEFINE x == [turn[e] EXCEPT !.carried = turn[e].carried \ {i}]
      <4>1. turn'[e] = x
        BY <3>1 DEF RequeueDigest
      <4>2. /\ x.pc = turn[e].pc /\ x.carried \subseteq turn[e].carried
            /\ x.cands = turn[e].cands /\ x.snapshotAt = turn[e].snapshotAt
            /\ x.shown = turn[e].shown /\ x.rev = turn[e].rev /\ x.roll = turn[e].roll
        BY <1>2 DEF Turn
      <4> HIDE DEF x
      <4>3. TurnFits(turn[e], wake[e])
        BY DEF Sound
      <4> QED
        BY <1>3, <4>1, <4>2, <4>3 DEF TurnFits, SettlesRevision
    <3>2. CASE ~RequeueDigest(i)
      <4>1. turn'[e] = turn[e]
        BY <3>2 DEF Arrive, Expires
      <4> QED
        BY <1>1, <1>3, <1>5, <4>1, TurnStays DEF Sound
    <3> QED
      BY <3>1, <3>2
  <2> QED
    BY <2>1
<1> QED
  BY <1>1, <1>6, <1>7, <1>8, <1>9 DEF Sound

-------------------------------------------------------------------------------
LEMMA InitSound == Init => Sound
<1> SUFFICES ASSUME Init PROVE Sound
  OBVIOUS
<1>1. /\ dig = [i \in Ids |-> "none"] /\ Arrived = {}
      /\ inRollup = {} /\ rollup.cursor = 0 /\ rollup.count = 0 /\ rollup.rev = 0
      /\ ~rollup.exists
  BY DEF Init, Arrived, NoId, NoRevision
<1>2. InOrder /\ UnreadIsNeverLost
  BY <1>1 DEF InOrder, UnreadIsNeverLost
<1>3. Tally
  BY <1>1, FS_EmptySet DEF Tally, CountedOnce, NoId, NoRevision
<1>4. Counted
  BY <1>1 DEF Counted, Ids
<1>5. \A w \in Workers : PassOf(w)
  BY DEF Init, PassOf, NoWork
<1>6. \A e \in Wakes : TurnFits(turn[e], wake[e])
  <2>1. ASSUME NEW e \in Wakes PROVE TurnFits(turn[e], wake[e])
    BY <1>1 DEF Init, TurnFits, NoTurn, NoRevision
  <2> QED
    BY <2>1
<1> QED
  BY <1>2, <1>3, <1>4, <1>5, <1>6, InitTyped DEF Sound

LEMMA StepSound == Sound /\ [Next]_vars => Sound'
<1> SUFFICES ASSUME Sound, [Next]_vars PROVE Sound'
  OBVIOUS
<1>1. ASSUME NEW i \in Ids, Arrive(i) \/ Expires(i) \/ RequeueDigest(i) PROVE Sound'
  BY <1>1, OutsideSound
<1>2. ASSUME NEW e \in Wakes, PollStep(e) \/ AckStep(e) PROVE Sound'
  BY <1>2, PollSound, AckSound
<1>3. ASSUME NEW w \in Workers, FoldStep(w) \/ PassStops(w) PROVE Sound'
  BY <1>3, FoldSound
<1>4. CASE UNCHANGED vars
  BY <1>4 DEF vars, Sound, TypeOK, InOrder, Tally, CountedOnce, Counted, UnreadIsNeverLost,
              PassOf, TurnFits, Arrived, Safe, SettlesRevision
<1> QED
  BY <1>1, <1>2, <1>3, <1>4 DEF Next

(* The digests, the rollup, the turns and the passes stay well formed, for   *)
(* any number of each.                                                       *)
THEOREM DigestsTyped == Spec => []TypeOK
<1>1. Sound => TypeOK
  BY DEF Sound
<1> QED
  BY <1>1, InitSound, StepSound, PTL DEF Spec

(* However passes overlap, stop and retry, the unread count stands for as    *)
(* many digests as were folded since it was last settled.                    *)
THEOREM DigestsCountedOnce == Spec => []CountedOnce
<1>1. Sound => CountedOnce
  BY DEF Sound, Tally
<1> QED
  BY <1>1, InitSound, StepSound, PTL DEF Spec

(* A digest that is no longer unread was covered by a turn somebody          *)
(* consumed, or the rollup still counts it, except what a wake delivered     *)
(* again settles on what its earlier delivery had shown.                     *)
THEOREM DigestsNeverLost == Spec => []UnreadIsNeverLost
<1>1. Sound => UnreadIsNeverLost
  BY DEF Sound
<1> QED
  BY <1>1, InitSound, StepSound, PTL DEF Spec
===============================================================================
