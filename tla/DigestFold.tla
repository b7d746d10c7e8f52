------------------------------ MODULE DigestFold ------------------------------
(* Ambient (digest) events of one seat in one pod: data for a later turn.    *)
(* A poll that claims a wake takes digests along and shows the seat's folded *)
(* rollup; consuming the wake settles what it covered                        *)
(* (backend/services/agentEventService.ts).  Retention folds expired digests *)
(* into the rollup and deletes them (agentDigestFoldService.ts); passes of   *)
(* several replicas overlap and may stop anywhere.                           *)
(*                                                                           *)
(* Ids are in ObjectId order and digests are inserted in that order, but     *)
(* they may expire in any order.  A timestamp snapshotAt is the set of       *)
(* digests that exist at that time.                                          *)
EXTENDS Naturals, FiniteSets

CONSTANTS N,          \* bound: digests
          Wakes,      \* waking events of the seat in the pod
          Workers,    \* retention passes
          DigestSlots,\* digests one poll takes along
          MaxTrouble  \* bound: passes that die or run out of time, wakes that
                      \* are taken back

ASSUME DigestConstants ==
    /\ N \in Nat /\ DigestSlots \in Nat \ {0}
    /\ MaxTrouble \in Nat

VARIABLES dig,     \* status of each digest document
          expired, \* digests past the retention horizon
          wake,    \* the wake documents
          turn,    \* the current delivery of each wake
          rollup,  \* the seat's AgentDigestState
          work,    \* the retention passes
          trouble, \* how much of it there has been
          inRollup,\* history: digests the rollup's unreadCount stands for
          seen,    \* history: digests covered by a turn that was consumed
          inherited \* history: digests settled on what an earlier delivery
                    \* of the wake had shown

vars == <<dig, expired, wake, turn, rollup, work, trouble, inRollup, seen, inherited>>

Ids == 1 .. N
NoId == 0
NoRevision == 0

Unread == {"pending", "folding", "delivered"}
Arrived == {i \in Ids : dig[i] # "none"}

WakeDoc == [status : {"pending", "delivered", "acked"}, snap : SUBSET Ids, rev : Nat,
            oldSnap : BOOLEAN, oldRev : BOOLEAN]

Turn == [pc : {"none", "claiming", "attach", "write", "out", "rows", "rollup"},
         cands : SUBSET Ids, snapshotAt : SUBSET Ids, carried : SUBSET Ids,
         roll : SUBSET Ids, rev : Nat, shown : SUBSET Ids]

NoTurn == [pc |-> "none", cands |-> {}, snapshotAt |-> {}, carried |-> {},
           roll |-> {}, rev |-> NoRevision, shown |-> {}]

Work == [pc : {"idle", "next", "mark", "read", "create", "update", "delete"},
         page : SUBSET (Ids \X Unread), id : 0 .. N, cursor : 0 .. N, count : 0 .. N]

NoWork == [pc |-> "idle", page |-> {}, id |-> NoId, cursor |-> NoId, count |-> 0]

-------------------------------------------------------------------------------
(* The conditions that carry the design, each with a plausible slip.         *)

(* Mutant: the pass looks for rows nobody has marked yet.                    *)
FoldableUnmarked(i) == i \in expired /\ dig[i] \in {"pending", "delivered"}

Foldable(i) == i \in expired /\ dig[i] \in Unread

(* Mutant: rows are folded as they expire.                                   *)
NeverBlocked(i) == FALSE

(* An earlier unread id, expired or not, keeps the cursor back.              *)
OlderUnread(i) == \E j \in Ids : j < i /\ dig[j] \in Unread

AlreadyCounted(cursor, i) == cursor >= i

(* Mutant: settling ignores what was folded since the turn was shown.        *)
SettlesAnyRevision(rev) == rev # NoRevision

SettlesRevision(rev) == rev # NoRevision /\ rollup.rev = rev

(* Mutant: the state read is not compared again.                             *)
StateUnread(w) == rollup.exists

StateUnchanged(w) == rollup.exists /\ rollup.cursor = work[w].cursor
                                   /\ rollup.count = work[w].count

-------------------------------------------------------------------------------
Init ==
    /\ dig = [i \in Ids |-> "none"]
    /\ expired = {}
    /\ wake = [e \in Wakes |-> [status |-> "pending", snap |-> {}, rev |-> NoRevision,
                                oldSnap |-> FALSE, oldRev |-> FALSE]]
    /\ turn = [e \in Wakes |-> NoTurn]
    /\ rollup = [exists |-> FALSE, count |-> 0, cursor |-> NoId, rev |-> NoRevision]
    /\ work = [w \in Workers |-> NoWork]
    /\ trouble = 0
    /\ inRollup = {}
    /\ seen = {}
    /\ inherited = {}

Trouble == trouble < MaxTrouble /\ trouble' = trouble + 1

(* enqueue with deliveryMode 'digest'.                                       *)
Arrive(i) ==
    /\ dig[i] = "none" /\ \A j \in 1 .. i - 1 : j \in Arrived
    /\ dig' = [dig EXCEPT ![i] = "pending"]
    /\ UNCHANGED <<expired, wake, turn, rollup, work, trouble, inRollup, seen, inherited>>

Expires(i) ==
    /\ i \in Arrived \ expired
    /\ expired' = expired \cup {i}
    /\ UNCHANGED <<dig, wake, turn, rollup, work, trouble, inRollup, seen, inherited>>

(* The requeue sweep finds a digest nobody settled; its delivery is void.    *)
RequeueDigest(i) ==
    /\ dig[i] = "delivered"
    /\ dig' = [dig EXCEPT ![i] = "pending"]
    /\ turn' = [e \in Wakes |-> [turn[e] EXCEPT !.carried = @ \ {i}]]
    /\ UNCHANGED <<expired, wake, rollup, work, trouble, inRollup, seen, inherited>>

-------------------------------------------------------------------------------
(* A poll: claimPage and attachFoldedDigest.                                 *)
Newest(k, S) == {i \in S : Cardinality({j \in S : j > i}) < k}

(* The candidates are read, then the wake is claimed.  Its document keeps    *)
(* the snapshot and the revision of an earlier delivery.                     *)
ClaimWake(e) ==
    /\ wake[e].status = "pending"
    /\ wake' = [wake EXCEPT ![e] = [@ EXCEPT !.status = "delivered",
                                             !.oldSnap = wake[e].snap # {},
                                             !.oldRev = wake[e].rev # NoRevision]]
    /\ turn' = [turn EXCEPT ![e] =
                   [NoTurn EXCEPT !.pc = "claiming", !.snapshotAt = Arrived,
                                  !.cands = Newest(DigestSlots,
                                                   {i \in Ids : dig[i] = "pending"})]]
    /\ UNCHANGED <<dig, expired, rollup, work, trouble, inRollup, seen, inherited>>

ClaimDigest(e, i) ==
    /\ turn[e].pc = "claiming" /\ i \in turn[e].cands
    /\ IF dig[i] = "pending"
       THEN /\ dig' = [dig EXCEPT ![i] = "delivered"]
            /\ turn' = [turn EXCEPT ![e] = [@ EXCEPT !.cands = turn[e].cands \ {i},
                                                     !.carried = turn[e].carried \cup {i}]]
       ELSE /\ turn' = [turn EXCEPT ![e].cands = @ \ {i}]
            /\ UNCHANGED dig
    /\ UNCHANGED <<expired, wake, rollup, work, trouble, inRollup, seen, inherited>>

(* A wake with companions covers everything up to the snapshot.              *)
MarkSnapshot(e) ==
    /\ turn[e].pc = "claiming" /\ turn[e].cands = {}
    /\ LET covers == IF turn[e].carried # {} THEN turn[e].snapshotAt ELSE {} IN
         /\ wake' = IF covers = {} THEN wake
                    ELSE [wake EXCEPT ![e] = [@ EXCEPT !.snap = covers, !.oldSnap = FALSE]]
         /\ turn' = [turn EXCEPT ![e] = [@ EXCEPT !.pc = "attach", !.shown = covers,
                                                  !.snapshotAt = {}]]
    /\ UNCHANGED <<dig, expired, rollup, work, trouble, inRollup, seen, inherited>>

(* readFoldedDigest.                                                         *)
ReadRollup(e) ==
    /\ turn[e].pc = "attach"
    /\ turn' = IF rollup.count > 0
               THEN [turn EXCEPT ![e] = [@ EXCEPT !.pc = "write", !.rev = rollup.rev,
                                                  !.roll = inRollup]]
               ELSE [turn EXCEPT ![e].pc = "out"]
    /\ UNCHANGED <<dig, expired, wake, rollup, work, trouble, inRollup, seen, inherited>>

WriteRevision(e) ==
    /\ turn[e].pc = "write"
    /\ wake' = [wake EXCEPT ![e] = [@ EXCEPT !.rev = turn[e].rev, !.oldRev = FALSE]]
    /\ turn' = [turn EXCEPT ![e] = [@ EXCEPT !.pc = "out",
                                             !.shown = turn[e].shown \cup turn[e].roll,
                                             !.rev = NoRevision,
                                             !.roll = {}]]
    /\ UNCHANGED <<dig, expired, rollup, work, trouble, inRollup, seen, inherited>>

(* The attachment fails and is only logged: the turn goes out without it.    *)
AttachFails(e) ==
    /\ turn[e].pc \in {"attach", "write"}
    /\ turn' = [turn EXCEPT ![e] = [@ EXCEPT !.pc = "out", !.rev = NoRevision, !.roll = {}]]
    /\ UNCHANGED <<dig, expired, wake, rollup, work, trouble, inRollup, seen, inherited>>

(* A release or the requeue sweep puts the wake back; its delivery is void.  *)
RequeueWake(e) ==
    /\ wake[e].status = "delivered"
    /\ Trouble
    /\ wake' = [wake EXCEPT ![e].status = "pending"]
    /\ turn' = [turn EXCEPT ![e] = NoTurn]
    /\ UNCHANGED <<dig, expired, rollup, work, inRollup, seen, inherited>>

-------------------------------------------------------------------------------
(* acknowledge, then its settlement, statement by statement.                 *)
ConsumedAck(e) ==
    /\ turn[e].pc = "out" /\ wake[e].status = "delivered"
    /\ wake' = [wake EXCEPT ![e].status = "acked"]
    /\ turn' = [turn EXCEPT ![e] = [@ EXCEPT !.pc = "rows", !.shown = {}]]
    /\ seen' = seen \cup turn[e].shown
    /\ UNCHANGED <<dig, expired, rollup, work, trouble, inRollup, inherited>>

(* digestConsumedBy says no: the digests stay unread.                        *)
RefusedAck(e) ==
    /\ turn[e].pc = "out" /\ wake[e].status = "delivered"
    /\ wake' = [wake EXCEPT ![e].status = "acked"]
    /\ turn' = [turn EXCEPT ![e] = NoTurn]
    /\ UNCHANGED <<dig, expired, rollup, work, trouble, inRollup, seen, inherited>>

(* settleDigestBacklog, atomic for each document.                            *)
Settleable(e) == {i \in wake[e].snap : dig[i] \in {"pending", "delivered"}}

SettleRow(e, i) ==
    /\ turn[e].pc = "rows" /\ i \in Settleable(e)
    /\ dig' = [dig EXCEPT ![i] = "acked"]
    /\ inherited' = IF wake[e].oldSnap THEN inherited \cup {i} ELSE inherited
    /\ UNCHANGED <<expired, wake, turn, rollup, work, trouble, inRollup, seen>>

RowsSettled(e) ==
    /\ turn[e].pc = "rows" /\ Settleable(e) = {}
    /\ turn' = [turn EXCEPT ![e].pc = "rollup"]
    /\ UNCHANGED <<dig, expired, wake, rollup, work, trouble, inRollup, seen, inherited>>

(* settleFoldedDigest.                                                       *)
SettleRollup(e) ==
    /\ turn[e].pc = "rollup"
    /\ IF SettlesRevision(wake[e].rev)
       THEN /\ rollup' = [rollup EXCEPT !.count = 0, !.rev = @ + 1]
            /\ inRollup' = {}
            /\ inherited' = IF wake[e].oldRev THEN inherited \cup inRollup ELSE inherited
       ELSE UNCHANGED <<rollup, inRollup, inherited>>
    /\ turn' = [turn EXCEPT ![e].pc = "none"]
    /\ UNCHANGED <<dig, expired, wake, work, trouble, seen>>

(* A settlement that fails is only logged.                                   *)
SettleFails(e) ==
    /\ turn[e].pc \in {"rows", "rollup"}
    /\ turn' = [turn EXCEPT ![e].pc = "none"]
    /\ UNCHANGED <<dig, expired, wake, rollup, work, trouble, inRollup, seen, inherited>>

(* The runner's turn is over: it also acknowledges the digests it was given. *)
AckCompanion(e, i) ==
    /\ turn[e].pc = "none" /\ i \in turn[e].carried
    /\ dig' = IF dig[i] = "delivered" THEN [dig EXCEPT ![i] = "acked"] ELSE dig
    /\ turn' = [turn EXCEPT ![e].carried = @ \ {i}]
    /\ UNCHANGED <<expired, wake, rollup, work, trouble, inRollup, seen, inherited>>

-------------------------------------------------------------------------------
(* foldExpiredDigests.                                                       *)
FindExpired(w) ==
    /\ work[w].pc = "idle"
    /\ \E i \in Ids : Foldable(i)
    /\ LET page == {<<i, dig[i]>> : i \in {j \in Ids : Foldable(j)}} IN
         work' = [work EXCEPT ![w] = [@ EXCEPT !.pc = "next", !.page = page]]
    /\ UNCHANGED <<dig, expired, wake, turn, rollup, trouble, inRollup, seen, inherited>>

(* The oldest candidate of the page, unless an older unread row blocks the   *)
(* scope for this pass.                                                      *)
Oldest(page, p) == p \in page /\ \A q \in page : p[1] <= q[1]

NextCandidate(w) ==
    /\ work[w].pc = "next"
    /\ \/ work[w].page = {} /\ work' = [work EXCEPT ![w] = NoWork]
       \/ \E p \in work[w].page :
             /\ Oldest(work[w].page, p)
             /\ work' = IF OlderUnread(p[1]) THEN [work EXCEPT ![w] = NoWork]
                        ELSE [work EXCEPT ![w] = [@ EXCEPT !.pc = "mark", !.id = p[1]]]
    /\ UNCHANGED <<dig, expired, wake, turn, rollup, trouble, inRollup, seen, inherited>>

(* status -> 'folding', from the status the page had.                        *)
MarkFolding(w) ==
    /\ work[w].pc = "mark"
    /\ LET i == work[w].id
           was == CHOOSE s \in Unread : <<i, s>> \in work[w].page IN
         \/ /\ was = "folding"
            /\ work' = [work EXCEPT ![w].pc = "read"]
            /\ UNCHANGED dig
         \/ /\ was # "folding" /\ dig[i] = was
            /\ dig' = [dig EXCEPT ![i] = "folding"]
            /\ work' = [work EXCEPT ![w].pc = "read"]
         \/ /\ was # "folding" /\ dig[i] # was
            /\ work' = [work EXCEPT ![w] = NoWork]
            /\ UNCHANGED dig
    /\ UNCHANGED <<expired, wake, turn, rollup, trouble, inRollup, seen, inherited>>

ReadState(w) ==
    /\ work[w].pc = "read"
    /\ LET pc == IF ~rollup.exists THEN "create"
                 ELSE IF AlreadyCounted(rollup.cursor, work[w].id) THEN "delete" ELSE "update" IN
         work' = [work EXCEPT ![w] = [@ EXCEPT !.pc = pc, !.cursor = rollup.cursor,
                                               !.count = rollup.count]]
    /\ UNCHANGED <<dig, expired, wake, turn, rollup, trouble, inRollup, seen, inherited>>

(* The unique index turns a second create into another round.                *)
CreateState(w) ==
    /\ work[w].pc = "create"
    /\ IF rollup.exists
       THEN /\ work' = [work EXCEPT ![w].pc = "read"]
            /\ UNCHANGED <<rollup, inRollup>>
       ELSE /\ rollup' = [exists |-> TRUE, count |-> 1, cursor |-> work[w].id, rev |-> 1]
            /\ inRollup' = {work[w].id}
            /\ work' = [work EXCEPT ![w].pc = "delete"]
    /\ UNCHANGED <<dig, expired, wake, turn, trouble, seen, inherited>>

(* Compare-and-set on the cursor and the count; a loss is another round.     *)
UpdateState(w) ==
    /\ work[w].pc = "update"
    /\ IF StateUnchanged(w)
       THEN /\ rollup' = [rollup EXCEPT !.count = work[w].count + 1, !.rev = @ + 1,
                                        !.cursor = work[w].id]
            /\ inRollup' = inRollup \cup {work[w].id}
            /\ work' = [work EXCEPT ![w].pc = "delete"]
       ELSE /\ work' = [work EXCEPT ![w].pc = "read"]
            /\ UNCHANGED <<rollup, inRollup>>
    /\ UNCHANGED <<dig, expired, wake, turn, trouble, seen, inherited>>

DeleteFolded(w) ==
    /\ work[w].pc = "delete"
    /\ LET i == work[w].id IN
         /\ dig' = IF dig[i] = "folding" THEN [dig EXCEPT ![i] = "gone"] ELSE dig
         /\ work' = [work EXCEPT ![w] = [NoWork EXCEPT !.pc = "next",
                                          !.page = {p \in work[w].page : p[1] # i}]]
    /\ UNCHANGED <<expired, wake, turn, rollup, trouble, inRollup, seen, inherited>>

(* The process dies, a statement throws, the five rounds or the time budget  *)
(* are used up.                                                              *)
PassStops(w) ==
    /\ work[w].pc # "idle"
    /\ Trouble
    /\ work' = [work EXCEPT ![w] = NoWork]
    /\ UNCHANGED <<dig, expired, wake, turn, rollup, inRollup, seen, inherited>>

-------------------------------------------------------------------------------
FoldStep(w) ==
    \/ FindExpired(w) \/ NextCandidate(w) \/ MarkFolding(w)
    \/ ReadState(w) \/ CreateState(w) \/ UpdateState(w) \/ DeleteFolded(w)

PollStep(e) ==
    \/ ClaimWake(e) \/ \E i \in Ids : ClaimDigest(e, i)
    \/ MarkSnapshot(e) \/ ReadRollup(e) \/ WriteRevision(e) \/ AttachFails(e)
    \/ RequeueWake(e)

AckStep(e) ==
    \/ ConsumedAck(e) \/ RefusedAck(e)
    \/ \E i \in Ids : SettleRow(e, i)
    \/ RowsSettled(e) \/ SettleRollup(e) \/ SettleFails(e)
    \/ \E i \in Ids : AckCompanion(e, i)

Next ==
    \/ \E i \in Ids : Arrive(i) \/ Expires(i) \/ RequeueDigest(i)
    \/ \E e \in Wakes : PollStep(e) \/ AckStep(e)
    \/ \E w \in Workers : FoldStep(w) \/ PassStops(w)

Spec == Init /\ [][Next]_vars

(* Retention passes run every ten minutes and each runs to its end.          *)
FairSpec == Spec /\ \A w \in Workers : WF_vars(FoldStep(w))

-------------------------------------------------------------------------------
(* Properties.                                                               *)

(* The documents, turns and passes stay well formed, only digests that       *)
(* arrived expire, and the count and the cursor never exceed what there is.  *)
TypeOK ==
    /\ dig \in [Ids -> {"none", "acked", "gone"} \cup Unread]
    /\ expired \subseteq Arrived
    /\ wake \in [Wakes -> WakeDoc]
    /\ turn \in [Wakes -> Turn]
    /\ rollup \in [exists : BOOLEAN, count : 0 .. N, cursor : 0 .. N, rev : Nat]
    /\ work \in [Workers -> Work]
    /\ trouble \in 0 .. MaxTrouble
    /\ inRollup \subseteq Ids /\ seen \subseteq Ids /\ inherited \subseteq Ids

(* No notification is erased: a digest that is no longer unread was covered  *)
(* by a turn somebody consumed, or the rollup still counts it                *)
(* (settleFoldedDigest, "the next turn may see some IDs twice, but never     *)
(* loses an unseen event"); the exception is a wake that was delivered again *)
(* and settles on the snapshot, or the revision, of its earlier delivery.    *)
UnreadIsNeverLost ==
    \A i \in Ids : dig[i] \in {"acked", "gone"} => i \in inRollup \cup seen \cup inherited

(* However passes overlap, stop and retry, the unread count stands for as    *)
(* many digests as were folded since it was last settled                     *)
(* (foldExpiredDigests, "idempotent on the next GC pass").                   *)
CountedOnce == rollup.count = Cardinality(inRollup)

(* A digest marked for folding, which no poll can claim any more, is folded  *)
(* and deleted even if the pass that marked it died.                         *)
FoldingFinishes == \A i \in Ids : dig[i] = "folding" ~> dig[i] = "gone"
===============================================================================
