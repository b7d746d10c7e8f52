--------------------------- MODULE AgentEventQueue ---------------------------
(* The polled agent event queue (backend/services/agentEventService.ts): one *)
(* AgentEvent document per event, changed only by single-document compare-   *)
(* and-set updates.  Pollers claim, renew, post, acknowledge and hand back;  *)
(* the ten-minute sweep of every backend replica takes back stale deliveries *)
(* and retires those out of attempts.  In-process (native) turns, webhooks   *)
(* and digest events are not part of this module.                            *)
(*                                                                           *)
(* A document's age says whether deliveredAt is older than the sweep's       *)
(* threshold.  A delivery nonce is named by the delivery it was minted for,  *)
(* which is the value of attempts after that claim.                          *)
EXTENDS Naturals, FiniteSets

CONSTANTS Events,        \* events of one agent in one pod, digests excluded
          Runners,       \* processes polling for the agent
          Legacy,        \* runners that acknowledge without a deliveryId
          Enforced,      \* legacy runners whose consumer must present one
          Sweepers,      \* backend replicas running garbageCollect
          NoEvent,       \* what an idle runner or sweeper works on
          Cap,           \* AGENT_EVENT_REQUEUE_MAX_ATTEMPTS
          BatchSize,     \* UNANSWERED_MENTION_BATCH
          MaxMessages,   \* bound: messages one event carries
          MaxSweepCrashes \* bound: sweeps that die half-way

ASSUME QueueConstants ==
    /\ Enforced \subseteq Legacy /\ Legacy \subseteq Runners
    /\ NoEvent \notin Events
    /\ Cap \in Nat \ {0} /\ BatchSize \in Nat \ {0}
    /\ MaxMessages \in Nat \ {0} /\ MaxSweepCrashes \in Nat

VARIABLES rows,      \* the AgentEvent documents
          run,       \* what each runner is doing
          job,       \* what each replica's sweep is retiring
          answered,  \* messages of an event since which the agent posted in the pod
          lines,     \* unanswered-mention lines posted for each of them
          crashes,   \* sweeps that died half-way
          taken,     \* history: deliveries the queue took back
          endedBy,   \* history: the delivery presented by the ack that landed
          read       \* history: how many messages the last claim handed over

vars == <<rows, run, job, answered, lines, crashes, taken, endedBy, read>>

NoNonce == 0

(* releaseCeiling                                                            *)
Ceiling == 2 * Cap

(* The i-th message an event carries; the first is its own, the rest joined. *)
Mentions == Events \X (1 .. MaxMessages)

Final == {"acked", "failed"}

Row == [status   : {"none", "pending", "delivered", "gone"} \cup Final,
        attempts : Nat,
        nonce    : Nat,
        age      : {"fresh", "stale"},
        carries  : 0 .. MaxMessages,
        person   : BOOLEAN]

Job == [pc : {"retire", "look", "line"}, batch : SUBSET (Events \X Nat),
        ev : Events \cup {NoEvent}, msg : 0 .. MaxMessages, last : 0 .. MaxMessages]

Unborn == [status |-> "none", attempts |-> 0, nonce |-> NoNonce, age |-> "fresh",
           carries |-> 0, person |-> FALSE]

Idle == [pc |-> "idle", ev |-> NoEvent, nonce |-> NoNonce]
Resting == [pc |-> "retire", batch |-> {}, ev |-> NoEvent, msg |-> 0, last |-> 0]

(* A sweep is done with an event and goes on to the rest of its batch.       *)
GoingOn(j) == [Resting EXCEPT !.batch = j.batch]

(* A sweep that retired e has the messages it carries to note, in order.     *)
Retiring(j, e, n) == [pc |-> "look", batch |-> j.batch \ {<<e, n>>}, ev |-> e,
                      msg |-> 1, last |-> rows[e].carries]

(* It is done with a message, and goes on to the next.                       *)
NextMessage(j) ==
    IF j.msg < j.last THEN [j EXCEPT !.pc = "look", !.msg = @ + 1] ELSE GoingOn(j)

-------------------------------------------------------------------------------
(* The filters of the updates.  Each mutant is the code with one plausible   *)
(* slip, most of them slips its comments say were once made.                 *)

(* Mutant: the claim does not ask for a pending document.                    *)
DeliverableUnlessFinal(r) == r.status \in {"pending", "delivered"}

Deliverable(r) == r.status = "pending"

Releasable(r, n) == r.status = "delivered" /\ r.nonce = n /\ r.attempts < Ceiling

Requeueable(r) == r.status = "delivered" /\ r.age = "stale" /\ r.attempts < Cap

(* Mutant: the cap is exclusive on both sides.                               *)
SpentPastCap(r) == r.status = "delivered" /\ r.age = "stale" /\ r.attempts > Cap

Spent(r) == r.status = "delivered" /\ r.age = "stale" /\ r.attempts >= Cap

(* Mutant: retiring is keyed by the event alone, as before TASK-656.         *)
RetirableByAnyone(r, n) == r.status \in {"delivered", "failed"}

(* The retire's compare-and-set: the delivery, not its deliveredAt.          *)
Retirable(r, n) == r.status = "delivered" /\ r.nonce = n

(* Mutant: the bulk retire forgets type: {$nin: ...}.                        *)
RetiredInBulkAny(r) == r.person \in BOOLEAN

RetiredInBulk(r) == ~r.person

Renewable(r, n) == r.status = "delivered" /\ r.nonce = n

(* A presented deliveryId must match, an absent one is accepted.             *)
Ackable(r, n) == r.status \in {"pending", "delivered"} /\ (n # NoNonce => r.nonce = n)

Postable(r) == r.status = "delivered"

(* Mutant: a requeued document is pending too, so a mention may join it.     *)
JoinableWhilePending(r) == r.person /\ r.status = "pending" /\ r.carries < MaxMessages

Joinable(r) ==
    r.person /\ r.status = "pending" /\ r.attempts = 0 /\ r.carries < MaxMessages

(* The documents the updates leave.                                          *)
Claimed(r) == [status |-> "delivered", attempts |-> r.attempts + 1, nonce |-> r.attempts + 1,
               age |-> "fresh", carries |-> r.carries, person |-> r.person]

(* Mutant: the requeue leaves the nonce to be overwritten by the next claim. *)
TakenBackWithNonce(r) == [r EXCEPT !.status = "pending", !.age = "fresh"]

(* Clearing the nonce is the invalidation.                                   *)
TakenBack(r) == [r EXCEPT !.status = "pending", !.nonce = NoNonce, !.age = "fresh"]

Ended(r, status) == [r EXCEPT !.status = status, !.nonce = NoNonce, !.age = "fresh"]

Refreshed(r) == [r EXCEPT !.status = "delivered", !.age = "fresh"]

-------------------------------------------------------------------------------
Init ==
    /\ rows = [e \in Events |-> Unborn]
    /\ run = [r \in Runners |-> Idle]
    /\ job = [w \in Sweepers |-> Resting]
    /\ answered = [m \in Mentions |-> FALSE]
    /\ lines = [m \in Mentions |-> 0]
    /\ crashes = 0
    /\ taken = [e \in Events |-> {}]
    /\ endedBy = [e \in Events |-> NoNonce]
    /\ read = [e \in Events |-> 0]

-------------------------------------------------------------------------------
(* Enqueue.                                                                  *)

(* enqueueEvent: the event gets a document of its own, of a type that a      *)
(* person waits on (PERSON_WAITING_EVENT_TYPES) or another.                  *)
Enqueue(e) ==
    /\ rows[e].status = "none"
    /\ \E person \in BOOLEAN :
         rows' = [rows EXCEPT ![e] = [@ EXCEPT !.status = "pending",
                                               !.carries = 1,
                                               !.person = person]]
    /\ UNCHANGED <<run, job, answered, lines, crashes, taken, endedBy, read>>

(* coalesceMention: a further mention joins a document nobody has claimed.   *)
Join(e) ==
    /\ Joinable(rows[e])
    /\ rows' = [rows EXCEPT ![e].carries = @ + 1]
    /\ UNCHANGED <<run, job, answered, lines, crashes, taken, endedBy, read>>

-------------------------------------------------------------------------------
(* A runner.  It holds its delivery until it lets go, whatever became of the *)
(* document: a requeue does not reach into the process.                      *)

(* claimPage reads the candidates ...                                        *)
Poll(r, e) ==
    /\ run[r].pc = "idle"
    /\ rows[e].status = "pending"
    /\ run' = [run EXCEPT ![r] = [pc |-> "found", ev |-> e, nonce |-> NoNonce]]
    /\ UNCHANGED <<rows, job, answered, lines, crashes, taken, endedBy, read>>

(* ... and claims them one by one.                                           *)
Claim(r) ==
    /\ run[r].pc = "found"
    /\ LET e == run[r].ev IN
         /\ Deliverable(rows[e])
         /\ rows' = [rows EXCEPT ![e] = Claimed(@)]
         /\ run' = [run EXCEPT ![r] = [pc |-> "held", ev |-> e,
                                       nonce |-> rows[e].attempts + 1]]
         /\ read' = [read EXCEPT ![e] = rows[e].carries]
    /\ UNCHANGED <<job, answered, lines, crashes, taken, endedBy>>

(* A sibling poller won, or the document is gone.                            *)
ClaimMissed(r) ==
    /\ run[r].pc = "found"
    /\ ~Deliverable(rows[run[r].ev])
    /\ run' = [run EXCEPT ![r] = Idle]
    /\ UNCHANGED <<rows, job, answered, lines, crashes, taken, endedBy, read>>

(* renewDelivery; it needs a deliveryId.                                     *)
Renew(r) ==
    /\ run[r].pc = "held" /\ r \notin Legacy
    /\ Renewable(rows[run[r].ev], run[r].nonce)
    /\ rows' = [rows EXCEPT ![run[r].ev] = Refreshed(@)]
    /\ UNCHANGED <<run, job, answered, lines, crashes, taken, endedBy, read>>

(* The turn posts in the pod; every message of before has been answered as   *)
(* far as the unanswered-mention check can tell.                             *)
Post(r) ==
    /\ run[r].pc = "held"
    /\ answered' = [m \in Mentions |-> answered[m] \/ m[2] <= rows[m[1]].carries]
    /\ run' = [run EXCEPT ![r].pc = "posted"]
    /\ UNCHANGED <<rows, job, lines, crashes, taken, endedBy, read>>

(* markPosted annotates the delivery in flight, whosever it is.              *)
MarkPosted(r) ==
    /\ run[r].pc = "posted"
    /\ LET e == run[r].ev IN
         rows' = IF Postable(rows[e]) THEN [rows EXCEPT ![e] = Refreshed(@)] ELSE rows
    /\ run' = [run EXCEPT ![r].pc = "held"]
    /\ UNCHANGED <<job, answered, lines, crashes, taken, endedBy, read>>

(* acknowledge: mid-turn (a checkpoint) or at its end, and repeatable.       *)
Acknowledge(r) ==
    /\ run[r].pc = "held" /\ r \notin Enforced
    /\ LET e == run[r].ev
           presented == IF r \in Legacy THEN NoNonce ELSE run[r].nonce IN
         /\ Ackable(rows[e], presented)
         /\ rows' = [rows EXCEPT ![e] = Ended(@, "acked")]
         /\ endedBy' = [endedBy EXCEPT ![e] = presented]
    /\ UNCHANGED <<run, job, answered, lines, crashes, taken, read>>

(* releaseDelivery: a stopping runner hands back what it will not run.       *)
Release(r) ==
    /\ run[r].pc = "held" /\ r \notin Legacy
    /\ LET e == run[r].ev IN
         /\ Releasable(rows[e], run[r].nonce)
         /\ rows' = [rows EXCEPT ![e] = TakenBack(@)]
         /\ taken' = [taken EXCEPT ![e] = @ \cup {rows[e].nonce}]
    /\ run' = [run EXCEPT ![r] = Idle]
    /\ UNCHANGED <<job, answered, lines, crashes, endedBy, read>>

(* The turn is over, was told 409 stale_delivery, or its process died; also  *)
(* a claim whose answer was lost.                                            *)
LetGo(r) ==
    /\ run[r].pc # "idle"
    /\ run' = [run EXCEPT ![r] = Idle]
    /\ UNCHANGED <<rows, job, answered, lines, crashes, taken, endedBy, read>>

-------------------------------------------------------------------------------
(* garbageCollect.  A pass keeps nothing between its statements except the   *)
(* batch of unanswered mentions, so each statement is an action and passes   *)
(* of several replicas interleave freely; an updateMany is atomic only for   *)
(* each document.                                                            *)

(* deliveredAt passes the threshold.                                         *)
GoesStale(e) ==
    /\ rows[e].status = "delivered" /\ rows[e].age = "fresh"
    /\ rows' = [rows EXCEPT ![e].age = "stale"]
    /\ UNCHANGED <<run, job, answered, lines, crashes, taken, endedBy, read>>

Requeue(e) ==
    /\ Requeueable(rows[e])
    /\ rows' = [rows EXCEPT ![e] = TakenBack(@)]
    /\ taken' = [taken EXCEPT ![e] = @ \cup {rows[e].nonce}]
    /\ UNCHANGED <<run, job, answered, lines, crashes, endedBy, read>>

(* The bulk retire.                                                          *)
Expire(e) ==
    /\ RetiredInBulk(rows[e]) /\ Spent(rows[e])
    /\ rows' = [rows EXCEPT ![e] = Ended(@, "failed")]
    /\ UNCHANGED <<run, job, answered, lines, crashes, taken, endedBy, read>>

(* The retention deletes, a week after createdAt, whatever the status.       *)
Delete(e) ==
    /\ rows[e].status \notin {"none", "gone"}
    /\ rows' = [rows EXCEPT ![e] = Ended(@, "gone")]
    /\ UNCHANGED <<run, job, answered, lines, crashes, taken, endedBy, read>>

(* retireUnansweredMentions reads its batch ...                              *)
Due == {e \in Events : rows[e].person /\ Spent(rows[e])}

FindUnanswered(w) ==
    /\ job[w] = Resting
    /\ Due # {}
    /\ \E picked \in SUBSET Due :
         /\ picked = Due \/ Cardinality(picked) = BatchSize
         /\ Cardinality(picked) <= BatchSize
         /\ job' = [job EXCEPT ![w].batch = {<<e, rows[e].nonce>> : e \in picked}]
    /\ UNCHANGED <<rows, run, answered, lines, crashes, taken, endedBy, read>>

(* ... retires one by one what is still the delivery it read ...             *)
Retire(w, e, n) ==
    /\ job[w].pc = "retire" /\ <<e, n>> \in job[w].batch
    /\ IF Retirable(rows[e], n)
       THEN /\ rows' = [rows EXCEPT ![e] = Ended(@, "failed")]
            /\ job' = [job EXCEPT ![w] = Retiring(@, e, n)]
       ELSE /\ job' = [job EXCEPT ![w].batch = @ \ {<<e, n>>}]
            /\ UNCHANGED rows
    /\ UNCHANGED <<run, answered, lines, crashes, taken, endedBy, read>>

(* ... and noteUnansweredMention asks for each message whether the agent     *)
(* posted since ...                                                          *)
LookForAnswer(w) ==
    /\ job[w].pc = "look"
    /\ job' = [job EXCEPT ![w] = IF answered[<<@.ev, @.msg>>] THEN NextMessage(@)
                                 ELSE [@ EXCEPT !.pc = "line"]]
    /\ UNCHANGED <<rows, run, answered, lines, crashes, taken, endedBy, read>>

(* ... before it posts the line.                                             *)
PostLine(w) ==
    /\ job[w].pc = "line"
    /\ lines' = [lines EXCEPT ![<<job[w].ev, job[w].msg>>] = @ + 1]
    /\ job' = [job EXCEPT ![w] = NextMessage(@)]
    /\ UNCHANGED <<rows, run, answered, crashes, taken, endedBy, read>>

(* A look or a line fails: that is logged, and the event's other messages    *)
(* get none.                                                                 *)
NoteFails(w) ==
    /\ job[w].pc # "retire"
    /\ crashes < MaxSweepCrashes
    /\ crashes' = crashes + 1
    /\ job' = [job EXCEPT ![w] = GoingOn(@)]
    /\ UNCHANGED <<rows, run, answered, lines, taken, endedBy, read>>

(* The replica dies.                                                         *)
SweepDies(w) ==
    /\ job[w] # Resting
    /\ crashes < MaxSweepCrashes
    /\ crashes' = crashes + 1
    /\ job' = [job EXCEPT ![w] = Resting]
    /\ UNCHANGED <<rows, run, answered, lines, taken, endedBy, read>>

-------------------------------------------------------------------------------
RunnerNext(r) ==
    \/ \E e \in Events : Poll(r, e)
    \/ Claim(r) \/ ClaimMissed(r)
    \/ Renew(r)
    \/ Post(r) \/ MarkPosted(r)
    \/ Acknowledge(r)
    \/ Release(r)
    \/ LetGo(r)

SweepStep(w) ==
    \/ \E e \in Events, n \in 1 .. Ceiling : Retire(w, e, n)
    \/ LookForAnswer(w)
    \/ PostLine(w)

SweepFails(w) == NoteFails(w) \/ SweepDies(w)

EventNext(e) ==
    \/ Enqueue(e) \/ Join(e)
    \/ GoesStale(e) \/ Requeue(e) \/ Expire(e) \/ Delete(e)

Next ==
    \/ \E e \in Events : EventNext(e)
    \/ \E r \in Runners : RunnerNext(r)
    \/ \E w \in Sweepers : FindUnanswered(w) \/ SweepStep(w) \/ SweepFails(w)

Spec == Init /\ [][Next]_vars

(* Time passes, every replica's schedule comes round, and a turn ends: the   *)
(* drivers bound a turn, and a process that hangs is eventually restarted.   *)
Fairness ==
    /\ \A e \in Events : WF_vars(GoesStale(e)) /\ WF_vars(Requeue(e)) /\ WF_vars(Expire(e))
    /\ \A w \in Sweepers : WF_vars(FindUnanswered(w)) /\ WF_vars(SweepStep(w))
    /\ \A r \in Runners : WF_vars(LetGo(r))

FairSpec == Spec /\ Fairness

-------------------------------------------------------------------------------
(* Properties.                                                               *)

(* The documents, the runners and the sweeps stay well formed; whoever is    *)
(* busy is busy with an event.                                               *)
TypeOK ==
    /\ rows \in [Events -> Row]
    /\ run \in [Runners -> [pc : {"idle", "found", "held", "posted"},
                            ev : Events \cup {NoEvent}, nonce : Nat]]
    /\ job \in [Sweepers -> Job]
    /\ \A r \in Runners : run[r].pc # "idle" => run[r].ev \in Events
    /\ \A w \in Sweepers : job[w].pc # "retire" =>
         job[w].ev \in Events /\ job[w].msg \in 1 .. MaxMessages
    /\ answered \in [Mentions -> BOOLEAN]
    /\ lines \in [Mentions -> Nat]
    /\ crashes \in 0 .. MaxSweepCrashes
    /\ taken \in [Events -> SUBSET Nat]
    /\ endedBy \in [Events -> Nat]
    /\ read \in [Events -> Nat]

(* A poison event cannot loop: whatever mix of requeues, restarts and        *)
(* hand-backs it goes through, it goes out at most twice the requeue cap     *)
(* (releaseDelivery, "a release must carry its own bound").                  *)
AttemptsBounded == \A e \in Events : rows[e].attempts <= Ceiling

(* A runner whose delivery was taken back cannot end the event any more,     *)
(* whether or not a replacement has claimed it (garbageCollect, "clearing    *)
(* the nonce IS the invalidation"; acknowledge).                             *)
StaleAckNeverLands == \A e \in Events : endedBy[e] \notin taken[e]

(* A delivery leaves its runner only by being taken back or by the event's   *)
(* end: no poller claims what another one still has (list, "if two pollers   *)
(* race the same event, only one wins").                                     *)
DeliveryIsLostOnlyIfTakenBack ==
    \A r \in Runners : run[r].pc \in {"held", "posted"} =>
        LET e == run[r].ev IN
          \/ rows[e].status = "delivered" /\ rows[e].nonce = run[r].nonce
          \/ run[r].nonce \in taken[e]
          \/ rows[e].status \in Final \cup {"gone"}

(* A message that joined an event was in what some runner received before    *)
(* the event could be acknowledged (coalesceMention, "a requeued row is      *)
(* pending too, and its old turn can still ack it unread").                  *)
AckedWasRead == \A e \in Events : rows[e].status = "acked" => read[e] = rows[e].carries

(* However many replicas sweep, a person is told at most once that their     *)
(* message went unanswered, and only of a retired one                        *)
(* (retireUnansweredMentions).                                               *)
OneLineAtMost ==
    \A m \in Mentions : /\ lines[m] <= 1
                        /\ lines[m] = 1 => rows[m[1]].status \in {"failed", "gone"}

(* No message of a person is retired in silence: once no sweep is working on *)
(* its event, either its line is there or the agent has posted since         *)
(* (garbageCollect, "exactly one visible line instead of silence").  The     *)
(* exception is a sweep that dies or fails between the retire and the line:  *)
(* no later one looks again.                                                 *)
RetiredIsTold ==
    \A e \in Events :
        rows[e].person /\ rows[e].status = "failed" /\ (\A w \in Sweepers : job[w].ev # e) =>
            \A i \in 1 .. rows[e].carries :
                lines[<<e, i>>] = 1 \/ answered[<<e, i>>] \/ crashes > 0

(* Terminal is terminal in both directions: no late post, failure, sweep or  *)
(* ack revives or relabels an ended event (recordFailure, markPosted).       *)
TerminalIsFinal ==
    [][\A e \in Events : rows[e].status \in Final =>
                             rows'[e].status \in {rows[e].status, "gone"}]_vars

(* A delivery its runner has just renewed is ended or taken back only by     *)
(* that runner, or by retention (renewDelivery, "Keep a live wrapper's       *)
(* delivery from aging into the GC requeue while its child is handling a     *)
(* batch").                                                                  *)
RenewedIsNotSwept ==
    [][\A e \in Events, w \in Sweepers :
           (job[w] # job'[w] /\ rows[e].status = "delivered" /\ rows[e].age = "fresh")
               => rows'[e].status = "delivered"]_vars

(* No event stays delivered and invisible for ever (Task #67).               *)
DeliveredSettles ==
    \A e \in Events : rows[e].status = "delivered" ~> rows[e].status # "delivered"

(* The queue implements bounded at-least-once delivery.                      *)
Phase(r) == CASE r.status = "none" -> "none"
              [] r.status = "pending" -> "waiting"
              [] r.status = "delivered" -> "out"
              [] OTHER -> "ended"

Delivery == INSTANCE EventDelivery
            WITH Limit <- Ceiling, InProcess <- FALSE,
                 phase <- [e \in Events |-> Phase(rows[e])],
                 tries <- [e \in Events |-> rows[e].attempts]

ImplementsDelivery == Delivery!QSpec
===============================================================================
