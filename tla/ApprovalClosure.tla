---------------------------- MODULE ApprovalClosure ----------------------------
(* One parked tool call of the broker (services/approvalActionService.ts):   *)
(* the card that asks for it, the later runs parked on the same card, the    *)
(* decision or the expiry that closes it, the run of an approved call, and   *)
(* what a closed row owes - trail, room receipt, wake, card - finished by    *)
(* the closer or by the sweep's retries.                                     *)
(*                                                                           *)
(* An ending stands for the pair (toolCallEnding, toolCallTrailId).  The     *)
(* arguments, the texts and the other kinds of action are not modelled, nor  *)
(* is the card's own content.  A lease that lapses is cleared: no code tells *)
(* a lapsed one from none.  The waits (a minute and more before a retry, a   *)
(* quarter of an hour for a call with no ending, two minutes for a lease)    *)
(* outlast every attempt but a slow one, of which there are MaxStalls.       *)
EXTENDS Naturals, FiniteSets

CONSTANTS Deciders,    \* decisions the owner sends, from any tab or replica
          Sweepers,    \* passes of the approval sweep that may overlap
          Runs,        \* later runs that make the identical call
          Nobody,
          MaxWaiting,  \* MAX_WAITING_RUNS
          MaxRetries,  \* MAX_EXPIRY_RETRIES
          MaxTrouble,  \* bound: processes that die, calls that fail
          MaxStalls    \* bound: attempts that outlast a wait meant for dead ones

Actors == Deciders \cup Sweepers

ASSUME ApprovalConstants ==
    /\ IsFiniteSet(Runs) /\ IsFiniteSet(Actors)
    /\ Deciders \cap Sweepers = {} /\ Nobody \notin Actors
    /\ MaxWaiting \in Nat /\ MaxRetries \in Nat /\ MaxTrouble \in Nat /\ MaxStalls \in Nat

VARIABLES row,       \* the ApprovalAction document
          world,     \* what others hold: provider, trail, wakes, receipts
          at,        \* what each decider or sweep pass is doing
          proposer,  \* proposeAction, from its create on
          run,       \* the later runs
          lapsed,    \* whether the row's deadline has passed
          trouble, stalls

vars == <<row, world, at, proposer, run, lapsed, trouble, stalls>>

Sends == {"receipt", "wake"}

(* Endings the live call leaves, those only a retry can find, and the two of *)
(* a call that never ran.                                                    *)
LiveEndings == {"ran", "refused", "timed out", "broker_error"}

Endings == LiveEndings \cup {"unknown", "declined", "expired"}

Row == [status : {"flagged", "resolved", "expired", "moot"},
        decision : {"none", "approved", "declined"},
        carded : BOOLEAN, parked : SUBSET Runs,
        ending : Endings \cup {"none"}, unwritten : BOOLEAN,
        retries : 0 .. MaxRetries, due : BOOLEAN, done : BOOLEAN,
        sent : SUBSET Sends, lease : [Sends -> Actors \cup {Nobody}]]

World == [posted : BOOLEAN, asked : Nat, trail : SUBSET Endings,
          wakes : Nat, receipts : Nat, named : SUBSET Runs]

Steps == {"idle", "decide", "run", "record", "save", "found", "settle", "settling", "trail",
          "claim receipt", "send receipt", "stamp receipt",
          "claim wake", "check wake", "send wake", "stamp wake", "finish"}

(* An attempt's own copy of the row, and whether one of its steps failed.    *)
Attempt == [pc : Steps, closure : {"none", "approved", "declined", "expired"},
            ending : Endings \cup {"none"}, unwritten : BOOLEAN, unsaved : BOOLEAN,
            failed : BOOLEAN, slow : BOOLEAN, seen : 0 .. MaxRetries, runs : SUBSET Runs]

Idle == [pc |-> "idle", closure |-> "none", ending |-> "none", unwritten |-> FALSE,
         unsaved |-> FALSE, failed |-> FALSE, slow |-> FALSE, seen |-> 0, runs |-> {}]

-------------------------------------------------------------------------------
Open == row.status = "flagged"

Closed == row.status \in {"resolved", "expired"}

Trouble == trouble < MaxTrouble /\ trouble' = trouble + 1

Go(a, pc) == at' = [at EXCEPT ![a].pc = pc]

(* step: one that fails is noted, and the next one runs.                     *)
Fail(a, pc) == Trouble /\ at' = [at EXCEPT ![a] = [@ EXCEPT !.pc = pc, !.failed = TRUE]]

Init ==
    /\ row = [status |-> "flagged", decision |-> "none", carded |-> FALSE, parked |-> {},
              ending |-> "none", unwritten |-> FALSE, retries |-> 0, due |-> FALSE, done |-> FALSE,
              sent |-> {}, lease |-> [s \in Sends |-> Nobody]]
    /\ world = [posted |-> FALSE, asked |-> 0, trail |-> {}, wakes |-> 0, receipts |-> 0, named |-> {}]
    /\ at = [a \in Actors |-> Idle]
    /\ proposer = "post"
    /\ run = [u \in Runs |-> "asking"]
    /\ lapsed = FALSE
    /\ trouble = 0 /\ stalls = 0

-------------------------------------------------------------------------------
(* proposeAction, from the row it created on.                                *)

PostCard ==
    /\ proposer = "post"
    /\ world' = [world EXCEPT !.posted = TRUE]
    /\ proposer' = "attach"
    /\ UNCHANGED <<row, at, run, lapsed, trouble, stalls>>

(* A card that is refused leaves a row that nobody can see.                  *)
PostFails ==
    /\ proposer = "post"
    /\ Trouble
    /\ row' = IF Open THEN [row EXCEPT !.status = "moot"] ELSE row
    /\ proposer' = "refused"
    /\ UNCHANGED <<world, at, run, lapsed, stalls>>

(* The guarded attach: a row that closed meanwhile stays closed, and the     *)
(* run is told so.                                                           *)
AttachCard ==
    /\ proposer = "attach"
    /\ IF Open
       THEN row' = [row EXCEPT !.carded = TRUE] /\ proposer' = "parked"
       ELSE proposer' = "closed" /\ UNCHANGED row
    /\ UNCHANGED <<world, at, run, lapsed, trouble, stalls>>

ProposerDies ==
    /\ proposer \in {"post", "attach"}
    /\ Trouble
    /\ proposer' = "dead"
    /\ UNCHANGED <<row, world, at, run, lapsed, stalls>>

(* sweepCardlessToolCallApprovals; its grace outlasts a live post.           *)
MootCardless ==
    /\ Open /\ ~row.carded
    /\ \/ proposer = "dead" /\ UNCHANGED stalls
       \/ proposer # "dead" /\ stalls < MaxStalls /\ stalls' = stalls + 1
    /\ row' = [row EXCEPT !.status = "moot"]
    /\ UNCHANGED <<world, at, proposer, run, lapsed, trouble>>

(* An identical call finds the open card ...                                 *)
FindCard(u) ==
    /\ run[u] = "asking"
    /\ Open /\ row.carded /\ ~lapsed
    /\ run' = [run EXCEPT ![u] = "found"]
    /\ UNCHANGED <<row, world, at, proposer, lapsed, trouble, stalls>>

Parkable == Open /\ Cardinality(row.parked) < MaxWaiting

(* ... and parks on it, unless the row has closed (then it asks anew, for a  *)
(* card of its own) or holds as many runs as it may.                         *)
ParkOnCard(u) ==
    /\ run[u] = "found"
    /\ IF Parkable
       THEN row' = [row EXCEPT !.parked = @ \cup {u}] /\ run' = [run EXCEPT ![u] = "parked"]
       ELSE UNCHANGED row /\ run' = [run EXCEPT ![u] = IF Open THEN "full" ELSE "asking"]
    /\ UNCHANGED <<world, at, proposer, lapsed, trouble, stalls>>

-------------------------------------------------------------------------------
(* resolveApproval.                                                          *)

(* The owner reads an open row, and its deadline decides the branch.         *)
ReadToDecide(d, answer) ==
    /\ at[d] = Idle
    /\ Open /\ world.posted
    /\ at' = [at EXCEPT ![d] = [@ EXCEPT !.pc = "decide",
                                         !.closure = IF lapsed THEN "expired" ELSE answer]]
    /\ UNCHANGED <<row, world, proposer, run, lapsed, trouble, stalls>>

(* An approved call has its ending once it has run.                          *)
EndingOf(closure) == IF closure = "approved" THEN "none" ELSE closure

(* The closing write, and the attempt that made it.                          *)
Close(a, closure) ==
    /\ row' = [row EXCEPT !.status = IF closure = "expired" THEN "expired" ELSE "resolved",
                          !.decision = IF closure = "expired" THEN "none" ELSE closure,
                          !.ending = EndingOf(closure)]
    /\ at' = [at EXCEPT ![a] = [Idle EXCEPT !.pc = IF closure = "approved" THEN "run" ELSE "trail",
                                            !.closure = closure, !.ending = EndingOf(closure),
                                            !.runs = row.parked]]

(* Mutant: the decision is written over whatever the row has become.         *)
StillDecidable(d) == at[d].pc = "decide"

Decidable(d) == Open

CloseByDecision(d) ==
    /\ at[d].pc = "decide"
    /\ IF Decidable(d) THEN Close(d, at[d].closure)
       ELSE at' = [at EXCEPT ![d] = Idle] /\ UNCHANGED row
    /\ UNCHANGED <<world, proposer, run, lapsed, trouble, stalls>>

(* The broker's last checks may refuse; past them the provider is asked, and *)
(* answers or does not.                                                      *)
RunCall(d) ==
    /\ at[d].pc = "run"
    /\ \E ending \in {"ran", "refused", "timed out"} :
          /\ at' = [at EXCEPT ![d] = [@ EXCEPT !.pc = "record",
                                               !.ending = ending,
                                               !.unsaved = TRUE]]
          /\ world' = IF ending = "refused" THEN world ELSE [world EXCEPT !.asked = @ + 1]
    /\ UNCHANGED <<row, proposer, run, lapsed, trouble, stalls>>

(* The broker's trail row.                                                   *)
RecordCall(d) ==
    /\ at[d].pc = "record"
    /\ Go(d, "save")
    /\ world' = [world EXCEPT !.trail = @ \cup {at[d].ending}]
    /\ UNCHANGED <<row, proposer, run, lapsed, trouble, stalls>>

SelfRecorded(ending) == CASE ending = "ran" -> "ran"
                          [] ending = "refused" -> "broker_error"
                          [] ending = "timed out" -> "unknown"

(* Without it the resolver keeps what it will write itself.                  *)
RecordFails(d) ==
    /\ at[d].pc = "record"
    /\ Trouble
    /\ at' = [at EXCEPT ![d] = [@ EXCEPT !.pc = "save", !.ending = SelfRecorded(at[d].ending),
                                         !.unwritten = (at[d].ending = "ran")]]
    /\ UNCHANGED <<row, world, proposer, run, lapsed, stalls>>

(* The save of a live ending takes the done stamp of a retry that gave up on *)
(* it.                                                                       *)
Saved(a, unwritten) ==
    [row EXCEPT !.ending = at[a].ending, !.unwritten = unwritten, !.done = FALSE]

SaveEnding(d) ==
    /\ at[d].pc = "save"
    /\ row' = Saved(d, at[d].unwritten)
    /\ at' = [at EXCEPT ![d] = [@ EXCEPT !.pc = "trail", !.unsaved = FALSE]]
    /\ UNCHANGED <<world, proposer, run, lapsed, trouble, stalls>>

SaveFails(d) ==
    /\ at[d].pc = "save"
    /\ Trouble /\ Go(d, "trail")
    /\ UNCHANGED <<row, world, proposer, run, lapsed, stalls>>

-------------------------------------------------------------------------------
(* completeToolCallClosure: what a closed row owes.                          *)

(* writeApprovedCallTrail and recordToolCallDecision: the rows the approval  *)
(* writes itself.                                                            *)
Owed(a) ==
    IF \/ at[a].closure # "approved"
       \/ at[a].ending \in {"unknown", "broker_error"}
       \/ at[a].unwritten
    THEN {at[a].ending} ELSE {}

AfterTrail(a) == IF at[a].closure = "approved" THEN "claim receipt" ELSE "claim wake"

Trail(a) ==
    /\ at[a].pc = "trail"
    /\ world' = [world EXCEPT !.trail = @ \cup Owed(a)]
    /\ row' = IF at[a].unsaved THEN Saved(a, FALSE)
              ELSE IF at[a].unwritten THEN [row EXCEPT !.unwritten = FALSE] ELSE row
    /\ at' = [at EXCEPT ![a] = [@ EXCEPT !.pc = AfterTrail(a),
                                         !.unsaved = FALSE,
                                         !.unwritten = FALSE]]
    /\ UNCHANGED <<proposer, run, lapsed, trouble, stalls>>

(* Either write fails; the save comes second.                                *)
TrailFails(a) ==
    /\ at[a].pc = "trail"
    /\ Fail(a, AfterTrail(a))
    /\ \E written \in {{}, Owed(a)} : world' = [world EXCEPT !.trail = @ \cup written]
    /\ UNCHANGED <<row, proposer, run, lapsed, stalls>>

AfterSend(s) == IF s = "receipt" THEN "claim wake" ELSE "finish"

Claiming(s) == IF s = "receipt" THEN "claim receipt" ELSE "claim wake"

Stamping(s) == IF s = "receipt" THEN "stamp receipt" ELSE "stamp wake"

Leasable(s) == row.lease[s] = Nobody

(* sendUnderLease: the claim.                                                *)
ClaimSend(a, s) ==
    /\ at[a].pc = Claiming(s)
    /\ s \notin row.sent /\ Leasable(s)
    /\ row' = [row EXCEPT !.lease[s] = a]
    /\ Go(a, IF s = "receipt" THEN "send receipt" ELSE "check wake")
    /\ UNCHANGED <<world, proposer, run, lapsed, trouble, stalls>>

(* What is sent already is done; what another attempt holds is a failure.    *)
PassSend(a, s) ==
    /\ at[a].pc = Claiming(s)
    /\ s \in row.sent \/ ~Leasable(s)
    /\ at' = [at EXCEPT ![a] = [@ EXCEPT !.pc = AfterSend(s),
                                         !.failed = at[a].failed \/ s \notin row.sent]]
    /\ UNCHANGED <<row, world, proposer, run, lapsed, trouble, stalls>>

(* Mutant: the wake is enqueued without looking for the one before it.       *)
WokenNever == FALSE

Woken == world.wakes > 0

(* enqueueToolCallResolvedEvent looks for its own event, then enqueues it.   *)
CheckWake(a) ==
    /\ at[a].pc = "check wake"
    /\ Go(a, IF Woken THEN "stamp wake" ELSE "send wake")
    /\ UNCHANGED <<row, world, proposer, run, lapsed, trouble, stalls>>

SendWake(a) ==
    /\ at[a].pc = "send wake"
    /\ Go(a, "stamp wake")
    /\ world' = [world EXCEPT !.wakes = @ + 1, !.named = @ \cup at[a].runs]
    /\ UNCHANGED <<row, proposer, run, lapsed, trouble, stalls>>

SendReceipt(a) ==
    /\ at[a].pc = "send receipt"
    /\ Go(a, "stamp receipt")
    /\ world' = [world EXCEPT !.receipts = @ + 1]
    /\ UNCHANGED <<row, proposer, run, lapsed, trouble, stalls>>

(* Mutant: a failed send keeps its lease, and counts as sent.                *)
AfterFailedSendSpent(a, s) == [row EXCEPT !.sent = @ \cup {s}]

(* A failed send gives the lease back, if it is still its own.               *)
AfterFailedSend(a, s) ==
    IF row.lease[s] = a THEN [row EXCEPT !.lease[s] = Nobody] ELSE row

SendFails(a, s) ==
    /\ at[a].pc \in (IF s = "receipt" THEN {"send receipt"} ELSE {"check wake", "send wake"})
    /\ Fail(a, AfterSend(s))
    /\ row' = AfterFailedSend(a, s)
    /\ UNCHANGED <<world, proposer, run, lapsed, stalls>>

(* The lease of a stamped send is never read again.                          *)
StampSend(a, s) ==
    /\ at[a].pc = Stamping(s)
    /\ Go(a, AfterSend(s))
    /\ row' = [row EXCEPT !.sent = @ \cup {s}, !.lease[s] = Nobody]
    /\ UNCHANGED <<world, proposer, run, lapsed, trouble, stalls>>

(* The lease stays, and lapses.                                              *)
StampFails(a, s) ==
    /\ at[a].pc = Stamping(s)
    /\ Fail(a, AfterSend(s))
    /\ UNCHANGED <<row, world, proposer, run, lapsed, stalls>>

(* Mutant: the stamp lands whatever ending the row has by now.               *)
StampableAlways(a) == ~at[a].failed

Stampable(a) == ~at[a].failed /\ row.ending = at[a].ending

(* The card is rewritten, and the done stamp lands only when every step      *)
(* succeeded, and only on the ending this attempt closed on.                 *)
Finish(a) ==
    /\ at[a].pc = "finish"
    /\ row' = IF Stampable(a) THEN [row EXCEPT !.done = TRUE] ELSE row
    /\ at' = [at EXCEPT ![a] = Idle]
    /\ UNCHANGED <<world, proposer, run, lapsed, trouble, stalls>>

CardFails(a) ==
    /\ at[a].pc = "finish"
    /\ Trouble /\ at' = [at EXCEPT ![a] = Idle]
    /\ UNCHANGED <<row, world, proposer, run, lapsed, stalls>>

-------------------------------------------------------------------------------
(* sweepExpiredToolCallApprovals.                                            *)

SweepExpired(s) ==
    /\ at[s] = Idle
    /\ Open /\ lapsed
    /\ Close(s, "expired")
    /\ UNCHANGED <<world, proposer, run, lapsed, trouble, stalls>>

Incomplete == Closed /\ ~row.done /\ row.retries < MaxRetries

FindIncomplete(s) ==
    /\ at[s] = Idle
    /\ Incomplete /\ row.due
    /\ at' = [at EXCEPT ![s] = [@ EXCEPT !.pc = "found", !.seen = row.retries]]
    /\ UNCHANGED <<row, world, proposer, run, lapsed, trouble, stalls>>

ClosureOf(r) == IF r.status = "expired" THEN "expired" ELSE r.decision

(* One write on the count that was read claims the retry.                    *)
ClaimRetry(s) ==
    /\ at[s].pc = "found"
    /\ IF Incomplete /\ row.retries = at[s].seen
       THEN /\ row' = [row EXCEPT !.retries = @ + 1, !.due = FALSE]
            /\ at' = [at EXCEPT ![s] = [Idle EXCEPT
                         !.pc = IF ClosureOf(row) = "approved" /\ row.ending = "none"
                                THEN "settle" ELSE "trail",
                         !.closure = ClosureOf(row), !.ending = row.ending,
                         !.unwritten = row.unwritten, !.runs = row.parked]]
       ELSE UNCHANGED row /\ at' = [at EXCEPT ![s] = Idle]
    /\ UNCHANGED <<world, proposer, run, lapsed, trouble, stalls>>

(* settleApprovedCall: the trail says what became of the call, or nothing    *)
(* does; a read that fails settles nothing.                                  *)
ReadTrail(s) ==
    /\ at[s].pc = "settle"
    /\ \E ending \in IF world.trail = {} THEN {"unknown"} ELSE world.trail :
          at' = [at EXCEPT ![s] = [@ EXCEPT !.pc = "settling", !.ending = ending]]
    /\ UNCHANGED <<row, world, proposer, run, lapsed, trouble, stalls>>

ReadTrailFails(s) ==
    /\ at[s].pc = "settle"
    /\ Trouble /\ at' = [at EXCEPT ![s] = Idle]
    /\ UNCHANGED <<row, world, proposer, run, lapsed, stalls>>

(* Mutant: what the trail said is written over an ending that came since.    *)
UnsettledAlways == row.status = "resolved"

Unsettled == row.ending = "none"

Settle(s) ==
    /\ at[s].pc = "settling"
    /\ IF Unsettled
       THEN row' = [row EXCEPT !.ending = at[s].ending] /\ Go(s, "trail")
       ELSE /\ UNCHANGED row
            /\ at' = [at EXCEPT ![s] = [@ EXCEPT !.pc = "trail",
                                                 !.ending = row.ending,
                                                 !.unwritten = row.unwritten]]
    /\ UNCHANGED <<world, proposer, run, lapsed, trouble, stalls>>

-------------------------------------------------------------------------------
(* Time and faults.                                                          *)

(* The deadline of a row that has closed is never read.                      *)
DeadlinePasses ==
    /\ Open /\ ~lapsed
    /\ lapsed' = TRUE
    /\ UNCHANGED <<row, world, at, proposer, run, trouble, stalls>>

Working(a) == at[a].pc \notin {"idle", "decide", "found"} /\ ~at[a].slow

(* expiryRetryDueAt.  A lease of the attempt before last is over by then:    *)
(* the wait doubles from one minute.                                         *)
Awaited ==
    /\ Incomplete /\ ~row.due
    /\ row.retries > 1 => \A s \in Sends : row.lease[s] = Nobody
    /\ row' = [row EXCEPT !.due = TRUE]

WaitPasses ==
    /\ Awaited
    /\ \A a \in Actors : ~Working(a)
    /\ UNCHANGED <<world, at, proposer, run, lapsed, trouble, stalls>>

Stall(a) ==
    /\ stalls < MaxStalls /\ stalls' = stalls + 1
    /\ at' = [at EXCEPT ![a].slow = TRUE]

WaitOutlasts(a) ==
    /\ Awaited
    /\ Working(a) /\ \A b \in Actors \ {a} : ~Working(b)
    /\ Stall(a)
    /\ UNCHANGED <<world, proposer, run, lapsed, trouble>>

(* a is between taking the lease of s and its stamp, and is not slow.        *)
Sending(a, s) ==
    /\ row.lease[s] = a /\ Working(a)
    /\ at[a].pc \in (IF s = "wake" THEN {"check wake", "send wake", "stamp wake"}
                                   ELSE {"send receipt", "stamp receipt"})

LeaseLapses(s) ==
    /\ row.lease[s] # Nobody /\ ~Sending(row.lease[s], s)
    /\ row' = [row EXCEPT !.lease[s] = Nobody]
    /\ UNCHANGED <<world, at, proposer, run, lapsed, trouble, stalls>>

LeaseOutlasted(a, s) ==
    /\ Sending(a, s)
    /\ Stall(a)
    /\ row' = [row EXCEPT !.lease[s] = Nobody]
    /\ UNCHANGED <<world, proposer, run, lapsed, trouble>>

Die(a) ==
    /\ at[a] # Idle
    /\ Trouble /\ at' = [at EXCEPT ![a] = Idle]
    /\ UNCHANGED <<row, world, proposer, run, lapsed, stalls>>

-------------------------------------------------------------------------------
Propose == PostCard \/ PostFails \/ AttachCard \/ ProposerDies

Resolve(d) ==
    \/ CloseByDecision(d) \/ RunCall(d)
    \/ RecordCall(d) \/ RecordFails(d) \/ SaveEnding(d) \/ SaveFails(d)

Complete(a) ==
    \/ Trail(a) \/ TrailFails(a) \/ CheckWake(a) \/ SendWake(a) \/ SendReceipt(a)
    \/ \E s \in Sends :
          ClaimSend(a, s) \/ PassSend(a, s) \/ SendFails(a, s) \/ StampSend(a, s) \/ StampFails(a, s)
    \/ Finish(a) \/ CardFails(a)

Sweep(s) ==
    \/ SweepExpired(s) \/ FindIncomplete(s) \/ ClaimRetry(s)
    \/ ReadTrail(s) \/ ReadTrailFails(s) \/ Settle(s)

Next ==
    \/ Propose \/ MootCardless
    \/ \E u \in Runs : FindCard(u) \/ ParkOnCard(u)
    \/ \E d \in Deciders : Resolve(d) \/ \E answer \in {"approved", "declined"} : ReadToDecide(d, answer)
    \/ \E s \in Sweepers : Sweep(s)
    \/ \E a \in Actors : Complete(a) \/ Die(a) \/ WaitOutlasts(a) \/ \E s \in Sends : LeaseOutlasted(a, s)
    \/ DeadlinePasses \/ WaitPasses \/ \E s \in Sends : LeaseLapses(s)

Spec == Init /\ [][Next]_vars

(* A process that lives goes on, the cron sweeps, and time passes; nobody    *)
(* has to decide.                                                            *)
Fairness ==
    /\ WF_vars(Propose)
    /\ \A u \in Runs : WF_vars(ParkOnCard(u))
    /\ \A d \in Deciders : WF_vars(Resolve(d))
    /\ \A s \in Sweepers : WF_vars(Sweep(s))
    /\ \A a \in Actors : WF_vars(Complete(a))
    /\ WF_vars(DeadlinePasses) /\ WF_vars(WaitPasses)
    /\ \A s \in Sends : WF_vars(LeaseLapses(s))

FairSpec == Spec /\ Fairness

-------------------------------------------------------------------------------
(* What the row, the world and the attempts are made of.                     *)
TypeOK ==
    /\ row \in Row /\ world \in World /\ at \in [Actors -> Attempt]
    /\ proposer \in {"post", "attach", "parked", "closed", "refused", "dead"}
    /\ run \in [Runs -> {"asking", "found", "parked", "full"}]
    /\ lapsed \in BOOLEAN
    /\ trouble \in 0 .. MaxTrouble /\ stalls \in 0 .. MaxStalls

(* A row stamped done owes nothing for the ending it shows: its trail row    *)
(* exists, its wake went out, and so did the receipt of an approved call,    *)
(* however live closer, retries and their failures overlapped.               *)
DoneOwesNothing ==
    row.done => /\ row.ending \in world.trail
                /\ world.wakes > 0
                /\ row.decision = "approved" => world.receipts > 0

(* A second wake needs an attempt that outlasted its lease; a second receipt *)
(* line needs that, or a crash or failure between the send and its stamp.    *)
SentAgainOnlyInTrouble ==
    /\ world.wakes <= 1 + stalls
    /\ world.receipts <= 1 + stalls + trouble

(* What the live call or its trail row established is never replaced by a    *)
(* retry that guessed.                                                       *)
KnownEndingStands ==
    [][row.ending \notin {"none", "unknown"} => row'.ending = row.ending]_vars

(* The call is decided once, reaches the provider at most once and only when *)
(* approved, and its wake names every run that was parked on it.             *)
Call == INSTANCE ParkedCall WITH
    call <- CASE row.status = "flagged" -> "open"
              [] row.status = "moot" -> "dropped"
              [] row.status = "expired" -> "denied"
              [] OTHER -> IF row.decision = "approved" THEN "allowed" ELSE "denied",
    waiting <- row.parked,
    provider <- world.asked,
    told <- world.named

CallIsHonoured == Call!PSpec

(* Once its card is up, a call comes to rest with nothing owed and every     *)
(* run that parked on it told, whoever dies or fails on the way: the owner's *)
(* decision or the deadline closes it, and the sweeps finish what the closer *)
(* did not.                                                                  *)
ParkedIsTold ==
    row.carded ~> [](row.done /\ \A u \in Runs : run[u] = "parked" => u \in world.named)
===============================================================================
