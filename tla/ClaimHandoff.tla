----------------------------- MODULE ClaimHandoff -----------------------------
(* A human message in a room of listening seats, end to end: the wake        *)
(* fan-out, the driver's turn under a claim (cli/src/lib/enforcement.js and  *)
(* the run loop of cli/src/commands/agent.js), the claim table               *)
(* (MessageClaim) and the handoff that re-offers a declined or refused       *)
(* message (backend/services/messageClaimHandoffService.ts).                 *)
EXTENDS MessageClaim, Naturals

CONSTANTS None,          \* no message, no handoff job
          Addressed,     \* seats the messages reply to or name
          Leaving,       \* seats whose user may turn wake-on-message off
          MaxMishaps,    \* bound: turns that die or throw, and messages
                         \* one of whose renewals a release overtakes
          MaxLosses,     \* bound: calls that fail, leases left for an hour
          MaxForgets     \* bound: terminal rows whose retention ends

ASSUME HandoffConstants ==
    /\ Addressed \subseteq Seats /\ Leaving \subseteq Seats
    /\ {MaxMishaps, MaxLosses, MaxForgets} \subseteq Nat

VARIABLES wakeOn,      \* config.wakeOnMessage.enabled of each installation
          unwoken,     \* seats whose original wake is yet to be enqueued
          woken,       \* seats whose original wake exists
          offers,      \* wake events of a message waiting for a seat
          turn,        \* what each driver is doing
          job,         \* the handoff running inside each seat's release request
          passed,      \* history: who declined or refused each message
          answered,    \* history: the messages somebody answered
          faults       \* how much of each bound is used, and the messages
                       \* one of whose renewals was overtaken by a release

hvars == <<rows, inFlight, told, wakeOn, unwoken, woken, offers, turn, job, passed, answered, faults>>
driver == <<wakeOn, unwoken, woken, offers, turn, job, passed, answered, faults>>

Resting == [pc |-> "idle", msg |-> None]
Turn == [pc : {"claiming", "guarded", "unguarded", "lost", "releasing", "throwing"}, msg : Messages]
Job == [stage : {"lookup", "walk"}, msg : Messages, declined : SUBSET Seats, left : SUBSET Seats]

ASSUME NoneIsNoJob == None \notin Job

At(s, m, pc) == turn[s] = [pc |-> pc, msg |-> m]

Goes(s, m, pc) == turn' = [turn EXCEPT ![s] = [pc |-> pc, msg |-> m]]
Rests(s) == turn' = [turn EXCEPT ![s] = Resting]
Suffers(kind) == faults' = [faults EXCEPT ![kind] = @ + 1]

Mishap == faults.crash + Cardinality(faults.overtaken) < MaxMishaps

(* A release is sent; a renewal that is still on its way will land later.    *)
Sends(s, m) ==
    faults' = [faults EXCEPT !.overtaken = IF Cas(s, m) \in inFlight THEN @ \cup {m} ELSE @]

HInit ==
    /\ Init
    /\ wakeOn = [s \in Seats |-> TRUE]
    /\ unwoken = [m \in Messages |-> Seats]
    /\ woken = [m \in Messages |-> {}]
    /\ offers = [m \in Messages |-> [s \in Seats |-> 0]]
    /\ turn = [s \in Seats |-> Resting]
    /\ job = [s \in Seats |-> None]
    /\ passed = [m \in Messages |-> {}]
    /\ answered = {}
    /\ faults = [crash |-> 0, loss |-> 0, forget |-> 0, overtaken |-> {}]

(* The fan-out enqueues the original wakes, all at once and in any order;    *)
(* one that fails is only logged.                                            *)
FanOut(m, s) ==
    /\ s \in unwoken[m]
    /\ unwoken' = [unwoken EXCEPT ![m] = @ \ {s}]
    /\ woken' = [woken EXCEPT ![m] = @ \cup {s}]
    /\ offers' = [offers EXCEPT ![m][s] = @ + 1]
    /\ UNCHANGED <<vars, wakeOn, turn, job, passed, answered, faults>>

FanOutFails(m, s) ==
    /\ s \in unwoken[m]
    /\ faults.loss < MaxLosses
    /\ unwoken' = [unwoken EXCEPT ![m] = @ \ {s}]
    /\ Suffers("loss")
    /\ UNCHANGED <<vars, wakeOn, woken, offers, turn, job, passed, answered>>

(* A user turns wake-on-message off, or uninstalls the seat.                 *)
WakeOff(s) ==
    /\ s \in Leaving /\ wakeOn[s]
    /\ wakeOn' = [wakeOn EXCEPT ![s] = FALSE]
    /\ UNCHANGED <<vars, unwoken, woken, offers, turn, job, passed, answered, faults>>

-------------------------------------------------------------------------------
(* The driver's turn.  A seat works on one wake at a time (ADR-018 D6.2).    *)

(* acquire sends the claim.  A wake comes back minutes after its turn, when  *)
(* the release that turn sent has landed or is lost.                         *)
BeginTurn(s, m) ==
    /\ turn[s] = Resting
    /\ offers[m][s] > 0
    /\ Delete(s, m) \notin inFlight
    /\ offers' = [offers EXCEPT ![m][s] = @ - 1]
    /\ Goes(s, m, "claiming")
    /\ ClaimPrune(s, m)
    /\ UNCHANGED <<wakeOn, unwoken, woken, job, passed, answered, faults>>

Acquire(s, m) ==
    /\ At(s, m, "claiming")
    /\ ClaimWin(s, m)
    /\ m \in told'[s]
    /\ Goes(s, m, "guarded")
    /\ UNCHANGED <<wakeOn, unwoken, woken, offers, job, passed, answered, faults>>

(* Losing a broadcast race is a complete turn: the wake is acknowledged ...  *)
StandDown(s, m) ==
    /\ s \notin Addressed
    /\ At(s, m, "claiming")
    /\ ClaimLose(s, m)
    /\ Rests(s)
    /\ UNCHANGED <<wakeOn, unwoken, woken, offers, job, passed, answered, faults>>

(* ... but a seat the message replies to or names goes on beside the holder. *)
ProceedPeerAware(s, m) ==
    /\ s \in Addressed
    /\ At(s, m, "claiming")
    /\ ClaimLose(s, m)
    /\ Goes(s, m, "unguarded")
    /\ UNCHANGED <<wakeOn, unwoken, woken, offers, job, passed, answered, faults>>

(* The claim call failed, before or after the server ran it: the driver      *)
(* proceeds without a claim, and will not release one.                       *)
FailOpen(s, m) ==
    /\ At(s, m, "claiming")
    /\ faults.loss < MaxLosses
    /\ RequestLost(Cas(s, m)) \/ (ClaimWin(s, m) /\ m \notin told'[s])
    /\ Goes(s, m, "unguarded")
    /\ Suffers("loss")
    /\ UNCHANGED <<wakeOn, unwoken, woken, offers, job, passed, answered>>

(* startRenewal: the timer sends a claim while the turn runs.                *)
Renew(s, m) ==
    /\ At(s, m, "guarded")
    /\ Cas(s, m) \notin inFlight
    /\ ClaimPrune(s, m)
    /\ UNCHANGED driver

(* The renewal lands, perhaps after the turn is over.                        *)
RenewalWins(s, m) ==
    /\ ~At(s, m, "claiming")
    /\ ClaimWin(s, m)
    /\ m \in told'[s]
    /\ UNCHANGED driver

RenewalLoses(s, m) ==
    /\ ~At(s, m, "claiming")
    /\ ClaimLose(s, m)
    /\ IF At(s, m, "guarded") THEN Goes(s, m, "lost") ELSE UNCHANGED turn
    /\ UNCHANGED <<wakeOn, unwoken, woken, offers, job, passed, answered, faults>>

(* release clears the renewal timer and does not wait for a renewal already  *)
(* on its way.                                                               *)
MayRelease(s, m) == Cas(s, m) \in inFlight => Mishap

(* The reply is posted, and the claim released as completed.                 *)
Answer(s, m) ==
    /\ At(s, m, "guarded")
    /\ MayRelease(s, m)
    /\ answered' = answered \cup {m}
    /\ ReleaseCompleted(s, m)
    /\ Goes(s, m, "releasing")
    /\ Sends(s, m)
    /\ UNCHANGED <<wakeOn, unwoken, woken, offers, job, passed>>

(* A silent or a refused turn: the release records it, and only a release    *)
(* that found the lease starts a handoff, with the history it returned.      *)
PassOn(s, m, outcome) ==
    /\ At(s, m, "guarded")
    /\ MayRelease(s, m)
    /\ job[s] = None
    /\ IF HeldBy(rows[m], s)
       THEN /\ ReleasePassOn(s, m, outcome)
            /\ job' = [job EXCEPT ![s] = [stage |-> "lookup", msg |-> m,
                           declined |-> rows'[m].declined, left |-> {}]]
            /\ passed' = [passed EXCEPT ![m] = @ \cup {s}]
            /\ Goes(s, m, "releasing")
       ELSE /\ Rests(s)
            /\ UNCHANGED <<vars, job, passed>>
    /\ Sends(s, m)
    /\ UNCHANGED <<wakeOn, unwoken, woken, offers, answered>>

(* The turn throws: the release says nothing of it, drops the lease and with *)
(* it the history of the message, and the wake stays unacknowledged.         *)
Throw(s, m) ==
    /\ At(s, m, "guarded")
    /\ Mishap
    /\ ReleaseOmitted(s, m)
    /\ Goes(s, m, "throwing")
    /\ Suffers("crash")
    /\ UNCHANGED <<wakeOn, unwoken, woken, offers, job, passed, answered>>

EndThrown(s, m) ==
    /\ At(s, m, "throwing")
    /\ Delete(s, m) \notin inFlight
    /\ Rests(s)
    /\ offers' = [offers EXCEPT ![m][s] = @ + 1]
    /\ UNCHANGED <<vars, wakeOn, unwoken, woken, job, passed, answered, faults>>

(* The release call fails, before the server has it or after: the lease or   *)
(* the handoff is left to itself, and the wake acknowledged all the same.    *)
ReleaseFails(s, m) ==
    /\ faults.loss < MaxLosses
    /\ \/ At(s, m, "guarded") /\ answered' \in {answered, answered \cup {m}}
       \/ At(s, m, "releasing") /\ UNCHANGED answered
    /\ Rests(s)
    /\ Suffers("loss")
    /\ UNCHANGED <<vars, wakeOn, unwoken, woken, offers, job, passed>>

(* Without a claim the turn ends in a post or in silence, and no release; a  *)
(* turn whose claim was lost suppresses its reply.                           *)
EndUnclaimed(s, m) ==
    /\ \/ At(s, m, "unguarded") /\ answered' \in {answered, answered \cup {m}}
       \/ At(s, m, "lost") /\ UNCHANGED answered
    /\ Rests(s)
    /\ UNCHANGED <<vars, wakeOn, unwoken, woken, offers, job, passed, faults>>

(* The release has been answered; the wake is acknowledged.                  *)
EndTurn(s, m) ==
    /\ At(s, m, "releasing")
    /\ Delete(s, m) \notin inFlight
    /\ job[s] = None
    /\ Rests(s)
    /\ UNCHANGED <<vars, wakeOn, unwoken, woken, offers, job, passed, answered, faults>>

(* Mutant: the wake is acknowledged as the turn begins.                      *)
CrashAcked(s, m) ==
    /\ Mishap
    /\ turn[s] # Resting /\ turn[s].msg = m
    /\ Rests(s)
    /\ Suffers("crash")
    /\ UNCHANGED <<vars, wakeOn, unwoken, woken, offers, job, passed, answered>>

(* The driver dies, or throws while it holds no claim or cannot release it;  *)
(* its wake was not acknowledged and comes back.                             *)
Crash(s, m) ==
    /\ Mishap
    /\ turn[s] # Resting /\ turn[s].msg = m
    /\ Rests(s)
    /\ offers' = [offers EXCEPT ![m][s] = @ + 1]
    /\ Suffers("crash")
    /\ UNCHANGED <<vars, wakeOn, unwoken, woken, job, passed, answered>>

-------------------------------------------------------------------------------
(* The handoff: enqueueNextDeclineHandoff, inside the release request.       *)

(* The original human wakes of the message that exist by now.                *)
HandoffLookup(s) ==
    /\ job[s] # None /\ job[s].stage = "lookup"
    /\ job' = [job EXCEPT ![s] = [@ EXCEPT !.stage = "walk", !.left = woken[job[s].msg]]]
    /\ UNCHANGED <<vars, wakeOn, unwoken, woken, offers, turn, passed, answered, faults>>

(* The walk goes by createdAt, which is any order: the wakes were enqueued   *)
(* at once.                                                                  *)
Walking(s, t) == job[s] # None /\ job[s].stage = "walk" /\ t \in job[s].left

(* A target is passed over when it is in the decline history the release     *)
(* returned, or has turned its wake off since.                               *)
Eligible(j, t) == t \notin j.declined /\ wakeOn[t]

(* Mutant: a target that is passed over ends the walk.                       *)
HandoffStops(s, t) ==
    /\ Walking(s, t) /\ ~Eligible(job[s], t)
    /\ job' = [job EXCEPT ![s] = None]
    /\ UNCHANGED <<vars, wakeOn, unwoken, woken, offers, turn, passed, answered, faults>>

HandoffSkip(s, t) ==
    /\ Walking(s, t) /\ ~Eligible(job[s], t)
    /\ job' = [job EXCEPT ![s] = [@ EXCEPT !.left = job[s].left \ {t}]]
    /\ UNCHANGED <<vars, wakeOn, unwoken, woken, offers, turn, passed, answered, faults>>

(* The next target still listens: enqueue the wake for it, and stop.         *)
HandoffOffer(s, t) ==
    /\ Walking(s, t) /\ Eligible(job[s], t)
    /\ offers' = [offers EXCEPT ![job[s].msg][t] = @ + 1]
    /\ job' = [job EXCEPT ![s] = None]
    /\ UNCHANGED <<vars, wakeOn, unwoken, woken, turn, passed, answered, faults>>

(* no_remaining_wake_target.                                                 *)
HandoffExhausted(s) ==
    /\ job[s] # None /\ job[s].stage = "walk" /\ job[s].left = {}
    /\ job' = [job EXCEPT ![s] = None]
    /\ UNCHANGED <<vars, wakeOn, unwoken, woken, offers, turn, passed, answered, faults>>

(* enqueue_failed, a failed lookup, or a server that dies: no retry.         *)
HandoffLost(s) ==
    /\ job[s] # None
    /\ faults.loss < MaxLosses
    /\ job' = [job EXCEPT ![s] = None]
    /\ Suffers("loss")
    /\ UNCHANGED <<vars, wakeOn, unwoken, woken, offers, turn, passed, answered>>

-------------------------------------------------------------------------------
LandDelete(s, m) == ReleaseDelete(s, m) /\ UNCHANGED driver

LeaseLapses(m) ==
    /\ rows[m].state = "claimed"
    /\ Lapse(m)
    /\ UNCHANGED driver

(* The retention of a terminal row ends: the next claim prunes it.           *)
RetentionEnds(m) ==
    /\ faults.forget < MaxForgets
    /\ rows[m].state \in Terminal
    /\ Lapse(m)
    /\ Suffers("forget")
    /\ UNCHANGED <<wakeOn, unwoken, woken, offers, turn, job, passed, answered>>

(* A lease is left for an hour past its expiry: the next claim prunes it.    *)
LeaseGoesStale(m) ==
    /\ faults.loss < MaxLosses
    /\ Stale(m)
    /\ Suffers("loss")
    /\ UNCHANGED <<wakeOn, unwoken, woken, offers, turn, job, passed, answered>>

Finish(s, m) ==
    \/ Answer(s, m) \/ EndUnclaimed(s, m)
    \/ \E outcome \in {"declined", "refused"} : PassOn(s, m, outcome)

ClaimAnswered(s, m) == Acquire(s, m) \/ StandDown(s, m) \/ ProceedPeerAware(s, m)

DriverStep(s, m) ==
    \/ BeginTurn(s, m) \/ ClaimAnswered(s, m) \/ FailOpen(s, m)
    \/ Renew(s, m) \/ RenewalWins(s, m) \/ RenewalLoses(s, m)
    \/ Finish(s, m) \/ EndTurn(s, m) \/ LandDelete(s, m)
    \/ Throw(s, m) \/ EndThrown(s, m) \/ ReleaseFails(s, m) \/ Crash(s, m)

FanOutStep(m, s) == FanOut(m, s) \/ FanOutFails(m, s)

HandoffGoesOn(s) ==
    \/ HandoffLookup(s) \/ HandoffExhausted(s)
    \/ \E t \in Seats : HandoffSkip(s, t) \/ HandoffOffer(s, t)

HandoffStep(s) == HandoffGoesOn(s) \/ HandoffLost(s)

HNext ==
    \/ \E s \in Seats, m \in Messages : DriverStep(s, m) \/ FanOutStep(m, s)
    \/ \E s \in Seats : HandoffStep(s) \/ WakeOff(s)
    \/ \E m \in Messages : LeaseLapses(m) \/ RetentionEnds(m) \/ LeaseGoesStale(m)

HSpec == HInit /\ [][HNext]_hvars

(* A driver takes up what waits for it and every turn ends; the server       *)
(* finishes the requests it has started and the fan-out it has begun.        *)
Fairness ==
    /\ \A m \in Messages : WF_hvars(\E s \in Seats : FanOut(m, s))
    /\ \A s \in Seats :
        /\ WF_hvars(HandoffGoesOn(s))
        /\ WF_hvars(\E m \in Messages : BeginTurn(s, m))
        /\ \A m \in Messages :
            /\ WF_hvars(ClaimAnswered(s, m))
            /\ WF_hvars(RenewalWins(s, m) \/ RenewalLoses(s, m))
            /\ SF_hvars(Finish(s, m))
            /\ WF_hvars(EndTurn(s, m) \/ EndThrown(s, m))
            /\ WF_hvars(LandDelete(s, m))

FairHSpec == HSpec /\ Fairness

-------------------------------------------------------------------------------
HTypeOK ==
    /\ TypeOK
    /\ wakeOn \in [Seats -> BOOLEAN]
    /\ unwoken \in [Messages -> SUBSET Seats] /\ woken \in [Messages -> SUBSET Seats]
    /\ offers \in [Messages -> [Seats -> Nat]]
    /\ turn \in [Seats -> Turn \cup {Resting}]
    /\ job \in [Seats -> Job \cup {None}]
    /\ passed \in [Messages -> SUBSET Seats]
    /\ answered \subseteq Messages
    /\ faults \in [crash : 0..MaxMishaps, loss : 0..MaxLosses, forget : 0..MaxForgets,
                   overtaken : SUBSET Messages]

(* The seat at work on m, or about to be: its wake is not acknowledged.      *)
Busy(s, m) == offers[m][s] > 0 \/ (turn[s] # Resting /\ turn[s].msg = m)

(* cli/src/commands/agent.js:2498: losing a broadcast race is a complete     *)
(* turn, because the holder's own event stays unacknowledged.  A seat stands *)
(* down only from a message that was answered or whose holder is busy, but   *)
(* for the message that a late renewal has leased to a seat that is done.    *)
StandDownIsCovered ==
    [][\A s \in Seats, m \in Messages :
          At(s, m, "claiming") /\ turn'[s] = Resting /\ offers' = offers =>
              \/ m \in answered \cup faults.overtaken
              \/ rows[m].holder \in Seats \ {s} /\ Busy(rows[m].holder, m)]_hvars

Settled(m) ==
    /\ unwoken[m] = {}
    /\ \A s \in Seats : ~Busy(s, m) /\ (job[s] # None => job[s].msg # m)

(* No silent loss: when nobody will look at a message any more, it has been  *)
(* answered, or every seat that still listens has passed on it; a renewal    *)
(* that lands after its turn's release can keep the next seat from it.       *)
NoSilentLoss ==
    \A m \in Messages :
        Settled(m) => m \in answered \cup faults.overtaken \/ \A s \in Seats : wakeOn[s] => s \in passed[m]

(* A message is not passed round for ever: it settles, and stays settled.    *)
EveryMessageSettles == \A m \in Messages : <>[]Settled(m)
===============================================================================
