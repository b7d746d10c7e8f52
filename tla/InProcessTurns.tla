--------------------------- MODULE InProcessTurns ---------------------------
(* In-process (native) turns of the agent event queue                        *)
(* (backend/services/agentEventService.ts).  Nothing polls for these agents: *)
(* the replica that enqueues an event claims it at creation and runs its     *)
(* turn, one turn of an agent in a pod at a time (a lane, kept in memory).   *)
(* A stopping replica drains its turns; a dead one leaves delivered rows,    *)
(* which the sweep of any replica re-runs, acknowledges or puts back.        *)
(*                                                                           *)
(* A document's age says whether deliveredAt is older than the requeue       *)
(* threshold, restarted that its turn has moved deliveredAt as it started.   *)
(* A delivery is named <<event, nonce>>; the nonce is the value of attempts  *)
(* after the claim that minted it.  Events are those of one agent in one     *)
(* pod, digests excluded.  Joined mentions, unanswered lines and the         *)
(* retention deletes are in AgentEventQueue.                                 *)
EXTENDS Naturals, FiniteSets

CONSTANTS Events,      \* events of one in-process agent in one pod
          Procs,       \* backend replicas, by the place they run in
          NoEvent,     \* what an idle sweep works on
          NoProc,      \* where a turn that never was runs
          Cap,         \* AGENT_EVENT_REQUEUE_MAX_ATTEMPTS
          MaxTrouble   \* bound: crashes, SIGTERMs, failed calls and overlong turns

ASSUME TurnConstants ==
    /\ NoEvent \notin Events /\ NoProc \notin Procs
    /\ IsFiniteSet(Procs)
    /\ Cap \in Nat \ {0} /\ MaxTrouble \in Nat

VARIABLES rows,     \* the AgentEvent documents
          proc,     \* the replicas
          turns,    \* dispatchInProcess, one per delivery
          sweep,    \* the event each replica's sweep is working on
          succeeded, \* AgentRuns recorded as succeeded, per event
          late,     \* deliveries whose turn outlives its thresholds
          trouble,  \* how much of it there has been
          lost,     \* history: deliveries cut off or never settled
          excused,  \* history: deliveries that may overlap a replacement
          skipped   \* history: events the requeue took although answered

vars == <<rows, proc, turns, sweep, succeeded, late, trouble, lost, excused, skipped>>

NoNonce == 0

(* Every sweep in flight may hold one stranded event it read below the cap.  *)
Ceiling == Cap + Cardinality(Procs)

Deliveries == Events \X (1 .. Ceiling)

Final == {"acked", "failed"}

Row == [status : {"none", "pending", "delivered"} \cup Final, attempts : 0 .. Ceiling,
        nonce : 0 .. Ceiling, age : {"fresh", "stale"}, restarted : BOOLEAN, old : BOOLEAN]

Unborn == [status |-> "none", attempts |-> 0, nonce |-> NoNonce, age |-> "fresh",
           restarted |-> FALSE, old |-> FALSE]

Turn == [pc : {"none", "born", "queued", "ready", "model", "ok", "bad", "done", "lost"},
         at : Procs \cup {NoProc}, ahead : SUBSET Deliveries, superseded : BOOLEAN]

NoTurn == [pc |-> "none", at |-> NoProc, ahead |-> {}, superseded |-> FALSE]

Born(p) == [NoTurn EXCEPT !.pc = "born", !.at = p]

Done(t) == [NoTurn EXCEPT !.pc = "done", !.at = t.at]

Job == [pc : {"idle", "stuck", "claimed", "stranded"}, ev : Events \cup {NoEvent},
        nonce : 0 .. Ceiling, restarted : BOOLEAN, finished : BOOLEAN]

Resting == [pc |-> "idle", ev |-> NoEvent, nonce |-> NoNonce,
            restarted |-> FALSE, finished |-> FALSE]

Alive(p) == proc[p] \in {"up", "draining", "deadline"}

-------------------------------------------------------------------------------
(* The documents the updates leave.                                          *)
Claimed(r) == [r EXCEPT !.status = "delivered", !.attempts = r.attempts + 1,
                        !.nonce = r.attempts + 1, !.age = "fresh", !.restarted = FALSE]

TakenBack(r) == [r EXCEPT !.status = "pending", !.nonce = NoNonce, !.age = "fresh"]

Ended(r, status) == [r EXCEPT !.status = status, !.nonce = NoNonce, !.age = "fresh"]

(* The delivery's own document, still delivered under its nonce.             *)
Owns(d) == rows[d[1]].status = "delivered" /\ rows[d[1]].nonce = d[2]

(* requeueInProcess                                                          *)
HandBack(d) == rows' = IF Owns(d) THEN [rows EXCEPT ![d[1]] = TakenBack(rows[d[1]])] ELSE rows

-------------------------------------------------------------------------------
(* The filters of the updates and the lane's conditions; each mutant is the  *)
(* code with one plausible slip.                                             *)
Stuck(r) == r.status = "delivered" /\ r.age = "stale" /\ r.attempts < Cap

Stranded(r) == r.status = "pending" /\ ~r.old /\ r.attempts < Cap

(* Mutant: closing takes a document that never went out for a new one.       *)
CloseableOnceDelivered(r) == r.status = "pending" /\ r.old /\ r.attempts > 0

Closeable(r) == r.status = "pending" /\ r.old

(* Mutant: the claim of a stranded event is not a compare-and-set.           *)
ClaimableById(r) == r.status # "none"

Claimable(r) == r.status = "pending"

(* Mutant: the restart sweep does not look for a finished run.               *)
NeverFinished(e) == succeeded[e] < 0

Finished(e) == succeeded[e] > 0

(* Mutant: a turn that waited starts without re-checking its claim.          *)
OursAnyway(d) == d[1] \in Events

StillOurs(d) == Owns(d)

Settles(d) == rows[d[1]].status \in {"pending", "delivered"} /\ rows[d[1]].nonce = d[2]

Released(d) == turns[d].superseded \/ turns[d].pc \in {"ok", "bad", "done", "lost"}

(* A slot no longer holds the lane: released, or 180 s after its wait ended. *)
Over(d) == Released(d) \/ d \in late

(* Mutant: a turn waits for the one that runs, not for those that wait.      *)
LaneRunning(p) ==
    {d \in Deliveries : turns[d].at = p /\ turns[d].pc \in {"ready", "model"} /\ ~Over(d)}

(* The slots ahead of one that joins now.  Each slot's `over` waits for the  *)
(* one ahead of it, so the last slot opens when all of these have.           *)
Lane(p) ==
    {d \in Deliveries : turns[d].at = p /\ turns[d].pc \in {"queued", "ready", "model"} /\ ~Over(d)}

(* Mutant: refreshWhileQueued is missing.                                    *)
KeptFreshByTheModel(d) ==
    turns[d].pc \in {"born", "ready", "model", "ok", "bad"} /\ d \notin late

(* deliveredAt stays young: the turn waits and refreshes, or it is bounded   *)
(* well inside the requeue threshold.                                        *)
KeptFresh(d) ==
    \/ turns[d].pc \in {"born", "ready", "model", "ok", "bad"} /\ d \notin late
    \/ turns[d].pc = "queued" /\ ~turns[d].superseded

(* The deliveries a replica is working on.                                   *)
AtWork(p) ==
    {d \in Deliveries :
       \/ turns[d].at = p /\ turns[d].pc \in {"born", "queued", "ready", "model", "ok", "bad"}
       \/ sweep[p].pc = "claimed" /\ d = <<sweep[p].ev, sweep[p].nonce>>}

(* Mutant: a drain waits for turns, not for their admission.                 *)
SettledTurns(p) ==
    \A d \in Deliveries : turns[d].at = p => turns[d].pc \in {"born", "done", "lost"}

(* inProcessWork is empty: admission, turns, terminal writes and sweeps.     *)
Settled(p) == AtWork(p) = {} /\ sweep[p] = Resting

(* inProcessRunning                                                          *)
InProcessRunning(p) ==
    {d \in Deliveries : turns[d].at = p /\ turns[d].pc \in {"queued", "ready", "model"}}

-------------------------------------------------------------------------------
Init ==
    /\ rows = [e \in Events |-> Unborn]
    /\ proc = [p \in Procs |-> "up"]
    /\ turns = [d \in Deliveries |-> NoTurn]
    /\ sweep = [p \in Procs |-> Resting]
    /\ succeeded = [e \in Events |-> 0]
    /\ late = {}
    /\ trouble = 0
    /\ lost = {}
    /\ excused = {}
    /\ skipped = {}

Trouble == trouble < MaxTrouble /\ trouble' = trouble + 1

-------------------------------------------------------------------------------
(* enqueueEvent.                                                             *)

(* Routed to the native runtime: the document is born claimed.               *)
Enqueue(e, p) ==
    /\ rows[e].status = "none" /\ proc[p] = "up"
    /\ rows' = [rows EXCEPT ![e] = Claimed(rows[e])]
    /\ turns' = [turns EXCEPT ![<<e, 1>>] = Born(p)]
    /\ UNCHANGED <<proc, sweep, succeeded, late, trouble, lost, excused, skipped>>

(* The replica drains, or the routing lookup fails: born pending.            *)
EnqueuePending(e, p) ==
    /\ rows[e].status = "none" /\ Alive(p)
    /\ \/ proc[p] # "up" /\ UNCHANGED trouble
       \/ Trouble
    /\ rows' = [rows EXCEPT ![e].status = "pending"]
    /\ UNCHANGED <<proc, turns, sweep, succeeded, late, lost, excused, skipped>>

-------------------------------------------------------------------------------
(* dispatchInProcess and runInProcess.                                       *)

(* enterInProcessLane: join the lane, and release the slot an earlier        *)
(* delivery of the same event still has here.                                *)
Entered(p, d) ==
    LET before == {x \in Deliveries : x # d /\ x[1] = d[1] /\ turns[x].at = p /\ ~Released(x)}
        ahead == Lane(p) \ before
        joined == [x \in Deliveries |-> IF x \in before THEN [turns[x] EXCEPT !.superseded = TRUE]
                                        ELSE turns[x]] IN
      [joined EXCEPT ![d] = [Born(p) EXCEPT !.ahead = ahead,
                                            !.pc = IF ahead = {} THEN "ready" ELSE "queued"]]

(* What dispatchInProcess does with a claimed delivery.                      *)
Dispatched(p, d) ==
    IF proc[p] = "up"
    THEN /\ turns' = Entered(p, d)
         /\ UNCHANGED <<rows, lost>>
    ELSE /\ HandBack(d)
         /\ turns' = [turns EXCEPT ![d] = Done(Born(p))]
         /\ lost' = lost \cup {d}

(* The insert's reply arrives.                                               *)
Dispatch(d) ==
    /\ turns[d].pc = "born" /\ Alive(turns[d].at)
    /\ Dispatched(turns[d].at, d)
    /\ UNCHANGED <<proc, sweep, succeeded, late, trouble, excused, skipped>>

MayStart(d) == turns[d].pc = "queued" /\ \A x \in turns[d].ahead : Over(x)

(* The wait is over: still ours, or superseded, claimed or requeued.         *)
Start(d) ==
    /\ MayStart(d)
    /\ IF ~turns[d].superseded /\ StillOurs(d)
       THEN /\ rows' = [rows EXCEPT ![d[1]] =
                          [rows[d[1]] EXCEPT !.age = "fresh", !.restarted = TRUE]]
            /\ turns' = [turns EXCEPT ![d] = [turns[d] EXCEPT !.pc = "ready", !.ahead = {}]]
       ELSE /\ turns' = [turns EXCEPT ![d] = Done(turns[d])]
            /\ UNCHANGED rows
    /\ UNCHANGED <<proc, sweep, succeeded, late, trouble, lost, excused, skipped>>

(* The re-check failed: ownership is unknown, so the turn runs.              *)
StartUnchecked(d) ==
    /\ MayStart(d) /\ ~turns[d].superseded
    /\ Trouble
    /\ turns' = [turns EXCEPT ![d] = [turns[d] EXCEPT !.pc = "ready", !.ahead = {}]]
    /\ excused' = excused \cup {d}
    /\ UNCHANGED <<rows, proc, sweep, succeeded, late, lost, skipped>>

(* The digest has been read; the last look at the drain, and the model runs. *)
Begin(d) ==
    /\ turns[d].pc = "ready"
    /\ IF proc[turns[d].at] = "up"
       THEN /\ turns' = [turns EXCEPT ![d].pc = "model"]
            /\ UNCHANGED <<rows, lost>>
       ELSE /\ HandBack(d)
            /\ turns' = [turns EXCEPT ![d] = Done(turns[d])]
            /\ lost' = lost \cup {d}
    /\ UNCHANGED <<proc, sweep, succeeded, late, trouble, excused, skipped>>

(* runAgent saves its run and returns; turnFinished releases the lane.       *)
RunSucceeds(d) ==
    /\ turns[d].pc = "model"
    /\ turns' = [turns EXCEPT ![d].pc = "ok"]
    /\ succeeded' = [succeeded EXCEPT ![d[1]] = succeeded[d[1]] + 1]
    /\ UNCHANGED <<rows, proc, sweep, late, trouble, lost, excused, skipped>>

RunFails(d) ==
    /\ turns[d].pc = "model"
    /\ turns' = [turns EXCEPT ![d].pc = "bad"]
    /\ UNCHANGED <<rows, proc, sweep, succeeded, late, trouble, lost, excused, skipped>>

Verdict(d) == IF turns[d].pc = "ok" THEN "acked" ELSE "failed"

(* acknowledge or recordFailure, under the delivery's nonce.                 *)
Settle(d) ==
    /\ turns[d].pc \in {"ok", "bad"}
    /\ rows' = IF Settles(d)
               THEN [rows EXCEPT ![d[1]] = Ended(rows[d[1]], Verdict(d))]
               ELSE rows
    /\ turns' = [turns EXCEPT ![d] = Done(turns[d])]
    /\ UNCHANGED <<proc, sweep, succeeded, late, trouble, lost, excused, skipped>>

(* Its error is logged and swallowed.                                        *)
SettleFails(d) ==
    /\ turns[d].pc \in {"ok", "bad"}
    /\ Trouble
    /\ turns' = [turns EXCEPT ![d] = Done(turns[d])]
    /\ lost' = lost \cup {d}
    /\ UNCHANGED <<rows, proc, sweep, succeeded, late, excused, skipped>>

(* A turn does not end in time: its model call hangs, a write stalls.        *)
Overstays(d) ==
    /\ turns[d].pc \in {"ready", "model", "ok", "bad"} /\ d \notin late
    /\ Trouble
    /\ late' = late \cup {d}
    /\ UNCHANGED <<rows, proc, turns, sweep, succeeded, lost, excused, skipped>>

-------------------------------------------------------------------------------
(* Time: deliveredAt passes the requeue threshold, createdAt the ceiling for *)
(* stranded events.                                                          *)
SweepHolds(e, n) == \E p \in Procs : sweep[p].pc = "claimed" /\ sweep[p].ev = e /\ sweep[p].nonce = n

GoesStale(e) ==
    /\ rows[e].status = "delivered" /\ rows[e].age = "fresh"
    /\ ~KeptFresh(<<e, rows[e].nonce>>) /\ ~SweepHolds(e, rows[e].nonce)
    /\ rows' = [rows EXCEPT ![e].age = "stale"]
    /\ UNCHANGED <<proc, turns, sweep, succeeded, late, trouble, lost, excused, skipped>>

(* Every refresh of a queued turn fails.                                     *)
RefreshFails(e) ==
    /\ rows[e].status = "delivered" /\ rows[e].age = "fresh"
    /\ turns[<<e, rows[e].nonce>>].pc = "queued"
    /\ Trouble
    /\ rows' = [rows EXCEPT ![e].age = "stale"]
    /\ lost' = lost \cup {<<e, rows[e].nonce>>}
    /\ UNCHANGED <<proc, turns, sweep, succeeded, late, excused, skipped>>

GrowsOld(e) ==
    /\ rows[e].status = "pending" /\ ~rows[e].old
    /\ rows' = [rows EXCEPT ![e].old = TRUE]
    /\ UNCHANGED <<proc, turns, sweep, succeeded, late, trouble, lost, excused, skipped>>

-------------------------------------------------------------------------------
(* garbageCollect: redispatchStuckInProcess, rescueStrandedPendingInProcess, *)
(* then the requeue and the retirement.  Each works through a batch, one     *)
(* event at a time.                                                          *)

(* The batch and the look for a finished run; a row that changes in between  *)
(* fails the claim.                                                          *)
FindStuck(p, e) ==
    /\ proc[p] = "up" /\ sweep[p] = Resting
    /\ Stuck(rows[e])
    /\ sweep' = [sweep EXCEPT ![p] = [pc |-> "stuck", ev |-> e, nonce |-> rows[e].nonce,
                                      restarted |-> rows[e].restarted,
                                      finished |-> Finished(e)]]
    /\ UNCHANGED <<rows, proc, turns, succeeded, late, trouble, lost, excused, skipped>>

Holding(job, nonce) == [job EXCEPT !.pc = "claimed", !.nonce = nonce]

(* Swap the nonce of what is still the stale delivery that was read.         *)
ClaimStuck(p) ==
    /\ sweep[p].pc = "stuck"
    /\ LET e == sweep[p].ev IN
         IF /\ proc[p] = "up"
            /\ rows[e].status = "delivered" /\ rows[e].nonce = sweep[p].nonce
            /\ rows[e].age = "stale" /\ rows[e].restarted = sweep[p].restarted
         THEN /\ rows' = [rows EXCEPT ![e] = Claimed(rows[e])]
              /\ sweep' = [sweep EXCEPT ![p] = Holding(sweep[p], rows[e].attempts + 1)]
         ELSE /\ sweep' = [sweep EXCEPT ![p] = Resting]
              /\ UNCHANGED rows
    /\ UNCHANGED <<proc, turns, succeeded, late, trouble, lost, excused, skipped>>

(* Its reply: acknowledge what was answered, run what was not.               *)
Resume(p) ==
    /\ sweep[p].pc = "claimed"
    /\ LET d == <<sweep[p].ev, sweep[p].nonce>> IN
         IF sweep[p].finished
         THEN /\ rows' = IF Settles(d) THEN [rows EXCEPT ![d[1]] = Ended(rows[d[1]], "acked")] ELSE rows
              /\ UNCHANGED <<turns, lost>>
         ELSE Dispatched(p, d)
    /\ sweep' = [sweep EXCEPT ![p] = Resting]
    /\ UNCHANGED <<proc, succeeded, late, trouble, excused, skipped>>

(* A call of the sweep fails after the claim; the pass is given up.          *)
ResumeFails(p) ==
    /\ sweep[p].pc = "claimed"
    /\ Trouble
    /\ sweep' = [sweep EXCEPT ![p] = Resting]
    /\ lost' = lost \cup {<<sweep[p].ev, sweep[p].nonce>>}
    /\ UNCHANGED <<rows, proc, turns, succeeded, late, excused, skipped>>

(* The bulk requeue takes what the restart sweep left: it stopped for the    *)
(* drain, its lookup failed, or its batch was full.                          *)
RequeueSkipped(p, e) ==
    /\ Alive(p) /\ sweep[p] = Resting
    /\ \/ proc[p] # "up" /\ UNCHANGED trouble
       \/ Trouble
    /\ Stuck(rows[e])
    /\ rows' = [rows EXCEPT ![e] = TakenBack(rows[e])]
    /\ skipped' = IF succeeded[e] > 0 THEN skipped \cup {e} ELSE skipped
    /\ UNCHANGED <<proc, turns, sweep, succeeded, late, lost, excused>>

(* The retire passes, beyond the cap.                                        *)
Retire(p, e) ==
    /\ Alive(p)
    /\ rows[e].status = "delivered" /\ rows[e].age = "stale" /\ rows[e].attempts >= Cap
    /\ rows' = [rows EXCEPT ![e] = Ended(rows[e], "failed")]
    /\ UNCHANGED <<proc, turns, sweep, succeeded, late, trouble, lost, excused, skipped>>

(* A pending event too old to be run is closed.                              *)
CloseStranded(p, e) ==
    /\ proc[p] = "up"
    /\ Closeable(rows[e])
    /\ rows' = [rows EXCEPT ![e] = Ended(rows[e], "failed")]
    /\ UNCHANGED <<proc, turns, sweep, succeeded, late, trouble, lost, excused, skipped>>

FindStranded(p, e) ==
    /\ proc[p] = "up" /\ sweep[p] = Resting
    /\ Stranded(rows[e])
    /\ sweep' = [sweep EXCEPT ![p] = [Resting EXCEPT !.pc = "stranded", !.ev = e]]
    /\ UNCHANGED <<rows, proc, turns, succeeded, late, trouble, lost, excused, skipped>>

(* Claimed from pending, whatever has become of its attempts.                *)
ClaimStranded(p) ==
    /\ sweep[p].pc = "stranded"
    /\ LET e == sweep[p].ev IN
         IF proc[p] = "up" /\ Claimable(rows[e])
         THEN /\ rows' = [rows EXCEPT ![e] = Claimed(rows[e])]
              /\ sweep' = [sweep EXCEPT ![p] = Holding(sweep[p], rows[e].attempts + 1)]
         ELSE /\ sweep' = [sweep EXCEPT ![p] = Resting]
              /\ UNCHANGED rows
    /\ UNCHANGED <<proc, turns, succeeded, late, trouble, lost, excused, skipped>>

-------------------------------------------------------------------------------
(* The replicas.                                                             *)

(* Nothing of the process survives: lanes, turns and sweeps are in memory.   *)
Halted(p, state) ==
    /\ proc' = [proc EXCEPT ![p] = state]
    /\ turns' = [d \in Deliveries |->
                   IF turns[d].at # p \/ turns[d].pc = "none" THEN turns[d]
                   ELSE [Done(turns[d]) EXCEPT !.pc = IF turns[d].pc = "done" THEN "done"
                                                     ELSE "lost"]]
    /\ lost' = lost \cup AtWork(p)
    /\ sweep' = [sweep EXCEPT ![p] = Resting]

Crash(p) ==
    /\ Alive(p)
    /\ Trouble
    /\ Halted(p, "down")
    /\ UNCHANGED <<rows, succeeded, late, excused, skipped>>

Boot(p) ==
    /\ proc[p] \in {"down", "exited"}
    /\ proc' = [proc EXCEPT ![p] = "up"]
    /\ turns' = [d \in Deliveries |-> IF turns[d].at = p THEN [turns[d] EXCEPT !.at = NoProc]
                                     ELSE turns[d]]
    /\ UNCHANGED <<rows, sweep, succeeded, late, trouble, lost, excused, skipped>>

(* SIGTERM: drainInProcess closes admission.                                 *)
Drain(p) ==
    /\ proc[p] = "up"
    /\ Trouble
    /\ proc' = [proc EXCEPT ![p] = "draining"]
    /\ UNCHANGED <<rows, turns, sweep, succeeded, late, lost, excused, skipped>>

(* All tracked work has settled.                                             *)
DrainEnds(p) ==
    /\ proc[p] = "draining"
    /\ Settled(p)
    /\ Halted(p, "exited")
    /\ UNCHANGED <<rows, succeeded, late, trouble, excused, skipped>>

Deadline(p) ==
    /\ proc[p] = "draining"
    /\ ~Settled(p)
    /\ proc' = [proc EXCEPT ![p] = "deadline"]
    /\ UNCHANGED <<rows, turns, sweep, succeeded, late, trouble, lost, excused, skipped>>

(* What is still running is put back, each under its nonce ...               *)
RequeueAtDeadline(p, d) ==
    /\ proc[p] = "deadline"
    /\ d \in InProcessRunning(p) /\ Owns(d)
    /\ HandBack(d)
    /\ lost' = lost \cup {d}
    /\ excused' = excused \cup {d}
    /\ UNCHANGED <<proc, turns, sweep, succeeded, late, trouble, skipped>>

(* ... and the process exits.                                                *)
Exit(p) ==
    /\ proc[p] = "deadline"
    /\ \A d \in InProcessRunning(p) : ~Owns(d)
    /\ Halted(p, "down")
    /\ UNCHANGED <<rows, succeeded, late, trouble, excused, skipped>>

-------------------------------------------------------------------------------
TurnNext(d) ==
    \/ Dispatch(d) \/ Start(d) \/ StartUnchecked(d) \/ Begin(d)
    \/ RunSucceeds(d) \/ RunFails(d) \/ Settle(d) \/ SettleFails(d) \/ Overstays(d)

EventNext(e) ==
    \/ GoesStale(e) \/ RefreshFails(e) \/ GrowsOld(e)
    \/ \E p \in Procs : \/ Enqueue(e, p) \/ EnqueuePending(e, p)
                        \/ FindStuck(p, e) \/ RequeueSkipped(p, e) \/ Retire(p, e)
                        \/ CloseStranded(p, e) \/ FindStranded(p, e)

ProcNext(p) ==
    \/ ClaimStuck(p) \/ Resume(p) \/ ResumeFails(p) \/ ClaimStranded(p)
    \/ Crash(p) \/ Boot(p) \/ Drain(p) \/ DrainEnds(p) \/ Deadline(p) \/ Exit(p)
    \/ \E d \in Deliveries : RequeueAtDeadline(p, d)

Next ==
    \/ \E d \in Deliveries : TurnNext(d)
    \/ \E e \in Events : EventNext(e)
    \/ \E p \in Procs : ProcNext(p)

Spec == Init /\ [][Next]_vars

(* A turn's steps are taken by its process's event loop, a model call is     *)
(* bounded, a late turn ends with its process at the latest, time passes, a  *)
(* stopped replica is started again and every replica sweeps on a schedule.  *)
Fairness ==
    /\ \A d \in Deliveries :
         /\ WF_vars(Dispatch(d)) /\ WF_vars(Start(d))
         /\ WF_vars(Begin(d)) /\ WF_vars(RunSucceeds(d) \/ RunFails(d)) /\ WF_vars(Settle(d))
    /\ \A e \in Events : WF_vars(GoesStale(e)) /\ WF_vars(GrowsOld(e))
    /\ \A p \in Procs :
         /\ WF_vars(ClaimStuck(p) \/ Resume(p) \/ ClaimStranded(p))
         /\ WF_vars(Boot(p)) /\ WF_vars(DrainEnds(p)) /\ WF_vars(Exit(p))
         /\ \A e \in Events :
              /\ SF_vars(FindStuck(p, e)) /\ WF_vars(Retire(p, e)) /\ WF_vars(CloseStranded(p, e))

FairSpec == Spec /\ Fairness

-------------------------------------------------------------------------------
(* Properties.                                                               *)

(* Documents, turns, lanes and sweeps stay well formed.                      *)
TypeOK ==
    /\ rows \in [Events -> Row]
    /\ \A e \in Events : rows[e].nonce = IF rows[e].status = "delivered" THEN rows[e].attempts
                                         ELSE NoNonce
    /\ proc \in [Procs -> {"up", "draining", "deadline", "down", "exited"}]
    /\ turns \in [Deliveries -> Turn]
    /\ sweep \in [Procs -> Job]
    /\ succeeded \in [Events -> Nat]
    /\ late \subseteq Deliveries /\ lost \subseteq Deliveries /\ excused \subseteq Deliveries
    /\ skipped \subseteq Events
    /\ trouble \in Nat

(* Of two deliveries that run the model together, for one event in whatever  *)
(* replicas, or in one replica (the lane of the pod: "the next turn starts   *)
(* once it opens, so it reads that turn's reply"), one has outstayed its     *)
(* bound, was given up at the drain's deadline, or could not re-check its    *)
(* claim.                                                                    *)
TurnsDoNotOverlap ==
    \A c, d \in Deliveries :
        c # d /\ turns[c].pc = "model" /\ turns[d].pc = "model"
        /\ (c[1] = d[1] \/ turns[c].at = turns[d].at)
            => {c, d} \cap (late \cup excused) # {}

(* A delivery is spent only by an event whose earlier delivery was cut off:  *)
(* a turn that merely waits for its lane is not re-run "each pass, spending  *)
(* its attempts until the expiry pass retired it before it ever ran".        *)
OnlyLostIsRepeated ==
    \A e \in Events, n \in 1 .. Ceiling :
        n < rows[e].attempts => <<e, n>> \in lost \cup late

(* A replica that drained in time leaves no delivery of its own behind whose *)
(* turn did not end: only a terminal write may have failed (drainInProcess,  *)
(* "then wait through terminal event writes"; trackInProcessWork, "Dispatch  *)
(* will requeue that late claim").                                           *)
DrainLeavesNothing ==
    \A p \in Procs, d \in Deliveries :
        proc[p] = "exited" /\ turns[d].at = p /\ Owns(d) => turns[d].pc = "done"

(* A run that succeeded is not run again: what only lost its ack is acked by *)
(* the sweep (redispatchStuckInProcess).  The exceptions: overlapping        *)
(* deliveries, and events the requeue took before the sweep looked.          *)
AnsweredOnce ==
    \A e \in Events :
        succeeded[e] > 1 =>
            e \in skipped \/ \E n \in 1 .. Ceiling : <<e, n>> \in late \cup excused

(* Nothing an in-process agent was sent stays pending or delivered for ever. *)
EveryEventEnds ==
    \A e \in Events : rows[e].status \in {"pending", "delivered"} ~> rows[e].status \in Final

(* In-process turns implement the delivery that polled events have.          *)
Phase(r) == CASE r.status = "none" -> "none"
              [] r.status = "pending" -> "waiting"
              [] r.status = "delivered" -> "out"
              [] OTHER -> "ended"

Delivery == INSTANCE EventDelivery
            WITH Limit <- Ceiling, InProcess <- TRUE,
                 phase <- [e \in Events |-> Phase(rows[e])],
                 tries <- [e \in Events |-> rows[e].attempts]

ImplementsDelivery == Delivery!QSpec
===============================================================================
