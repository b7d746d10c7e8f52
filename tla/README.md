# Commonly: a verification project

Commonly is a workspace in which people and their agents share conversations ("pods"). A TypeScript
backend keeps its state in MongoDB and PostgreSQL and runs as several replicas. Agents run elsewhere:
a driver (the `commonly` CLI, a daemon, a hosted runtime) polls the backend for events, runs a model
turn, posts, and acknowledges; some agents run inside the backend itself. Nothing coordinates the
parts but single-statement compare-and-set updates, leases, nonces and periodic sweeps. Those are
what this project models: the protocols by which a message reaches an agent, is worked on by one
agent at a time and is never lost in silence; by which a credential, a grant or an approval is used
once and ends when it should; and by which a task passes from one seat to another.

Contents: the inventory, the plan, the modules and how they correspond to the code, the runs and
their bounds, the fairness, the proofs, where code and comments disagree, and what is not covered.

## Inventory

Paths are below `src/`; `services/`, `routes/` and `models/` are those of `backend/`.

| Component | State | Operations | Hard behaviour |
|---|---|---|---|
| **Attention claims** `services/messageClaimService.ts` | table `message_claims`: holder, state, `expires_at`, `declined_by` | claim (prune, then compare-and-swap), renew (a claim by the holder), release with or without an outcome | each request is two SQL statements with no transaction around them; leases lapse; requests are repeated, overtaken and lost |
| **Claim handoff** `services/messageClaimHandoffService.ts`, with the driver in `cli/src/lib/enforcement.js`, `cli/src/commands/agent.js` | wakes waiting for each seat, the turn of each driver, the renewal timer, the handoff inside a release request | fan-out, claim before the turn, stand down, renew, release with an outcome, re-offer to the next seat | a driver dies or a turn throws, an addressed seat goes on beside the holder, a user turns a wake off, a renewal is in flight when its turn ends, two seats decline at once |
| **Agent event queue** `services/agentEventService.ts`, `unansweredMentionService.ts` | `AgentEvent` documents: status, attempts, delivery nonce, `deliveredAt`, joined messages | enqueue, join, claim, renew, post, acknowledge, hand back; requeue, expire, retire with a visible line, delete | pollers race; a slow runner acknowledges what was taken back; replicas sweep at once; a sweep dies half-way |
| **In-process turns** `services/agentEventService.ts` (dispatch, lanes, drain, sweeps) | the same documents; in each replica's memory the lane of a seat and its turns | claim at creation, wait for the lane, run, settle; drain at SIGTERM; re-run stuck events, rescue stranded ones | a replica dies or drains with turns under way; a slow turn outlives the threshold that says it is dead |
| **Digest folding** `services/agentDigestFoldService.ts`, with poll and acknowledgement in `agentEventService.ts` | ambient events that wake nobody; one `AgentDigestState` rollup for a seat in a pod: count, cursor, revision | take digests along with a wake, attach the rollup, settle both on acknowledgement; fold expired digests and delete them | passes overlap and die; digests expire out of order; a turn settles what was folded after it was shown |
| **Hosted connections** `services/hostedMcpCredentialService.ts`, `connectionRemovalService.ts`, `routes/hostedMcpConnect.ts` | a connection row (status, refs, authorization generation, write lease, removal lease, mark), two secrets behind refs, the vendor's grants | authorize, exchange, retire the old pair, publish; refresh; disconnect, revoke at the vendor, sweep, delete | refreshes, reconnects and removals overlap; each is a row write, a vendor call and two secret writes |
| **Approvals** `services/approvalActionService.ts`, with the call in `toolBrokerService.ts` | the row of one parked call: status, decision, ending, retry count, stamps, send leases; its card, its trail row, the waiting runs | park, decide, run, record, save, and the closing: trail, receipt, wake; expiry and retries by a sweep | the owner decides as the deadline passes; the process dies around a call that must not run twice; retries overlap a live closer |
| **Task board and its sweep** `models/Task.ts`, `routes/tasksApi.ts`, `services/kernelWorkSweepService.ts` | a row: status, assignee, holder, lease, principal, `lapsedFrom`, deferrals, close epoch | claim, renew, complete, patch, reopen, restore; defer and rescue lapsed leases | a holder renews between the sweep's read and its write; overlapping passes; a former holder comes back |
| **Room grants** `models/RoomGrant.ts`, `services/roomGrantService.ts` | grants in lineages, bound to a task's epoch or not | mint, attenuate, revoke a subtree, the hook of a task's close, the check at each use | a child is minted while its parent is revoked or its task closes; hooks run late and are repeated |

They interact as follows. A message posted in a pod makes the wake fan-out enqueue one event for each
listening seat. A seat's driver polls the queue and takes unread digests along; an in-process agent's
event starts its turn in the replica that enqueued it. Before a turn that many seats were woken for,
the driver claims the message; the losers acknowledge their wakes and stand down. It renews claim and
delivery while it works and ends the turn with a release and an acknowledgement. A release that says
"declined" or "refused" starts the handoff, which enqueues an event for the next seat. The sweep of
every replica, each ten minutes, takes back deliveries nobody finished, retires those out of
attempts, and folds expired digests. During a turn the agent calls tools through the broker, which
checks the room grant and what its task says of the agent, asks the owner's approval where the tool
needs it, and reads the connection's credential, refreshing it when it has expired. A seat that
claims a task holds authority over the grants bound to it until the task closes, is patched away or
is swept.

What makes each correct:

- claims: a live lease has one holder, and what a row says of its past is true;
- handoff: a message is answered or refused by everybody who listens, and that ends;
- queue and in-process turns: delivery is at least once and bounded, an old delivery cannot end a
  newer one's event, turns of a lane do not overlap, and a person is told once when nobody answered;
- digests: an unread notification is shown before it goes, and counted once;
- connections: what is reported revoked is revoked, and a connected row names a refresh token the vendor
  will take, unless the newest was lost on its way to the store;
- approvals: a call is decided once and run at most once, and every run waiting for it hears;
- board: a live lease is not taken from its holder by a peer or a sweep, and a lapsed one is settled;
- grants: what was ended before a call began refuses it.

`PROJECT.json` lists every component, with the reason where one is not modelled.

## Plan

Written, in this order: `ClaimLease`, `MessageClaim`, `ClaimHandoff`; `EventDelivery`,
`AgentEventQueue`, `DigestFold`; `InProcessTurns`; `HostedConnection`; `ParkedCall`,
`ApprovalClosure`; `TaskAuthority`, `TaskBoard`, `RoomGrants`; and the proofs beside
eight of them.

What the plan has left, the most important first:

1. the competition of several parked calls for one seat's slots, and a composition of
   `ApprovalClosure` with `RoomGrants` (a grant that ends between a decision and its call);
2. webhook delivery with its acknowledgement by id, next to `InProcessTurns`;
3. `DeviceLogin` and the mails and wakes that are claimed by a unique key before they are sent.

## Modules

| Module | What it is |
|---|---|
| `ClaimLease` | abstract: a message is open, leased to one seat, or closed |
| `MessageClaim` | the claim table, statement by statement, under arbitrary callers; implements `ClaimLease` |
| `ClaimHandoff`, `ClaimProofs` | `MessageClaim` composed with wakes, drivers, renewals, handoff and faults |
| `EventDelivery` | abstract: bounded at-least-once delivery that ends once |
| `AgentEventQueue`, `AgentEventQueueProofs` | the polled queue with its runners and sweeps; implements `EventDelivery` |
| `InProcessTurns`, `InProcessTurnsProofs` | the lanes, drains and recoveries of in-process agents; implements `EventDelivery` |
| `DigestFold`, `DigestFoldProofs` | digests of one seat in one pod: polls, acknowledgements and retention passes |
| `HostedConnection`, `HostedConnectionProofs` | one OAuth connection: callbacks, refreshes and removals over its row, secrets and vendor grants |
| `ParkedCall` | abstract: a parked call is decided once, asked once if approved, and told to every run |
| `ApprovalClosure`, `ApprovalClosureProofs` | one approval row from its parking to the last of what its closing owes; implements `ParkedCall` |
| `TaskAuthority` | abstract: open or closed, the close epoch, and the seat with authority |
| `TaskBoard`, `TaskBoardProofs` | one row of the board with seats, people, the system and the sweep; implements `TaskAuthority` |
| `RoomGrants`, `RoomGrantsProofs` | grants, revocations, close hooks and calls over a task that behaves as `TaskAuthority` allows |
| `MC...` | model values and symmetries for TLC |

`TaskAuthority` is what lets the last two be checked apart: the board is shown to implement it, and
the grants are checked against everything it allows.

A definition whose comment begins "Mutant:" is the definition after it with one plausible slip: what
the properties are tested against, and never used by the specification.

### MessageClaim

`rows[m]` is the row of a message. Time is its age: "live" before `expires_at`, "lapsed" after it,
"stale" one retention window (an hour) later. `Prunable`, `Winnable` and `HeldBy` are the WHERE
clauses of the DELETE, the INSERT ... ON CONFLICT and the releases; `Won`, `PassedOn` and `Tombstone`
are their SET clauses. A claim is `ClaimPrune`, then `ClaimWin` or `ClaimLose`. A release is
`ReleasePassOn` (one UPDATE), or `ReleaseCompleted` and `ReleaseOmitted` followed by `ReleaseDelete`.
Between its two statements a request is in `inFlight`, where any other statement may overtake it and
where it may be lost. `told[s]` is what a seat knows: the leases it was told it won and that have not
run out. The winning answer may get lost, so a seat can hold a lease it was not told of. Any seat may
call anything, repeatedly, since the routes accept any installed agent. A holder that drops its lease
with no outcome deletes the row and its history, which `DeclinesAreKept` exempts.

### ClaimHandoff

The claim table as it is, with callers that behave like the driver. The fan-out enqueues the original
wakes at once (`Promise.all`), so `FanOut` takes the seats of `unwoken` in any order and `FanOutFails`
drops one, which the code only logs; `woken` are those enqueued. `offers` are the unacknowledged wakes
of a message. `turn` is the driver: claiming; guarded (its lease is renewed); unguarded (the claim
failed open, or another seat has the message and this one is `Addressed`, so that it goes on beside
the holder, `ProceedPeerAware`); lost (a renewal found the lease gone); releasing; and throwing. A
turn that throws (`Throw`, `EndThrown`) releases with no outcome: the DELETE drops the lease and the
decline history, and the wake is not acknowledged. A release call may fail before or after the server
has it (`ReleaseFails`), and the wake is acknowledged all the same. `job` is the handoff a release
runs: a lookup with the decline history that release returned, then a walk over the original wakes
that skips the seats of that history and those that no longer listen. The walk goes by `createdAt`,
which is any order. A crash restarts the driver without its turn: the wake is unacknowledged and is
delivered again, minutes later, when the release that turn sent has landed or is lost. A renewal
that is on its way when its turn is released may land after the release; `MaxMishaps` bounds such
renewals together with the turns that die or throw, and the history variable of the overtaken
messages is what the properties exempt.

### AgentEventQueue

`rows[e]` is an `AgentEvent`; its age says whether `deliveredAt` is older than the sweep's threshold.
A nonce is named by the delivery it was minted for. A runner reads candidates (`Poll`), claims
(`Claim`, or `ClaimMissed` when another was faster), and from then on holds an event and a nonce. It
may renew, post (`Post`, then `MarkPosted`: two statements), acknowledge, hand back (`Release`), or
go away (`LetGo`). A `Legacy` runner acknowledges without presenting the nonce; the code still
accepts that unless its consumer is `Enforced`. A sweep is `Requeue`, `Expire` and `Delete`, each one
bulk statement and atomic for each document, and the retirement of people's messages: a batch is
read (`FindUnanswered`), each row is retired by compare-and-set (`Retire`), then for each message the
row carries, in order, the pod is searched for an answer (`LookForAnswer`) and a line is posted if
there is none (`PostLine`). A look or a post that throws is logged and the row's other messages get
no line (`NoteFails`). `taken`,
`endedBy` and `read` are history, for the properties only. Documents of different agents share
nothing that is modelled, so the queue is that of one agent in one pod.

### InProcessTurns

A delivery is an event and the nonce of its claim; `turns[d]` is the promise `dispatchInProcess` made
for it, in the replica `at`, behind the deliveries `ahead` of it in its lane. Enqueueing claims the
row and makes the turn in two steps (`Enqueue`, `Dispatch`); `Start` re-checks that the row is still
the delivery's, `Begin` moves `deliveredAt`, `RunSucceeds` and `RunFails` are the run of the model
with its record, `Settle` the fenced acknowledgement or hand-back. `FindStuck`, `ClaimStuck` and
`Resume` are the restart sweep; `FindStranded` and `ClaimStranded` the rescue of pending rows;
`Retire` and `CloseStranded` end what is out of attempts or too old. A replica that gets SIGTERM
drains (`Drain`, `DrainEnds`), and at its deadline hands its unsettled turns back (`Deadline`,
`RequeueAtDeadline`); a crash loses its memory. `late` are the turns that outlive the thresholds that
declare them dead, which the code accepts by design ("at least once").

### DigestFold

Digests are numbered in the order of their ids. They may expire in any order, as the code says of
imported rows. A poll reads its candidates with the wake's claim (`ClaimWake`), claims each digest
(`ClaimDigest`), marks the wake with the time up to which it covers the backlog (`MarkSnapshot`;
a time is the set of digests that exist then), reads the rollup and writes its revision on the wake
(`ReadRollup`, `WriteRevision`). An acknowledgement that consumed the digests settles each row and
then the rollup, the latter only at the revision that was shown; either part can fail and is only
logged. The runner then acknowledges the digests it was given (`AckCompanion`). A pass pages through
the expired ones (`FindExpired`, `NextCandidate`), marks, reads, creates or updates the rollup by
compare-and-set, and deletes (`MarkFolding` to `DeleteFolded`); it may stop after any statement
(`PassStops`). A wake may be taken back and delivered again, any time. `inRollup` and `seen` are
history: what the count stands for, and what a consumed turn showed; `inherited` is what a redelivered
wake settled on its earlier snapshot.

### HostedConnection

`flow[c]` is one `/start` with its callback: `Consume` the state row, `Exchange` the code at the
vendor, `Retire` the old pair (one write that takes the write lease, moves the generation and clears
the removal lease and its mark), `PutAccess` and `PutRefresh`, `Publish`. `refresh[r]` is one
refresh: `Fence` takes the write lease, the refresh token is read, spent at the vendor (`Refreshed`,
`Refused`, `Unreachable`), and both secrets are put before `Commit`. `removal[d]` is one disconnect:
`Disconnect` marks the row, `TakeHold` takes the removal lease, `Look` reads the token, `Send` and
`SendAccess` revoke at the vendor, `Mark` records it under the lease, `SweepRefresh` and
`SweepAccess` delete the secrets behind the refs it read, `Delete` drops the row. Secrets carry the
write generation the store compares on a put. Leases lapse as soon as nobody alive needs them or
their holder is dead. Any request may break off between two of its steps (`BreaksOff`), never to go
on: its process dies, or a call of it fails or loses its answer. For a refresh that is a vendor's
answer that times out after the vendor rotated the pair (`hostedMcpCredentialService.ts:530-551`), a
put that fails (`:562`, `:574`), or a commit that fails. The vendor acts within the call's timeout or
not at all. Where the newest pair is lost so, the row stays connected with a spent token until the
next refresh presents it, is refused, and marks the row (`Refused`). Revoking a refresh token ends its grant at the vendor, and
spending one rotates it. `left` is history: the grants the code leaves to the person on purpose, among
them those whose tokens a removal sweeps without a confirmed revoke (`Abandoned`; it then answers
`providerRevoked: false` with the vendor's page).

### ApprovalClosure

`row` is the approval: its status and decision, the runs parked on it, the ending with a flag that
its trail row is still owed, the retry counter, `due`, the done stamp and the two leased sends.
`world` is what others see: the card, how often the provider was asked, trail rows, wakes, receipts.
An attempt (`at[a]`) is one decider's request or one sweep pass with its own copy. A decider closes
by compare-and-set (`CloseByDecision`), runs the call (`RunCall`), has it recorded (`RecordCall`,
`RecordFails`), saves the ending (`SaveEnding`, `SaveFails`) and goes on to the closing that every
retry repeats: `Trail`, then for the receipt and the wake a lease, the send and the stamp, then
`Finish`. The sweep expires rows past the deadline (`SweepExpired`), and retries incomplete ones
(`FindIncomplete`, `ClaimRetry`); a retry of an approved row with no ending reads the trail, and
settles on what it finds or on "unknown" (`ReadTrail`, `Settle`). `WaitPasses` is the interval before
a retry may begin; it does not pass while an attempt is at work unless that attempt stalls
(`WaitOutlasts`, bounded by `MaxStalls`).

### TaskBoard and RoomGrants

`row` is one task. Its `holder` is the seat named by the lease, its `user` the principal with
authority over the grants. `Claim`, `Renew`, `Restore` (a former holder's note within its window),
`Complete`, `Patch`, `Reassign`, `Reopen` and `CompleteBySystem` are the routes; a patch of status and
assignee is two steps. A sweep pass reads a lapsed row with its holder's activity (`FindLapsed`),
then defers (`Defer`, a bounded count) or rescues it (`Rescue`), each guarded by what the update
compares. `Creators` are seats that created the row, which may complete it like a person.

`RoomGrants` extends `TaskAuthority` with grants. A mint reads the task's epoch, inserts, checks its
lineage and the task again, and is handed out or rejected (`AskForGrant` to `RejectGrant`). A
revocation gathers the lineage level by level before it writes. The hook of a close finds bound
grants of earlier epochs, ends each by a write of its own, and records those it ended. A call loads
its grant and checks lineage, task and claimant step by step; `barred` is history: that something the
grant needs was over when the call began.

## Runs

TLC explores each instance to its end; the states are distinct states. A type invariant that is
proved is not repeated by a run.

| Run | Instance | States |
|---|---|---|
| `message_claim` | 2 seats, 2 messages, at most 2 requests between their statements (`FewInFlight`) | 137,677 |
| `claim_handoff` | 3 seats, 1 message, 1 seat that is addressed and whose wakes may be turned off (the others are symmetric), 1 mishap (a turn that dies or throws, or a message one of whose renewals lands after its release) | 2,548,542 |
| `claim_handoff_live` | 2 seats, 1 message, 1 seat addressed, 1 mishap, 1 lost wake, call, answer, release or handoff, 1 row pruned early | 486,792 |
| `event_queue` | 1 event, cap of 2 deliveries, joins of up to 2 messages, 3 runners (one presents its nonce, two do not, of which one is refused for it), 2 sweeping replicas, 1 sweep that dies or fails to note a message | 147,938 |
| `event_renewed_retired` | 1 event, 1 runner, 2 sweeping replicas, no crash | stops after some 300 |
| `digest_fold` | 2 digests, 1 wake that carries 1, 2 passes, 1 trouble (a pass that stops, a wake taken back) | 754,445 |
| `in_process` | 2 events, 2 replicas, cap of 2, 1 trouble; events and replicas are symmetric | 100,972 |
| `in_process_live` | 1 event, 2 replicas, cap of 2, 2 troubles | 35,135 |
| `connection` | 2 refreshes (symmetric), 1 removal, 2 authorizations, 1 trouble | 1,673,109 |
| `approval` | 1 decider, 1 sweeper, the run that asks and 1 later, 4 retries, 1 trouble, 1 stall | 595,825 |
| `task_board` | 2 seats of which one created the row, 2 sweeping replicas, the code's 3 deferrals, 2 closes | 321,348 |
| `room_grants` | a grant and one attenuated from it for the task, 2 seats, 2 closes, 1 revocation, 1 call, 2 failures | 1,049,904 |

What each asks:

- `message_claim`: is a live lease exclusive while requests are overtaken between their statements,
  is what a row says of its past true, and does the table implement a lease that is never taken
  from its holder while it is live and never reopened once closed? Two messages are enough to see
  that their rows do not interfere; two requests in flight are the pair that can overtake.
- `claim_handoff`, `claim_handoff_live`: when every seat has stood down, has somebody answered, or
  did each listening seat decline or have its turn (`NoSilentLoss`); does a seat stand down only
  when another has the message (`StandDownIsCovered`); and does the passing round end
  (`EveryMessageSettles`)? Three seats are the least in which a handoff chooses and a skipped seat
  lies between. No call is lost in the first, because a lost claim fails open by design (the seat
  then answers with no lease); in the second any one call is lost.
- `event_queue`: fencing of late acknowledgements, exclusive delivery, no joined message that was
  acknowledged unread, at most one visible line for each message, a line for what was retired, the refinement of
  bounded at-least-once delivery, and that a delivered event is in the end acknowledged, requeued or
  failed. A cap of 2 with its ceiling of 4 reaches each outcome of a delivery; two replicas are the
  pair that race a sweep.
- `digest_fold`: nothing unread is erased, nothing is counted twice, a marked digest is folded.
  Two digests are the least that can expire out of order, and two passes the least that can overlap.
- `in_process`, `in_process_live`: turns of one lane do not overlap, a run is repeated only after a
  loss, a drain leaves no turn behind, an event is answered once, the refinement, and that every
  event ends. Two events are the least with a lane to wait in; two replicas the least with a
  recoverer.
- `connection`: what a removal reported as revoked is revoked, one removal at a time holds the
  lease, the mark is true, no half of one pair is stored with half of another, a connected row can
  refresh unless its newest token was lost. Two refreshes are the pair that compete for the write lease, and the second authorization
  is the reconnect that overtakes a removal.
- `approval`: the done stamp is earned, sends are repeated only in trouble, an ending that is known
  is not replaced, the row implements `ParkedCall`, each parked run hears. Four retries leave one
  after each kind of failure a closing can meet.
- `task_board`: authority is the holder's and ends with the lease, peers stand down, the refinement,
  and a lapsed lease is settled. Two closes are the least in which something of the first meets the
  second.
- `room_grants`: what was ended before a call began refuses it, an old hook spares new grants, a
  close leaves no bound grant alive, what a hook ends it names once.

Deadlock is checked in `message_claim`, `task_board` and `room_grants`. Elsewhere the system may
really stop: every event has ended, the connection is gone, or the approval is done.

`message_claim` bounds its instance by a state constraint; all other bounds are guards on a counter
(`MaxMishaps`, `MaxLosses`, `MaxForgets`, `MaxTrouble`, `MaxStalls`, `MaxSweepCrashes`,
`MaxMessages`, `MaxCloses`, `MaxInFlight`), or a number the code itself has (`Cap`, `BatchSize`,
`MaxRetries`, `MaxDeferrals`, `MaxWaiting`, `DigestSlots`), which an instance makes smaller.

## Fairness

A step is fair when a process that lives takes it without asking anybody, or when it is time that
passes or a sweep on a schedule. Faults, and what users and models decide, are never fair.

- `ClaimHandoff`: the fan-out goes on, a handoff goes on, a driver takes up a wake that waits, and a
  request that was sent arrives. The end of a turn is strongly fair: a renewal on its way disables
  it for a moment, and only so long. Lapses, faults, renewals and the user's switch are not fair.
- `AgentEventQueue`: time passes, each replica's sweep runs and goes on, a runner that does nothing
  with a delivery lets go of it. Polling, posting and acknowledging are not fair.
- `DigestFold`: a pass goes on once it began. Passes that stop are bounded by `MaxTrouble`.
- `InProcessTurns`: a replica that is up dispatches, starts, runs and settles, time passes,
  recoveries go on, and a replica boots and exits. `FindStuck` is strongly fair: a sweep comes every
  few minutes, and the row it looks for is out of its sight while another replica has it in hand.
- `ApprovalClosure`: the proposal and later runs go on, a decider that decided goes on, the sweep
  runs and its retries go on, and time passes. Nobody has to decide.
- `TaskBoard`: the sweep runs. Nobody has to claim, answer or complete.
- `HostedConnection` and `RoomGrants` are checked for safety only: no vendor has to answer, and
  nothing in them must happen that nobody asked for.

## Proofs

TLAPS checks the theorems for all values of the constants that satisfy the named assumptions of the
modules (`ClaimConstants`, `HandoffConstants`, `NoneIsNoJob`, `QueueConstants`, `DigestConstants`,
`BoardConstants`, `GrantConstants`, `ApprovalConstants`, `ConnectionConstants`, `TurnConstants`): any
number of seats, runners, replicas, grants, refreshes, removals, runs, retries and failures.
TLC evaluates the assumptions on every run and checked each invariant before it was proved.

- `ClaimProofs`, of `MessageClaim`: `TypeCorrect`, `LeaseExclusive`, `HistorySound`, the refinement
  `LeaseImplemented`, and two facts about steps, `EndingsAreFinal` and `DeclinesKept`. The argument
  is that a seat which was told of a lease finds its own name in a live row, since the upsert takes
  only rows that are free, lapsed or its own, and the releases only the caller's.
  Of `ClaimHandoff`: `HandoffTypeCorrect`; `ClaimsImplemented`, by which all of the above holds in
  the composition too; `NothingIsLostSilently` and `StandingDownIsCovered`, both from `HandoffInv`.
  For a message that is undecided (not answered, no late renewal) while no call failed, whoever
  leases it or has a claim on its way is in the turn that asked, or has a wake to come back for
  (`Worked`), since a driver that dies leaves its wake and a lost claim finds another holder. A row
  is deleted only for a seat whose turn threw and which has its wake back, or will (`Drops`). And
  somebody will look at the message (`Carried`): the fan-out, a holder, a waiting wake, a turn that
  will ask or is giving the message back (`Awake`), or a handoff whose walk still has every listening
  seat before it that has not passed. That last part needs a decline history never to name a seat
  that did not pass (`HistoryIsKept`), and every seat to have its original wake, or to get it still
  (`FannedOut`). The first theorem is about every state before the first failed call, whatever
  `MaxLosses`, and needs no bound on pruned rows, turns that die or throw, or late renewals; the
  second assumes `MaxLosses = 0`, like the run.
- `AgentEventQueueProofs`: `QueueTyped`; `AttemptsBound` (the deliveries of an event stay within
  the ceiling); `StaleAcksRefused`, from the strengthening that the nonce in a row was minted for
  its latest delivery and that no runner holds one of the future; `DeliveriesAreExclusive`, from the
  strengthening that relates what a runner holds to the row; `EndingsAreFinal` and the refinement
  `DeliveryImplemented`. `NothingAckedUnread` follows from `Reading`: a message joins an event only
  before its first delivery, and what was delivered is what the runner that holds it was handed.
  `ToldAtMostOnce` and `RetirementIsTold` follow from `Told`: of the sweeps that read an event in
  their batch, only the one whose compare-and-set retired it goes on to its lines, one message after the other.
- `InProcessTurnsProofs`: `TurnsTyped`, `TurnsNeverOverlap`, `DeliveriesRepeatOnlyLost` and
  `DrainLeaves` from the invariant `Steady`, and the refinement `TurnsImplementDelivery`. A turn at
  work, and a sweep between its claim and its turn, own a row that is still fresh, unless the turn
  outlived the threshold (`HoldersOwn`); a superseded turn does not own its row (`Superseded`); of
  two turns in a lane the later waits for the earlier (`InOrder`); the attempts with the rescues in
  flight stay below the ceiling (`Room`); and what may go out again was cut off or is late
  (`CutFirst`). `AnsweredRunsOnce` needs beside these that what a sweep read of a row is still true
  of it when its claim succeeds (`Looked`), and that no delivery of an answered event which owns the
  row will run (`Answered`).
- `DigestFoldProofs`: `DigestsTyped`, `DigestsCountedOnce` and `DigestsNeverLost`, all from the
  invariant `Sound`. `CountedOnce` is not inductive. What makes it so: the rollup's cursor has
  passed exactly the digests that were counted, and lies below the oldest unread one; a pass that
  goes to update holds a marked digest that is still the oldest, or one the rollup has passed
  (`PassOf`); and what a turn's acknowledgement settles, that turn was shown, whatever has been
  folded since (`TurnFits`).
- `TaskBoardProofs`: `BoardTyped`, `BoardAuthority`, `BoardStandsDown`, `BoardClosesOnce` and the
  refinement `BoardImplementsAuthority`. `RoomGrantsProofs` then rests on `TaskAuthority` alone:
  `GrantsTyped`, `EndedIsAlwaysRefused`, `OldClosesSpareNew`, `ClosesLeaveNone`, `RecordsNameOnce`.
  The heart of the first is that a call in its checks, for which something was over when it began,
  cannot have passed the check that would see it; and what is over stays over.
- `ApprovalClosureProofs`: `ApprovalTyped`; `ApprovalHonoured`, the refinement of `ParkedCall`; and
  `ApprovalKnownEndingStands`. The last needs that only the attempt that ran the call knows its
  ending until it has recorded or saved it (`Knowledge`): a retry must therefore read "unknown", or
  the truth. `SentAgainIsPaidFor` counts (`Sending1`): an attempt is prompt until its lease or its
  wait has outlasted it, a prompt sender has its send to itself, and the sends made, with the slow
  attempts that are still before theirs, are at most one more than the stalls (and, for the
  receipt, the trouble) so far. `DoneIsPaid` follows from `Owing`: an ending that is passed on has
  its trail row or an owner that will write it, and an attempt that has come through without a
  failure has its ending in the trail, its receipt sent and its wake.
- `HostedConnectionProofs`: `ConnectionTyped`; `HoldAlwaysExclusive`; and `HeldIsDisconnected`, both
  from the invariant `Quiet`. A removal takes its hold when the row's lease is over, and the row has
  one lease for many writers; so what must be shown is that no writer goes on under another. `Lead`
  says that the row's lease is never older than that of a writer nobody overtook, although a
  callback puts back the lease it found: `LeadBefore` says the same of that one. `Alone` says that
  a refresh which may still commit, and so clear the lease, has no such writer beside it, and
  `Generations` that a new authorization, a removal and a refresh never share one.
  `PairAlwaysWhole` follows from `Paired`. Whoever writes beside a connected row is of an older
  authorization, or one of its own refreshes (`Admitted`); the generations a row counts stay below
  the stride (`FewFences`), so that the store refuses all that is older; the newest callback stores
  its pair undisturbed (`Stores`); a sweep holds its row (`WorkersHold`); and the two halves are in
  order, with a refresh between its two puts to account for a difference (`OnePair`).
  `ReportIsAlwaysTrue` and `MarkIsAlwaysTrue` follow from `Reportable`, in four parts. First, where a
  live grant's newest token is (`Placed`): in one of the two secrets, or with the one refresh that
  is not overtaken (`Leader`) and is about to store it, or the grant is `Given`, left to the person
  or with a refresh that may not store it. That needs to know who wrote each secret (`Authors`) and
  that nobody stores an older grant over a newer one (`StandBack`, `NewestKept`). Second, what a
  removal finds. Nothing changes the refs or takes back the mark while it is at work (`RefsStay`),
  a secret put in the place of a swept one has a newer name (`RefsOld`), refs that name the refresh
  token name the access token beside it (`Aligned`), and the refresh token is swept first
  (`SweptFirst`). A pair of one generation is one token, the newest of its grant unless the leading
  refresh is about to store that (`PlacedPair`); so the token of a whole pair that a removal sends
  is the last there is to revoke (`LookSettles`, `SendSettles`). Third, a row that
  is held, marked or gone is disconnected, and only overtaken writers go on beside it
  (`ShutIsQuiet`) until a new authorization lifts hold and mark (`StaysShut`). Fourth, on such a row
  what is settled stays settled (`StaysSettled`): what reaches a secret there is of a grant the
  property leaves aside.
  `ConnectedCanAlwaysRefresh` follows from `Usable`, which rests on `Reportable`. A removal sends
  back only tokens older than the generation it gave the row (`SentBefore`, `HeldBefore`), so the
  grant of a connected row stays live (`OnItsWay`, `CredLive`), and the secret its refs name has a
  token of it (`OneToken`). For a vendor that rotates, `Tallied` counts: each refresh that asks read
  the secret's token or one before it, and the newest is in the secret or with the one refresh that
  is ahead of it. That one is excused while it carries the token or if it broke off with it; what
  must be shown is that a refresh which goes on cannot lose it. A refresh that is yet to read its
  token has the newest generation (`FencedInTime`), so the store takes its puts, and one that is
  done has put what it got (`OwnAhead`: `CanPut`, `Delivers`). What callbacks have not stored nobody
  has read (`Unread`). A vendor that does not rotate hands out the same token again (`Still`).

Of these, the type invariants (that of `ClaimHandoff` among them) and `AttemptsBounded`,
`TerminalIsFinal`, `DeclinesAreKept` and `ClosedOnce` are proved and not repeated by a run.

Record updates in the modules are nested (`[t EXCEPT ![e] = [t[e] EXCEPT !.a = x]]`): several paths
under one index are not handled faithfully by the prover's translation, and the nested form says the
same.

Only model-checked: the six liveness properties (`EveryMessageSettles`, `DeliveredSettles`,
`EveryEventEnds`, `FoldingFinishes`, `ParkedIsTold`, `LapsedIsSettled`), since fairness and ENABLED
are out of the prover's reach. Every invariant and every action property of a passing run is stated
by a theorem.

## Where code and comments disagree

One disagreement has a run. `event_renewed_retired`: the retire pass reads its batch by
`deliveredAt` and retires each row by status and nonce only (`agentEventService.ts:1200`). A renewal
in between keeps the nonce, so an event whose live runner has just renewed it ends as unanswered.
The comment of the renewal says it keeps a live wrapper's delivery from aging (`:2637`), and the
restart sweep beside it does compare `deliveredAt` (`:1265`).

The others are exceptions that a property names, so that it holds of all else:

- A renewal that was on its way when its turn ended lands after the release and takes the message
  back (`enforcement.js:415`, against `agent.js:2496–2498`): excepted by the overtaken messages in
  `NoSilentLoss` and by `MaxMishaps`.
- The handoff walks the seats with the decline history its release returned
  (`messageClaimHandoffService.ts:63`, against the promise at `:11`): a seat that declined since is
  offered the message once more. It costs a turn and no message.
- An event retired by a sweep that then dies, or fails to note a message, leaves messages with no
  line (`agentEventService.ts:1205`, against `:1077`): excepted in `RetiredIsTold`.
- A wake that is taken back and delivered again keeps the snapshot of its first delivery
  (`agentEventService.ts:2582`, `:2599`, `:1046`), and its acknowledgement settles what that turn
  was not shown (against `agentDigestFoldService.ts:178`, `agentEventService.ts:1793`): `inherited`
  in `UnreadIsNeverLost`.
- The bulk requeue takes back in-process rows too and may re-run a turn that succeeded and was not
  settled (`agentEventService.ts:1034`, `:1240–1254`, against `:1220`): `skipped` in
  `AnsweredOnce`.
- A refresh that a reconnect or a removal overtook still puts its secrets, behind refs that a
  removal may be about to sweep (`hostedMcpCredentialService.ts:209`, `:589`, `:237`, against
  `connectionRemovalService.ts:411`, `:741`): `overtaken` in the connection's properties.
- An owner who decides before the card is attached to the row closes it; the proposer then tells its
  run "the approval closed before its card was posted; nothing ran", although an approved call does
  run (`approvalActionService.ts:908–922` and `:932`). In the model the proposer stops at `closed`,
  and `CallIsHonoured` says what still holds: the call runs once, as decided.
- A rescue records as the former holder the label of the assignee before the name of the seat whose
  lease it was (`kernelWorkSweepService.ts:143`, `:253`, against `models/Task.ts:45`, "who held the
  lease"): no property depends on the label.
- A refresh that loses the vendor's answer, or fails to store the pair it got, keeps the lease as a
  backoff and leaves the row connected with a spent refresh token (`hostedMcpCredentialService.ts:530-574`):
  `Carries` in `ConnectedCanRefresh`.
- A revocation can leave a child unmarked that was minted while it gathered
  (`roomGrantService.ts:502–504`, `RoomGrant.ts:216–217`). It is harmless, because a call checks the
  whole lineage: `EndedIsRefused`.

## Hazards without a model

`PROJECT.json` lists forty hazards with the properties that cover them. Known beside those, each the
concern of one statement or of code outside the models: a handoff whose re-offer fails to enqueue is
only logged; a lease abandoned for an hour is pruned while its driver works, so that its decline
finds no row; an agent may post between the check for its answer and the unanswered line; a webhook
reply acknowledges by id alone; an unread oldest digest blocks its scope from folding; the run
record of a native turn may fail to save; a refresh may take a vendor's ambiguous answer for a
refusal; the orphan-secret sweep races a slow put; a card is redrawn by an older retry; a device
login's token may fail to be stored after its request is consumed; a needs-you mail may fail after
its row is claimed.

## Limits of the models

In all modules: one statement on one document or row is atomic and nothing else is; the databases
lose nothing and reads see the latest writes; time is an age of two or three values per row.
Message text, prompts, memory, sessions, telemetry, logs, rendering and WebSocket hints are left
out.

- Claims: a failed wake, claim, release, re-offer or lookup is one kind of loss, bounded by
  `MaxLosses`. A turn that throws while it holds no claim, or whose release is lost besides, is a
  crash. The retry of a refused release at an older kernel is left out.
- Queue: context-overflow recovery and webhooks are left out. Documents of different agents are
  taken not to interact. Every message of an event counts as a person's who waits for this agent: the
  ones of agents, and of a person who asked somebody else, get no line (`carriedMessages`).
- Digests: a digest is stamped and stored in one step, so none appears behind the snapshot with an
  older stamp (the code reads `createdAt`, of one clock, and a snapshot in the same second as a slow
  insert could cover it unseen). A mark that fails and is caught (`agentEventService.ts:2602`), rows
  that failed, and the native turn's own digests are left out.
- In-process turns: the agent loop is its outcome; the run record is taken to be saved; a turn that
  is started begins. The retirement's read and its compare-and-set on the nonce are one step
  (`agentEventService.ts:1190-1203`): a turn that begins between the two is retired all the same,
  which the queue's run `event_renewed_retired` shows for the same lines. A replica rescues one
  stranded event at a time; the rescue for one identity (`:1358`) beside the scheduled one counts as
  that of another replica.
- Connection: pasted keys, dynamic clients and rows from before the authorization generation are
  left out, and so are a publish whose write lands while its reply is lost, failures before the
  retire write, and the sweep for orphan secrets. A refresh that loses the lease only waits and
  reads. What a removal reads before it asks the vendor (`connectionRemovalService.ts:429-550`) is one
  step, under its hold.
- Approvals: the ending is the pair of the call's ending and its trail row; the content of the card,
  the index by identity, the slots of a seat and the two legacy actions are left out. An event that
  was enqueued is taken to be kept. A provider's error other than a timeout is a refusal, as if it had
  not been asked; a write that fails has no effect; and the wait of a decider for the ending is a
  bounded stall, whether the ending is saved meanwhile or not.
- Board: seats are keyed by user id, with no collision of names; a person who claims or notes is
  not told from a seat, and one who completes, patches or reopens is `Person`; a save that meets a
  newer revision is one atomic step or a refusal; a sweep pass does nothing for leases that lapse
  after it began; creation, notes, titles, priority, watching, attention, wakes, and claims without
  a lease are left out.
- Grants: the check of a lineage is one step, and so are the check of a parent's lineage and of its
  task: both only ever turn from passing to refusing (a close moves the epoch for good), so reading
  them apart refuses no less. Whatever closes the task starts the same hook (`POST complete`, `PATCH`,
  the merge of its pull request). Expiry is left out because it refuses as revocation
  does; tools, budgets, audiences and cues decide no order of steps.

## Not modelled

`PROJECT.json` gives the reason for each component. In short: webhook delivery, device login, spawn
credentials, decision requests, agent asks, assigned-task wakes, needs-you mail and welcome wakes
are each one guarded update around a call, a pattern the modelled components have with more actors;
decision card repair, attention items and federation read or derive; agent memory and message
posting are transformations of data; provisioning (hosted and Kubernetes), billing, mirror repair,
retention, the scheduler and account deletion are I/O in sequence; the web client, the MCP server,
the WebSocket push, the chat bridges and the rest of the driver and its supervisor are presentation,
translation or process control. The larger part of the repository's lines is of these kinds: pages
and components of the web client, vendor catalogues and adapters, provisioning templates, prompts
and their tests.
