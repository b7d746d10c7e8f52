------------------------------ MODULE RoomGrants ------------------------------
(* Grants of a connection to the seats of a room (services/roomGrantService, *)
(* models/RoomGrant) over a task of the board: minting and attenuating *)
(* a grant, revoking a lineage, the revocation that follows the close of a   *)
(* task, and the check of a grant at its use.                                *)
(*                                                                           *)
(* A grant here is its place in the lineage, its binding to the task and     *)
(* what ended it; tools, write modes, budgets and audiences are left out,    *)
(* and so is the deadline, which the code checks where it checks for a       *)
(* revocation.  A check of a lineage is one step, like the write of a batch  *)
(* whose rows nobody reads in between.                                       *)
EXTENDS TaskAuthority, FiniteSets

CONSTANTS Grants, NoGrant,
          Parent,      \* parentGrantId of each grant
          Bound,       \* grants bound to the task
          Revokers, Calls,
          MaxTrouble   \* bound: requests that die, writes that fail

ASSUME GrantConstants ==
    /\ IsFiniteSet(Grants) /\ NoGrant \notin Grants
    /\ Parent \in [Grants -> Grants \cup {NoGrant}]
    /\ Bound \subseteq Grants
    \* An attenuated grant cannot drop the binding.
    /\ \A g \in Grants : Parent[g] \in Bound => g \in Bound
    /\ MaxCloses \in Nat /\ MaxTrouble \in Nat

VARIABLES grant,    \* the RoomGrant rows
          mint,     \* each grant's own mint request
          revoke,   \* revokeGrant
          hook,     \* onTaskClosed, by the epoch that its close began
          call,     \* tool calls
          trouble

gvars == <<grant, mint, revoke, hook, call, trouble>>

vars == <<avars, gvars>>

Epochs == 0 .. MaxCloses

(* loadGrantLineage: the least set that holds g, and the parent of whatever  *)
(* it holds.                                                                 *)
Upward(G) == \A g \in G : Parent[g] # NoGrant => Parent[g] \in G

Lineage == [g \in Grants |-> {h \in Grants : \A G \in SUBSET Grants : g \in G /\ Upward(G) => h \in G}]

Grant == [born : BOOLEAN, epoch : Epochs, ended : {"no", "revoked", "task.done", "refused"}]

Minting == {"idle", "read epoch", "insert", "check lineage", "check task",
            "reject", "reject closed", "handed out", "refused"}

Idle == [pc |-> "idle", ids |-> {}, frontier |-> {}]

Quiet == [pc |-> "none", found |-> {}, moved |-> {}]

NoCall == [pc |-> "idle", grant |-> NoGrant, seat |-> Nobody, barred |-> FALSE]

GInit ==
    /\ AInit
    /\ grant = [g \in Grants |-> [born |-> FALSE, epoch |-> 0, ended |-> "no"]]
    /\ mint = [g \in Grants |-> "idle"]
    /\ revoke = [k \in Revokers |-> Idle]
    /\ hook = [e \in 1 .. MaxCloses |-> Quiet]
    /\ call = [c \in Calls |-> NoCall]
    /\ trouble = 0

-------------------------------------------------------------------------------
Trouble == trouble < MaxTrouble /\ trouble' = trouble + 1

Alive(g) == grant[g].born /\ grant[g].ended = "no"

(* Mutant: only the row itself is looked at.                                 *)
ParentsUnread(g) == TRUE

(* loadGrantLineage reads the rows above the one it is given ...             *)
ParentsActive(g) == \A h \in Lineage[g] \ {g} : Alive(h)

(* ... for assertGrantLineageActive, which mint gives a row it just read.    *)
LineageActive(g) == Alive(g) /\ ParentsActive(g)

(* Mutant: a task that was reopened is open to the grants of before.         *)
TaskOpenNow(g) == g \in Bound => open

(* assertBoundTaskOpen.                                                      *)
TaskOpen(g) == g \in Bound => open /\ epoch = grant[g].epoch

(* assertTaskContext: the caller holds the board's live lease by its own     *)
(* claim.                                                                    *)
TaskClaimed(g, s) == g \in Bound => claimant = s

(* The task, and what hangs on it: whatever closes it (POST complete, PATCH, *)
(* the merge of its pull request) starts the hook of that close.             *)
Task ==
    /\ ANext
    /\ hook' = [e \in DOMAIN hook |->
                  IF epoch' = e /\ epoch # e THEN [hook[e] EXCEPT !.pc = "find"] ELSE hook[e]]
    /\ UNCHANGED <<grant, mint, revoke, call, trouble>>

-------------------------------------------------------------------------------
(* mintGrant and attenuateGrant.                                             *)

MintStep(g, pc) == mint' = [mint EXCEPT ![g] = pc]

AskForGrant(g) ==
    /\ mint[g] = "idle"
    /\ Parent[g] # NoGrant => LineageActive(Parent[g]) /\ TaskOpen(Parent[g])
    /\ MintStep(g, "read epoch")
    /\ UNCHANGED <<avars, grant, revoke, hook, call, trouble>>

EpochOf(g) == IF g \in Bound THEN epoch ELSE 0

ReadEpoch(g) ==
    /\ mint[g] = "read epoch"
    /\ IF g \in Bound /\ ~open
       THEN MintStep(g, "refused") /\ UNCHANGED grant
       ELSE /\ grant' = [grant EXCEPT ![g].epoch = EpochOf(g)]
            /\ MintStep(g, "insert")
    /\ UNCHANGED <<avars, revoke, hook, call, trouble>>

InsertGrant(g) ==
    /\ mint[g] = "insert"
    /\ grant' = [grant EXCEPT ![g].born = TRUE]
    /\ MintStep(g, IF Parent[g] # NoGrant THEN "check lineage"
                   ELSE IF g \in Bound THEN "check task" ELSE "handed out")
    /\ UNCHANGED <<avars, revoke, hook, call, trouble>>

(* What a revocation or a close has ended meanwhile is not handed out.       *)
CheckLineage(g) ==
    /\ mint[g] = "check lineage"
    /\ MintStep(g, IF ~LineageActive(Parent[g]) THEN "reject"
                   ELSE IF ~TaskOpen(Parent[g]) THEN "reject closed"
                   ELSE IF g \in Bound THEN "check task" ELSE "handed out")
    /\ UNCHANGED <<avars, grant, revoke, hook, call, trouble>>

(* Mutant: the task is not looked at again after the insert.                 *)
HandOutUnchecked(g) ==
    /\ mint[g] = "check task"
    /\ MintStep(g, "handed out")
    /\ UNCHANGED <<avars, grant, revoke, hook, call, trouble>>

CheckTask(g) ==
    /\ mint[g] = "check task"
    /\ MintStep(g, IF TaskOpen(g) THEN "handed out" ELSE "reject closed")
    /\ UNCHANGED <<avars, grant, revoke, hook, call, trouble>>

(* markMintedGrantRejected leaves the reason of whoever was first.           *)
RejectGrant(g) ==
    /\ mint[g] \in {"reject", "reject closed"}
    /\ grant' = [grant EXCEPT ![g].ended = IF @ # "no" THEN @
                    ELSE IF mint[g] = "reject" THEN "refused" ELSE "task.done"]
    /\ MintStep(g, "refused")
    /\ UNCHANGED <<avars, revoke, hook, call, trouble>>

MintDies(g) ==
    /\ mint[g] \notin {"idle", "handed out", "refused"}
    /\ Trouble
    /\ MintStep(g, "refused")
    /\ UNCHANGED <<avars, grant, revoke, hook, call>>

-------------------------------------------------------------------------------
(* revokeCascadeMoved: the lineage is gathered level by level, then written. *)

Revoke(k, g) ==
    /\ revoke[k].pc = "idle" /\ grant[g].born
    /\ revoke' = [revoke EXCEPT ![k] = [pc |-> "gather", ids |-> {g}, frontier |-> {g}]]
    /\ UNCHANGED <<avars, grant, mint, hook, call, trouble>>

Children(k) == {g \in Grants : grant[g].born /\ Parent[g] \in revoke[k].frontier}

Gathered(k) ==
    IF Children(k) = {} THEN [revoke[k] EXCEPT !.pc = "write"]
    ELSE [revoke[k] EXCEPT !.ids = @ \cup Children(k), !.frontier = Children(k)]

Gather(k) ==
    /\ revoke[k].pc = "gather"
    /\ revoke' = [revoke EXCEPT ![k] = Gathered(k)]
    /\ UNCHANGED <<avars, grant, mint, hook, call, trouble>>

Unwritten(k, g) ==
    IF revoke[k].ids = {g} THEN [Idle EXCEPT !.pc = "done"]
    ELSE [revoke[k] EXCEPT !.ids = @ \ {g}]

(* updateMany, row by row.                                                   *)
WriteRevoked(k, g) ==
    /\ revoke[k].pc = "write" /\ g \in revoke[k].ids
    /\ grant' = [grant EXCEPT ![g].ended = IF @ = "no" THEN "revoked" ELSE @]
    /\ revoke' = [revoke EXCEPT ![k] = Unwritten(k, g)]
    /\ UNCHANGED <<avars, mint, hook, call, trouble>>

-------------------------------------------------------------------------------
(* onTaskClosed, revokeTaskGrants.                                           *)

(* Mutant: the hook of a close ends the grants of the reopened task as well. *)
EndedByAnyEpoch(g, e) == g \in Bound /\ Alive(g)

EndedBy(g, e) == g \in Bound /\ Alive(g) /\ grant[g].epoch < e

HookFind(e) ==
    /\ hook[e].pc = "find"
    /\ hook' = [hook EXCEPT ![e] = [@ EXCEPT !.pc = "write",
                                             !.found = {g \in Grants : EndedBy(g, e)}]]
    /\ UNCHANGED <<avars, grant, mint, revoke, call, trouble>>

(* Mutant: the record names what was found.                                  *)
MovedAsFound(g, e) == TRUE

Moved(g, e) == EndedBy(g, e)

(* Each row by a write of its own; the record names those it moved.          *)
HookWrite(e, g) ==
    /\ hook[e].pc = "write" /\ g \in hook[e].found
    /\ grant' = IF EndedBy(g, e) THEN [grant EXCEPT ![g].ended = "task.done"] ELSE grant
    /\ hook' = [hook EXCEPT ![e] = [@ EXCEPT !.found = hook[e].found \ {g},
                                             !.moved = IF Moved(g, e) THEN hook[e].moved \cup {g}
                                                         ELSE hook[e].moved]]
    /\ UNCHANGED <<avars, mint, revoke, call, trouble>>

HookWriteFails(e, g) ==
    /\ hook[e].pc = "write" /\ g \in hook[e].found
    /\ Trouble
    /\ hook' = [hook EXCEPT ![e].found = @ \ {g}]
    /\ UNCHANGED <<avars, grant, mint, revoke, call>>

HookEnds(e) ==
    /\ hook[e].pc = "write" /\ hook[e].found = {}
    /\ hook' = [hook EXCEPT ![e].pc = "recorded"]
    /\ UNCHANGED <<avars, grant, mint, revoke, call, trouble>>

HookDies(e) ==
    /\ hook[e].pc \in {"find", "write"}
    /\ Trouble
    /\ hook' = [hook EXCEPT ![e].pc = "dead"]
    /\ UNCHANGED <<avars, grant, mint, revoke, call>>

-------------------------------------------------------------------------------
(* assertGrantUsable, for one call.                                          *)

(* Something that g needs is over, and stays so.                             *)
Over(g) == \E h \in Lineage[g] : grant[h].ended # "no" \/ (h \in Bound /\ epoch # grant[h].epoch)

LoadGrant(c, g, s) ==
    /\ call[c].pc = "idle"
    /\ Alive(g)
    /\ call' = [call EXCEPT ![c] = [pc |-> "lineage", grant |-> g, seat |-> s, barred |-> Over(g)]]
    /\ UNCHANGED <<avars, grant, mint, revoke, hook, trouble>>

Pass1(c, pc, ok) == call' = [call EXCEPT ![c] = IF ok THEN [@ EXCEPT !.pc = pc] ELSE NoCall]

(* Its own row is the one of LoadGrant, whatever became of it since.         *)
CallChecksLineage(c) ==
    /\ call[c].pc = "lineage"
    /\ Pass1(c, "open", ParentsActive(call[c].grant))
    /\ UNCHANGED <<avars, grant, mint, revoke, hook, trouble>>

CallChecksTask(c) ==
    /\ call[c].pc = "open"
    /\ Pass1(c, "claim", \A h \in Lineage[call[c].grant] : TaskOpen(h))
    /\ UNCHANGED <<avars, grant, mint, revoke, hook, trouble>>

CallChecksClaim(c) ==
    /\ call[c].pc = "claim"
    /\ Pass1(c, "runs", \A h \in Lineage[call[c].grant] : TaskClaimed(h, call[c].seat))
    /\ UNCHANGED <<avars, grant, mint, revoke, hook, trouble>>

CallEnds(c) ==
    /\ call[c].pc = "runs"
    /\ call' = [call EXCEPT ![c] = NoCall]
    /\ UNCHANGED <<avars, grant, mint, revoke, hook, trouble>>

-------------------------------------------------------------------------------
GNext ==
    \/ Task
    \/ \E g \in Grants :
          \/ AskForGrant(g) \/ ReadEpoch(g) \/ InsertGrant(g) \/ CheckLineage(g) \/ CheckTask(g)
          \/ RejectGrant(g) \/ MintDies(g)
          \/ \E k \in Revokers : Revoke(k, g) \/ WriteRevoked(k, g)
          \/ \E e \in 1 .. MaxCloses : HookWrite(e, g) \/ HookWriteFails(e, g)
          \/ \E c \in Calls, s \in Seats : LoadGrant(c, g, s)
    \/ \E k \in Revokers : Gather(k)
    \/ \E e \in 1 .. MaxCloses : HookFind(e) \/ HookEnds(e) \/ HookDies(e)
    \/ \E c \in Calls :
          CallChecksLineage(c) \/ CallChecksTask(c) \/ CallChecksClaim(c) \/ CallEnds(c)

GSpec == GInit /\ [][GNext]_vars

-------------------------------------------------------------------------------
(* What the grants, the closes and the requests are made of.                 *)
GTypeOK ==
    /\ open \in BOOLEAN /\ epoch \in Epochs /\ claimant \in Seats \cup {Nobody}
    /\ grant \in [Grants -> Grant] /\ mint \in [Grants -> Minting]
    /\ revoke \in [Revokers -> [pc : {"idle", "gather", "write", "done"},
                                ids : SUBSET Grants, frontier : SUBSET Grants]]
    /\ hook \in [1 .. MaxCloses -> [pc : {"none", "find", "write", "recorded", "dead"},
                                    found : SUBSET Grants, moved : SUBSET Grants]]
    /\ call \in [Calls -> [pc : {"idle", "lineage", "open", "claim", "runs"},
                           grant : Grants \cup {NoGrant}, seat : Seats \cup {Nobody},
                           barred : BOOLEAN]]
    /\ trouble \in 0 .. MaxTrouble

(* A call that began after its grant, or anything the grant descends from,   *)
(* was revoked, or after the task of one of them was closed, does not run:   *)
(* not through a child that the revocation missed, not after the task was    *)
(* reopened, not when the hook of the close died.                            *)
EndedIsRefused == \A c \in Calls : call[c].pc = "runs" => ~call[c].barred

(* The close of a task ends grants of before it only: a hook that comes late *)
(* spares what was granted since the task was reopened.                      *)
OldCloseSparesNew ==
    \A g \in Grants : grant[g].ended = "task.done" =>
        \E h \in Lineage[g] \cap Bound : grant[h].epoch < epoch

Settled == /\ \A g \in Grants : mint[g] \in {"idle", "handed out", "refused"}
           /\ \A e \in DOMAIN hook : hook[e].pc \in {"none", "recorded"}

(* Nothing failed and nothing is under way: no bound grant of before a close *)
(* is left alive, though it was inserted while the hook had already looked.  *)
ClosedLeavesNone ==
    trouble = 0 /\ Settled =>
        \A g \in Bound : Alive(g) => grant[g].epoch = epoch

(* The record names a grant that was handed out and ended with its task in   *)
(* exactly one close, and no grant that something else ended.                *)
EndedIsNamedOnce ==
    trouble = 0 /\ Settled =>
        \A g \in Grants :
           /\ Cardinality({e \in DOMAIN hook : g \in hook[e].moved}) <= 1
           /\ (\E e \in DOMAIN hook : g \in hook[e].moved) => grant[g].ended = "task.done"
           /\ mint[g] = "handed out" /\ grant[g].ended = "task.done" =>
                 \E e \in DOMAIN hook : g \in hook[e].moved
===============================================================================
