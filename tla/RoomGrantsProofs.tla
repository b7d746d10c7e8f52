--------------------------- MODULE RoomGrantsProofs ---------------------------
(* Proofs about the grants over a task, for any lineages, bindings, seats,   *)
(* revocations, calls and bounds.                                            *)
EXTENDS RoomGrants, FiniteSetTheorems, TLAPS

-------------------------------------------------------------------------------
(* A lineage is made of grants, and the grant is one of it.                  *)
LEMMA LineageHolds ==
  ASSUME NEW g \in Grants
  PROVE  g \in Lineage[g] /\ Lineage[g] \subseteq Grants
  BY DEF Lineage

(* What holds of g and passes to parents holds of its lineage.               *)
LEMMA LineageWithin ==
  ASSUME NEW g \in Grants, NEW G \in SUBSET Grants, g \in G, Upward(G)
  PROVE  Lineage[g] \subseteq G
  BY DEF Lineage

(* A grant has the lineage of its parent.                                    *)
LEMMA LineageOfParent ==
  ASSUME NEW g \in Grants, Parent[g] # NoGrant
  PROVE  Parent[g] \in Grants /\ Lineage[Parent[g]] \subseteq Lineage[g]
<1>1. Parent[g] \in Grants
  BY GrantConstants
<1>2. ASSUME NEW h \in Lineage[Parent[g]], NEW G \in SUBSET Grants, g \in G, Upward(G)
      PROVE  h \in G
  BY <1>1, <1>2 DEF Lineage, Upward
<1> QED
  BY <1>1, <1>2 DEF Lineage

-------------------------------------------------------------------------------
LEMMA TroubleTyped ==
  ASSUME trouble \in 0 .. MaxTrouble, Trouble
  PROVE  trouble' \in 0 .. MaxTrouble
  BY GrantConstants DEF Trouble

(* A field of one row changes within its type.                               *)
LEMMA EpochTyped ==
  ASSUME grant \in [Grants -> Grant], NEW g \in Grants, NEW e \in Epochs
  PROVE  [grant EXCEPT ![g].epoch = e] \in [Grants -> Grant]
<1>1. grant[g] \in Grant
  OBVIOUS
<1>2. [grant[g] EXCEPT !.epoch = e] \in Grant
  BY <1>1 DEF Grant
<1> QED
  BY <1>2

LEMMA BornTyped ==
  ASSUME grant \in [Grants -> Grant], NEW g \in Grants
  PROVE  [grant EXCEPT ![g].born = TRUE] \in [Grants -> Grant]
<1>1. grant[g] \in Grant
  OBVIOUS
<1>2. [grant[g] EXCEPT !.born = TRUE] \in Grant
  BY <1>1 DEF Grant
<1> QED
  BY <1>2

LEMMA EndedTyped ==
  ASSUME grant \in [Grants -> Grant], NEW g \in Grants,
         NEW r \in {"no", "revoked", "task.done", "refused"}
  PROVE  [grant EXCEPT ![g].ended = r] \in [Grants -> Grant]
<1>1. grant[g] \in Grant
  OBVIOUS
<1>2. [grant[g] EXCEPT !.ended = r] \in Grant
  BY <1>1 DEF Grant
<1> QED
  BY <1>2

LEMMA InitTyped == GInit => GTypeOK
  BY GrantConstants DEF GInit, AInit, GTypeOK, Epochs, Grant, Minting, Idle, Quiet, NoCall

(* The task's own step.                                                      *)
LEMMA TaskTyped == GTypeOK /\ Task => GTypeOK'
<1> SUFFICES ASSUME GTypeOK, Task PROVE GTypeOK'
  OBVIOUS
<1>1. open' \in BOOLEAN /\ epoch' \in Epochs /\ claimant' \in Seats \cup {Nobody}
  <2>1. open \in BOOLEAN /\ epoch \in 0 .. MaxCloses /\ claimant \in Seats \cup {Nobody}
    BY DEF GTypeOK, Epochs
  <2>2. CASE CloseTask
    <3>1. epoch' \in 0 .. MaxCloses
      BY <2>1, <2>2, GrantConstants DEF CloseTask
    <3> QED
      BY <2>2, <3>1 DEF CloseTask, Epochs
  <2>3. CASE Lose \/ ReopenTask \/ \E s \in Seats : Take(s)
    BY <2>1, <2>3 DEF Lose, ReopenTask, Take, Epochs
  <2> QED
    BY <2>2, <2>3 DEF Task, ANext
<1>2. hook' \in [1 .. MaxCloses -> [pc : {"none", "find", "write", "recorded", "dead"},
                                    found : SUBSET Grants, moved : SUBSET Grants]]
  BY DEF GTypeOK, Task
<1> QED
  BY <1>1, <1>2 DEF GTypeOK, Task

LEMMA MintTyped ==
  ASSUME GTypeOK, NEW g \in Grants,
         \/ AskForGrant(g) \/ ReadEpoch(g) \/ InsertGrant(g) \/ CheckLineage(g)
         \/ CheckTask(g) \/ RejectGrant(g) \/ MintDies(g)
  PROVE  GTypeOK'
<1>1. mint' \in [Grants -> Minting]
  BY DEF GTypeOK, AskForGrant, ReadEpoch, InsertGrant, CheckLineage, CheckTask, RejectGrant,
         MintDies, MintStep, Minting
<1>2. CASE ReadEpoch(g)
  <2>1. EpochOf(g) \in Epochs
    BY GrantConstants DEF EpochOf, Epochs, GTypeOK
  <2>2. grant' \in [Grants -> Grant]
    <3>1. grant \in [Grants -> Grant]
      BY DEF GTypeOK
    <3>2. [grant EXCEPT ![g].epoch = EpochOf(g)] \in [Grants -> Grant]
      BY <2>1, <3>1, EpochTyped
    <3>3. grant' = grant \/ grant' = [grant EXCEPT ![g].epoch = EpochOf(g)]
      BY <1>2 DEF ReadEpoch
    <3> QED
      BY <3>1, <3>2, <3>3
  <2> QED
    BY <1>1, <1>2, <2>2 DEF ReadEpoch, GTypeOK, avars
<1>3. CASE InsertGrant(g) \/ RejectGrant(g)
  <2>1. CASE InsertGrant(g)
    BY <1>1, <2>1, BornTyped DEF InsertGrant, GTypeOK, avars
  <2>2. CASE RejectGrant(g)
    <3>1. grant \in [Grants -> Grant] /\ grant[g].ended \in {"no", "revoked", "task.done", "refused"}
      BY DEF GTypeOK, Grant
    <3>2. PICK r \in {"no", "revoked", "task.done", "refused"} : grant' = [grant EXCEPT ![g].ended = r]
      BY <2>2, <3>1 DEF RejectGrant
    <3>3. grant' \in [Grants -> Grant]
      BY <3>1, <3>2, EndedTyped
    <3> QED
      BY <1>1, <2>2, <3>3 DEF RejectGrant, GTypeOK, avars
  <2> QED
    BY <1>3, <2>1, <2>2
<1>4. CASE MintDies(g)
  <2>1. trouble' \in 0 .. MaxTrouble
    BY <1>4, TroubleTyped DEF MintDies, GTypeOK
  <2> QED
    BY <1>1, <1>4, <2>1 DEF MintDies, GTypeOK, avars
<1>5. CASE AskForGrant(g) \/ CheckLineage(g) \/ CheckTask(g)
  BY <1>1, <1>5 DEF AskForGrant, CheckLineage, CheckTask, GTypeOK, avars
<1> QED
  BY <1>2, <1>3, <1>4, <1>5

LEMMA RevokeTyped ==
  ASSUME GTypeOK, NEW k \in Revokers,
         Gather(k) \/ \E g \in Grants : Revoke(k, g) \/ WriteRevoked(k, g)
  PROVE  GTypeOK'
<1>1. CASE Gather(k)
  <2>1. Children(k) \subseteq Grants
    BY DEF Children
  <2>2. revoke[k] \in [pc : {"idle", "gather", "write", "done"},
                      ids : SUBSET Grants, frontier : SUBSET Grants]
    BY DEF GTypeOK
  <2>3. revoke' \in [Revokers -> [pc : {"idle", "gather", "write", "done"},
                                  ids : SUBSET Grants, frontier : SUBSET Grants]]
    <3>1. Gathered(k) \in [pc : {"idle", "gather", "write", "done"},
                         ids : SUBSET Grants, frontier : SUBSET Grants]
      BY <2>1, <2>2 DEF Gathered
    <3> QED
      BY <1>1, <3>1 DEF Gather, GTypeOK
  <2> QED
    BY <1>1, <2>3 DEF Gather, GTypeOK, avars
<1>2. ASSUME NEW g \in Grants, Revoke(k, g) PROVE GTypeOK'
  BY <1>2 DEF Revoke, GTypeOK, avars
<1>3. ASSUME NEW g \in Grants, WriteRevoked(k, g) PROVE GTypeOK'
  <2>a. grant \in [Grants -> Grant] /\ grant[g].ended \in {"no", "revoked", "task.done", "refused"}
    BY DEF GTypeOK, Grant
  <2>b. PICK r \in {"no", "revoked", "task.done", "refused"} : grant' = [grant EXCEPT ![g].ended = r]
    BY <1>3, <2>a DEF WriteRevoked
  <2>1. grant' \in [Grants -> Grant]
    BY <2>a, <2>b, EndedTyped
  <2>2. revoke' \in [Revokers -> [pc : {"idle", "gather", "write", "done"},
                                  ids : SUBSET Grants, frontier : SUBSET Grants]]
    <3>1. revoke[k] \in [pc : {"idle", "gather", "write", "done"},
                        ids : SUBSET Grants, frontier : SUBSET Grants]
      BY DEF GTypeOK
    <3>2. Unwritten(k, g) \in [pc : {"idle", "gather", "write", "done"},
                             ids : SUBSET Grants, frontier : SUBSET Grants]
      BY <3>1 DEF Unwritten, Idle
    <3> QED
      BY <1>3, <3>2 DEF WriteRevoked, GTypeOK
  <2> QED
    BY <1>3, <2>1, <2>2 DEF WriteRevoked, GTypeOK, avars
<1> QED
  BY <1>1, <1>2, <1>3

LEMMA HookTyped ==
  ASSUME GTypeOK, NEW e \in 1 .. MaxCloses,
         \/ HookFind(e) \/ HookEnds(e) \/ HookDies(e)
         \/ \E g \in Grants : HookWrite(e, g) \/ HookWriteFails(e, g)
  PROVE  GTypeOK'
<1> DEFINE Hook == [pc : {"none", "find", "write", "recorded", "dead"},
                    found : SUBSET Grants, moved : SUBSET Grants]
<1>1. CASE HookFind(e)
  <2>1. {g \in Grants : EndedBy(g, e)} \subseteq Grants
    OBVIOUS
  <2>2. hook[e] \in Hook
    BY DEF GTypeOK
  <2>3. hook' \in [1 .. MaxCloses -> Hook]
    BY <1>1, <2>1, <2>2 DEF HookFind, GTypeOK
  <2> QED
    BY <1>1, <2>3 DEF HookFind, GTypeOK, avars
<1>2. CASE HookEnds(e)
  BY <1>2 DEF HookEnds, GTypeOK, avars
<1>3. CASE HookDies(e)
  <2>1. trouble' \in 0 .. MaxTrouble
    BY <1>3, TroubleTyped DEF HookDies, GTypeOK
  <2>2. hook' \in [1 .. MaxCloses -> Hook]
    BY <1>3 DEF HookDies, GTypeOK
  <2> QED
    BY <1>3, <2>1, <2>2 DEF HookDies, GTypeOK, avars
<1>4. ASSUME NEW g \in Grants, HookWrite(e, g) PROVE GTypeOK'
  <2>1. grant' \in [Grants -> Grant]
    BY <1>4, EndedTyped DEF HookWrite, GTypeOK
  <2>2. hook' \in [1 .. MaxCloses -> Hook]
    <3>1. hook[e] \in Hook
      BY DEF GTypeOK
    <3>2. PICK F \in SUBSET Grants, M \in SUBSET Grants :
             hook' = [hook EXCEPT ![e] = [@ EXCEPT !.found = F, !.moved = M]]
      BY <1>4, <3>1 DEF HookWrite
    <3>3. [hook[e] EXCEPT !.found = F, !.moved = M] \in Hook
      BY <3>1
    <3> QED
      BY <3>2, <3>3 DEF GTypeOK
  <2> QED
    BY <1>4, <2>1, <2>2 DEF HookWrite, GTypeOK, avars
<1>5. ASSUME NEW g \in Grants, HookWriteFails(e, g) PROVE GTypeOK'
  <2>1. trouble' \in 0 .. MaxTrouble
    BY <1>5, TroubleTyped DEF HookWriteFails, GTypeOK
  <2>2. hook' \in [1 .. MaxCloses -> Hook]
    BY <1>5 DEF HookWriteFails, GTypeOK
  <2> QED
    BY <1>5, <2>1, <2>2 DEF HookWriteFails, GTypeOK, avars
<1> QED
  BY <1>1, <1>2, <1>3, <1>4, <1>5

LEMMA CallTyped ==
  ASSUME GTypeOK, NEW c \in Calls,
         \/ \E g \in Grants, s \in Seats : LoadGrant(c, g, s)
         \/ CallChecksLineage(c) \/ CallChecksTask(c) \/ CallChecksClaim(c) \/ CallEnds(c)
  PROVE  GTypeOK'
<1> DEFINE Call == [pc : {"idle", "lineage", "open", "claim", "runs"},
                    grant : Grants \cup {NoGrant}, seat : Seats \cup {Nobody},
                    barred : BOOLEAN]
<1>1. NoCall \in Call /\ call \in [Calls -> Call]
  BY DEF NoCall, GTypeOK
<1>2. ASSUME NEW g \in Grants, NEW s \in Seats, LoadGrant(c, g, s) PROVE GTypeOK'
  <2>1. Over(g) \in BOOLEAN
    BY DEF Over
  <2>2. [pc |-> "lineage", grant |-> g, seat |-> s, barred |-> Over(g)] \in Call
    BY <2>1
  <2>3. call' \in [Calls -> Call]
    BY <1>1, <1>2, <2>2 DEF LoadGrant
  <2> QED
    BY <1>2, <2>3 DEF LoadGrant, GTypeOK, avars
<1>3. CASE CallChecksLineage(c) \/ CallChecksTask(c) \/ CallChecksClaim(c) \/ CallEnds(c)
  <2>1. call' \in [Calls -> Call]
    BY <1>1, <1>3 DEF CallChecksLineage, CallChecksTask, CallChecksClaim, CallEnds, Pass1
  <2> QED
    BY <1>3, <2>1 DEF CallChecksLineage, CallChecksTask, CallChecksClaim, CallEnds, GTypeOK, avars
<1> QED
  BY <1>2, <1>3

LEMMA StepTyped == GTypeOK /\ [GNext]_vars => GTypeOK'
<1> SUFFICES ASSUME GTypeOK, [GNext]_vars PROVE GTypeOK'
  OBVIOUS
<1>1. CASE UNCHANGED vars
  BY <1>1 DEF GTypeOK, vars, avars, gvars
<1> QED
  BY <1>1, TaskTyped, MintTyped, RevokeTyped, HookTyped, CallTyped DEF GNext

(* Rows, requests, revocations, hooks and calls keep their types; no grant   *)
(* is dated later than the last close.                                       *)
THEOREM GrantsTyped == GSpec => []GTypeOK
  BY InitTyped, StepTyped, PTL DEF GSpec

-------------------------------------------------------------------------------
(* How rows, requests and hooks hang together: no row is of a later epoch,   *)
(* a row is there from its insert on, after its parent, one of the present   *)
(* epoch is of an open task, and a hook is of a close that was.              *)

Dates == \A g \in Grants : grant[g].epoch <= epoch

ByMint ==
    \A g \in Grants :
        /\ mint[g] \in {"idle", "read epoch", "insert"} => ~grant[g].born
        /\ mint[g] \in {"check lineage", "check task", "reject", "reject closed", "handed out"} =>
              grant[g].born
        /\ ~grant[g].born => grant[g].ended = "no"

ParentsFirst ==
    \A g \in Grants : mint[g] # "idle" /\ Parent[g] # NoGrant => grant[Parent[g]].born

OpenAtEpoch ==
    \A g \in Bound :
        (grant[g].born \/ mint[g] = "insert") /\ grant[g].epoch = epoch => open

GatheredBorn == \A k \in Revokers : \A g \in revoke[k].ids : grant[g].born

HooksPast ==
    \A e \in 1 .. MaxCloses :
        /\ hook[e].pc # "none" => e <= epoch
        /\ \A g \in hook[e].found : hook[e].pc # "none"

GrantInv ==
    /\ GTypeOK /\ Dates /\ ByMint /\ ParentsFirst /\ OpenAtEpoch
    /\ GatheredBorn /\ HooksPast

(* What no step undoes: a row, its epoch, what ended it, a close.            *)
Lasting ==
    /\ epoch <= epoch'
    /\ \A g \in Grants :
          /\ grant[g].born => grant'[g].born /\ grant'[g].epoch = grant[g].epoch
          /\ grant[g].ended # "no" => grant'[g].ended = grant[g].ended

LEMMA InitGrantInv == GInit => GrantInv
<1> SUFFICES ASSUME GInit PROVE GrantInv
  OBVIOUS
<1>1. GTypeOK
  BY InitTyped
<1>2. Dates /\ ByMint /\ ParentsFirst /\ OpenAtEpoch
  BY GrantConstants DEF GInit, AInit, Dates, ByMint, ParentsFirst, OpenAtEpoch
<1>3. GatheredBorn /\ HooksPast
  BY DEF GInit, Idle, Quiet, GatheredBorn, HooksPast
<1> QED
  BY <1>1, <1>2, <1>3 DEF GrantInv

(* The types that the steps below read of.                                   *)
LEMMA Types ==
  ASSUME GTypeOK
  PROVE  /\ epoch \in Nat /\ epoch \in 0 .. MaxCloses /\ open \in BOOLEAN
         /\ \A g \in Grants : grant[g] \in Grant /\ grant[g].epoch \in Nat
         /\ DOMAIN grant = Grants /\ DOMAIN mint = Grants
         /\ DOMAIN hook = 1 .. MaxCloses /\ DOMAIN revoke = Revokers /\ DOMAIN call = Calls
<1>1. epoch \in 0 .. MaxCloses /\ open \in BOOLEAN
  BY DEF GTypeOK, Epochs
<1>2. ASSUME NEW g \in Grants PROVE grant[g] \in Grant /\ grant[g].epoch \in Nat
  BY GrantConstants DEF GTypeOK, Grant, Epochs
<1> QED
  BY <1>1, <1>2, GrantConstants DEF GTypeOK

(* A close moves the epoch on; the other steps of the task leave it.         *)
LEMMA TaskMoves ==
  ASSUME GTypeOK, Task
  PROVE  /\ UNCHANGED <<grant, mint, revoke, call, trouble>>
         /\ \/ epoch' = epoch /\ (open => open') /\ hook' = hook
            \/ epoch' = epoch + 1 /\ hook' = [hook EXCEPT ![epoch + 1].pc = "find"]
<1>1. epoch \in 0 .. MaxCloses /\ DOMAIN hook = 1 .. MaxCloses /\ hook = [e \in DOMAIN hook |-> hook[e]]
  BY Types DEF GTypeOK
<1>2. CASE CloseTask
  <2>1. epoch' = epoch + 1 /\ epoch + 1 \in DOMAIN hook
    BY <1>1, <1>2, GrantConstants DEF CloseTask
  <2>2. \A e \in DOMAIN hook : (epoch' = e /\ epoch # e) <=> e = epoch + 1
    BY <1>1, <2>1
  <2>3. hook' = [hook EXCEPT ![epoch + 1].pc = "find"]
    BY <2>1, <2>2 DEF Task
  <2> QED
    BY <2>1, <2>3 DEF Task
<1>3. CASE Lose \/ ReopenTask \/ \E s \in Seats : Take(s)
  <2>1. epoch' = epoch /\ (open => open')
    BY <1>3 DEF Lose, ReopenTask, Take
  <2>2. hook' = hook
    BY <1>1, <2>1 DEF Task
  <2> QED
    BY <2>1, <2>2 DEF Task
<1> QED
  BY <1>2, <1>3 DEF Task, ANext

LEMMA TaskKeeps == GrantInv /\ Task => GrantInv' /\ Lasting
<1> SUFFICES ASSUME GrantInv, Task PROVE GrantInv' /\ Lasting
  OBVIOUS
<1>0. GTypeOK /\ GTypeOK'
  BY TaskTyped DEF GrantInv
<1>1. PICK x \in {epoch, epoch + 1} : epoch' = x
  BY <1>0, TaskMoves
<1>2. epoch <= epoch' /\ epoch \in Nat /\ epoch' \in Nat
  BY <1>0, <1>1, Types
<1>3. Lasting
  BY <1>0, <1>2, TaskMoves DEF Lasting
<1>4. Dates' /\ ByMint' /\ ParentsFirst' /\ GatheredBorn'
  <2>1. UNCHANGED <<grant, mint, revoke>>
    BY <1>0, TaskMoves
  <2>2. Dates'
    BY <1>0, <1>2, <2>1, Types DEF GrantInv, Dates
  <2>3. ByMint' /\ ParentsFirst' /\ GatheredBorn'
    BY <2>1 DEF GrantInv, ByMint, ParentsFirst, GatheredBorn
  <2> QED
    BY <2>2, <2>3
<1>5. OpenAtEpoch'
  <2> SUFFICES ASSUME NEW g \in Bound, (grant[g].born \/ mint[g] = "insert"), grant[g].epoch = epoch'
               PROVE  open'
    BY <1>0, TaskMoves DEF OpenAtEpoch
  <2>1. g \in Grants /\ grant[g].epoch <= epoch
    BY GrantConstants DEF GrantInv, Dates
  <2>2. epoch' = epoch
    BY <1>0, <1>1, <2>1, Types
  <2> QED
    BY <1>0, <2>2, TaskMoves, Types DEF GrantInv, OpenAtEpoch
<1>6. HooksPast'
  <2>1. CASE hook' = hook
    BY <1>0, <1>2, <2>1, Types DEF GrantInv, HooksPast
  <2>2. CASE epoch' = epoch + 1 /\ hook' = [hook EXCEPT ![epoch + 1].pc = "find"]
    BY <1>0, <1>2, <2>2, Types DEF GrantInv, HooksPast, GTypeOK
  <2> QED
    BY <1>0, <2>1, <2>2, TaskMoves
<1> QED
  BY <1>0, <1>3, <1>4, <1>5, <1>6 DEF GrantInv

(* The steps of a mint.                                                      *)
LEMMA MintKeeps ==
  ASSUME GrantInv, NEW g \in Grants,
         \/ AskForGrant(g) \/ ReadEpoch(g) \/ InsertGrant(g) \/ CheckLineage(g)
         \/ CheckTask(g) \/ RejectGrant(g) \/ MintDies(g)
  PROVE  GrantInv' /\ Lasting
<1>0. GTypeOK /\ GTypeOK'
  BY MintTyped DEF GrantInv
<1>a. UNCHANGED <<avars, revoke, hook>>
  BY DEF AskForGrant, ReadEpoch, InsertGrant, CheckLineage, CheckTask, RejectGrant, MintDies
<1>b. HooksPast'
  BY <1>a DEF GrantInv, HooksPast, avars
<1>c. ASSUME Lasting PROVE GatheredBorn'
  <2>1. \A k \in Revokers : revoke[k].ids \subseteq Grants
    BY <1>0 DEF GTypeOK
  <2> QED
    BY <1>a, <1>c, <2>1 DEF GrantInv, GatheredBorn, Lasting
<1>d. epoch' = epoch /\ open' = open /\ epoch \in Nat
  BY <1>0, <1>a, Types DEF avars
<1>g. epoch <= epoch'
  BY <1>d
<1>e. Bound \subseteq Grants /\ NoGrant \notin Grants
  BY GrantConstants
(* Of the steps that leave the rows alone only the request moves.            *)
<1>f. ASSUME grant' = grant, ByMint', ParentsFirst', mint'[g] # "insert",
             \A h \in Grants : h # g => mint'[h] = mint[h]
      PROVE  GrantInv' /\ Lasting
  <2>1. Lasting
    BY <1>0, <1>d, <1>f DEF Lasting
  <2>2. Dates' /\ OpenAtEpoch'
    BY <1>d, <1>e, <1>f DEF GrantInv, Dates, OpenAtEpoch
  <2> QED
    BY <1>0, <1>b, <1>c, <1>f, <2>1, <2>2 DEF GrantInv
<1>1. CASE AskForGrant(g)
  <2>1. mint' = [mint EXCEPT ![g] = "read epoch"] /\ grant' = grant /\ mint[g] = "idle"
    BY <1>1 DEF AskForGrant, MintStep
  <2>2. ByMint'
    BY <1>0, <2>1, Types DEF GrantInv, ByMint
  <2>3. ParentsFirst'
    <3>1. Parent[g] # NoGrant => grant[Parent[g]].born
      BY <1>1, LineageOfParent DEF AskForGrant, LineageActive, Alive
    <3> QED
      BY <1>0, <2>1, <3>1, Types DEF GrantInv, ParentsFirst
  <2> QED
    BY <1>0, <1>f, <2>1, <2>2, <2>3, Types
<1>2. CASE ReadEpoch(g)
  <2>1. mint[g] = "read epoch" /\ ~grant[g].born /\ grant[g].ended = "no"
    BY <1>2 DEF ReadEpoch, GrantInv, ByMint
  <2>2. CASE g \in Bound /\ ~open
    <3>1. mint' = [mint EXCEPT ![g] = "refused"] /\ grant' = grant
      BY <1>2, <2>2 DEF ReadEpoch, MintStep
    <3>2. ByMint' /\ ParentsFirst'
      BY <1>0, <2>1, <3>1, Types DEF GrantInv, ByMint, ParentsFirst
    <3> QED
      BY <1>0, <1>f, <3>1, <3>2, Types
  <2>3. CASE g \in Bound => open
    <3>1. mint' = [mint EXCEPT ![g] = "insert"] /\ grant' = [grant EXCEPT ![g].epoch = EpochOf(g)]
      BY <1>2, <2>3 DEF ReadEpoch, MintStep
    <3>2. EpochOf(g) \in Nat /\ EpochOf(g) <= epoch
      BY <1>d DEF EpochOf
    <3>3. \A h \in Grants : h # g => grant'[h] = grant[h] /\ mint'[h] = mint[h]
      BY <1>0, <3>1, Types
    <3>4. /\ mint'[g] = "insert" /\ grant'[g].epoch = EpochOf(g)
          /\ grant'[g].born = grant[g].born /\ grant'[g].ended = grant[g].ended
      BY <1>0, <3>1, Types DEF Grant
    <3>5. Lasting
      BY <1>g, <2>1, <3>3, <3>4, Zenon DEF Lasting
    <3>6. Dates'
      BY <1>d, <3>2, <3>3, <3>4 DEF GrantInv, Dates
    <3>7. ByMint'
      BY <2>1, <3>3, <3>4 DEF GrantInv, ByMint
    <3>8. ParentsFirst'
      <4>1. \A h \in Grants : grant'[h].born = grant[h].born
        BY <3>3, <3>4
      <4>2. \A h \in Grants : Parent[h] # NoGrant => Parent[h] \in Grants
        BY LineageOfParent
      <4> QED
        BY <2>1, <3>3, <4>1, <4>2 DEF GrantInv, ParentsFirst
    <3>9. OpenAtEpoch'
      BY <1>d, <1>e, <2>3, <3>3 DEF GrantInv, OpenAtEpoch
    <3> QED
      BY <1>0, <1>b, <1>c, <3>5, <3>6, <3>7, <3>8, <3>9 DEF GrantInv
  <2> QED
    BY <2>2, <2>3
<1>3. CASE InsertGrant(g) \/ RejectGrant(g)
  <2>1. /\ \A h \in Grants : h # g => grant'[h] = grant[h] /\ mint'[h] = mint[h]
        /\ grant'[g].epoch = grant[g].epoch /\ grant'[g].born
        /\ mint[g] # "idle" /\ (mint[g] = "insert" \/ grant[g].born)
        /\ grant[g].ended # "no" => grant'[g].ended = grant[g].ended
        /\ mint'[g] \in {"check lineage", "check task", "handed out", "refused"}
    <3>1. CASE InsertGrant(g)
      BY <1>0, <3>1, Types DEF InsertGrant, MintStep, Grant
    <3>2. CASE RejectGrant(g)
      BY <1>0, <3>2, Types DEF RejectGrant, MintStep, Grant, GrantInv, ByMint
    <3> QED
      BY <1>3, <3>1, <3>2
  <2>2. Lasting
    BY <1>g, <2>1, Zenon DEF Lasting
  <2>3. Dates' /\ ByMint'
    BY <1>d, <2>1 DEF GrantInv, Dates, ByMint
  <2>4. ParentsFirst'
    <3>1. \A h \in Grants : Parent[h] # NoGrant => Parent[h] \in Grants
      BY LineageOfParent
    <3> QED
      BY <2>1, <2>2, <3>1 DEF GrantInv, ParentsFirst, Lasting
  <2>5. OpenAtEpoch'
    BY <1>d, <1>e, <2>1 DEF GrantInv, OpenAtEpoch
  <2> QED
    BY <1>0, <1>b, <1>c, <2>2, <2>3, <2>4, <2>5 DEF GrantInv
<1>4. CASE CheckLineage(g) \/ CheckTask(g) \/ MintDies(g)
  <2>1. /\ grant' = grant /\ mint[g] # "idle"
        /\ \A h \in Grants : h # g => mint'[h] = mint[h]
        /\ mint'[g] = "refused" \/ (/\ mint[g] \in {"check lineage", "check task"}
                                    /\ mint'[g] \in {"check task", "reject", "reject closed", "handed out"})
    BY <1>0, <1>4, Types DEF CheckLineage, CheckTask, MintDies, MintStep
  <2>2. ByMint' /\ ParentsFirst'
    BY <2>1 DEF GrantInv, ByMint, ParentsFirst
  <2> QED
    BY <1>f, <2>1, <2>2
<1> QED
  BY <1>1, <1>2, <1>3, <1>4

(* A row that is ended keeps its birth and its epoch.                        *)
LEMMA EndKeeps ==
  ASSUME GrantInv, GTypeOK', UNCHANGED <<avars, mint>>, GatheredBorn', HooksPast',
         \A h \in Grants : /\ grant'[h].born = grant[h].born /\ grant'[h].epoch = grant[h].epoch
                           /\ grant[h].ended # "no" \/ ~grant[h].born => grant'[h].ended = grant[h].ended
  PROVE  GrantInv' /\ Lasting
<1>1. epoch' = epoch /\ open' = open /\ epoch <= epoch' /\ mint' = mint
  BY Types DEF GrantInv, avars
<1>2. Lasting
  BY <1>1, Zenon DEF Lasting
<1>3. Dates' /\ ByMint'
  BY <1>1 DEF GrantInv, Dates, ByMint
<1>4. ParentsFirst'
  BY <1>1, LineageOfParent DEF GrantInv, ParentsFirst
<1>5. OpenAtEpoch'
  BY <1>1, GrantConstants DEF GrantInv, OpenAtEpoch
<1> QED
  BY <1>2, <1>3, <1>4, <1>5 DEF GrantInv

(* The steps of a revocation.                                                *)
LEMMA RevokeKeeps ==
  ASSUME GrantInv, NEW k \in Revokers,
         Gather(k) \/ \E g \in Grants : Revoke(k, g) \/ WriteRevoked(k, g)
  PROVE  GrantInv' /\ Lasting
<1>0. GTypeOK /\ GTypeOK'
  BY RevokeTyped DEF GrantInv
<1>a. UNCHANGED <<avars, mint, hook>>
  BY DEF Gather, Revoke, WriteRevoked
<1>b. HooksPast'
  BY <1>a DEF GrantInv, HooksPast, avars
<1>c. \A j \in Revokers : revoke[j].ids \subseteq Grants
  BY <1>0 DEF GTypeOK
<1>1. CASE Gather(k)
  <2>1. revoke' = [revoke EXCEPT ![k] = Gathered(k)] /\ grant' = grant
    BY <1>1 DEF Gather
  <2>2. \A g \in Gathered(k).ids : grant[g].born
    <3>1. revoke[k] \in [pc : {"idle", "gather", "write", "done"},
                        ids : SUBSET Grants, frontier : SUBSET Grants]
      BY <1>0 DEF GTypeOK
    <3>2. Gathered(k).ids \subseteq revoke[k].ids \cup Children(k)
      BY <3>1 DEF Gathered
    <3> QED
      BY <3>2 DEF GrantInv, GatheredBorn, Children
  <2>3. GatheredBorn'
    BY <1>0, <2>1, <2>2, Types DEF GrantInv, GatheredBorn
  <2> QED
    BY <1>0, <1>a, <1>b, <2>1, <2>3, EndKeeps
<1>2. ASSUME NEW g \in Grants, Revoke(k, g) PROVE GrantInv' /\ Lasting
  <2>1. /\ grant' = grant /\ grant[g].born
        /\ revoke' = [revoke EXCEPT ![k] = [pc |-> "gather", ids |-> {g}, frontier |-> {g}]]
    BY <1>2 DEF Revoke
  <2>2. GatheredBorn'
    BY <1>0, <2>1, Types DEF GrantInv, GatheredBorn
  <2> QED
    BY <1>0, <1>a, <1>b, <2>1, <2>2, EndKeeps
<1>3. ASSUME NEW g \in Grants, WriteRevoked(k, g) PROVE GrantInv' /\ Lasting
  <2>1. /\ revoke' = [revoke EXCEPT ![k] = Unwritten(k, g)] /\ grant[g].born
        /\ grant' = [grant EXCEPT ![g].ended = IF grant[g].ended = "no" THEN "revoked" ELSE grant[g].ended]
    BY <1>3 DEF WriteRevoked, GrantInv, GatheredBorn
  <2>2. \A h \in Grants : /\ grant'[h].born = grant[h].born /\ grant'[h].epoch = grant[h].epoch
                          /\ grant[h].ended # "no" \/ ~grant[h].born => grant'[h].ended = grant[h].ended
    BY <1>0, <2>1, Types DEF Grant
  <2>3. Unwritten(k, g).ids \subseteq revoke[k].ids
    <3>1. revoke[k] \in [pc : {"idle", "gather", "write", "done"},
                        ids : SUBSET Grants, frontier : SUBSET Grants]
      BY <1>0 DEF GTypeOK
    <3> QED
      BY <3>1 DEF Unwritten, Idle
  <2>4. GatheredBorn'
    BY <1>0, <1>c, <2>1, <2>2, <2>3, Types DEF GrantInv, GatheredBorn
  <2> QED
    BY <1>0, <1>a, <1>b, <2>2, <2>4, EndKeeps
<1> QED
  BY <1>1, <1>2, <1>3

(* The steps of the hook of a close.                                         *)
LEMMA HookKeeps ==
  ASSUME GrantInv, NEW e \in 1 .. MaxCloses,
         \/ HookFind(e) \/ HookEnds(e) \/ HookDies(e)
         \/ \E g \in Grants : HookWrite(e, g) \/ HookWriteFails(e, g)
  PROVE  GrantInv' /\ Lasting
<1>0. GTypeOK /\ GTypeOK'
  BY HookTyped DEF GrantInv
<1>a. UNCHANGED <<avars, mint, revoke>>
  BY DEF HookFind, HookEnds, HookDies, HookWrite, HookWriteFails
<1>b. hook[e].pc # "none"
  BY DEF HookFind, HookEnds, HookDies, HookWrite, HookWriteFails
<1> DEFINE HookKept == /\ \A f \in 1 .. MaxCloses : f # e => hook'[f] = hook[f]
                       /\ hook'[e].pc # "none"
<1>c. HookKept
  <2>0. hook[e] \in [pc : {"none", "find", "write", "recorded", "dead"},
                    found : SUBSET Grants, moved : SUBSET Grants]
    BY <1>0 DEF GTypeOK
  <2>1. CASE HookFind(e)
    BY <1>0, <2>0, <2>1, Types DEF HookFind
  <2>2. CASE HookEnds(e) \/ HookDies(e)
    BY <1>0, <2>0, <2>2, Types DEF HookEnds, HookDies
  <2>3. ASSUME NEW g \in Grants, HookWrite(e, g) PROVE  HookKept
    BY <1>0, <1>b, <2>0, <2>3, Types DEF HookWrite
  <2>4. ASSUME NEW g \in Grants, HookWriteFails(e, g) PROVE  HookKept
    BY <1>0, <1>b, <2>0, <2>4, Types DEF HookWriteFails
  <2> QED
    BY <2>1, <2>2, <2>3, <2>4
<1>d. HooksPast'
  BY <1>a, <1>b, <1>c DEF GrantInv, HooksPast, avars
<1> DEFINE RowKept(h) == /\ grant'[h].born = grant[h].born /\ grant'[h].epoch = grant[h].epoch
                         /\ grant[h].ended # "no" \/ ~grant[h].born => grant'[h].ended = grant[h].ended
<1>e. \A h \in Grants : RowKept(h)
  <2>1. CASE grant' = grant
    BY <2>1
  <2>2. ASSUME NEW g \in Grants, grant' = [grant EXCEPT ![g].ended = "task.done"], EndedBy(g, e),
               NEW h \in Grants
        PROVE  RowKept(h)
    <3>1. grant[g].born /\ grant[g].ended = "no"
      BY <2>2 DEF EndedBy, Alive
    <3>2. CASE h = g
      BY <1>0, <2>2, <3>1, <3>2, Types DEF Grant
    <3>3. CASE h # g
      BY <1>0, <2>2, <3>3, Types
    <3> QED
      BY <3>2, <3>3
  <2>3. grant' = grant \/ \E g \in Grants : EndedBy(g, e) /\ grant' = [grant EXCEPT ![g].ended = "task.done"]
    BY DEF HookFind, HookEnds, HookDies, HookWrite, HookWriteFails
  <2> QED
    BY <2>1, <2>2, <2>3
<1>f. GatheredBorn'
  <2>1. \A j \in Revokers : revoke[j].ids \subseteq Grants
    BY <1>0 DEF GTypeOK
  <2> QED
    BY <1>a, <1>e, <2>1 DEF GrantInv, GatheredBorn
<1> QED
  BY <1>0, <1>a, <1>d, <1>e, <1>f, EndKeeps

(* The steps of a call.                                                      *)
LEMMA CallKeeps ==
  ASSUME GrantInv, NEW c \in Calls,
         \/ \E g \in Grants, s \in Seats : LoadGrant(c, g, s)
         \/ CallChecksLineage(c) \/ CallChecksTask(c) \/ CallChecksClaim(c) \/ CallEnds(c)
  PROVE  /\ GrantInv' /\ Lasting
         /\ UNCHANGED <<avars, grant, mint, revoke, hook, trouble>>
<1>1. UNCHANGED <<avars, grant, mint, revoke, hook, trouble>>
  BY DEF LoadGrant, CallChecksLineage, CallChecksTask, CallChecksClaim, CallEnds
<1>2. GTypeOK'
  BY CallTyped DEF GrantInv
<1>3. GatheredBorn' /\ HooksPast'
  BY <1>1 DEF GrantInv, GatheredBorn, HooksPast, avars
<1> QED
  BY <1>1, <1>2, <1>3, EndKeeps

LEMMA StutterKeeps == GrantInv /\ UNCHANGED vars => GrantInv' /\ Lasting
<1> SUFFICES ASSUME GrantInv, UNCHANGED vars PROVE GrantInv' /\ Lasting
  OBVIOUS
<1>1. UNCHANGED <<avars, grant, mint, revoke, hook>>
  BY DEF vars, gvars
<1>2. GTypeOK'
  BY StepTyped DEF GrantInv
<1>3. GatheredBorn' /\ HooksPast'
  BY <1>1 DEF GrantInv, GatheredBorn, HooksPast, avars
<1> QED
  BY <1>1, <1>2, <1>3, EndKeeps

LEMMA StepGrantInv == GrantInv /\ [GNext]_vars => GrantInv' /\ Lasting
  BY TaskKeeps, MintKeeps, RevokeKeeps, HookKeeps, CallKeeps, StutterKeeps DEF GNext

-------------------------------------------------------------------------------
(* A grant of the lineage is of an epoch that is closed.                     *)
Cause(g) == \E h \in Lineage[g] : h \in Bound /\ grant[h].born /\ grant[h].epoch < epoch

LEMMA CauseLasts ==
  ASSUME GrantInv, GrantInv', Lasting, NEW g \in Grants, Cause(g)
  PROVE  Cause(g)'
<1>1. PICK h \in Lineage[g] : h \in Bound /\ grant[h].born /\ grant[h].epoch < epoch
  BY DEF Cause
<1>2. h \in Grants
  BY LineageHolds
<1>3. grant'[h].born /\ grant'[h].epoch = grant[h].epoch /\ epoch <= epoch'
  BY <1>1, <1>2 DEF Lasting
<1>4. epoch \in Nat /\ epoch' \in Nat /\ grant[h].epoch \in Nat
  BY <1>2, Types, GrantConstants DEF GrantInv, GTypeOK, Epochs
<1> QED
  BY <1>1, <1>3, <1>4 DEF Cause

(* A grant that is there and whose task is not open to it is of an epoch     *)
(* that is closed, and so are its children.                                  *)
LEMMA ClosedIsCause ==
  ASSUME GrantInv, NEW g \in Grants, grant[g].born, ~TaskOpen(g)
  PROVE  g \in Bound /\ grant[g].epoch < epoch
<1>1. g \in Bound /\ (open => epoch # grant[g].epoch)
  BY DEF TaskOpen
<1>2. grant[g].epoch <= epoch /\ grant[g].epoch # epoch
  BY <1>1 DEF GrantInv, Dates, OpenAtEpoch
<1> QED
  BY <1>1, <1>2, Types DEF GrantInv

ForCause ==
    \A g \in Grants : mint[g] = "reject closed" \/ grant[g].ended = "task.done" => Cause(g)

LEMMA StepForCause ==
  ASSUME GrantInv, GrantInv', Lasting, ForCause, [GNext]_vars
  PROVE  ForCause'
<1>0. GTypeOK
  BY DEF GrantInv
<1>a. ASSUME \A h \in Grants : /\ mint'[h] = "reject closed" => mint[h] = "reject closed" \/ Cause(h)
                               /\ grant'[h].ended = "task.done" => grant[h].ended = "task.done" \/ Cause(h)
      PROVE  ForCause'
  <2> SUFFICES ASSUME NEW h \in Grants, mint'[h] = "reject closed" \/ grant'[h].ended = "task.done"
               PROVE  Cause(h)'
    BY DEF ForCause
  <2>1. mint[h] = "reject closed" \/ grant[h].ended = "task.done" => Cause(h)
    BY DEF ForCause
  <2>2. Cause(h)
    BY <1>a, <2>1, Zenon
  <2> QED
    BY <2>2, CauseLasts
<1>1. ASSUME UNCHANGED <<grant, mint>> PROVE ForCause'
  BY <1>1, <1>a
<1>2. ASSUME NEW g \in Grants, AskForGrant(g) \/ ReadEpoch(g) \/ InsertGrant(g) \/ MintDies(g)
      PROVE  ForCause'
  <2>1. /\ \A h \in Grants : mint'[h] = "reject closed" => mint[h] = "reject closed"
        /\ \A h \in Grants : grant'[h].ended = grant[h].ended
    <3>1. CASE AskForGrant(g) \/ MintDies(g)
      BY <1>0, <3>1, Types DEF AskForGrant, MintDies, MintStep
    <3>2. CASE ReadEpoch(g)
      <4>1. grant' = grant \/ grant' = [grant EXCEPT ![g].epoch = EpochOf(g)]
        BY <3>2 DEF ReadEpoch
      <4>2. \A h \in Grants : grant'[h].ended = grant[h].ended
        BY <1>0, <4>1, Types DEF Grant
      <4>3. mint' = [mint EXCEPT ![g] = "refused"] \/ mint' = [mint EXCEPT ![g] = "insert"]
        BY <3>2 DEF ReadEpoch, MintStep
      <4> QED
        BY <1>0, <4>2, <4>3, Types
    <3>3. CASE InsertGrant(g)
      BY <1>0, <3>3, Types DEF InsertGrant, MintStep, Grant
    <3> QED
      BY <1>2, <3>1, <3>2, <3>3
  <2> QED
    BY <1>a, <2>1
<1>3. ASSUME NEW g \in Grants, CheckLineage(g) PROVE ForCause'
  <2>1. grant' = grant /\ \A h \in Grants : h # g => mint'[h] = mint[h]
    BY <1>0, <1>3, Types DEF CheckLineage, MintStep
  <2>2. ASSUME mint'[g] = "reject closed" PROVE Cause(g)
    <3>1. LineageActive(Parent[g]) /\ ~TaskOpen(Parent[g])
      BY <1>0, <1>3, <2>2, Types DEF CheckLineage, MintStep
    <3>2. CASE Parent[g] # NoGrant
      <4>1. Parent[g] \in Grants /\ Parent[g] \in Lineage[g]
        BY <3>2, LineageOfParent, LineageHolds
      <4>2. grant[Parent[g]].born
        BY <3>1, <4>1 DEF LineageActive, Alive
      <4> QED
        BY <3>1, <4>1, <4>2, ClosedIsCause DEF Cause
    <3>3. CASE Parent[g] = NoGrant
      BY <3>1, <3>3, GrantConstants DEF TaskOpen
    <3> QED
      BY <3>2, <3>3
  <2> QED
    BY <1>a, <2>1, <2>2
<1>4. ASSUME NEW g \in Grants, CheckTask(g) PROVE ForCause'
  <2>1. grant' = grant /\ \A h \in Grants : h # g => mint'[h] = mint[h]
    BY <1>0, <1>4, Types DEF CheckTask, MintStep
  <2>2. ASSUME mint'[g] = "reject closed" PROVE Cause(g)
    <3>1. ~TaskOpen(g) /\ grant[g].born
      BY <1>0, <1>4, <2>2, Types DEF CheckTask, MintStep, GrantInv, ByMint
    <3> QED
      BY <3>1, ClosedIsCause, LineageHolds DEF Cause
  <2> QED
    BY <1>a, <2>1, <2>2
<1>5. ASSUME NEW g \in Grants, RejectGrant(g) PROVE ForCause'
  <2>1. \A h \in Grants : h # g => mint'[h] = mint[h] /\ grant'[h] = grant[h]
    BY <1>0, <1>5, Types DEF RejectGrant, MintStep
  <2>2. mint'[g] = "refused"
    BY <1>0, <1>5, Types DEF RejectGrant, MintStep
  <2>3. grant'[g].ended = "task.done" => grant[g].ended = "task.done" \/ mint[g] = "reject closed"
    BY <1>0, <1>5, Types DEF RejectGrant, Grant
  <2> QED
    BY <1>a, <2>1, <2>2, <2>3 DEF ForCause
<1>6. ASSUME NEW k \in Revokers, NEW g \in Grants, WriteRevoked(k, g) PROVE ForCause'
  <2>1. \A h \in Grants : grant'[h].ended = "task.done" => grant[h].ended = "task.done"
    BY <1>0, <1>6, Types DEF WriteRevoked, Grant
  <2> QED
    BY <1>6, <1>a, <2>1 DEF WriteRevoked
<1>7. ASSUME NEW e \in 1 .. MaxCloses, NEW g \in Grants, HookWrite(e, g) PROVE ForCause'
  <2>1. CASE EndedBy(g, e)
    <3>1. hook[e].pc # "none" /\ e <= epoch
      BY <1>7 DEF HookWrite, GrantInv, HooksPast
    <3>2. g \in Bound /\ grant[g].born /\ grant[g].epoch < epoch
      BY <1>0, <2>1, <3>1, Types DEF EndedBy, Alive
    <3>3. Cause(g)
      BY <3>2, LineageHolds DEF Cause
    <3>4. \A h \in Grants : h # g => grant'[h] = grant[h]
      BY <1>0, <1>7, Types DEF HookWrite
    <3> QED
      BY <1>7, <1>a, <3>3, <3>4 DEF HookWrite
  <2>2. CASE ~EndedBy(g, e)
    BY <1>1, <1>7, <2>2 DEF HookWrite
  <2> QED
    BY <2>1, <2>2
<1>8. ASSUME Task PROVE ForCause'
  BY <1>1, <1>8 DEF Task
<1>9. ASSUME NEW k \in Revokers, Gather(k) \/ \E g \in Grants : Revoke(k, g) PROVE ForCause'
  BY <1>1, <1>9 DEF Gather, Revoke
<1>10. ASSUME NEW e \in 1 .. MaxCloses,
              HookFind(e) \/ HookEnds(e) \/ HookDies(e) \/ \E g \in Grants : HookWriteFails(e, g)
       PROVE  ForCause'
  BY <1>1, <1>10 DEF HookFind, HookEnds, HookDies, HookWriteFails
<1>11. ASSUME NEW c \in Calls,
              \/ \E g \in Grants, s \in Seats : LoadGrant(c, g, s)
              \/ CallChecksLineage(c) \/ CallChecksTask(c) \/ CallChecksClaim(c) \/ CallEnds(c)
       PROVE  ForCause'
  BY <1>1, <1>11, CallKeeps
<1>12. CASE UNCHANGED vars
  BY <1>1, <1>12 DEF vars, gvars
<1> QED
  BY <1>2, <1>3, <1>4, <1>5, <1>6, <1>7, <1>8, <1>9, <1>10, <1>11, <1>12 DEF GNext

(* A close ends the grants of before it and no others: a hook that comes     *)
(* after the task was reopened, or a mint that finds it closed, names no     *)
(* grant of the present epoch.                                               *)
THEOREM OldClosesSpareNew == GSpec => []OldCloseSparesNew
<1>1. GInit => ForCause
  BY DEF GInit, ForCause
<1>2. ForCause => OldCloseSparesNew
  BY DEF ForCause, Cause, OldCloseSparesNew
<1> QED
  BY InitGrantInv, StepGrantInv, StepForCause, <1>1, <1>2, PTL DEF GSpec

-------------------------------------------------------------------------------
(* A row is there only after all it descends from.                           *)
LEMMA BornLineage ==
  ASSUME GrantInv, NEW g \in Grants, grant[g].born
  PROVE  \A h \in Lineage[g] : h \in Grants /\ grant[h].born
<1> DEFINE Born == {h \in Grants : grant[h].born}
<1>1. Upward(Born)
  <2> SUFFICES ASSUME NEW h \in Born, Parent[h] # NoGrant PROVE Parent[h] \in Born
    BY DEF Upward
  <2>1. Parent[h] \in Grants
    BY LineageOfParent
  <2>2. mint[h] # "idle"
    BY DEF GrantInv, ByMint
  <2> QED
    BY <2>1, <2>2 DEF GrantInv, ParentsFirst
<1>2. Lineage[g] \subseteq Born
  BY <1>1, LineageWithin
<1> QED
  BY <1>2

(* Something that g descends from has ended.                                 *)
EndedAbove(g) == \E h \in Lineage[g] \ {g} : grant[h].ended # "no"

(* What a call that is barred has yet to meet.                               *)
Barrier ==
    \A c \in Calls :
        /\ call[c].pc # "idle" => call[c].grant \in Grants
        /\ call[c].barred /\ call[c].pc = "lineage" =>
              EndedAbove(call[c].grant) \/ Cause(call[c].grant)
        /\ call[c].barred /\ call[c].pc = "open" => Cause(call[c].grant)
        /\ call[c].barred => call[c].pc \notin {"claim", "runs"}

LEMMA StepBarrier ==
  ASSUME GrantInv, GrantInv', Lasting, Barrier, [GNext]_vars
  PROVE  Barrier'
<1>0. GTypeOK
  BY DEF GrantInv
<1> DEFINE Meets(c) ==
        /\ call[c].pc # "idle" => call[c].grant \in Grants
        /\ call[c].barred /\ call[c].pc = "lineage" =>
              EndedAbove(call[c].grant) \/ Cause(call[c].grant)
        /\ call[c].barred /\ call[c].pc = "open" => Cause(call[c].grant)
        /\ call[c].barred => call[c].pc \notin {"claim", "runs"}
<1>a. ASSUME NEW g \in Grants, EndedAbove(g) PROVE EndedAbove(g)'
  BY <1>a, LineageHolds DEF EndedAbove, Lasting
<1>b. ASSUME NEW c \in Calls, call'[c] = call[c] PROVE Meets(c)'
  <2>1. Meets(c)
    BY DEF Barrier
  <2>2. call[c].pc # "idle" => call[c].grant \in Grants
    BY <2>1
  <2>3. call[c].pc = "idle" => call[c].pc \notin {"lineage", "open", "claim", "runs"}
    OBVIOUS
  <2>4. CASE call[c].pc = "idle"
    BY <1>b, <2>3, <2>4
  <2>5. CASE call[c].grant \in Grants
    <3>1. EndedAbove(call[c].grant) => EndedAbove(call[c].grant)'
      BY <1>b, <2>5, LineageHolds DEF EndedAbove, Lasting
    <3>2. Cause(call[c].grant) => Cause(call[c].grant)'
      <4> DEFINE g == call[c].grant
      <4> SUFFICES ASSUME Cause(g) PROVE Cause(g)'
        OBVIOUS
      <4>1. PICK h \in Lineage[g] : h \in Bound /\ grant[h].born /\ grant[h].epoch < epoch
        BY DEF Cause
      <4>2. h \in Grants
        BY <2>5, LineageHolds
      <4>3. grant'[h].born /\ grant'[h].epoch = grant[h].epoch /\ epoch <= epoch'
        BY <4>1, <4>2 DEF Lasting
      <4>4. epoch \in Nat /\ epoch' \in Nat /\ grant[h].epoch \in Nat
        BY <4>2, Types, GrantConstants DEF GrantInv, GTypeOK, Epochs
      <4>5. g' = g
        BY <1>b
      <4>6. grant'[h].epoch < epoch'
        BY <4>1, <4>3, <4>4
      <4> QED
        BY <4>1, <4>3, <4>5, <4>6 DEF Cause
    <3> QED
      BY <1>b, <2>1, <3>1, <3>2
  <2> QED
    BY <2>2, <2>4, <2>5
<1>c. ASSUME NEW c \in Calls, Meets(c)', \A d \in Calls : d # c => call'[d] = call[d]
      PROVE  Barrier'
  <2>1. \A d \in Calls : Meets(d)'
    BY <1>b, <1>c
  <2> QED
    BY <2>1 DEF Barrier
<1>d. ASSUME call' = call PROVE Barrier'
  BY <1>b, <1>d DEF Barrier
<1>1. ASSUME NEW c \in Calls, NEW g \in Grants, NEW s \in Seats, LoadGrant(c, g, s) PROVE Barrier'
  <2>1. call' = [call EXCEPT ![c] = [pc |-> "lineage", grant |-> g, seat |-> s, barred |-> Over(g)]]
        /\ grant' = grant /\ epoch' = epoch /\ grant[g].born
        /\ grant[g].ended = "no"
    BY <1>1 DEF LoadGrant, avars, Alive
  <2>2. ASSUME Over(g) PROVE EndedAbove(g) \/ Cause(g)
    <3>1. PICK h \in Lineage[g] : grant[h].ended # "no" \/ (h \in Bound /\ epoch # grant[h].epoch)
      BY <2>2 DEF Over
    <3>2. h \in Grants /\ grant[h].born /\ grant[h].epoch <= epoch
      BY <2>1, BornLineage DEF GrantInv, Dates
    <3>3. epoch # grant[h].epoch => grant[h].epoch < epoch
      BY <1>0, <3>2, Types
    <3> QED
      BY <2>1, <3>1, <3>2, <3>3 DEF EndedAbove, Cause
  <2>3. EndedAbove(g) => EndedAbove(g)'
    BY <2>1 DEF EndedAbove
  <2>4. Cause(g) => Cause(g)'
    BY <2>1 DEF Cause
  <2>5. call'[c].pc = "lineage" /\ call'[c].grant = g /\ call'[c].barred = Over(g)
    BY <1>0, <2>1, Types
  <2>6. Meets(c)'
    BY <2>2, <2>3, <2>4, <2>5
  <2> QED
    BY <1>0, <1>c, <2>1, <2>6, Types
<1>2. ASSUME NEW c \in Calls, CallChecksLineage(c) PROVE Barrier'
  <2> DEFINE g == call[c].grant
  <2>0. grant' = grant /\ epoch' = epoch /\ g \in Grants /\ call[c].pc = "lineage"
    BY <1>2 DEF CallChecksLineage, avars, Barrier
  <2>1. CASE ParentsActive(g)
    <3>1. call' = [call EXCEPT ![c].pc = "open"]
      BY <1>2, <2>1 DEF CallChecksLineage, Pass1
    <3>2. call'[c].pc = "open" /\ call'[c].grant = g /\ call'[c].barred = call[c].barred
      BY <1>0, <3>1, Types DEF GTypeOK
    <3>3. ~EndedAbove(g)
      BY <2>1 DEF ParentsActive, EndedAbove, Alive
    <3>4. call[c].barred => Cause(g)
      BY <2>0, <3>3 DEF Barrier
    <3>5. Cause(g) => Cause(g)'
      BY <2>0, <3>2 DEF Cause
    <3>6. Meets(c)'
      BY <2>0, <3>2, <3>4, <3>5
    <3> QED
      BY <1>0, <1>c, <3>1, <3>6, Types
  <2>2. CASE ~ParentsActive(g)
    <3>1. call' = [call EXCEPT ![c] = NoCall]
      BY <1>2, <2>2 DEF CallChecksLineage, Pass1
    <3>2. Meets(c)'
      BY <1>0, <3>1, Types DEF NoCall
    <3> QED
      BY <1>0, <1>c, <3>1, <3>2, Types
  <2> QED
    BY <2>1, <2>2
<1>3. ASSUME NEW c \in Calls, CallChecksTask(c) PROVE Barrier'
  <2> DEFINE g == call[c].grant
  <2>0. g \in Grants /\ call[c].pc = "open"
    BY <1>3 DEF CallChecksTask, Barrier
  <2>1. CASE \A h \in Lineage[g] : TaskOpen(h)
    <3>1. call' = [call EXCEPT ![c].pc = "claim"]
      BY <1>3, <2>1 DEF CallChecksTask, Pass1
    <3>2. call'[c].pc = "claim" /\ call'[c].grant = g /\ call'[c].barred = call[c].barred
      BY <1>0, <3>1, Types DEF GTypeOK
    <3>3. ~Cause(g)
      <4> SUFFICES ASSUME NEW h \in Lineage[g], h \in Bound, grant[h].epoch < epoch PROVE FALSE
        BY DEF Cause
      <4>1. epoch = grant[h].epoch
        BY <2>1 DEF TaskOpen
      <4> QED
        BY <1>0, <4>1, Types
    <3>4. ~call[c].barred
      BY <2>0, <3>3 DEF Barrier
    <3>5. Meets(c)'
      BY <2>0, <3>2, <3>4
    <3> QED
      BY <1>0, <1>c, <3>1, <3>5, Types
  <2>2. CASE ~\A h \in Lineage[g] : TaskOpen(h)
    <3>1. call' = [call EXCEPT ![c] = NoCall]
      BY <1>3, <2>2 DEF CallChecksTask, Pass1
    <3>2. Meets(c)'
      BY <1>0, <3>1, Types DEF NoCall
    <3> QED
      BY <1>0, <1>c, <3>1, <3>2, Types
  <2> QED
    BY <2>1, <2>2
<1>4. ASSUME NEW c \in Calls, CallChecksClaim(c) \/ CallEnds(c) PROVE Barrier'
  <2>1. /\ call' = [call EXCEPT ![c].pc = "runs"] \/ call' = [call EXCEPT ![c] = NoCall]
        /\ call[c].pc \in {"claim", "runs"}
    BY <1>4 DEF CallChecksClaim, CallEnds, Pass1
  <2>2. ~call[c].barred /\ call[c].grant \in Grants
    BY <2>1 DEF Barrier
  <2>3. Meets(c)'
    BY <1>0, <2>1, <2>2, Types DEF GTypeOK, NoCall
  <2> QED
    BY <1>0, <1>c, <2>1, <2>3, Types
<1>5. ASSUME Task PROVE Barrier'
  BY <1>5, <1>d DEF Task
<1>6. ASSUME NEW g \in Grants,
             \/ AskForGrant(g) \/ ReadEpoch(g) \/ InsertGrant(g) \/ CheckLineage(g)
             \/ CheckTask(g) \/ RejectGrant(g) \/ MintDies(g)
      PROVE  Barrier'
  BY <1>6, <1>d DEF AskForGrant, ReadEpoch, InsertGrant, CheckLineage, CheckTask, RejectGrant, MintDies
<1>7. ASSUME NEW k \in Revokers, Gather(k) \/ \E g \in Grants : Revoke(k, g) \/ WriteRevoked(k, g)
      PROVE  Barrier'
  BY <1>7, <1>d DEF Gather, Revoke, WriteRevoked
<1>8. ASSUME NEW e \in 1 .. MaxCloses,
             \/ HookFind(e) \/ HookEnds(e) \/ HookDies(e)
             \/ \E g \in Grants : HookWrite(e, g) \/ HookWriteFails(e, g)
      PROVE  Barrier'
  BY <1>8, <1>d DEF HookFind, HookEnds, HookDies, HookWrite, HookWriteFails
<1>9. CASE UNCHANGED vars
  BY <1>9, <1>d DEF vars, gvars
<1> QED
  BY <1>1, <1>2, <1>3, <1>4, <1>5, <1>6, <1>7, <1>8, <1>9 DEF GNext

(* A call that began after something its grant needs had ended does not run: *)
(* whichever of the checks it meets first, and whatever is revoked, closed,  *)
(* reopened or granted while it checks.                                      *)
THEOREM EndedIsAlwaysRefused == GSpec => []EndedIsRefused
<1>1. GInit => Barrier
  BY DEF GInit, NoCall, Barrier
<1>2. Barrier => EndedIsRefused
  BY DEF Barrier, EndedIsRefused
<1> QED
  BY InitGrantInv, StepGrantInv, StepBarrier, <1>1, <1>2, PTL DEF GSpec

-------------------------------------------------------------------------------
(* A bound grant of before the last close that is still alive is under way   *)
(* to its end, by its own mint or by the hook of that close, or something    *)
(* failed.                                                                   *)
Left(g) == g \in Bound /\ Alive(g) /\ grant[g].epoch < epoch

Pursued(g) ==
    \/ trouble > 0
    \/ mint[g] \in {"check lineage", "check task", "reject", "reject closed"}
    \/ epoch \in 1 .. MaxCloses /\ hook[epoch].pc = "find"
    \/ epoch \in 1 .. MaxCloses /\ hook[epoch].pc = "write" /\ g \in hook[epoch].found

LeftInv == \A g \in Grants : Left(g) => Pursued(g)

LEMMA StepLeft ==
  ASSUME GrantInv, GrantInv', LeftInv, [GNext]_vars
  PROVE  LeftInv'
<1>0. GTypeOK /\ GTypeOK' /\ trouble \in Nat
  BY GrantConstants DEF GrantInv, GTypeOK
<1>a. ASSUME trouble' > 0 PROVE LeftInv'
  BY <1>a DEF LeftInv, Pursued
<1>b. ASSUME Trouble PROVE LeftInv'
  BY <1>0, <1>a, <1>b DEF Trouble
(* What stays alive stays pursued when the requests and the hooks do not move. *)
<1>c. ASSUME UNCHANGED <<avars, hook, trouble>>,
             NEW g \in Grants,
             Left(g)' => \/ Left(g) /\ mint'[g] = mint[g]
                         \/ mint'[g] \in {"check lineage", "check task", "reject", "reject closed"}
      PROVE  (Left(g) => Pursued(g))'
  BY <1>c DEF LeftInv, Pursued, avars
<1>1. CASE Task
  <2>1. UNCHANGED <<grant, mint, trouble>>
    BY <1>0, <1>1, TaskMoves
  <2>2. CASE epoch' = epoch /\ hook' = hook
    BY <2>1, <2>2 DEF LeftInv, Left, Alive, Pursued
  <2>3. CASE epoch' = epoch + 1 /\ hook' = [hook EXCEPT ![epoch + 1].pc = "find"]
    <3>1. epoch + 1 \in 1 .. MaxCloses
      BY <1>0, <2>3, Types, GrantConstants DEF GTypeOK, Epochs
    <3>2. hook'[epoch'].pc = "find"
      BY <1>0, <2>3, <3>1, Types DEF GTypeOK
    <3> QED
      BY <2>3, <3>1, <3>2 DEF LeftInv, Pursued
  <2> QED
    BY <1>0, <1>1, <2>2, <2>3, TaskMoves
<1>2. ASSUME NEW g \in Grants, AskForGrant(g) \/ ReadEpoch(g) PROVE LeftInv'
  <2>1. UNCHANGED <<avars, hook, trouble>>
    BY <1>2 DEF AskForGrant, ReadEpoch
  <2>2. ~grant'[g].born
    BY <1>0, <1>2, Types DEF AskForGrant, ReadEpoch, MintStep, GrantInv, ByMint, Grant
  <2>3. \A h \in Grants : h # g => grant'[h] = grant[h] /\ mint'[h] = mint[h]
    BY <1>0, <1>2, Types DEF AskForGrant, ReadEpoch, MintStep
  <2> QED
    BY <1>c, <2>1, <2>2, <2>3 DEF LeftInv, Left, Alive, avars
<1>3. ASSUME NEW g \in Grants, InsertGrant(g) PROVE LeftInv'
  <2>1. UNCHANGED <<avars, hook, trouble>>
    BY <1>3 DEF InsertGrant
  <2>2. g \in Bound => mint'[g] \in {"check lineage", "check task"}
    BY <1>0, <1>3, Types DEF InsertGrant, MintStep
  <2>3. \A h \in Grants : h # g => grant'[h] = grant[h] /\ mint'[h] = mint[h]
    BY <1>0, <1>3, Types DEF InsertGrant, MintStep
  <2> QED
    BY <1>c, <2>1, <2>2, <2>3 DEF LeftInv, Left, Alive, avars
<1>4. ASSUME NEW g \in Grants, CheckLineage(g) PROVE LeftInv'
  <2>1. UNCHANGED <<avars, grant, hook, trouble>>
    BY <1>4 DEF CheckLineage
  <2>2. g \in Bound => mint'[g] \in {"check task", "reject", "reject closed"}
    BY <1>0, <1>4, Types DEF CheckLineage, MintStep
  <2>3. \A h \in Grants : h # g => mint'[h] = mint[h]
    BY <1>0, <1>4, Types DEF CheckLineage, MintStep
  <2> QED
    BY <1>c, <2>1, <2>2, <2>3 DEF LeftInv, Left, Alive, avars
<1>5. ASSUME NEW g \in Grants, CheckTask(g) PROVE LeftInv'
  <2>1. UNCHANGED <<avars, grant, hook, trouble>>
    BY <1>5 DEF CheckTask
  <2>2. Left(g) => mint'[g] = "reject closed"
    <3>1. Left(g) => ~TaskOpen(g)
      BY <1>0, Types DEF Left, TaskOpen
    <3> QED
      BY <1>0, <1>5, <3>1, Types DEF CheckTask, MintStep
  <2>3. \A h \in Grants : h # g => mint'[h] = mint[h]
    BY <1>0, <1>5, Types DEF CheckTask, MintStep
  <2> QED
    BY <1>c, <2>1, <2>2, <2>3 DEF LeftInv, Left, Alive, avars
<1>6. ASSUME NEW g \in Grants, RejectGrant(g) PROVE LeftInv'
  <2>1. UNCHANGED <<avars, hook, trouble>>
    BY <1>6 DEF RejectGrant
  <2>2. grant'[g].ended # "no"
    BY <1>0, <1>6, Types DEF RejectGrant, Grant
  <2>3. \A h \in Grants : h # g => grant'[h] = grant[h] /\ mint'[h] = mint[h]
    BY <1>0, <1>6, Types DEF RejectGrant, MintStep
  <2> QED
    BY <1>c, <2>1, <2>2, <2>3 DEF LeftInv, Left, Alive, avars
<1>7. ASSUME NEW k \in Revokers, Gather(k) \/ \E g \in Grants : Revoke(k, g) PROVE LeftInv'
  BY <1>7 DEF Gather, Revoke, LeftInv, Left, Alive, Pursued, avars
<1>8. ASSUME NEW k \in Revokers, NEW g \in Grants, WriteRevoked(k, g) PROVE LeftInv'
  <2>1. UNCHANGED <<avars, mint, hook, trouble>>
    BY <1>8 DEF WriteRevoked
  <2>2. grant'[g].ended # "no" /\ \A h \in Grants : h # g => grant'[h] = grant[h]
    BY <1>0, <1>8, Types DEF WriteRevoked, Grant
  <2> QED
    BY <1>c, <2>1, <2>2 DEF LeftInv, Left, Alive, avars
<1>9. ASSUME NEW e \in 1 .. MaxCloses, HookFind(e) PROVE LeftInv'
  <2>1. UNCHANGED <<avars, grant, mint, trouble>>
    BY <1>9 DEF HookFind
  <2>2. CASE e = epoch
    <3>a. hook[e] \in [pc : {"none", "find", "write", "recorded", "dead"},
                       found : SUBSET Grants, moved : SUBSET Grants]
      BY <1>0 DEF GTypeOK
    <3>1. hook'[e].pc = "write" /\ hook'[e].found = {g \in Grants : EndedBy(g, e)}
      BY <1>0, <1>9, <3>a, Types DEF HookFind
    <3> QED
      BY <2>1, <2>2, <3>1 DEF LeftInv, Left, Alive, EndedBy, Pursued, avars
  <2>3. CASE e # epoch
    <3>1. epoch \in 1 .. MaxCloses => hook'[epoch] = hook[epoch]
      BY <1>0, <1>9, <2>3, Types DEF HookFind, GTypeOK
    <3> QED
      BY <2>1, <3>1 DEF LeftInv, Left, Alive, Pursued, avars
  <2> QED
    BY <2>2, <2>3
<1>10. ASSUME NEW e \in 1 .. MaxCloses, NEW g \in Grants, HookWrite(e, g) PROVE LeftInv'
  <2>1. UNCHANGED <<avars, mint, trouble>>
    BY <1>10 DEF HookWrite
  <2>2. \A h \in Grants : h # g => grant'[h] = grant[h]
    BY <1>0, <1>10, Types DEF HookWrite
  <2>3. Left(g)' => Left(g) /\ ~EndedBy(g, e)
    <3>1. EndedBy(g, e) => grant'[g].ended # "no"
      BY <1>0, <1>10, Types DEF HookWrite, Grant
    <3> QED
      BY <1>10, <2>1, <3>1 DEF HookWrite, Left, Alive, avars
  <2>4. /\ \A f \in 1 .. MaxCloses : f # e => hook'[f] = hook[f]
        /\ hook'[e].pc = hook[e].pc /\ hook'[e].found = hook[e].found \ {g}
    <3>1. hook[e] \in [pc : {"none", "find", "write", "recorded", "dead"},
                       found : SUBSET Grants, moved : SUBSET Grants]
      BY <1>0 DEF GTypeOK
    <3> QED
      BY <1>0, <1>10, <3>1, Types DEF HookWrite
  <2>5. Left(g) /\ ~EndedBy(g, e) => e # epoch
    BY DEF Left, EndedBy
  <2> QED
    BY <2>1, <2>2, <2>3, <2>4, <2>5 DEF LeftInv, Left, Alive, Pursued, avars
<1>11. ASSUME NEW e \in 1 .. MaxCloses, HookEnds(e) PROVE LeftInv'
  <2>1. UNCHANGED <<avars, grant, mint, trouble>>
    BY <1>11 DEF HookEnds
  <2>2. /\ \A f \in 1 .. MaxCloses : f # e => hook'[f] = hook[f]
        /\ hook[e].pc = "write" /\ hook[e].found = {}
    BY <1>0, <1>11, Types DEF HookEnds
  <2> QED
    BY <2>1, <2>2 DEF LeftInv, Left, Alive, Pursued, avars
<1>12. ASSUME NEW c \in Calls,
              \/ \E g \in Grants, s \in Seats : LoadGrant(c, g, s)
              \/ CallChecksLineage(c) \/ CallChecksTask(c) \/ CallChecksClaim(c) \/ CallEnds(c)
       PROVE  LeftInv'
  BY <1>12, CallKeeps DEF LeftInv, Left, Alive, Pursued, avars
<1>13. CASE UNCHANGED vars
  BY <1>13 DEF vars, gvars, LeftInv, Left, Alive, Pursued, avars
<1>14. ASSUME NEW g \in Grants, MintDies(g) PROVE LeftInv'
  BY <1>14, <1>b DEF MintDies
<1>15. ASSUME NEW e \in 1 .. MaxCloses, HookDies(e) \/ \E g \in Grants : HookWriteFails(e, g)
       PROVE  LeftInv'
  BY <1>15, <1>b DEF HookDies, HookWriteFails
<1> QED
  BY <1>1, <1>2, <1>3, <1>4, <1>5, <1>6, <1>7, <1>8, <1>9, <1>10, <1>11, <1>12, <1>13, <1>14, <1>15
     DEF GNext

(* Between the hook that looks for a closed task's grants and the mint that  *)
(* looks at the task after its insert, one of the two ends every grant of    *)
(* before the close, unless a request died or a write failed.                *)
THEOREM ClosesLeaveNone == GSpec => []ClosedLeavesNone
<1>1. GInit => LeftInv
  BY DEF GInit, LeftInv, Left, Alive
<1>2. ASSUME GrantInv, LeftInv PROVE ClosedLeavesNone
  <2> SUFFICES ASSUME trouble = 0, Settled, NEW g \in Bound, Alive(g), grant[g].epoch # epoch
               PROVE  FALSE
    BY DEF ClosedLeavesNone
  <2>1. g \in Grants /\ DOMAIN hook = 1 .. MaxCloses
    BY <1>2, GrantConstants, Types DEF GrantInv
  <2>2. Left(g)
    BY <1>2, <2>1, Types DEF GrantInv, Dates, Left
  <2>3. Pursued(g)
    BY <1>2, <2>1, <2>2 DEF LeftInv
  <2>4. mint[g] \in {"idle", "handed out", "refused"} /\ \A e \in 1 .. MaxCloses : hook[e].pc \in {"none", "recorded"}
    BY <2>1 DEF Settled
  <2>a. ~(trouble > 0)
    OBVIOUS
  <2>b. mint[g] \notin {"check lineage", "check task", "reject", "reject closed"}
    BY <2>4
  <2>5. epoch \in 1 .. MaxCloses /\ hook[epoch].pc \in {"find", "write"}
    BY <2>3, <2>a, <2>b, Zenon DEF Pursued
  <2>6. hook[epoch].pc \in {"none", "recorded"}
    BY <2>4, <2>5
  <2> QED
    BY <2>5, <2>6
<1> QED
  BY InitGrantInv, StepGrantInv, StepLeft, <1>1, <1>2, PTL DEF GSpec

-------------------------------------------------------------------------------
(* What the hooks have moved was ended by them, each grant by one, and every *)
(* grant of a live mint that ended with its task was moved by one.           *)
Named(g) == \E e \in 1 .. MaxCloses : g \in hook[e].moved

NameInv ==
    \A g \in Grants :
        /\ Named(g) => grant[g].ended = "task.done"
        /\ \A e, f \in 1 .. MaxCloses :
              g \in hook[e].moved /\ g \in hook[f].moved => e = f
        /\ grant[g].ended = "task.done" /\ mint[g] # "refused" => Named(g)

LEMMA StepNameInv ==
  ASSUME GrantInv, GrantInv', NameInv, [GNext]_vars
  PROVE  NameInv'
<1>0. GTypeOK
  BY DEF GrantInv
(* The hooks have moved what they had, no more is ended with the task but by *)
(* a mint that is refused with it, and a refused mint stays refused.         *)
<1>a. ASSUME \A e \in 1 .. MaxCloses : hook'[e].moved = hook[e].moved,
             \A g \in Grants :
                /\ grant[g].ended = "task.done" => grant'[g].ended = "task.done"
                /\ grant'[g].ended = "task.done" => grant[g].ended = "task.done" \/ mint'[g] = "refused"
                /\ mint[g] = "refused" => mint'[g] = "refused"
      PROVE  NameInv'
  BY <1>a DEF NameInv, Named
<1>1. ASSUME NEW g \in Grants,
             \/ AskForGrant(g) \/ InsertGrant(g) \/ CheckLineage(g) \/ CheckTask(g) \/ MintDies(g)
      PROVE  NameInv'
  <2>1. hook' = hook /\ \A h \in Grants : mint[h] = "refused" => mint'[h] = "refused"
    BY <1>0, <1>1, Types DEF AskForGrant, InsertGrant, CheckLineage, CheckTask, MintDies, MintStep
  <2>2. \A h \in Grants : grant'[h].ended = grant[h].ended
    <3>1. CASE InsertGrant(g)
      BY <1>0, <3>1, Types DEF InsertGrant, Grant
    <3>2. CASE grant' = grant
      BY <3>2
    <3> QED
      BY <1>1, <3>1, <3>2 DEF AskForGrant, CheckLineage, CheckTask, MintDies
  <2> QED
    BY <1>a, <2>1, <2>2
<1>2. ASSUME NEW g \in Grants, ReadEpoch(g) PROVE NameInv'
  <2>1. grant' = grant \/ grant' = [grant EXCEPT ![g].epoch = EpochOf(g)]
    BY <1>2 DEF ReadEpoch
  <2>2. \A h \in Grants : grant'[h].ended = grant[h].ended
    BY <1>0, <2>1, Types DEF Grant
  <2>3. hook' = hook /\ \A h \in Grants : mint[h] = "refused" => mint'[h] = "refused"
    BY <1>0, <1>2, Types DEF ReadEpoch, MintStep
  <2> QED
    BY <1>a, <2>2, <2>3
<1>3. ASSUME NEW g \in Grants, RejectGrant(g) PROVE NameInv'
  <2>1. \A h \in Grants : h # g => mint'[h] = mint[h] /\ grant'[h] = grant[h]
    BY <1>0, <1>3, Types DEF RejectGrant, MintStep
  <2>2. mint'[g] = "refused" /\ hook' = hook
    BY <1>0, <1>3, Types DEF RejectGrant, MintStep
  <2>3. grant[g].ended # "no" => grant'[g].ended = grant[g].ended
    BY <1>0, <1>3, Types DEF RejectGrant, Grant
  <2> QED
    BY <1>a, <2>1, <2>2, <2>3
<1>4. ASSUME NEW k \in Revokers, NEW g \in Grants, WriteRevoked(k, g) PROVE NameInv'
  <2>1. \A h \in Grants : /\ grant'[h].ended = "task.done" => grant[h].ended = "task.done"
                          /\ grant[h].ended = "task.done" => grant'[h].ended = "task.done"
    BY <1>0, <1>4, Types DEF WriteRevoked, Grant
  <2>2. UNCHANGED <<hook, mint>>
    BY <1>4 DEF WriteRevoked
  <2> QED
    BY <1>a, <2>1, <2>2
<1>5. ASSUME NEW e \in 1 .. MaxCloses, NEW g \in Grants, HookWrite(e, g) PROVE NameInv'
  <2>0. hook[e] \in [pc : {"none", "find", "write", "recorded", "dead"},
                     found : SUBSET Grants, moved : SUBSET Grants]
    BY <1>0 DEF GTypeOK
  <2>1. mint' = mint /\ \A f \in 1 .. MaxCloses : f # e => hook'[f].moved = hook[f].moved
    BY <1>0, <1>5, Types DEF HookWrite
  <2>2. CASE EndedBy(g, e)
    <3>1. hook'[e].moved = hook[e].moved \cup {g}
      BY <1>0, <1>5, <2>0, <2>2, Types DEF HookWrite, Moved
    <3>2. /\ grant'[g].ended = "task.done"
          /\ \A h \in Grants : h # g => grant'[h] = grant[h]
      BY <1>0, <1>5, <2>2, Types DEF HookWrite, Grant
    <3>3. ~Named(g)
      BY <2>2 DEF NameInv, EndedBy, Alive
    <3>4. \A h \in Grants : h # g => (Named(h)' <=> Named(h))
      BY <2>1, <3>1 DEF Named
    <3>5. Named(g)' /\ \A f \in 1 .. MaxCloses : g \in hook'[f].moved => f = e
      BY <2>1, <3>1, <3>3 DEF Named
    <3>6. \A h \in Grants : h # g => \A f \in 1 .. MaxCloses : h \in hook'[f].moved <=> h \in hook[f].moved
      BY <2>1, <3>1
    <3> QED
      BY <2>1, <3>2, <3>4, <3>5, <3>6 DEF NameInv
  <2>3. CASE ~EndedBy(g, e)
    <3>1. hook'[e].moved = hook[e].moved /\ grant' = grant
      BY <1>0, <1>5, <2>0, <2>3, Types DEF HookWrite, Moved
    <3> QED
      BY <1>a, <2>1, <3>1
  <2> QED
    BY <2>2, <2>3
<1>6. ASSUME UNCHANGED <<grant, mint>>,
             \A e \in 1 .. MaxCloses : hook'[e].moved = hook[e].moved
      PROVE  NameInv'
  BY <1>6, <1>a
<1>7. ASSUME NEW e \in 1 .. MaxCloses,
             HookFind(e) \/ HookEnds(e) \/ HookDies(e) \/ \E g \in Grants : HookWriteFails(e, g)
      PROVE  NameInv'
  <2>0. hook[e] \in [pc : {"none", "find", "write", "recorded", "dead"},
                     found : SUBSET Grants, moved : SUBSET Grants]
    BY <1>0 DEF GTypeOK
  <2>1. UNCHANGED <<grant, mint>>
    BY <1>7 DEF HookFind, HookEnds, HookDies, HookWriteFails
  <2>2. CASE HookFind(e)
    <3>0. PICK F \in SUBSET Grants : hook' = [hook EXCEPT ![e] = [@ EXCEPT !.pc = "write",
                                                                           !.found = F]]
      BY <2>2 DEF HookFind
    <3>a. hook'[e] = [hook[e] EXCEPT !.pc = "write", !.found = F]
      BY <1>0, <2>0, <3>0, Types
    <3>1. \A f \in 1 .. MaxCloses : hook'[f].moved = hook[f].moved
      BY <1>0, <2>0, <3>0, <3>a, Types
    <3> QED
      BY <1>6, <2>1, <3>1
  <2>3. CASE HookEnds(e) \/ HookDies(e)
    <3>0. PICK pc \in {"recorded", "dead"} : hook' = [hook EXCEPT ![e].pc = pc]
      BY <2>3 DEF HookEnds, HookDies
    <3>a. hook'[e] = [hook[e] EXCEPT !.pc = pc]
      BY <1>0, <3>0, Types
    <3>1. \A f \in 1 .. MaxCloses : hook'[f].moved = hook[f].moved
      BY <1>0, <2>0, <3>0, <3>a, Types
    <3> QED
      BY <1>6, <2>1, <3>1
  <2>4. ASSUME NEW g \in Grants, HookWriteFails(e, g) PROVE NameInv'
    <3>1. \A f \in 1 .. MaxCloses : hook'[f].moved = hook[f].moved
      BY <1>0, <2>0, <2>4, Types DEF HookWriteFails
    <3> QED
      BY <1>6, <2>1, <3>1
  <2> QED
    BY <1>7, <2>2, <2>3, <2>4
<1>8. CASE Task
  <2>0. \A e \in 1 .. MaxCloses : hook[e] \in [pc : {"none", "find", "write", "recorded", "dead"},
                                              found : SUBSET Grants, moved : SUBSET Grants]
    BY <1>0 DEF GTypeOK
  <2>a. hook' = hook \/ hook' = [hook EXCEPT ![epoch + 1].pc = "find"]
    BY <1>0, <1>8, TaskMoves
  <2>1. \A e \in 1 .. MaxCloses : hook'[e].moved = hook[e].moved
    <3> SUFFICES ASSUME NEW e \in 1 .. MaxCloses PROVE hook'[e].moved = hook[e].moved
      OBVIOUS
    <3>1. CASE hook' = hook
      BY <3>1
    <3>2. CASE hook' = [hook EXCEPT ![epoch + 1].pc = "find"]
      <4>1. hook'[e] = hook[e] \/ hook'[e] = [hook[e] EXCEPT !.pc = "find"]
        BY <1>0, <3>2, Types
      <4> QED
        BY <2>0, <4>1
    <3> QED
      BY <2>a, <3>1, <3>2
  <2> QED
    BY <1>6, <1>8, <2>1 DEF Task
<1>9. ASSUME NEW k \in Revokers, Gather(k) \/ \E g \in Grants : Revoke(k, g) PROVE NameInv'
  BY <1>6, <1>9 DEF Gather, Revoke
<1>10. ASSUME NEW c \in Calls,
              \/ \E g \in Grants, s \in Seats : LoadGrant(c, g, s)
              \/ CallChecksLineage(c) \/ CallChecksTask(c) \/ CallChecksClaim(c) \/ CallEnds(c)
       PROVE  NameInv'
  BY <1>6, <1>10, CallKeeps
<1>11. CASE UNCHANGED vars
  BY <1>6, <1>11 DEF vars, gvars
<1> QED
  BY <1>1, <1>2, <1>3, <1>4, <1>5, <1>7, <1>8, <1>9, <1>10, <1>11 DEF GNext

(* The record of a close names the grants that this close ended: no grant is *)
(* in two records, none that a revocation ended is in one, and none that was *)
(* handed out and ended with the task is missing.                            *)
THEOREM RecordsNameOnce == GSpec => []EndedIsNamedOnce
<1>1. GInit => NameInv
  BY DEF GInit, Quiet, NameInv, Named
<1>2. ASSUME GrantInv, NameInv PROVE EndedIsNamedOnce
  <2> SUFFICES ASSUME NEW g \in Grants
               PROVE  Cardinality({e \in DOMAIN hook : g \in hook[e].moved}) <= 1
    <3>1. DOMAIN hook = 1 .. MaxCloses
      BY <1>2, Types DEF GrantInv
    <3> QED
      BY <1>2, <3>1 DEF EndedIsNamedOnce, NameInv, Named
  <2> DEFINE E == {e \in DOMAIN hook : g \in hook[e].moved}
  <2>1. CASE E = {}
    <3>1. Cardinality(E) = 0
      BY <2>1, FS_EmptySet
    <3> QED
      BY <3>1
  <2>2. ASSUME NEW e \in E PROVE Cardinality(E) <= 1
    <3>1. E = {e}
      BY <1>2, <2>2, Types DEF GrantInv, NameInv
    <3>2. Cardinality(E) = 1
      BY <3>1, FS_Singleton
    <3> QED
      BY <3>2
  <2>3. E = {} \/ \E e \in E : TRUE
    OBVIOUS
  <2>4. Cardinality(E) <= 1
    <3>1. CASE E = {}
      BY <2>1, <3>1
    <3>2. ASSUME NEW e \in E PROVE Cardinality(E) <= 1
      BY <2>2
    <3> HIDE DEF E
    <3> QED
      BY <2>3, <3>1, <3>2
  <2> QED
    BY <2>4
<1> QED
  BY InitGrantInv, StepGrantInv, StepNameInv, <1>1, <1>2, PTL DEF GSpec
===============================================================================
