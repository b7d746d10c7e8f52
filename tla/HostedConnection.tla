--------------------------- MODULE HostedConnection ---------------------------
(* One person's connection to one OAuth entry of the hosted tools, from its  *)
(* first /start to its removal: the callbacks that store a new token pair    *)
(* (backend/routes/hostedMcpConnect.ts), the refreshes that replace it       *)
(* (services/hostedMcpCredentialService.ts), and the removals that revoke,   *)
(* sweep and delete it (services/connectionRemovalService.ts).  They share   *)
(* the Integration row, two secrets behind stable refs                       *)
(* (services/connectorSecrets.ts) and the vendor, and fence each other by    *)
(* the authorization generation, a write lease and a removal lease.          *)
(*                                                                           *)
(* A grant is named by the authorization generation of its callback, a       *)
(* refresh token by its grant and how often the vendor has rotated it.       *)
(* Write leases are numbered in the order they are taken, which is the order *)
(* they lapse in; one that is over lapsed a vendor timeout ago.  A grant     *)
(* always has a refresh token and the client id never changes; pasted keys   *)
(* and the sweep of unreferenced secrets are not modelled.                   *)
EXTENDS Naturals, FiniteSets

CONSTANTS Refreshers,  \* calls that find the access token expired
          Removers,    \* attempts to remove the connection
          NoRemover,
          Starts,      \* bound: authorizations begun
          Stride,      \* HOSTED_MCP_SECRET_WRITE_STRIDE
          MaxTrouble   \* bound: requests that break off, calls that fail

ASSUME ConnectionConstants ==
    /\ IsFiniteSet(Refreshers) /\ IsFiniteSet(Removers) /\ NoRemover \notin Removers
    /\ Refreshers \cap Removers = {} /\ \A x \in Refreshers \cup Removers : x \notin Nat
    /\ Starts \in Nat \ {0} /\ MaxTrouble \in Nat
    /\ Stride \in Nat /\ Stride > Cardinality(Refreshers)

VARIABLES row,      \* the Integration document
          secrets,  \* its ConnectorSecret documents, access and refresh
          vendor,   \* grants that are live, rotations, and whether it rotates
          flow,     \* callbacks, by authorization generation
          refresh,  \* credentialFor, past its fence
          removal,  \* removeConnection
          clock,    \* write leases taken, lapsed and over
          dead,     \* requests that broke off
          trouble,  \* requests broken off and calls failed so far
          overtaken, \* history: writers whose lapsed lease another refresh took
          left      \* history: grants the code leaves live, or to the person

vars == <<row, secrets, vendor, flow, refresh, removal, clock, dead, trouble, overtaken, left>>

Flows == 1 .. (Starts + Cardinality(Removers))

None == 0

Token == [grant : Flows \cup {None}, seq : Nat]

NoToken == [grant |-> None, seq |-> 0]

(* A secret document: the token, and the generation it was written at.       *)
Secret == [id : Nat, gen : Nat, token : Token]

Empty(id) == [id |-> id, gen |-> None, token |-> NoToken]

Present(s) == s.gen # None

NoHold == [by |-> NoRemover, term |-> 0, lapsed |-> FALSE]

Hold == [by : Removers, term : 1 .. 2, lapsed : BOOLEAN] \cup {NoHold}

Refs == [access : Nat, refresh : Nat]

Row == [status : {"pending", "connected", "error", "disconnected", "gone"},
        auth : Nat \ {0}, pending : Nat, cred : Flows \cup {None}, gen : Nat, refs : Refs,
        lease : Nat, hold : Hold, mark : BOOLEAN, revokedAt : Nat]

FlowSteps == {"none", "pending", "consumed", "moving", "issued", "writing", "half", "stored",
              "refused", "unpublished", "failed", "done"}

Flow == [pc : FlowSteps, revokedAt : Nat, refs : Refs, lease : Nat, inherited : Nat]

NoFlow == [pc |-> "none", revokedAt |-> None, refs |-> [access |-> None, refresh |-> None],
           lease |-> None, inherited |-> None]

RefreshSteps == {"idle", "fenced", "asking", "got", "half", "stored", "done"}

Refresh == [pc : RefreshSteps, auth : Nat, gen : Nat, ref : Nat, lease : Nat, token : Token]

Calm == [pc |-> "idle", auth |-> None, gen |-> 0, ref |-> None, lease |-> None, token |-> NoToken]

RemovalSteps == {"idle", "marked", "held", "sending", "sending access", "renewing", "marking",
                 "sweeping refresh", "sweeping access", "deleting", "removed", "done"}

Removal == [pc : RemovalSteps, auth : Nat, refs : Refs, mark : BOOLEAN, claim : BOOLEAN,
            mixed : BOOLEAN, token : Token, access : Token]

Waiting == [pc |-> "idle", auth |-> None, refs |-> [access |-> None, refresh |-> None],
            mark |-> FALSE, claim |-> FALSE, mixed |-> FALSE, token |-> NoToken, access |-> NoToken]

-------------------------------------------------------------------------------
(* secretWriteGeneration                                                     *)
WriteGeneration(auth, gen) == auth * Stride + gen

(* Mutant: a put overwrites whatever is there.                               *)
PuttableAlways(s, gen) == gen \in Nat

(* connectorSecrets.put: a newer write stands, an absent secret is inserted. *)
Puttable(s, gen) == s.gen <= gen

Put(s, gen, token) == [id |-> IF Present(s) THEN s.id ELSE s.id + 1, gen |-> gen, token |-> token]

(* connectorSecrets.get and revoke name a document, not a kind.              *)
Behind(s, ref) == Present(s) /\ s.id = ref

Exists == row.status # "gone"

(* The vendor's revocation endpoint.  A token that is no longer current      *)
(* revokes nothing and is answered like one that does.                       *)
Current(token) == token.grant \in vendor.live /\ vendor.seq[token.grant] = token.seq

AfterRevoking(token) ==
    IF Current(token) THEN [vendor EXCEPT !.live = vendor.live \ {token.grant}] ELSE vendor

Trouble == trouble < MaxTrouble /\ trouble' = trouble + 1

Runs(x) == x \notin dead

Finished(x) ==
    \/ x \in Flows /\ flow[x].pc = "done"
    \/ x \in Refreshers /\ refresh[x].pc = "done"
    \/ x \in Removers /\ removal[x].pc \in {"done", "removed"}

-------------------------------------------------------------------------------
(* The row's filters and updates.                                            *)

(* Mutant: a refresh does not wait for the lease of the one before.          *)
FenceableAnytime ==
    row.status = "connected" /\ row.pending = None /\ row.cred = row.auth

(* The fence of a refresh.                                                   *)
Fenceable ==
    /\ row.status = "connected" /\ row.pending = None /\ row.cred = row.auth
    /\ row.lease <= clock.lapsed

(* The retire write of callback c, unless a removal holds the row.           *)
Retirable(c) ==
    /\ Exists /\ row.auth = c /\ row.pending = None
    /\ row.hold.by = NoRemover \/ row.hold.lapsed

(* Mutant: a reconnect keeps the mark of the removal before it.              *)
RetiredWithMark(lease) == [row EXCEPT !.status = "error", !.lease = lease, !.hold = NoHold]

Retired(lease) ==
    [row EXCEPT !.status = "error", !.lease = lease, !.hold = NoHold, !.mark = FALSE]

Publishable(c) == row.status = "error" /\ row.auth = c /\ row.pending = None

Published(c) ==
    [row EXCEPT !.status = "connected", !.cred = c, !.gen = 0, !.revokedAt = None,
                !.refs = [access |-> secrets.access.id, refresh |-> secrets.refresh.id],
                !.lease = flow[c].inherited]

(* releaseWriteLease                                                         *)
Released(c) == IF row.lease = flow[c].lease THEN [row EXCEPT !.lease = flow[c].inherited] ELSE row

(* The commit and the error mark of a refresh.                               *)
StillFenced(r) == Exists /\ row.gen = refresh[r].gen /\ row.auth = refresh[r].auth

(* markDisconnected                                                          *)
Disconnected ==
    [row EXCEPT !.status = "disconnected", !.revokedAt = row.auth + 1,
                !.auth = row.auth + 1, !.pending = None]

(* Mutant: a removal does not wait out the vendor timeout.                   *)
HoldableAtExpiry(d) ==
    /\ Exists /\ row.auth = removal[d].auth
    /\ row.lease <= clock.lapsed
    /\ row.hold.by = NoRemover \/ row.hold.lapsed

(* takeRemovalLease                                                          *)
Holdable(d) ==
    /\ Exists /\ row.auth = removal[d].auth
    /\ row.lease <= clock.over
    /\ row.hold.by = NoRemover \/ row.hold.lapsed

(* renewRemovalLease                                                         *)
Renewable(d) == Exists /\ row.hold.by = d

(* releaseRemovalLease                                                       *)
Freed(d) == IF row.hold.by = d THEN [row EXCEPT !.hold = NoHold] ELSE row

(* lostToRemoval                                                             *)
LostToRemoval(c) ==
    \/ ~Exists
    \/ row.hold.by # NoRemover /\ ~row.hold.lapsed
    \/ row.revokedAt # None /\ row.revokedAt # flow[c].revokedAt

(* Mutant: a pair is taken for one write's without a look.                   *)
NeverMixed(d) == d \notin Removers

(* revokeThenSweep's test of the pair's write generations.                   *)
Mixed(d) ==
    /\ Behind(secrets.refresh, removal[d].refs.refresh)
    /\ Behind(secrets.access, removal[d].refs.access)
    /\ secrets.refresh.gen # secrets.access.gen

-------------------------------------------------------------------------------
(* A connected row with the pair of its first authorization, or one whose    *)
(* first authorization has just begun.                                       *)
Init ==
    /\ \E connected \in BOOLEAN :
         LET pair == [id |-> 1, gen |-> Stride, token |-> [grant |-> 1, seq |-> 0]] IN
         /\ row = [status |-> IF connected THEN "connected" ELSE "pending", auth |-> 1,
                   pending |-> IF connected THEN None ELSE 1,
                   cred |-> IF connected THEN 1 ELSE None, gen |-> 0,
                   refs |-> IF connected THEN [access |-> 1, refresh |-> 1]
                            ELSE [access |-> None, refresh |-> None],
                   lease |-> None, hold |-> NoHold, mark |-> FALSE, revokedAt |-> None]
         /\ secrets = IF connected THEN [access |-> pair, refresh |-> pair]
                      ELSE [access |-> Empty(0), refresh |-> Empty(0)]
         /\ \E rotates \in BOOLEAN :
              vendor = [live |-> IF connected THEN {1} ELSE {}, seq |-> [g \in Flows |-> 0],
                        rotates |-> rotates]
         /\ flow = [c \in Flows |->
                      IF c # 1 THEN NoFlow
                      ELSE [NoFlow EXCEPT !.pc = IF connected THEN "done" ELSE "pending"]]
    /\ refresh = [r \in Refreshers |-> Calm]
    /\ removal = [d \in Removers |-> Waiting]
    /\ clock = [taken |-> 0, lapsed |-> 0, over |-> 0]
    /\ dead = {} /\ trouble = 0 /\ overtaken = {} /\ left = {}

-------------------------------------------------------------------------------
(* /start and the callback.                                                  *)

Begun == Cardinality({c \in Flows : flow[c].pc # "none"})

Start ==
    /\ Exists /\ Begun < Starts
    /\ row' = [row EXCEPT !.auth = row.auth + 1, !.pending = row.auth + 1]
    /\ flow' = [flow EXCEPT ![row.auth + 1].pc = "pending"]
    /\ UNCHANGED <<secrets, vendor, refresh, removal, clock, dead, trouble, overtaken, left>>

(* The state is claimed, once.                                               *)
Consume(c) ==
    /\ flow[c].pc = "pending" /\ Exists /\ row.pending = c
    /\ row' = [row EXCEPT !.pending = None]
    /\ flow' = [flow EXCEPT ![c] = [NoFlow EXCEPT !.pc = "consumed", !.refs = row.refs,
                                                  !.revokedAt = row.revokedAt]]
    /\ UNCHANGED <<secrets, vendor, refresh, removal, clock, dead, trouble, overtaken, left>>

(* The vendor issues a grant, for the account connected before or another.   *)
Exchange(c) ==
    /\ flow[c].pc = "consumed" /\ Runs(c)
    /\ vendor' = [vendor EXCEPT !.live = vendor.live \cup {c}]
    /\ \E next \in {"issued"} \cup IF flow[c].refs.refresh # None THEN {"moving"} ELSE {} :
         flow' = [flow EXCEPT ![c].pc = next]
    /\ UNCHANGED <<row, secrets, refresh, removal, clock, dead, trouble, overtaken, left>>

(* Another account: the previous token is sent back first, if it can be.     *)
Withdraw(c) ==
    /\ flow[c].pc = "moving" /\ Runs(c)
    /\ \/ /\ Behind(secrets.refresh, flow[c].refs.refresh)
          /\ vendor' = AfterRevoking(secrets.refresh.token)
          /\ left' = left \cup {secrets.refresh.token.grant}
       \/ UNCHANGED <<vendor, left>>
    /\ flow' = [flow EXCEPT ![c].pc = "issued"]
    /\ UNCHANGED <<row, secrets, refresh, removal, clock, dead, trouble, overtaken>>

Retire(c) ==
    /\ flow[c].pc = "issued" /\ Runs(c)
    /\ IF Retirable(c)
       THEN /\ row' = Retired(clock.taken + 1)
            /\ clock' = [clock EXCEPT !.taken = clock.taken + 1]
            /\ flow' = [flow EXCEPT ![c] =
                          [flow[c] EXCEPT !.pc = "writing", !.lease = clock.taken + 1,
                                          !.inherited = row.lease]]
       ELSE /\ flow' = [flow EXCEPT ![c].pc = "refused"]
            /\ UNCHANGED <<row, clock>>
    /\ UNCHANGED <<secrets, vendor, refresh, removal, dead, trouble, overtaken, left>>

Issued(c) == [grant |-> c, seq |-> 0]

(* The two puts; a newer authorization's material refuses them.              *)
PutAccess(c) ==
    /\ flow[c].pc = "writing" /\ Runs(c)
    /\ IF Puttable(secrets.access, WriteGeneration(c, 0))
       THEN /\ secrets' = [secrets EXCEPT !.access =
                         Put(secrets.access, WriteGeneration(c, 0), Issued(c))]
            /\ left' = left \cup {secrets.access.token.grant}
            /\ flow' = [flow EXCEPT ![c].pc = "half"]
       ELSE /\ flow' = [flow EXCEPT ![c].pc = "failed"]
            /\ UNCHANGED <<secrets, left>>
    /\ UNCHANGED <<row, vendor, refresh, removal, clock, dead, trouble, overtaken>>

PutRefresh(c) ==
    /\ flow[c].pc = "half" /\ Runs(c)
    /\ IF Puttable(secrets.refresh, WriteGeneration(c, 0))
       THEN /\ secrets' = [secrets EXCEPT !.refresh =
                         Put(secrets.refresh, WriteGeneration(c, 0), Issued(c))]
            /\ left' = left \cup {secrets.refresh.token.grant}
            /\ flow' = [flow EXCEPT ![c].pc = "stored"]
       ELSE /\ flow' = [flow EXCEPT ![c].pc = "failed"]
            /\ UNCHANGED <<secrets, left>>
    /\ UNCHANGED <<row, vendor, refresh, removal, clock, dead, trouble, overtaken>>

(* The store refuses for another reason.                                     *)
PutFails(c) ==
    /\ flow[c].pc \in {"writing", "half"} /\ Runs(c)
    /\ Trouble
    /\ flow' = [flow EXCEPT ![c].pc = "failed"]
    /\ UNCHANGED <<row, secrets, vendor, refresh, removal, clock, dead, overtaken, left>>

Publish(c) ==
    /\ flow[c].pc = "stored" /\ Runs(c)
    /\ IF Publishable(c)
       THEN /\ row' = Published(c)
            /\ flow' = [flow EXCEPT ![c].pc = "done"]
       ELSE /\ flow' = [flow EXCEPT ![c].pc = "unpublished"]
            /\ UNCHANGED row
    /\ UNCHANGED <<secrets, vendor, refresh, removal, clock, dead, trouble, overtaken, left>>

(* settleUnstoredGrant: a grant lost to a removal is revoked; one lost to a  *)
(* newer /start is left; the person has the page when the row cannot be read *)
(* or the vendor refuses.                                                    *)
Settle(c) ==
    /\ flow[c].pc \in {"refused", "unpublished"} /\ Runs(c)
    /\ \/ /\ LostToRemoval(c)
          /\ vendor' = [vendor EXCEPT !.live = vendor.live \ {c}]
          /\ UNCHANGED <<left, trouble>>
       \/ /\ IF LostToRemoval(c) THEN Trouble ELSE UNCHANGED trouble
          /\ left' = left \cup {c}
          /\ UNCHANGED vendor
    /\ row' = IF flow[c].pc = "unpublished" THEN Released(c) ELSE row
    /\ flow' = [flow EXCEPT ![c].pc = "done"]
    /\ UNCHANGED <<secrets, refresh, removal, clock, dead, overtaken>>

(* The handler's catch.                                                      *)
GiveUp(c) ==
    /\ flow[c].pc = "failed" /\ Runs(c)
    /\ row' = Released(c)
    /\ left' = left \cup {c}
    /\ flow' = [flow EXCEPT ![c].pc = "done"]
    /\ UNCHANGED <<secrets, vendor, refresh, removal, clock, dead, trouble, overtaken>>

-------------------------------------------------------------------------------
(* credentialFor, for a credential that is no longer fresh.                  *)

Writing(x) == ~Finished(x) /\ Runs(x)

LeaseOf(x) == IF x \in Flows THEN flow[x].lease ELSE refresh[x].lease

(* bumpGeneration                                                            *)
Fence(r) ==
    /\ refresh[r] = Calm /\ Fenceable
    /\ row' = [row EXCEPT !.gen = row.gen + 1, !.lease = clock.taken + 1]
    /\ clock' = [clock EXCEPT !.taken = clock.taken + 1]
    /\ refresh' = [refresh EXCEPT ![r] = [Calm EXCEPT !.pc = "fenced", !.auth = row.auth,
                     !.gen = row.gen + 1, !.ref = row.refs.refresh, !.lease = clock.taken + 1]]
    /\ overtaken' = overtaken \cup
                    {x \in Flows \cup Refreshers : LeaseOf(x) \in 1 .. row.lease /\ Writing(x)}
    /\ UNCHANGED <<secrets, vendor, flow, removal, dead, trouble, left>>

ReadToken(r) ==
    /\ refresh[r].pc = "fenced" /\ Runs(r)
    /\ refresh' = [refresh EXCEPT ![r] =
                     IF Behind(secrets.refresh, refresh[r].ref)
                     THEN [refresh[r] EXCEPT !.pc = "asking", !.token = secrets.refresh.token]
                     ELSE [refresh[r] EXCEPT !.pc = "done"]]
    /\ UNCHANGED <<row, secrets, vendor, flow, removal, clock, dead, trouble, overtaken, left>>

(* The vendor gives a new pair, with the old refresh token or a new one; the *)
(* answer is on its way and may still be lost (BreaksOff) ...                *)
Refreshed(r) ==
    /\ refresh[r].pc = "asking" /\ Runs(r)
    /\ Current(refresh[r].token)
    /\ LET seq == refresh[r].token.seq + IF vendor.rotates THEN 1 ELSE 0 IN
         /\ vendor' = [vendor EXCEPT !.seq[refresh[r].token.grant] = seq]
         /\ refresh' = [refresh EXCEPT ![r] =
                          [refresh[r] EXCEPT !.pc = "got",
                                             !.token = [grant |-> refresh[r].token.grant, seq |-> seq]]]
    /\ UNCHANGED <<row, secrets, flow, removal, clock, dead, trouble, overtaken, left>>

(* ... refuses a token that is done with, and the row is marked ...          *)
Refused(r) ==
    /\ refresh[r].pc = "asking" /\ Runs(r)
    /\ ~Current(refresh[r].token)
    /\ row' = IF StillFenced(r) THEN [row EXCEPT !.status = "error", !.lease = None] ELSE row
    /\ refresh' = [refresh EXCEPT ![r].pc = "done"]
    /\ UNCHANGED <<secrets, vendor, flow, removal, clock, dead, trouble, overtaken, left>>

(* ... or fails before it acts; the lease is kept as the backoff.            *)
Unreachable(r) ==
    /\ refresh[r].pc = "asking" /\ Runs(r)
    /\ refresh' = [refresh EXCEPT ![r].pc = "done"]
    /\ UNCHANGED <<row, secrets, vendor, flow, removal, clock, dead, trouble, overtaken, left>>

RefreshGeneration(r) == WriteGeneration(refresh[r].auth, refresh[r].gen)

PutAccessAgain(r) ==
    /\ refresh[r].pc = "got" /\ Runs(r)
    /\ IF Puttable(secrets.access, RefreshGeneration(r))
       THEN /\ secrets' = [secrets EXCEPT !.access =
                         Put(secrets.access, RefreshGeneration(r), refresh[r].token)]
            /\ refresh' = [refresh EXCEPT ![r].pc = "half"]
       ELSE /\ refresh' = [refresh EXCEPT ![r].pc = "done"]
            /\ UNCHANGED secrets
    /\ UNCHANGED <<row, vendor, flow, removal, clock, dead, trouble, overtaken, left>>

PutRefreshAgain(r) ==
    /\ refresh[r].pc = "half" /\ Runs(r)
    /\ IF Puttable(secrets.refresh, RefreshGeneration(r))
       THEN /\ secrets' = [secrets EXCEPT !.refresh =
                         Put(secrets.refresh, RefreshGeneration(r), refresh[r].token)]
            /\ refresh' = [refresh EXCEPT ![r].pc = "stored"]
       ELSE /\ refresh' = [refresh EXCEPT ![r].pc = "done"]
            /\ UNCHANGED secrets
    /\ UNCHANGED <<row, vendor, flow, removal, clock, dead, trouble, overtaken, left>>

Commit(r) ==
    /\ refresh[r].pc = "stored" /\ Runs(r)
    /\ row' = IF StillFenced(r)
              THEN [row EXCEPT !.lease = None,
                      !.refs = [access |-> secrets.access.id, refresh |-> secrets.refresh.id]]
              ELSE row
    /\ refresh' = [refresh EXCEPT ![r].pc = "done"]
    /\ UNCHANGED <<secrets, vendor, flow, removal, clock, dead, trouble, overtaken, left>>

-------------------------------------------------------------------------------
(* removeConnection; the grants to agents are revoked before it.             *)

Disconnect(d) ==
    /\ removal[d] = Waiting /\ Exists
    /\ row' = Disconnected
    /\ removal' = [removal EXCEPT ![d] = [Waiting EXCEPT !.pc = "marked", !.auth = row.auth + 1,
                                            !.refs = row.refs, !.mark = row.mark]]
    /\ UNCHANGED <<secrets, vendor, flow, refresh, clock, dead, trouble, overtaken, left>>

(* The removal lease, or busy.                                               *)
TakeHold(d) ==
    /\ removal[d].pc = "marked" /\ Runs(d)
    /\ IF Holdable(d)
       THEN /\ row' = [row EXCEPT !.hold = [by |-> d, term |-> 1, lapsed |-> FALSE]]
            /\ removal' = [removal EXCEPT ![d].pc = "held"]
       ELSE /\ removal' = [removal EXCEPT ![d].pc = "done"]
            /\ UNCHANGED row
    /\ UNCHANGED <<secrets, vendor, flow, refresh, clock, dead, trouble, overtaken, left>>

(* What there is to send: nothing after a marked revoke, nothing when the    *)
(* secret is gone, both tokens of a mixed pair.                              *)
Look(d) ==
    /\ removal[d].pc = "held" /\ Runs(d)
    /\ removal' = [removal EXCEPT ![d] =
         IF removal[d].mark THEN [removal[d] EXCEPT !.pc = "renewing", !.claim = TRUE]
         ELSE IF ~Behind(secrets.refresh, removal[d].refs.refresh)
              THEN [removal[d] EXCEPT !.pc = "renewing"]
         ELSE [removal[d] EXCEPT !.pc = "sending", !.mixed = Mixed(d),
                        !.token = secrets.refresh.token,
                        !.access = IF Mixed(d) THEN secrets.access.token ELSE NoToken]]
    /\ UNCHANGED <<row, secrets, vendor, flow, refresh, clock, dead, trouble, overtaken, left>>

Send(d) ==
    /\ removal[d].pc = "sending" /\ Runs(d)
    /\ vendor' = AfterRevoking(removal[d].token)
    /\ removal' = [removal EXCEPT ![d] =
         [removal[d] EXCEPT !.pc = IF removal[d].mixed THEN "sending access" ELSE "renewing",
                            !.claim = ~removal[d].mixed]]
    /\ UNCHANGED <<row, secrets, flow, refresh, clock, dead, trouble, overtaken, left>>

(* The secret cannot be read or the vendor does not answer: the row is kept. *)
SendFails(d) ==
    /\ removal[d].pc \in {"held", "sending"} /\ Runs(d)
    /\ row' = Freed(d)
    /\ removal' = [removal EXCEPT ![d].pc = "done"]
    /\ UNCHANGED <<secrets, vendor, flow, refresh, clock, dead, trouble, overtaken, left>>

(* Whether an access token ends its grant is the vendor's policy.            *)
SendAccess(d) ==
    /\ removal[d].pc = "sending access" /\ Runs(d)
    /\ vendor' \in {vendor, [vendor EXCEPT !.live = vendor.live \ {removal[d].access.grant}]}
    /\ removal' = [removal EXCEPT ![d].pc = "renewing"]
    /\ UNCHANGED <<row, secrets, flow, refresh, clock, dead, trouble, overtaken, left>>

(* Nothing is written unless the exact lease can be renewed.                 *)
Renew(d) ==
    /\ removal[d].pc = "renewing" /\ Runs(d)
    /\ IF Renewable(d)
       THEN /\ row' = [row EXCEPT !.hold = [by |-> d, term |-> 2, lapsed |-> FALSE]]
            /\ removal' = [removal EXCEPT ![d].pc = IF removal[d].claim /\ ~removal[d].mark
                                                    THEN "marking" ELSE "sweeping refresh"]
       ELSE /\ removal' = [removal EXCEPT ![d].pc = "done"]
            /\ UNCHANGED row
    /\ UNCHANGED <<secrets, vendor, flow, refresh, clock, dead, trouble, overtaken, left>>

(* markProviderRevoked                                                       *)
Mark(d) ==
    /\ removal[d].pc = "marking" /\ Runs(d)
    /\ row' = IF Exists THEN [row EXCEPT !.mark = TRUE] ELSE row
    /\ removal' = [removal EXCEPT ![d].pc = "sweeping refresh"]
    /\ UNCHANGED <<secrets, vendor, flow, refresh, clock, dead, trouble, overtaken, left>>

Swept(s, ref) == IF Behind(s, ref) THEN Empty(s.id) ELSE s

(* What is swept without a confirmed revoke is left to the person.           *)
Abandoned(d, s, ref) ==
    IF Behind(s, ref) /\ ~removal[d].claim THEN {s.token.grant} ELSE {}

SweepRefresh(d) ==
    /\ removal[d].pc = "sweeping refresh" /\ Runs(d)
    /\ secrets' = [secrets EXCEPT !.refresh = Swept(secrets.refresh, removal[d].refs.refresh)]
    /\ left' = left \cup Abandoned(d, secrets.refresh, removal[d].refs.refresh)
    /\ removal' = [removal EXCEPT ![d].pc = "sweeping access"]
    /\ UNCHANGED <<row, vendor, flow, refresh, clock, dead, trouble, overtaken>>

SweepAccess(d) ==
    /\ removal[d].pc = "sweeping access" /\ Runs(d)
    /\ secrets' = [secrets EXCEPT !.access = Swept(secrets.access, removal[d].refs.access)]
    /\ left' = left \cup Abandoned(d, secrets.access, removal[d].refs.access)
    /\ removal' = [removal EXCEPT ![d].pc = "deleting"]
    /\ UNCHANGED <<row, vendor, flow, refresh, clock, dead, trouble, overtaken>>

Delete(d) ==
    /\ removal[d].pc = "deleting" /\ Runs(d)
    /\ row' = [row EXCEPT !.status = "gone", !.hold = NoHold]
    /\ removal' = [removal EXCEPT ![d].pc = "removed"]
    /\ UNCHANGED <<secrets, vendor, flow, refresh, clock, dead, trouble, overtaken, left>>

(* A step of the sweep fails: incomplete, and the retry finds the mark.      *)
SweepFails(d) ==
    /\ removal[d].pc \in {"sweeping refresh", "sweeping access", "deleting"} /\ Runs(d)
    /\ Trouble
    /\ row' = Freed(d)
    /\ removal' = [removal EXCEPT ![d].pc = "done"]
    /\ UNCHANGED <<secrets, vendor, flow, refresh, clock, dead, overtaken, left>>

-------------------------------------------------------------------------------
(* Time and failure.                                                         *)

Writer(lease) ==
    CHOOSE x \in Flows \cup Refreshers : LeaseOf(x) = lease

(* A refresh's two vendor calls can use all of its lease.                    *)
LeaseLapses ==
    /\ clock.lapsed < clock.taken
    /\ LET x == Writer(clock.lapsed + 1) IN
         \/ Finished(x) \/ x \in dead
         \/ x \in Refreshers /\ refresh[x].pc # "fenced"
    /\ clock' = [clock EXCEPT !.lapsed = clock.lapsed + 1]
    /\ UNCHANGED <<row, secrets, vendor, flow, refresh, removal, dead, trouble, overtaken, left>>

(* A writer that goes on is done within the overrun.                         *)
LeaseIsOver ==
    /\ clock.over < clock.lapsed
    /\ LET x == Writer(clock.over + 1) IN Finished(x) \/ x \in dead
    /\ clock' = [clock EXCEPT !.over = clock.over + 1]
    /\ UNCHANGED <<row, secrets, vendor, flow, refresh, removal, dead, trouble, overtaken, left>>

(* The vendor's calls may take as long as the removal lease; the reads       *)
(* before them and the writes after its renewal do not.                      *)
HoldLapses ==
    /\ row.hold.by # NoRemover /\ ~row.hold.lapsed
    /\ \/ removal[row.hold.by].pc \in {"sending", "sending access", "renewing"}
       \/ row.hold.by \in dead
    /\ row' = [row EXCEPT !.hold = [row.hold EXCEPT !.lapsed = TRUE]]
    /\ UNCHANGED <<secrets, vendor, flow, refresh, removal, clock, dead, trouble, overtaken, left>>

(* A request ends where it is: its process dies, or a call of a refresh      *)
(* fails.  After the vendor has acted ("got") its answer is lost on the way  *)
(* or the first put fails; then the second put ("half") or the commit        *)
(* ("stored").  credentialFor undoes none of it: the new token is lost, and  *)
(* the lease is left to lapse.                                               *)
BreaksOff(x) ==
    /\ Runs(x)
    /\ \/ x \in Flows /\ flow[x].pc \notin {"none", "pending", "done"}
       \/ x \in Refreshers /\ refresh[x].pc \notin {"idle", "done"}
       \/ x \in Removers /\ removal[x].pc \notin {"idle", "done", "removed"}
    /\ Trouble
    /\ dead' = dead \cup {x}
    /\ UNCHANGED <<row, secrets, vendor, flow, refresh, removal, clock, overtaken, left>>

-------------------------------------------------------------------------------
FlowNext(c) ==
    \/ Consume(c) \/ Exchange(c) \/ Withdraw(c) \/ Retire(c) \/ PutAccess(c) \/ PutRefresh(c)
    \/ PutFails(c) \/ Publish(c) \/ Settle(c) \/ GiveUp(c)

RefreshNext(r) ==
    \/ Fence(r) \/ ReadToken(r) \/ Refreshed(r) \/ Refused(r) \/ Unreachable(r)
    \/ PutAccessAgain(r) \/ PutRefreshAgain(r) \/ Commit(r)

RemovalNext(d) ==
    \/ Disconnect(d) \/ TakeHold(d) \/ Look(d) \/ Send(d) \/ SendFails(d) \/ SendAccess(d)
    \/ Renew(d) \/ Mark(d) \/ SweepRefresh(d) \/ SweepAccess(d) \/ Delete(d) \/ SweepFails(d)

Next ==
    \/ Start
    \/ \E c \in Flows : FlowNext(c)
    \/ \E r \in Refreshers : RefreshNext(r)
    \/ \E d \in Removers : RemovalNext(d)
    \/ LeaseLapses \/ LeaseIsOver \/ HoldLapses
    \/ \E x \in Flows \cup Refreshers \cup Removers : BreaksOff(x)

Spec == Init /\ [][Next]_vars

-------------------------------------------------------------------------------
(* Properties.                                                               *)

(* The row, its secrets and every request stay well formed.                  *)
TypeOK ==
    /\ row \in Row
    /\ secrets \in [access : Secret, refresh : Secret]
    /\ vendor \in [live : SUBSET Flows, seq : [Flows -> Nat], rotates : BOOLEAN]
    /\ flow \in [Flows -> Flow]
    /\ refresh \in [Refreshers -> Refresh]
    /\ removal \in [Removers -> Removal]
    /\ clock \in [taken : Nat, lapsed : Nat, over : Nat]
    /\ clock.over <= clock.lapsed /\ clock.lapsed <= clock.taken
    /\ dead \subseteq Flows \cup Refreshers \cup Removers
    /\ trouble \in Nat
    /\ overtaken \subseteq Flows \cup Refreshers
    /\ left \subseteq Flows \cup {None}

(* A refresh that was admitted for one authorization and then, /start to     *)
(* publish having come in between, read the token of the next.               *)
Misread(r) == refresh[r].token.grant \notin {None, refresh[r].auth}

(* A grant whose newest token the secrets do not hold: its callback is still *)
(* on its way or died before it stored it, or the refresh that rotated it    *)
(* died with it, was overtaken or may not store it.                          *)
Unstored(g) ==
    \/ g \notin dead /\ flow[g].pc # "done"
    \/ flow[g].pc \in {"moving", "issued", "writing", "refused", "unpublished", "failed"}
    \/ \E r \in Refreshers :
         /\ refresh[r].token.grant = g
         /\ Misread(r) \/ r \in overtaken \/ (r \in dead /\ refresh[r].pc = "got")

(* A removal that tells the person "the vendor revoked the authorization"    *)
(* leaves no authorization of this connection live, but for those the code   *)
(* leaves to the person or to a newer authorization and those in no secret.  *)
ReportedIsRevoked ==
    \A d \in Removers :
        removal[d].pc = "removed" /\ removal[d].claim =>
            \A g \in vendor.live : g \in left \/ Unstored(g)

(* While a removal holds the row, no request can put new material behind the *)
(* refs: "what is read here is what is revoked and what is swept".  But for  *)
(* one whose lapsed lease a later refresh took and then cleared.             *)
Puts(x) ==
    /\ Runs(x)
    /\ \/ x \in Flows /\ flow[x].pc \in {"writing", "half"}
       \/ x \in Refreshers /\ refresh[x].pc \in {"got", "half"}

Held == row.hold.by # NoRemover /\ ~row.hold.lapsed

HoldIsExclusive == Held => \A x \in Flows \cup Refreshers : Puts(x) => x \in overtaken

(* The provider-revoked mark never stands for a newer token: what is behind  *)
(* the refs of a marked row is revoked ("a mark read from it can skip the    *)
(* vendor for a token a reconnect has since put behind the same refs").      *)
MarkIsTrue ==
    row.mark /\ Exists /\ Behind(secrets.refresh, row.refs.refresh) =>
        LET g == secrets.refresh.token.grant IN g \notin vendor.live \/ Unstored(g)

(* The halves of a connected row's pair come from one write, unless a        *)
(* refresh is, or died, between its two puts.                                *)
PairIsWhole ==
    row.status = "connected" /\ secrets.access.gen # secrets.refresh.gen =>
        \E r \in Refreshers : refresh[r].pc = "half" /\ secrets.access.gen = RefreshGeneration(r)

(* The newest refresh token of g is with a refresh and in no secret: on its  *)
(* way, or lost where the refresh broke off, or refused by the store since   *)
(* the refresh was admitted for an older authorization.                      *)
Carries(r, g) ==
    /\ refresh[r].token = [grant |-> g, seq |-> vendor.seq[g]]
    /\ refresh[r].pc \in {"got", "half"} \/ Misread(r)

(* A connected row names a refresh token that is there, and that the vendor  *)
(* will accept next.  It may refuse it in two cases only: a callback has     *)
(* withdrawn its grant for another account, or the grant's newest token was  *)
(* given to a refresh that has not stored it.  A refresh that broke off with *)
(* the newest token of one grant excuses no other.                           *)
ConnectedCanRefresh ==
    row.status = "connected" =>
        LET g == secrets.refresh.token.grant IN
            /\ Behind(secrets.refresh, row.refs.refresh)
            /\ \/ g \in left
               \/ /\ g \in vendor.live
                  /\ Current(secrets.refresh.token) \/ \E r \in Refreshers : Carries(r, g)
===============================================================================
