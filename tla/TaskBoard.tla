------------------------------- MODULE TaskBoard -------------------------------
(* One row of a pod's task board (routes/tasksApi.ts) under seats, people,   *)
(* the closes by the system, and the kernel's sweep of lapsed leases, which  *)
(* runs on every replica (services/kernelWorkSweepService.ts).               *)
(*                                                                           *)
(* A seat is keyed by its user id, and its names by which a note recognises  *)
(* it (user name, board name) are its own.  A write that loses the race on   *)
(* the row's revision is repeated or refused, so each is one step.  Fields   *)
(* that decide nothing here (title, priority, notes, watchers) and claims of *)
(* before there were leases are left out.                                    *)
EXTENDS Naturals

CONSTANTS Seats, Person, Nobody,
          Creators,      \* the seat that created the row, if a seat did
          Sweepers,      \* sweep passes that may overlap
          MaxDeferrals,  \* MAX_RESCUE_DEFERRALS
          MaxCloses      \* bound on how often the row is closed

ASSUME BoardConstants ==
    /\ Person \notin Seats /\ Nobody \notin Seats \cup {Person}
    /\ Creators \subseteq Seats
    /\ MaxDeferrals \in Nat /\ MaxCloses \in Nat

VARIABLES row,        \* the Task document
          listening,  \* seats with a fresh check-in
          pass        \* what a sweep pass read of the row

bvars == <<row, listening, pass>>

Writers == Seats \cup {Person}

Statuses == {"pending", "claimed", "done", "blocked"}

SeatOrNone == Seats \cup {Nobody}

(* assignee, claimedBy, claimedByUserId, claimExpiresAt, rescueDeferrals,    *)
(* lapsedFrom and grantEpoch.                                                *)
Row == [status : Statuses, assignee : SeatOrNone, holder : SeatOrNone, user : SeatOrNone,
        lease : {"none", "live", "over"}, deferrals : 0 .. MaxDeferrals,
        lapsedFrom : SeatOrNone, epoch : 0 .. MaxCloses]

Pass == [found : BOOLEAN, holder : SeatOrNone, assignee : SeatOrNone, used : 0 .. MaxDeferrals]

Away == [found |-> FALSE, holder |-> Nobody, assignee |-> Nobody, used |-> 0]

BInit ==
    /\ \E s \in SeatOrNone :
          row = [status |-> "pending", assignee |-> s, holder |-> Nobody, user |-> Nobody,
                 lease |-> "none", deferrals |-> 0, lapsedFrom |-> Nobody, epoch |-> 0]
    /\ listening = Seats
    /\ pass = [k \in Sweepers |-> Away]

-------------------------------------------------------------------------------
(* lapsedConditions: the same for the claim and for the sweep.               *)
Lapsed == row.status = "claimed" /\ row.lease = "over"

(* A live lease of s, which only s, a person or the row's creator writes     *)
(* over.                                                                     *)
Held(s) == row.status = "claimed" /\ row.lease = "live" /\ row.holder = s

(* Mutant: the last claim wins.                                              *)
WinnableAlways(s) == row.status # "done"

Winnable(s) ==
    \/ row.status \in {"pending", "blocked"}
    \/ Lapsed
    \/ row.status = "claimed" /\ row.holder = s /\ row.user \in {s, Nobody}

Leased(s, user) ==
    [row EXCEPT !.status = "claimed", !.holder = s, !.user = user, !.lease = "live",
                !.deferrals = 0, !.lapsedFrom = Nobody]

Claim(s) ==
    /\ Winnable(s)
    /\ row' = Leased(s, s)
    /\ UNCHANGED <<listening, pass>>

(* leaseCheckForWrite and its twin in the filter of the write.               *)
Writable(w) ==
    \/ w \in {Person} \cup Creators
    \/ row.status # "claimed" \/ row.lease = "over"
    \/ row.holder \in {w, Nobody}

Closing == row.epoch < MaxCloses

(* Mutant: the close leaves the authority of who held the row.               *)
ClosedKeepsUser == [row EXCEPT !.status = "done", !.epoch = @ + 1]

Closed == [row EXCEPT !.status = "done", !.user = Nobody, !.epoch = @ + 1]

(* POST complete, by a seat or a person.                                     *)
Complete(w) ==
    /\ row.status \in {"claimed", "pending"} /\ Writable(w)
    /\ Closing
    /\ row' = Closed
    /\ UNCHANGED <<listening, pass>>

(* A merged pull request, or the starter task's own condition.               *)
CompleteBySystem ==
    /\ row.status \in {"claimed", "pending"}
    /\ Closing
    /\ row' = Closed
    /\ UNCHANGED <<listening, pass>>

Closable == row.status # "done"

(* PATCH assignee.                                                           *)
Reassign(w, s) ==
    /\ Writable(w)
    /\ row' = [row EXCEPT !.assignee = s]
    /\ UNCHANGED <<listening, pass>>

(* PATCH status.  A seat cannot start a task, and a person's start writes no *)
(* lease.                                                                    *)
Patch(w, status) ==
    /\ Writable(w)
    /\ status = "claimed" => w = Person
    /\ IF status = "done"
       THEN Closable /\ Closing /\ row' = Closed
       ELSE row' = [row EXCEPT !.status = status, !.user = IF status = "claimed" THEN @ ELSE Nobody]
    /\ UNCHANGED <<listening, pass>>

(* The same source asks for a task that is done.                             *)
Reopen(s) ==
    /\ row.status = "done"
    /\ row' = [row EXCEPT !.status = "pending", !.assignee = s, !.user = Nobody, !.lease = "none"]
    /\ UNCHANGED <<listening, pass>>

(* A note of the holder renews.                                              *)
Renew(s) ==
    /\ row.status = "claimed" /\ row.holder = s
    /\ row' = [row EXCEPT !.lease = "live", !.deferrals = 0]
    /\ UNCHANGED <<listening, pass>>

(* Mutant: a late note takes the row back whoever has it by now.             *)
RestorableAlways(s) == row.lapsedFrom = s \/ row.holder = Nobody \/ row.status = "claimed"

Restorable(s) == row.status = "pending" /\ row.lapsedFrom = s

(* One of the former holder of a row that was swept restores the claim, but  *)
(* no authority over the row's grants.                                       *)
Restore(s) ==
    /\ Restorable(s)
    /\ row' = Leased(s, Nobody)
    /\ UNCHANGED <<listening, pass>>

-------------------------------------------------------------------------------
(* kernelWorkSweepService.rescueLapsed.                                      *)

FindLapsed(k) ==
    /\ ~pass[k].found /\ Lapsed
    /\ pass' = [pass EXCEPT ![k] = [found |-> TRUE, holder |-> row.holder,
                                  assignee |-> row.assignee, used |-> row.deferrals]]
    /\ UNCHANGED <<row, listening>>

Deferring(k) == pass[k].holder \in listening /\ pass[k].used < MaxDeferrals

(* Mutant: the deferral is not counted.                                      *)
DeferredUncounted(k) == row

Deferred(k) == [row EXCEPT !.deferrals = pass[k].used + 1]

(* The lapsed predicate is in the filter of either write.                    *)
Defer(k) ==
    /\ pass[k].found /\ Deferring(k)
    /\ row' = IF Lapsed THEN Deferred(k) ELSE row
    /\ pass' = [pass EXCEPT ![k] = Away]
    /\ UNCHANGED listening

(* Mutant: what the pass found lapsed is taken back.                         *)
RescuableAsFound(k) == pass[k].found

Rescuable(k) == Lapsed

(* The name it was taken from is the assignee's, if there is one.            *)
Provenance(k) == IF pass[k].assignee # Nobody THEN pass[k].assignee ELSE pass[k].holder

Rescue(k) ==
    /\ pass[k].found /\ ~Deferring(k)
    /\ row' = IF Rescuable(k)
              THEN [row EXCEPT !.status = "pending", !.assignee = Nobody, !.holder = Nobody,
                               !.user = Nobody, !.lease = "none", !.deferrals = 0,
                               !.lapsedFrom = Provenance(k)]
              ELSE row
    /\ pass' = [pass EXCEPT ![k] = Away]
    /\ UNCHANGED listening

-------------------------------------------------------------------------------
(* A pass looks for leases that were over when it began, and does nothing to *)
(* one that lapses later.                                                    *)
LeaseLapses ==
    /\ row.lease = "live"
    /\ row' = [row EXCEPT !.lease = "over"]
    /\ pass' = [k \in Sweepers |-> Away]
    /\ UNCHANGED listening

(* Check-ins come and stop.                                                  *)
ListeningChanges ==
    /\ listening' \in SUBSET Seats
    /\ UNCHANGED <<row, pass>>

BNext ==
    \/ \E s \in Seats : Claim(s) \/ Renew(s) \/ Restore(s)
    \/ \E w \in Writers : Complete(w) \/ \E status \in Statuses : Patch(w, status)
    \/ \E s \in SeatOrNone : Reopen(s) \/ \E w \in Writers : Reassign(w, s)
    \/ CompleteBySystem \/ LeaseLapses \/ ListeningChanges
    \/ \E k \in Sweepers : FindLapsed(k) \/ Defer(k) \/ Rescue(k)

BSpec == BInit /\ [][BNext]_bvars

(* The sweep runs every ten minutes; nobody has to claim or to answer.       *)
FairBSpec == BSpec /\ \A k \in Sweepers : WF_bvars(FindLapsed(k) \/ Defer(k) \/ Rescue(k))

-------------------------------------------------------------------------------
(* What the row and the passes are made of.                                  *)
BTypeOK ==
    /\ row \in Row /\ listening \subseteq Seats /\ pass \in [Sweepers -> Pass]

(* The authenticated principal that the row's grants obey is the seat that   *)
(* holds it by its own claim: whoever closed, swept, restored, reopened or   *)
(* started the row since has left none.                                      *)
AuthorityIsHolders ==
    row.user # Nobody =>
        row.status = "claimed" /\ row.holder = row.user /\ row.lapsedFrom = Nobody

Overridden(s) ==
    \/ LeaseLapses \/ CompleteBySystem
    \/ \E w \in {s, Person} \cup Creators : Complete(w) \/ \E status \in Statuses : Patch(w, status)

(* To the grants that are bound to it the row is a TaskAuthority: authority  *)
(* passes from one seat to another only through nobody, and ends with every  *)
(* close.                                                                    *)
Authority == INSTANCE TaskAuthority WITH
    open <- row.status # "done",
    epoch <- row.epoch,
    claimant <- IF row.status = "claimed" /\ row.lease = "live" THEN row.user ELSE Nobody

ImplementsAuthority == Authority!ASpec

(* Nobody but the holder, a person, the creator or the system ends a live    *)
(* lease: no peer's claim or late note, and no sweep that found the lease    *)
(* lapsed before it was renewed.                                             *)
PeersStandDown ==
    [][\A s \in Seats : Held(s) /\ ~Held(s)' => Overridden(s)]_bvars

(* The close hooks hang on the epoch: it moves once for every closing of the *)
(* row, whichever of the routes closes it.                                   *)
ClosedOnce ==
    [][row'.epoch # row.epoch <=> row.status # "done" /\ row'.status = "done"]_bvars

(* Liveness is not tenure: a lapsed lease ends even if its holder goes on    *)
(* listening without a word, and passes overlap on it.                       *)
LapsedIsSettled == Lapsed ~> ~Lapsed
===============================================================================
