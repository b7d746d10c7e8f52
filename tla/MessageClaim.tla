----------------------------- MODULE MessageClaim -----------------------------
(* The kernel half of attention claims (backend/services/messageClaimService *)
(* .ts): one row per message in the table message_claims, each request a     *)
(* short sequence of single SQL statements, nothing else locked.  Callers    *)
(* are arbitrary (a seat may call claim or release of any message at any     *)
(* time, and repeat itself), because the routes accept any installed agent.  *)
(*                                                                           *)
(* Time is the age of a row: "live" while expires_at has not passed,         *)
(* "lapsed" after it, "stale" one retention window (an hour) after that.     *)
EXTENDS FiniteSets

CONSTANTS Messages,   \* message ids
          Seats,      \* canonical agentName:instanceId identities
          NoSeat      \* the holder of a row that does not exist

ASSUME ClaimConstants == NoSeat \notin Seats

VARIABLES rows,       \* message_claims
          inFlight,   \* requests that have one more statement to run
          told        \* the leases each seat was told it won, and may rely on

vars == <<rows, inFlight, told>>

Terminal == {"completed", "declined", "refused"}

Row == [state    : {"absent", "claimed"} \cup Terminal,
        holder   : Seats \cup {NoSeat},
        age      : {"live", "lapsed", "stale"},
        declined : SUBSET Seats]

Absent == [state |-> "absent", holder |-> NoSeat, age |-> "live", declined |-> {}]

(* A claim before its compare-and-swap, a release before its DELETE.         *)
Request == [seat : Seats, op : {"cas", "delete"}, msg : Messages]

Cas(s, m) == [seat |-> s, op |-> "cas", msg |-> m]
Delete(s, m) == [seat |-> s, op |-> "delete", msg |-> m]

-------------------------------------------------------------------------------
(* The conditions of the statements.                                         *)

(* The DELETE every claim starts with.                                       *)
Prunable(r) ==
    \/ r.state \in Terminal /\ r.age # "live"
    \/ r.state = "claimed" /\ r.age = "stale"

(* Mutant: the CAS takes over a lease that has not run out.                  *)
WinnableWhileLive(r, s) == r.state # "completed"

(* Mutant: the CAS treats a completion tombstone like a decline.             *)
WinnableWhenCompleted(r, s) ==
    \/ r.state \in {"absent", "declined", "refused", "completed"}
    \/ r.state = "claimed" /\ (r.age # "live" \/ r.holder = s)

(* INSERT ... ON CONFLICT DO UPDATE ... WHERE.                               *)
Winnable(r, s) ==
    \/ r.state \in {"absent", "declined", "refused"}
    \/ r.state = "claimed" /\ r.age # "live"
    \/ r.state = "claimed" /\ r.holder = s

(* WHERE claimed_by = ... AND state = 'claimed'; expiry is not asked.        *)
HeldBy(r, s) == r.state = "claimed" /\ r.holder = s

(* The rows after the CAS; declined_by stays, the refusal class does not.    *)
Won(r, s) == [r EXCEPT !.state = "claimed", !.holder = s, !.age = "live"]

(* Mutant: only a decline is appended to declined_by.                        *)
PassedOnDeclineOnly(r, s, outcome) ==
    [r EXCEPT !.state = outcome, !.age = "live",
              !.declined = IF outcome = "declined" THEN @ \cup {s} ELSE @]

(* UPDATE ... SET state, expires_at, declined_by of a decline or a refusal.  *)
PassedOn(r, s, outcome) ==
    [r EXCEPT !.state = outcome, !.age = "live", !.declined = @ \cup {s}]

(* UPDATE ... SET state = 'completed' WHERE cardinality(declined_by) > 0.    *)
HandedOff(r) == r.declined # {}

Tombstone(r) == [r EXCEPT !.state = "completed", !.age = "live"]

-------------------------------------------------------------------------------
Init ==
    /\ rows = [m \in Messages |-> Absent]
    /\ inFlight = {}
    /\ told = [s \in Seats |-> {}]

(* claim, first statement: prune every row whose retention has ended.        *)
ClaimPrune(s, m) ==
    /\ rows' = [k \in Messages |-> IF Prunable(rows[k]) THEN Absent ELSE rows[k]]
    /\ inFlight' = inFlight \cup {Cas(s, m)}
    /\ UNCHANGED told

(* claim, second statement: the compare-and-swap.  The answer may be lost on *)
(* the way back, and then the seat was not told.  A loser only reads on.     *)
ClaimWin(s, m) ==
    /\ Cas(s, m) \in inFlight
    /\ Winnable(rows[m], s)
    /\ rows' = [rows EXCEPT ![m] = Won(@, s)]
    /\ told' \in {[told EXCEPT ![s] = @ \cup {m}], told}
    /\ inFlight' = inFlight \ {Cas(s, m)}

ClaimLose(s, m) ==
    /\ Cas(s, m) \in inFlight
    /\ ~Winnable(rows[m], s)
    /\ inFlight' = inFlight \ {Cas(s, m)}
    /\ UNCHANGED <<rows, told>>

(* release with outcome 'declined' or 'refused': one UPDATE.                 *)
ReleasePassOn(s, m, outcome) ==
    /\ HeldBy(rows[m], s)
    /\ rows' = [rows EXCEPT ![m] = PassedOn(@, s, outcome)]
    /\ told' = [told EXCEPT ![s] = @ \ {m}]
    /\ UNCHANGED inFlight

(* release with outcome 'completed': an UPDATE, and when it matches nothing  *)
(* the DELETE follows as a second statement.                                 *)
ReleaseCompleted(s, m) ==
    IF HeldBy(rows[m], s) /\ HandedOff(rows[m])
    THEN /\ rows' = [rows EXCEPT ![m] = Tombstone(@)]
         /\ told' = [told EXCEPT ![s] = @ \ {m}]
         /\ UNCHANGED inFlight
    ELSE /\ inFlight' = inFlight \cup {Delete(s, m)}
         /\ UNCHANGED <<rows, told>>

(* The DELETE, which is all a release with no outcome runs.                  *)
ReleaseOmitted(s, m) ==
    /\ inFlight' = inFlight \cup {Delete(s, m)}
    /\ UNCHANGED <<rows, told>>

ReleaseDelete(s, m) ==
    /\ Delete(s, m) \in inFlight
    /\ inFlight' = inFlight \ {Delete(s, m)}
    /\ IF HeldBy(rows[m], s)
       THEN /\ rows' = [rows EXCEPT ![m] = Absent]
            /\ told' = [told EXCEPT ![s] = @ \ {m}]
       ELSE UNCHANGED <<rows, told>>

(* The server dies, or the connection fails, between two statements.         *)
RequestLost(r) ==
    /\ r \in inFlight
    /\ inFlight' = inFlight \ {r}
    /\ UNCHANGED <<rows, told>>

(* expires_at passes: a lease runs out, or the retention of a terminal row.  *)
Lapse(m) ==
    /\ rows[m].state # "absent"
    /\ rows[m].age = "live"
    /\ rows' = [rows EXCEPT ![m].age = "lapsed"]
    /\ told' = IF rows[m].state = "claimed"
               THEN [told EXCEPT ![rows[m].holder] = @ \ {m}]
               ELSE told
    /\ UNCHANGED inFlight

(* A lease nobody came back to is one retention window past its expiry.      *)
Stale(m) ==
    /\ rows[m].state = "claimed"
    /\ rows[m].age = "lapsed"
    /\ rows' = [rows EXCEPT ![m].age = "stale"]
    /\ UNCHANGED <<inFlight, told>>

SeatStep(s, m) ==
    \/ ClaimPrune(s, m) \/ ClaimWin(s, m) \/ ClaimLose(s, m)
    \/ \E outcome \in {"declined", "refused"} : ReleasePassOn(s, m, outcome)
    \/ ReleaseCompleted(s, m) \/ ReleaseOmitted(s, m) \/ ReleaseDelete(s, m)

Next ==
    \/ \E s \in Seats, m \in Messages : SeatStep(s, m)
    \/ \E r \in inFlight : RequestLost(r)
    \/ \E m \in Messages : Lapse(m) \/ Stale(m)

Spec == Init /\ [][Next]_vars

-------------------------------------------------------------------------------
TypeOK ==
    /\ rows \in [Messages -> Row]
    /\ inFlight \subseteq Request
    /\ told \in [Seats -> SUBSET Messages]

(* A seat that was told it holds a lease which has not run out does hold it: *)
(* no prune, takeover, late DELETE or replayed release of anyone else's took *)
(* it away.  Two seats therefore never both act under a live lease.          *)
LeaseIsExclusive ==
    \A s \in Seats : \A m \in told[s] :
        HeldBy(rows[m], s) /\ rows[m].age = "live"

(* What a terminal row says of its history is true: the seat that passed the *)
(* message on is among those who declined, and only a message that was       *)
(* passed on leaves a completion tombstone.  A row always names a seat.      *)
HistoryIsSound ==
    \A m \in Messages :
        /\ rows[m].state \in {"declined", "refused"} => rows[m].holder \in rows[m].declined
        /\ rows[m].state = "completed" => rows[m].declined # {}
        /\ IF rows[m].state = "absent" THEN rows[m] = Absent ELSE rows[m].holder \in Seats

(* A terminal state is never reached from another terminal state, whoever    *)
(* repeats a release: a terminal row only ages, is claimed anew (not when    *)
(* completed), or is pruned after its retention.                             *)
TerminalIsFinal ==
    [][\A m \in Messages : rows[m].state \in Terminal =>
          \/ rows'[m].state = rows[m].state /\ rows'[m].holder = rows[m].holder
          \/ rows'[m].state = "claimed" /\ rows[m].state # "completed"
          \/ rows'[m].state = "absent" /\ rows[m].age # "live"]_vars

(* Who has declined is forgotten only with the whole row, and the row of a   *)
(* message that was passed on goes only when its retention has ended or its  *)
(* holder drops the lease without an outcome.                                *)
DeclinesAreKept ==
    [][\A m \in Messages : ~(rows[m].declined \subseteq rows'[m].declined) =>
          /\ rows'[m] = Absent
          /\ \/ rows[m].age # "live"
             \/ rows[m].state = "claimed"
                /\ Delete(rows[m].holder, m) \in inFlight]_vars

-------------------------------------------------------------------------------
(* The abstract lease this service implements.                               *)
Standing(r) ==
    CASE r.state = "claimed" /\ r.age = "live" -> r.holder
      [] r.state = "completed" -> "closed"
      [] OTHER -> "open"

Lease == INSTANCE ClaimLease WITH
            standing <- [m \in Messages |-> Standing(rows[m])],
            Open <- "open", Closed <- "closed"

(* Every step of the service is a step of the abstract lease: a lease is     *)
(* never handed from seat to seat directly, a completed message never leased *)
(* before it is forgotten.                                                   *)
ImplementsLease == Lease!LSpec
===============================================================================
