------------------------ MODULE AgentEventQueueProofs ------------------------
(* Proofs about AgentEventQueue, for any events, runners, replicas and caps. *)
EXTENDS AgentEventQueue, TLAPS

-------------------------------------------------------------------------------
(* What the updates write are documents.                                     *)
LEMMA UpdatesAreRows ==
    ASSUME NEW r \in Row
    PROVE  /\ Claimed(r) \in Row
           /\ TakenBack(r) \in Row
           /\ Refreshed(r) \in Row
           /\ \A s \in Final \cup {"gone"} : Ended(r, s) \in Row
           /\ [r EXCEPT !.age = "stale"] \in Row
           /\ r.carries < MaxMessages => [r EXCEPT !.carries = @ + 1] \in Row
           /\ \A person \in BOOLEAN :
                [r EXCEPT !.status = "pending", !.carries = 1, !.person = person] \in Row
<1>1. MaxMessages \in Nat /\ 1 \in 0 .. MaxMessages
  BY QueueConstants
<1>2. Claimed(r) \in Row
  BY DEF Row, Claimed
<1>3. TakenBack(r) \in Row
  BY DEF Row, TakenBack, NoNonce
<1>4. Refreshed(r) \in Row
  BY DEF Row, Refreshed
<1>5. ASSUME NEW s \in Final \cup {"gone"}
      PROVE  Ended(r, s) \in Row
  BY DEF Row, Ended, NoNonce, Final
<1>6. [r EXCEPT !.age = "stale"] \in Row
  BY DEF Row
<1>7. ASSUME r.carries < MaxMessages
      PROVE  [r EXCEPT !.carries = @ + 1] \in Row
  BY <1>1, <1>7 DEF Row
<1>8. ASSUME NEW person \in BOOLEAN
      PROVE  [r EXCEPT !.status = "pending", !.carries = 1, !.person = person] \in Row
  BY <1>1 DEF Row
<1> QED
  BY <1>2, <1>3, <1>4, <1>5, <1>6, <1>7, <1>8

(* The documents stay documents, whichever update runs.                      *)
LEMMA RowsTyped == TypeOK /\ [Next]_vars => rows' \in [Events -> Row]
<1> SUFFICES ASSUME TypeOK, [Next]_vars
             PROVE  rows' \in [Events -> Row]
  OBVIOUS
<1>t. rows \in [Events -> Row]
  BY DEF TypeOK
<1>p. ASSUME NEW e \in Events, NEW x \in Row, rows' = [rows EXCEPT ![e] = x]
      PROVE  rows' \in [Events -> Row]
  BY <1>p, <1>t
<1>1. ASSUME NEW e \in Events, EventNext(e)
      PROVE  rows' \in [Events -> Row]
  <2>1. CASE Enqueue(e)
    <3>1. PICK person \in BOOLEAN : rows' =
            [rows EXCEPT ![e] = [@ EXCEPT !.status = "pending",
                                          !.carries = 1,
                                          !.person = person]]
      BY <2>1 DEF Enqueue
    <3>2. [rows[e] EXCEPT !.status = "pending", !.carries = 1, !.person = person] \in Row
      BY <1>t, UpdatesAreRows
    <3>3. rows' = [rows EXCEPT ![e] = [rows[e] EXCEPT !.status = "pending", !.carries = 1, !.person = person]]
      BY <3>1, <1>t
    <3> QED
      BY <3>2, <3>3, <1>p
  <2>2. CASE Join(e)
    BY <2>2, <1>t, UpdatesAreRows, <1>p DEF Join, Joinable
  <2>3. CASE GoesStale(e)
    BY <2>3, <1>t, UpdatesAreRows, <1>p DEF GoesStale
  <2>4. CASE Requeue(e)
    BY <2>4, <1>t, UpdatesAreRows, <1>p DEF Requeue
  <2>5. CASE Expire(e)
    BY <2>5, <1>t, UpdatesAreRows, <1>p DEF Expire, Final
  <2>6. CASE Delete(e)
    BY <2>6, <1>t, UpdatesAreRows, <1>p DEF Delete
  <2> QED
    BY <1>1, <2>1, <2>2, <2>3, <2>4, <2>5, <2>6 DEF EventNext
<1>2. ASSUME NEW r \in Runners, RunnerNext(r)
      PROVE  rows' \in [Events -> Row]
  <2>w. run[r].pc # "idle" => run[r].ev \in Events /\ rows[run[r].ev] \in Row
    BY <1>t DEF TypeOK
  <2>1. CASE Claim(r)
    BY <2>1, <2>w, <1>p, UpdatesAreRows DEF Claim
  <2>2. CASE Renew(r)
    BY <2>2, <2>w, <1>p, UpdatesAreRows DEF Renew
  <2>3. CASE MarkPosted(r)
    BY <2>3, <1>t, <2>w, <1>p, UpdatesAreRows DEF MarkPosted
  <2>4. CASE Acknowledge(r)
    BY <2>4, <2>w, <1>p, UpdatesAreRows DEF Acknowledge, Final
  <2>5. CASE Release(r)
    BY <2>5, <2>w, <1>p, UpdatesAreRows DEF Release
  <2>6. CASE UNCHANGED rows
    BY <2>6, <1>t
  <2> QED
    BY <1>2, <2>1, <2>2, <2>3, <2>4, <2>5, <2>6
       DEF RunnerNext, Poll, ClaimMissed, Post, LetGo
<1>3. ASSUME NEW w \in Sweepers, FindUnanswered(w) \/ SweepStep(w) \/ SweepFails(w)
      PROVE  rows' \in [Events -> Row]
  <2>1. ASSUME NEW e \in Events, NEW n \in 1 .. Ceiling, Retire(w, e, n)
        PROVE  rows' \in [Events -> Row]
    BY <2>1, <1>t, UpdatesAreRows, <1>p DEF Retire, Final
  <2>2. CASE UNCHANGED rows
    BY <2>2, <1>t
  <2> QED
    BY <1>3, <2>1, <2>2
       DEF SweepStep, FindUnanswered, LookForAnswer, PostLine, SweepFails, NoteFails, SweepDies
<1>4. CASE UNCHANGED vars
  BY <1>4, <1>t DEF vars
<1> QED
  BY <1>1, <1>2, <1>3, <1>4 DEF Next

(* So do the runners, the sweeps and the history.                            *)
LEMMA ActorsTyped == TypeOK /\ [Next]_vars => TypeOK'
<1> SUFFICES ASSUME TypeOK, [Next]_vars
             PROVE  TypeOK'
  OBVIOUS
<1>r. rows' \in [Events -> Row]
  BY RowsTyped
<1>n. \A e \in Events : rows[e].nonce \in Nat /\ rows[e].attempts + 1 \in Nat
                        /\ rows[e].carries \in Nat
  BY DEF TypeOK, Row
<1>k. NoNonce \in Nat
  BY DEF NoNonce
<1>1. ASSUME NEW e \in Events, EventNext(e)
      PROVE  TypeOK'
  <2>1. CASE Requeue(e)
    BY <2>1, <1>r, <1>n DEF Requeue, TypeOK
  <2>2. CASE UNCHANGED <<run, job, answered, lines, crashes, taken, endedBy, read>>
    BY <2>2, <1>r DEF TypeOK
  <2> QED
    BY <1>1, <2>1, <2>2 DEF EventNext, Enqueue, Join, GoesStale, Expire, Delete
<1>2. ASSUME NEW r \in Runners, RunnerNext(r)
      PROVE  TypeOK'
  <2>e. run[r].pc # "idle" => run[r].ev \in Events
    BY DEF TypeOK
  <2>i. Idle.pc = "idle" /\ Idle \in [pc : {"idle", "found", "held", "posted"},
                                      ev : Events \cup {NoEvent}, nonce : Nat]
    BY <1>k DEF Idle
  <2>1. ASSUME NEW e \in Events, Poll(r, e)
        PROVE  TypeOK'
    BY <2>1, <1>r, <1>k DEF Poll, TypeOK
  <2>2. CASE Claim(r)
    <3>1. run' \in [Runners -> [pc : {"idle", "found", "held", "posted"},
                                ev : Events \cup {NoEvent}, nonce : Nat]]
      BY <2>2, <2>e, <1>n DEF Claim, TypeOK
    <3>2. \A q \in Runners : run'[q].pc # "idle" => run'[q].ev \in Events
      BY <2>2, <2>e DEF Claim, TypeOK
    <3>3. read' \in [Events -> Nat]
      BY <2>2, <2>e, <1>n DEF Claim, TypeOK
    <3> QED
      BY <2>2, <3>1, <3>2, <3>3, <1>r DEF Claim, TypeOK
  <2>3. CASE ClaimMissed(r) \/ LetGo(r)
    BY <2>3, <2>i, <1>r DEF ClaimMissed, LetGo, TypeOK
  <2>4. CASE Renew(r)
    BY <2>4, <1>r DEF Renew, TypeOK
  <2>5. CASE Post(r)
    BY <2>5, <1>r DEF Post, TypeOK
  <2>6. CASE MarkPosted(r)
    BY <2>6, <1>r DEF MarkPosted, TypeOK
  <2>7. CASE Acknowledge(r)
    <3>1. run[r].nonce \in Nat
      BY DEF TypeOK
    <3>2. endedBy' \in [Events -> Nat]
      BY <2>7, <2>e, <3>1, <1>k DEF Acknowledge, TypeOK
    <3> QED
      BY <2>7, <3>2, <1>r DEF Acknowledge, TypeOK
  <2>8. CASE Release(r)
    <3>1. taken' \in [Events -> SUBSET Nat]
      BY <2>8, <2>e, <1>n DEF Release, TypeOK
    <3> QED
      BY <2>8, <3>1, <2>i, <1>r DEF Release, TypeOK
  <2> QED
    BY <1>2, <2>1, <2>2, <2>3, <2>4, <2>5, <2>6, <2>7, <2>8 DEF RunnerNext
<1>3. ASSUME NEW w \in Sweepers, FindUnanswered(w) \/ SweepStep(w) \/ SweepFails(w)
      PROVE  TypeOK'
  <2>a. Resting.pc = "retire" /\ Resting.batch = {} /\ Resting \in Job
    BY QueueConstants DEF Resting, Job
  <2>g. GoingOn(job[w]) \in Job /\ GoingOn(job[w]).pc = "retire"
    BY QueueConstants DEF GoingOn, Resting, Job, TypeOK
  <2>n. /\ NextMessage(job[w]) \in Job
        /\ NextMessage(job[w]).pc # "retire" =>
             /\ NextMessage(job[w]).ev = job[w].ev
             /\ NextMessage(job[w]).msg \in 1 .. MaxMessages
    <3>1. CASE job[w].msg < job[w].last
      <4>1. NextMessage(job[w]) = [job[w] EXCEPT !.pc = "look", !.msg = job[w].msg + 1]
        BY <3>1 DEF NextMessage
      <4>2. /\ job[w] \in Job /\ job[w].msg \in Nat /\ job[w].last \in Nat
            /\ job[w].last <= MaxMessages /\ MaxMessages \in Nat
        BY QueueConstants DEF TypeOK, Job
      <4>3. job[w].msg + 1 \in 1 .. MaxMessages /\ job[w].msg + 1 \in 0 .. MaxMessages
        BY <3>1, <4>2
      <4> QED
        BY <4>1, <4>2, <4>3 DEF Job
    <3>2. CASE ~(job[w].msg < job[w].last)
      BY <3>2, <2>g DEF NextMessage
    <3> QED
      BY <3>1, <3>2
  <2>j. job \in [Sweepers -> Job]
        /\ \A v \in Sweepers : job[v].pc # "retire" =>
             job[v].ev \in Events /\ job[v].msg \in 1 .. MaxMessages
    BY DEF TypeOK
  <2>w. ASSUME NEW x \in Job, job' = [job EXCEPT ![w] = x],
               x.pc # "retire" => x.ev \in Events /\ x.msg \in 1 .. MaxMessages
        PROVE  /\ job' \in [Sweepers -> Job]
               /\ \A v \in Sweepers : job'[v].pc # "retire" =>
                    job'[v].ev \in Events /\ job'[v].msg \in 1 .. MaxMessages
    BY <2>w, <2>j
  <2>1. CASE FindUnanswered(w)
    <3>1. PICK picked \in SUBSET Due :
              job' = [job EXCEPT ![w].batch = {<<e, rows[e].nonce>> : e \in picked}]
      BY <2>1 DEF FindUnanswered
    <3>2. {<<e, rows[e].nonce>> : e \in picked} \in SUBSET (Events \X Nat)
      BY <1>n, QueueConstants DEF Due
    <3> DEFINE b == {<<e, rows[e].nonce>> : e \in picked}
               x == [job[w] EXCEPT !.batch = b]
    <3>3. job[w] \in Job /\ job' = [job EXCEPT ![w] = x]
      BY <3>1, <2>j
    <3> HIDE DEF b
    <3>4. x \in Job /\ x.pc = job[w].pc /\ x.ev = job[w].ev /\ x.msg = job[w].msg
      BY <3>2, <3>3 DEF Job, b
    <3> HIDE DEF x
    <3>5. /\ job' \in [Sweepers -> Job]
          /\ \A v \in Sweepers : job'[v].pc # "retire" =>
               job'[v].ev \in Events /\ job'[v].msg \in 1 .. MaxMessages
      BY <3>3, <3>4, <2>j, <2>w
    <3> QED
      BY <2>1, <3>5, <1>r DEF FindUnanswered, TypeOK
  <2>2. ASSUME NEW e \in Events, NEW n \in 1 .. Ceiling, Retire(w, e, n)
        PROVE  TypeOK'
    <3> DEFINE b == job[w].batch \ {<<e, n>>}
    <3>b. b \in SUBSET (Events \X Nat) /\ job[w] \in Job
      BY <2>j DEF Job
    <3> HIDE DEF b
    <3>1. CASE Retirable(rows[e], n)
      <4>1. rows[e].carries \in 0 .. MaxMessages /\ 1 \in 1 .. MaxMessages /\ 1 \in 0 .. MaxMessages
        BY QueueConstants DEF TypeOK, Row
      <4>2. Retiring(job[w], e, n) \in Job
        BY <3>b, <4>1 DEF Retiring, Job, b
      <4>3. Retiring(job[w], e, n).ev = e /\ Retiring(job[w], e, n).msg = 1
        BY DEF Retiring
      <4>4. /\ job' = [job EXCEPT ![w] = Retiring(job[w], e, n)]
            /\ UNCHANGED <<run, answered, lines, crashes, taken, endedBy, read>>
        BY <2>2, <3>1, <2>j DEF Retire
      <4>5. /\ job' \in [Sweepers -> Job]
            /\ \A v \in Sweepers : job'[v].pc # "retire" =>
                 job'[v].ev \in Events /\ job'[v].msg \in 1 .. MaxMessages
        BY <4>1, <4>2, <4>3, <4>4, <2>w
      <4> QED
        BY <4>4, <4>5, <1>r DEF TypeOK
    <3>2. CASE ~Retirable(rows[e], n)
      <4> DEFINE x == [job[w] EXCEPT !.batch = b]
      <4>1. x \in Job /\ x.pc = job[w].pc /\ x.ev = job[w].ev /\ x.msg = job[w].msg
        BY <3>b DEF Job
      <4>2. /\ job' = [job EXCEPT ![w] = x]
            /\ UNCHANGED <<run, answered, lines, crashes, taken, endedBy, read>>
        BY <2>2, <3>2, <2>j DEF Retire, b
      <4> HIDE DEF x
      <4>3. /\ job' \in [Sweepers -> Job]
            /\ \A v \in Sweepers : job'[v].pc # "retire" =>
                 job'[v].ev \in Events /\ job'[v].msg \in 1 .. MaxMessages
        BY <4>1, <4>2, <2>j, <2>w
      <4> QED
        BY <4>2, <4>3, <1>r DEF TypeOK
    <3> QED
      BY <3>1, <3>2
  <2>3. CASE LookForAnswer(w)
    <3> DEFINE x == [job[w] EXCEPT !.pc = "line"]
    <3>1. x \in Job /\ x.ev = job[w].ev /\ x.msg = job[w].msg
      BY <2>j DEF Job
    <3>2. job' = [job EXCEPT ![w] = NextMessage(job[w])] \/ job' = [job EXCEPT ![w] = x]
      BY <2>3, <2>j DEF LookForAnswer
    <3>3. job[w].ev \in Events /\ job[w].msg \in 1 .. MaxMessages
      BY <2>3, <2>j DEF LookForAnswer
    <3> HIDE DEF x
    <3>4. /\ job' \in [Sweepers -> Job]
          /\ \A v \in Sweepers : job'[v].pc # "retire" =>
               job'[v].ev \in Events /\ job'[v].msg \in 1 .. MaxMessages
      BY <3>1, <3>2, <3>3, <2>n, <2>w
    <3> QED
      BY <2>3, <3>4, <1>r DEF LookForAnswer, TypeOK
  <2>4. CASE PostLine(w)
    <3>1. job[w].ev \in Events /\ job[w].msg \in 1 .. MaxMessages
      BY <2>4, <2>j DEF PostLine
    <3>2. <<job[w].ev, job[w].msg>> \in Mentions /\ lines \in [Mentions -> Nat]
      BY <3>1 DEF Mentions, TypeOK
    <3>3. lines' \in [Mentions -> Nat]
      BY <2>4, <3>2 DEF PostLine
    <3>4. job' = [job EXCEPT ![w] = NextMessage(job[w])]
      BY <2>4, <2>j DEF PostLine
    <3>5. /\ job' \in [Sweepers -> Job]
          /\ \A v \in Sweepers : job'[v].pc # "retire" =>
               job'[v].ev \in Events /\ job'[v].msg \in 1 .. MaxMessages
      BY <3>1, <3>4, <2>n, <2>w
    <3> QED
      BY <2>4, <3>3, <3>5, <1>r DEF PostLine, TypeOK
  <2>5. CASE SweepFails(w)
    <3>1. /\ crashes' \in 0 .. MaxSweepCrashes
          /\ UNCHANGED <<run, answered, lines, taken, endedBy, read>>
      BY <2>5, QueueConstants DEF SweepFails, NoteFails, SweepDies, TypeOK
    <3>2. job' = [job EXCEPT ![w] = Resting] \/ job' = [job EXCEPT ![w] = GoingOn(job[w])]
      BY <2>5, <2>j DEF SweepFails, NoteFails, SweepDies
    <3>3. /\ job' \in [Sweepers -> Job]
          /\ \A v \in Sweepers : job'[v].pc # "retire" =>
               job'[v].ev \in Events /\ job'[v].msg \in 1 .. MaxMessages
      BY <3>2, <2>a, <2>g, <2>w
    <3> QED
      BY <3>1, <3>3, <1>r DEF TypeOK
  <2> QED
    BY <1>3, <2>1, <2>2, <2>3, <2>4, <2>5 DEF SweepStep
<1>4. CASE UNCHANGED vars
  BY <1>4 DEF vars, TypeOK
<1> QED
  BY <1>1, <1>2, <1>3, <1>4 DEF Next

(* The queue's documents, runners, sweeps and history stay well formed.      *)
THEOREM QueueTyped == Spec => []TypeOK
<1>1. Init => TypeOK
  BY QueueConstants DEF Init, TypeOK, Row, Unborn, Idle, Resting, Job, NoNonce
<1> QED
  BY <1>1, ActorsTyped, PTL DEF Spec

-------------------------------------------------------------------------------
(* What a step can do to one document, and to what was recorded about it.    *)
Alike(a, b) == a.status = b.status /\ a.attempts = b.attempts /\ a.nonce = b.nonce

Kept(e) == Alike(rows'[e], rows[e]) /\ taken'[e] = taken[e] /\ endedBy'[e] = endedBy[e]

Offered(e) ==
    /\ rows[e].status = "none" /\ rows'[e].status = "pending"
    /\ rows'[e].attempts = rows[e].attempts /\ rows'[e].nonce = rows[e].nonce
    /\ taken'[e] = taken[e] /\ endedBy'[e] = endedBy[e]

WentOut(e) ==
    /\ rows[e].status = "pending" /\ rows'[e].status = "delivered"
    /\ rows'[e].attempts = rows[e].attempts + 1 /\ rows'[e].nonce = rows[e].attempts + 1
    /\ taken'[e] = taken[e] /\ endedBy'[e] = endedBy[e]

CameBack(e) ==
    /\ rows[e].status = "delivered" /\ rows[e].attempts < Ceiling
    /\ rows'[e].status = "pending" /\ rows'[e].attempts = rows[e].attempts
    /\ rows'[e].nonce = NoNonce
    /\ taken'[e] = taken[e] \cup {rows[e].nonce} /\ endedBy'[e] = endedBy[e]

Over(e) ==
    /\ rows'[e].attempts = rows[e].attempts /\ rows'[e].nonce = NoNonce
    /\ taken'[e] = taken[e]
    /\ \/ /\ rows[e].status \in {"pending", "delivered"} /\ rows'[e].status = "acked"
          /\ endedBy'[e] # NoNonce => endedBy'[e] = rows[e].nonce
       \/ /\ rows[e].status = "delivered" /\ rows'[e].status = "failed"
          /\ endedBy'[e] = endedBy[e]
       \/ /\ rows[e].status \notin {"none", "gone"} /\ rows'[e].status = "gone"
          /\ endedBy'[e] = endedBy[e]

Move(e) == Offered(e) \/ WentOut(e) \/ CameBack(e) \/ Over(e)

(* A step moves at most one event, and only in these ways.                   *)
LEMMA OneMoves ==
    ASSUME TypeOK, [Next]_vars
    PROVE  \/ \A e \in Events : Kept(e)
           \/ \E e \in Events : Move(e) /\ \A f \in Events \ {e} : Kept(f)
<1>t. /\ rows \in [Events -> Row]
      /\ taken \in [Events -> SUBSET Nat]
      /\ endedBy \in [Events -> Nat]
  BY DEF TypeOK
<1>c. Cap \in Nat \ {0} /\ Ceiling \in Nat /\ Cap < Ceiling
  BY QueueConstants DEF Ceiling
<1>u. ASSUME UNCHANGED <<rows, taken, endedBy>>
      PROVE  \A e \in Events : Kept(e)
  BY <1>u DEF Kept, Alike
<1>1. ASSUME NEW e \in Events, EventNext(e)
      PROVE  \/ \A d \in Events : Kept(d)
             \/ Move(e) /\ \A f \in Events \ {e} : Kept(f)
  <2>r. rows[e] \in Row
    BY <1>t
  <2>1. CASE Enqueue(e)
    BY <2>1, <1>t, <2>r DEF Enqueue, Move, Offered, Kept, Alike, Row
  <2>2. CASE Join(e)
    BY <2>2, <1>t, <2>r DEF Join, Kept, Alike, Row
  <2>3. CASE GoesStale(e)
    BY <2>3, <1>t, <2>r DEF GoesStale, Kept, Alike, Row
  <2>4. CASE Requeue(e)
    <3>1. rows[e].attempts < Ceiling
      BY <2>4, <2>r, <1>c DEF Requeue, Requeueable, Row
    <3>2. CameBack(e)
      BY <2>4, <3>1, <1>t, <2>r DEF Requeue, Requeueable, TakenBack, CameBack, Row
    <3>3. \A f \in Events \ {e} : Kept(f)
      BY <2>4, <1>t DEF Requeue, Kept, Alike
    <3> QED
      BY <3>2, <3>3 DEF Move
  <2>5. CASE Expire(e)
    BY <2>5, <1>t, <2>r DEF Expire, Spent, Ended, Move, Over, Kept, Alike, Row
  <2>6. CASE Delete(e)
    BY <2>6, <1>t, <2>r DEF Delete, Ended, Move, Over, Kept, Alike, Row
  <2> QED
    BY <1>1, <2>1, <2>2, <2>3, <2>4, <2>5, <2>6 DEF EventNext
<1>2. ASSUME NEW r \in Runners, RunnerNext(r)
      PROVE  \/ \A e \in Events : Kept(e)
             \/ \E e \in Events : Move(e) /\ \A f \in Events \ {e} : Kept(f)
  <2> DEFINE e == run[r].ev
  <2>e. run[r].pc # "idle" => e \in Events /\ rows[e] \in Row
    BY <1>t DEF TypeOK
  <2>1. CASE Claim(r)
    <3>1. e \in Events /\ rows[e] \in Row /\ rows[e].status = "pending"
          /\ rows' = [rows EXCEPT ![e] = Claimed(rows[e])]
          /\ UNCHANGED <<taken, endedBy>>
      BY <2>1, <2>e DEF Claim, Deliverable
    <3>2. WentOut(e) /\ \A f \in Events \ {e} : Kept(f)
      BY <3>1, <1>t DEF Claimed, WentOut, Kept, Alike
    <3> QED
      BY <3>1, <3>2 DEF Move
  <2>2. CASE Renew(r) \/ MarkPosted(r)
    <3>1. /\ e \in Events /\ rows[e] \in Row /\ UNCHANGED <<taken, endedBy>>
          /\ \/ rows' = rows
             \/ rows[e].status = "delivered" /\ rows' = [rows EXCEPT ![e] = Refreshed(rows[e])]
      BY <2>2, <2>e DEF Renew, Renewable, MarkPosted, Postable
    <3>2. CASE rows' = rows
      BY <3>1, <3>2, <1>u
    <3>3. CASE rows[e].status = "delivered" /\ rows' = [rows EXCEPT ![e] = Refreshed(rows[e])]
      <4>1. Alike(Refreshed(rows[e]), rows[e])
        BY <3>1, <3>3 DEF Refreshed, Alike, Row
      <4>2. \A f \in Events : Alike(rows'[f], rows[f])
        <5>1. \A f \in Events \ {e} : rows'[f] = rows[f]
          BY <3>3, <1>t
        <5>2. rows'[e] = Refreshed(rows[e])
          BY <3>1, <3>3, <1>t
        <5> QED
          BY <4>1, <5>1, <5>2 DEF Alike
      <4> QED
        BY <3>1, <4>2 DEF Kept
    <3> QED
      BY <3>1, <3>2, <3>3
  <2>3. CASE Acknowledge(r)
    <3>1. PICK n \in {NoNonce, run[r].nonce} :
              /\ Ackable(rows[e], n)
              /\ rows' = [rows EXCEPT ![e] = Ended(rows[e], "acked")]
              /\ endedBy' = [endedBy EXCEPT ![e] = n]
              /\ UNCHANGED taken
              /\ e \in Events /\ rows[e] \in Row
      BY <2>3, <2>e DEF Acknowledge
    <3>2. Over(e) /\ \A f \in Events \ {e} : Kept(f)
      BY <3>1, <1>t DEF Ackable, Ended, Over, Kept, Alike, Row
    <3> QED
      BY <3>1, <3>2 DEF Move
  <2>4. CASE Release(r)
    <3>1. /\ e \in Events /\ rows[e] \in Row
          /\ rows[e].status = "delivered" /\ rows[e].attempts < Ceiling
          /\ rows' = [rows EXCEPT ![e] = TakenBack(rows[e])]
          /\ taken' = [taken EXCEPT ![e] = taken[e] \cup {rows[e].nonce}]
          /\ UNCHANGED endedBy
      BY <2>4, <2>e DEF Release, Releasable
    <3>2. CameBack(e) /\ \A f \in Events \ {e} : Kept(f)
      BY <3>1, <1>t DEF TakenBack, CameBack, Kept, Alike, Row
    <3> QED
      BY <3>1, <3>2 DEF Move
  <2>5. CASE UNCHANGED <<rows, taken, endedBy>>
    BY <2>5, <1>u
  <2> QED
    BY <1>2, <2>1, <2>2, <2>3, <2>4, <2>5 DEF RunnerNext, Poll, ClaimMissed, Post, LetGo
<1>3. ASSUME NEW w \in Sweepers, FindUnanswered(w) \/ SweepStep(w) \/ SweepFails(w)
      PROVE  \/ \A e \in Events : Kept(e)
             \/ \E e \in Events : Move(e) /\ \A f \in Events \ {e} : Kept(f)
  <2>1. ASSUME NEW e \in Events, NEW n \in 1 .. Ceiling, Retire(w, e, n),
               Retirable(rows[e], n)
        PROVE  Move(e) /\ \A f \in Events \ {e} : Kept(f)
    <3>1. /\ rows' = [rows EXCEPT ![e] = Ended(rows[e], "failed")]
          /\ rows[e].status = "delivered" /\ rows[e] \in Row
          /\ UNCHANGED <<taken, endedBy>>
      BY <2>1, <1>t DEF Retire, Retirable
    <3>2. Over(e)
      BY <3>1, <1>t DEF Ended, Over, Row
    <3>3. \A f \in Events \ {e} : Kept(f)
      BY <3>1, <1>t DEF Kept, Alike
    <3> QED
      BY <3>2, <3>3 DEF Move
  <2>2. CASE UNCHANGED <<rows, taken, endedBy>>
    BY <2>2, <1>u
  <2> QED
    BY <1>3, <2>1, <2>2
       DEF SweepStep, FindUnanswered, Retire, LookForAnswer, PostLine, SweepFails, NoteFails, SweepDies
<1>4. CASE UNCHANGED vars
  BY <1>4, <1>u DEF vars
<1> QED
  BY <1>1, <1>2, <1>3, <1>4 DEF Next

-------------------------------------------------------------------------------
(* Attempts alone are not inductive: the claim does not look at the cap.     *)
(* What keeps it below the ceiling is that nothing is put back to pending    *)
(* at the ceiling.                                                           *)
Bounds ==
    \A e \in Events : /\ rows[e].attempts <= Ceiling
                      /\ rows[e].status = "pending" => rows[e].attempts < Ceiling
                      /\ rows[e].status = "none" => rows[e].attempts = 0

LEMMA BoundsInductive == TypeOK /\ Bounds /\ [Next]_vars => Bounds'
<1> SUFFICES ASSUME TypeOK, Bounds, [Next]_vars
             PROVE  Bounds'
  OBVIOUS
<1>c. Ceiling \in Nat /\ 0 < Ceiling
  BY QueueConstants DEF Ceiling
<1>t. \A e \in Events : rows[e].attempts \in Nat
  BY DEF TypeOK, Row
<1>1. ASSUME NEW e \in Events, Kept(e)
      PROVE  /\ rows'[e].attempts <= Ceiling
             /\ rows'[e].status = "pending" => rows'[e].attempts < Ceiling
             /\ rows'[e].status = "none" => rows'[e].attempts = 0
  BY <1>1 DEF Kept, Alike, Bounds
<1>2. ASSUME NEW e \in Events, Move(e)
      PROVE  /\ rows'[e].attempts <= Ceiling
             /\ rows'[e].status = "pending" => rows'[e].attempts < Ceiling
             /\ rows'[e].status = "none" => rows'[e].attempts = 0
  <2>1. CASE Offered(e)
    BY <2>1, <1>c DEF Offered, Bounds
  <2>2. CASE WentOut(e)
    BY <2>2, <1>c, <1>t DEF WentOut, Bounds
  <2>3. CASE CameBack(e)
    BY <2>3, <1>c, <1>t DEF CameBack, Bounds
  <2>4. CASE Over(e)
    BY <2>4 DEF Over, Bounds
  <2> QED
    BY <1>2, <2>1, <2>2, <2>3, <2>4 DEF Move
<1> QED
  BY <1>1, <1>2, OneMoves DEF Bounds

(* An event goes out at most twice the requeue cap, whatever mix of sweeps,  *)
(* restarts and hand-backs it meets (garbageCollect, releaseDelivery).       *)
THEOREM AttemptsBound == Spec => []AttemptsBounded
<1>1. Init => Bounds
  BY QueueConstants DEF Init, Bounds, Unborn, Ceiling
<1>2. Bounds => AttemptsBounded
  BY DEF Bounds, AttemptsBounded
<1> QED
  BY <1>1, <1>2, BoundsInductive, QueueTyped, PTL DEF Spec

-------------------------------------------------------------------------------
(* The fence: the nonce of a document out for delivery is its latest, what   *)
(* was taken back was handed out before, and an event whose ending is on     *)
(* record is over.                                                           *)
FenceOf(e) ==
    /\ rows[e].status = "delivered" => rows[e].nonce = rows[e].attempts /\ rows[e].attempts > 0
    /\ rows[e].status # "delivered" => rows[e].nonce = NoNonce
    /\ taken[e] \subseteq 1 .. rows[e].attempts
    /\ rows[e].nonce \notin taken[e]
    /\ endedBy[e] # NoNonce => rows[e].status \in {"acked", "gone"}
    /\ endedBy[e] \notin taken[e]

Fence == \A e \in Events : FenceOf(e)

LEMMA FenceInductive == TypeOK /\ Fence /\ [Next]_vars => Fence'
<1> SUFFICES ASSUME TypeOK, Fence, [Next]_vars
             PROVE  Fence'
  OBVIOUS
<1>t. \A e \in Events : /\ rows[e].attempts \in Nat /\ rows[e].nonce \in Nat
                        /\ taken[e] \in SUBSET Nat /\ endedBy[e] \in Nat
  BY DEF TypeOK, Row
<1>1. ASSUME NEW e \in Events, Kept(e)
      PROVE  FenceOf(e)'
  BY <1>1 DEF Kept, Alike, Fence, FenceOf
<1>2. ASSUME NEW e \in Events, Move(e)
      PROVE  FenceOf(e)'
  <2>f. FenceOf(e)
    BY DEF Fence
  <2>1. CASE Offered(e)
    BY <2>1, <2>f DEF Offered, FenceOf
  <2>2. CASE WentOut(e)
    BY <2>2, <2>f, <1>t DEF WentOut, FenceOf, NoNonce
  <2>3. CASE CameBack(e)
    BY <2>3, <2>f, <1>t DEF CameBack, FenceOf, NoNonce
  <2>4. CASE Over(e)
    BY <2>4, <2>f, <1>t DEF Over, FenceOf, NoNonce
  <2> QED
    BY <1>2, <2>1, <2>2, <2>3, <2>4 DEF Move
<1> QED
  BY <1>1, <1>2, OneMoves DEF Fence

LEMMA FenceInitially == Init => Fence
BY DEF Init, Fence, FenceOf, Unborn, NoNonce

(* A runner whose delivery was taken back cannot end the event, whether or   *)
(* not a replacement has claimed it yet (ADR-026 D6).                        *)
THEOREM StaleAcksRefused == Spec => []StaleAckNeverLands
<1>1. Fence => StaleAckNeverLands
  BY DEF Fence, FenceOf, StaleAckNeverLands
<1> QED
  BY <1>1, FenceInitially, FenceInductive, QueueTyped, PTL DEF Spec

-------------------------------------------------------------------------------
(* Ended events stay ended: no late post, sweep, ack or claim revives one.   *)
THEOREM EndingsAreFinal == Spec => TerminalIsFinal
<1>1. TypeOK /\ [Next]_vars =>
          [\A e \in Events : rows[e].status \in Final =>
                                 rows'[e].status \in {rows[e].status, "gone"}]_vars
  <2> SUFFICES ASSUME TypeOK, [Next]_vars, NEW e \in Events, rows[e].status \in Final
               PROVE  rows'[e].status \in {rows[e].status, "gone"}
    OBVIOUS
  <2>1. CASE Kept(e)
    BY <2>1 DEF Kept, Alike
  <2>2. CASE Move(e)
    BY <2>2 DEF Move, Offered, WentOut, CameBack, Over, Final
  <2> QED
    BY <2>1, <2>2, OneMoves
<1> QED
  BY <1>1, QueueTyped, PTL DEF Spec, TerminalIsFinal

-------------------------------------------------------------------------------
(* The queue implements bounded at-least-once delivery: claims deliver,      *)
(* requeues and releases take back, and every way to an end settles.         *)
phaseBar == [e \in Events |-> Phase(rows[e])]
triesBar == [e \in Events |-> rows[e].attempts]

LEMMA PhaseByStatus ==
    ASSUME NEW r
    PROVE  /\ r.status = "none" <=> Phase(r) = "none"
           /\ r.status = "pending" <=> Phase(r) = "waiting"
           /\ r.status = "delivered" <=> Phase(r) = "out"
           /\ r.status \notin {"none", "pending", "delivered"} <=> Phase(r) = "ended"
BY DEF Phase

LEMMA MovesAreSteps ==
    ASSUME TypeOK, Bounds, NEW e \in Events, Move(e), \A f \in Events \ {e} : Kept(f)
    PROVE  Delivery!QNext \/ UNCHANGED <<phaseBar, triesBar>>
<1> USE DEF phaseBar, triesBar
<1>f. \A f \in Events \ {e} : Phase(rows'[f]) = Phase(rows[f])
                              /\ rows'[f].attempts = rows[f].attempts
  BY DEF Kept, Alike, Phase
<1>p. phaseBar' = [phaseBar EXCEPT ![e] = Phase(rows'[e])]
  BY <1>f
<1>a. triesBar' = [triesBar EXCEPT ![e] = rows'[e].attempts]
  BY <1>f
<1>s. rows'[e].attempts = rows[e].attempts => triesBar' = triesBar
  BY <1>f
<1>1. CASE Offered(e)
  <2>1. Phase(rows[e]) = "none" /\ Phase(rows'[e]) = "waiting"
    BY <1>1 DEF Offered, Phase
  <2>2. Delivery!Offer(e)
    BY <1>1, <2>1, <1>p, <1>s DEF Offered, Delivery!Offer
  <2> QED
    BY <2>2 DEF Delivery!QNext
<1>2. CASE WentOut(e)
  <2>1. Phase(rows[e]) = "waiting" /\ Phase(rows'[e]) = "out"
    BY <1>2 DEF WentOut, Phase
  <2>2. Delivery!Deliver(e)
    BY <1>2, <2>1, <1>p, <1>a DEF WentOut, Bounds, Delivery!Deliver
  <2> QED
    BY <2>2 DEF Delivery!QNext
<1>3. CASE CameBack(e)
  <2>1. Phase(rows[e]) = "out" /\ Phase(rows'[e]) = "waiting"
    BY <1>3 DEF CameBack, Phase
  <2>2. Delivery!TakeBack(e)
    BY <1>3, <2>1, <1>p, <1>s DEF CameBack, Delivery!TakeBack
  <2> QED
    BY <2>2 DEF Delivery!QNext
<1>4. CASE Over(e)
  <2>1. Phase(rows'[e]) = "ended" /\ rows'[e].attempts = rows[e].attempts
        /\ rows[e].status \notin {"none"}
    BY <1>4 DEF Over, Phase
  <2>2. CASE Phase(rows[e]) \in {"waiting", "out"}
    <3>1. Delivery!Settle(e)
      BY <2>1, <2>2, <1>p, <1>s DEF Delivery!Settle
    <3> QED
      BY <3>1 DEF Delivery!QNext
  <2>3. CASE Phase(rows[e]) = "ended"
    BY <2>1, <2>3, <1>p, <1>s
  <2> QED
    BY <2>1, <2>2, <2>3 DEF Phase
<1> QED
  BY <1>1, <1>2, <1>3, <1>4 DEF Move

(* Every behaviour of the queue is one of bounded at-least-once delivery.    *)
THEOREM DeliveryImplemented == Spec => ImplementsDelivery
<1>1. Init => Delivery!QInit
  BY DEF Init, Unborn, Phase, Delivery!QInit
<1>2. TypeOK /\ Bounds /\ [Next]_vars => [Delivery!QNext]_Delivery!qvars
  <2> SUFFICES ASSUME TypeOK, Bounds, [Next]_vars
               PROVE  Delivery!QNext \/ UNCHANGED <<phaseBar, triesBar>>
    BY DEF Delivery!qvars, phaseBar, triesBar
  <2>1. CASE \A e \in Events : Kept(e)
    BY <2>1 DEF Kept, Alike, Phase, phaseBar, triesBar
  <2>2. CASE \E e \in Events : Move(e) /\ \A f \in Events \ {e} : Kept(f)
    BY <2>2, MovesAreSteps
  <2> QED
    BY <2>1, <2>2, OneMoves
<1>3. Init => Bounds
  BY QueueConstants DEF Init, Bounds, Unborn, Ceiling
<1> QED
  BY <1>1, <1>2, <1>3, BoundsInductive, QueueTyped, PTL
     DEF Spec, ImplementsDelivery, Delivery!QSpec

-------------------------------------------------------------------------------
(* A runner's delivery stays its own until it is taken back or ends.         *)
HeldOf(r) ==
    \/ rows[run[r].ev].status = "delivered" /\ rows[run[r].ev].nonce = run[r].nonce
    \/ run[r].nonce \in taken[run[r].ev]
    \/ rows[run[r].ev].status \in Final \cup {"gone"}

Holding(r) == run[r].pc \in {"held", "posted"}

(* Only a claim starts a delivery.                                           *)
LEMMA OnlyClaimsHold ==
    ASSUME TypeOK, [Next]_vars, NEW q \in Runners, Holding(q)'
    PROVE  \/ Holding(q) /\ run'[q].ev = run[q].ev /\ run'[q].nonce = run[q].nonce
           \/ Claim(q)
<1>t. run \in [Runners -> [pc : {"idle", "found", "held", "posted"},
                           ev : Events \cup {NoEvent}, nonce : Nat]]
  BY DEF TypeOK
<1>1. ASSUME NEW r \in Runners, RunnerNext(r)
      PROVE  \/ Holding(q) /\ run'[q].ev = run[q].ev /\ run'[q].nonce = run[q].nonce
             \/ Claim(q)
  <2>1. CASE q # r
    BY <1>1, <2>1, <1>t
       DEF RunnerNext, Poll, Claim, ClaimMissed, Renew, Post, MarkPosted, Acknowledge,
           Release, LetGo, Holding
  <2>2. CASE q = r
    <3>1. CASE Claim(q)
      BY <3>1
    <3>2. CASE \E e \in Events : Poll(q, e)
      BY <3>2, <1>t DEF Poll, Holding
    <3>3. CASE ClaimMissed(q) \/ Release(q) \/ LetGo(q)
      BY <3>3, <1>t DEF ClaimMissed, Release, LetGo, Holding, Idle
    <3>4. CASE Renew(q) \/ Acknowledge(q)
      BY <3>4, <1>t DEF Renew, Acknowledge, Holding
    <3>5. CASE Post(q) \/ MarkPosted(q)
      BY <3>5, <1>t DEF Post, MarkPosted, Holding
    <3> QED
      BY <1>1, <2>2, <3>1, <3>2, <3>3, <3>4, <3>5 DEF RunnerNext
  <2> QED
    BY <2>1, <2>2
<1>2. ASSUME UNCHANGED run
      PROVE  Holding(q) /\ run'[q].ev = run[q].ev /\ run'[q].nonce = run[q].nonce
  BY <1>2 DEF Holding
<1> QED
  BY <1>1, <1>2
     DEF Next, vars, EventNext, Enqueue, Join, GoesStale, Requeue, Expire, Delete,
         FindUnanswered, SweepStep, Retire, LookForAnswer, PostLine, SweepFails, NoteFails, SweepDies

LEMMA HeldInductive ==
    TypeOK /\ (\A r \in Runners : Holding(r) => HeldOf(r)) /\ [Next]_vars
        => (\A r \in Runners : Holding(r) => HeldOf(r))'
<1> SUFFICES ASSUME TypeOK, \A r \in Runners : Holding(r) => HeldOf(r), [Next]_vars,
                    NEW q \in Runners, Holding(q)'
             PROVE  HeldOf(q)'
  OBVIOUS
<1>1. CASE Claim(q)
  <2> DEFINE e == run[q].ev
  <2>1. e \in Events /\ rows \in [Events -> Row] /\ run'[q].ev = e
        /\ run'[q].nonce = rows[e].attempts + 1 /\ rows'[e] = Claimed(rows[e])
    BY <1>1 DEF Claim, TypeOK
  <2> QED
    BY <2>1 DEF Claimed, HeldOf
<1>2. CASE Holding(q) /\ run'[q].ev = run[q].ev /\ run'[q].nonce = run[q].nonce
  <2>1. HeldOf(q) /\ run[q].ev \in Events
    BY <1>2 DEF TypeOK, Holding
  <2>2. CASE Kept(run[q].ev)
    BY <1>2, <2>1, <2>2 DEF Kept, Alike, HeldOf
  <2>3. CASE Move(run[q].ev)
    BY <1>2, <2>1, <2>3 DEF Move, Offered, WentOut, CameBack, Over, HeldOf, Final
  <2> QED
    BY <2>1, <2>2, <2>3, OneMoves
<1> QED
  BY <1>1, <1>2, OnlyClaimsHold

(* No poller claims what another one still has: a delivery leaves its runner *)
(* only by being taken back or by the event's end (list).                    *)
THEOREM DeliveriesAreExclusive == Spec => []DeliveryIsLostOnlyIfTakenBack
<1> DEFINE AllHeld == \A r \in Runners : Holding(r) => HeldOf(r)
<1>1. Init => AllHeld
  BY DEF Init, Idle, Holding
<1>2. AllHeld => DeliveryIsLostOnlyIfTakenBack
  BY DEF Holding, HeldOf, DeliveryIsLostOnlyIfTakenBack
<1>3. TypeOK /\ AllHeld /\ [Next]_vars => AllHeld'
  BY HeldInductive
<1> HIDE DEF AllHeld
<1> QED
  BY <1>1, <1>2, <1>3, QueueTyped, PTL DEF Spec
-------------------------------------------------------------------------------
(* What an acknowledged event carried was read: a document only grows before *)
(* its first claim, and whoever may end it was handed it by one.             *)
ReadOf(e) ==
    /\ rows[e].status = "none" => rows[e].attempts = 0
    /\ rows[e].status \in {"delivered", "acked"} => rows[e].attempts > 0
    /\ rows[e].attempts > 0 /\ rows[e].status # "gone" => read[e] = rows[e].carries

HandedOut(r) == Holding(r) => rows[run[r].ev].attempts > 0

Reading == (\A e \in Events : ReadOf(e)) /\ (\A r \in Runners : HandedOut(r))

(* The document stays as it is, joins included only before the first claim.  *)
Unread(e) ==
    /\ rows'[e].attempts = rows[e].attempts /\ read'[e] = read[e]
    /\ rows'[e].carries = rows[e].carries \/ rows[e].attempts = 0
    /\ rows'[e].status = "none" => rows[e].status = "none"
    /\ rows'[e].status \in {"delivered", "acked"} =>
         \/ rows[e].status \in {"delivered", "acked"}
         \/ rows[e].attempts > 0
    /\ rows[e].status = "gone" => rows'[e].status = "gone"

Handed(e) ==
    /\ rows'[e].status = "delivered"
    /\ rows'[e].attempts = rows[e].attempts + 1 /\ read'[e] = rows'[e].carries

LEMMA ReadingMoves ==
    ASSUME TypeOK, Reading, [Next]_vars, NEW e \in Events
    PROVE  Unread(e) \/ Handed(e)
<1>t. /\ rows \in [Events -> Row] /\ read \in [Events -> Nat] /\ rows[e] \in Row
      /\ rows[e].attempts \in Nat
  BY DEF TypeOK, Row
<1>u. ASSUME UNCHANGED <<rows, read>>
      PROVE  Unread(e)
  BY <1>u DEF Unread
<1>k. ASSUME UNCHANGED read,
             NEW d \in Events, NEW x, rows' = [rows EXCEPT ![d] = x],
             \/ d # e
             \/ /\ x.attempts = rows[e].attempts
                /\ x.carries = rows[e].carries \/ rows[e].attempts = 0
                /\ x.status # "none"
                /\ x.status \in {"delivered", "acked"} =>
                      rows[e].status \in {"delivered", "acked"} \/ rows[e].attempts > 0
                /\ rows[e].status = "gone" => x.status = "gone"
      PROVE  Unread(e)
  <2>1. CASE d # e
    BY <1>k, <1>t, <2>1 DEF Unread
  <2>2. CASE d = e
    <3>1. rows'[e] = x
      BY <1>k, <1>t, <2>2
    <3> QED
      BY <1>k, <2>2, <3>1 DEF Unread
  <2> QED
    BY <2>1, <2>2
<1>1. ASSUME NEW d \in Events, EventNext(d)
      PROVE  Unread(e)
  <2>r. rows[d] \in Row
    BY <1>t
  <2>1. CASE Enqueue(d)
    <3>1. PICK x : rows' = [rows EXCEPT ![d] = x]
                   /\ x.attempts = rows[d].attempts /\ x.status = "pending"
      <4>1. PICK person \in BOOLEAN : rows' =
              [rows EXCEPT ![d] = [rows[d] EXCEPT !.status = "pending",
                                                  !.carries = 1,
                                                  !.person = person]]
        BY <2>1, <1>t DEF Enqueue
      <4>2. /\ [rows[d] EXCEPT !.status = "pending", !.carries = 1, !.person = person].attempts
                 = rows[d].attempts
            /\ [rows[d] EXCEPT !.status = "pending", !.carries = 1, !.person = person].status
                 = "pending"
        BY <2>r DEF Row
      <4> QED
        BY <4>1, <4>2
    <3>2. rows[d].attempts = 0 /\ rows[d].status = "none" /\ UNCHANGED read
      BY <2>1 DEF Enqueue, Reading, ReadOf
    <3> QED
      BY <3>1, <3>2, <1>k
  <2>2. CASE Join(d)
    <3>1. /\ rows' = [rows EXCEPT ![d] = [rows[d] EXCEPT !.carries = rows[d].carries + 1]]
          /\ rows[d].attempts = 0 /\ rows[d].status = "pending" /\ UNCHANGED read
      BY <2>2, <1>t DEF Join, Joinable
    <3> DEFINE x == [rows[d] EXCEPT !.carries = rows[d].carries + 1]
    <3>2. x.attempts = rows[d].attempts /\ x.status = rows[d].status
      BY <2>r DEF Row
    <3> HIDE DEF x
    <3> QED
      BY <3>1, <3>2, <1>k DEF x
  <2>3. CASE GoesStale(d)
    <3>1. /\ rows' = [rows EXCEPT ![d] = [rows[d] EXCEPT !.age = "stale"]]
          /\ rows[d].status = "delivered" /\ UNCHANGED read
      BY <2>3, <1>t DEF GoesStale
    <3> DEFINE x == [rows[d] EXCEPT !.age = "stale"]
    <3>2. x.attempts = rows[d].attempts /\ x.status = rows[d].status
          /\ x.carries = rows[d].carries
      BY <2>r DEF Row
    <3> HIDE DEF x
    <3> QED
      BY <3>1, <3>2, <1>k DEF x
  <2>4. CASE Requeue(d)
    <3>1. /\ rows' = [rows EXCEPT ![d] = TakenBack(rows[d])]
          /\ rows[d].status = "delivered" /\ UNCHANGED read
      BY <2>4, <1>t DEF Requeue, Requeueable
    <3>2. TakenBack(rows[d]).attempts = rows[d].attempts
          /\ TakenBack(rows[d]).status = "pending"
          /\ TakenBack(rows[d]).carries = rows[d].carries
      BY <2>r DEF Row, TakenBack
    <3> QED
      BY <3>1, <3>2, <1>k
  <2>5. CASE Expire(d) \/ Delete(d)
    <3>1. PICK s \in {"failed", "gone"} : /\ rows' = [rows EXCEPT ![d] = Ended(rows[d], s)]
                                          /\ rows[d].status # "gone" /\ UNCHANGED read
      BY <2>5, <1>t DEF Expire, Spent, Delete
    <3>2. Ended(rows[d], s).attempts = rows[d].attempts
          /\ Ended(rows[d], s).status = s
          /\ Ended(rows[d], s).carries = rows[d].carries
      BY <2>r DEF Row, Ended
    <3> QED
      BY <3>1, <3>2, <1>k
  <2> QED
    BY <1>1, <2>1, <2>2, <2>3, <2>4, <2>5 DEF EventNext
<1>2. ASSUME NEW r \in Runners, RunnerNext(r)
      PROVE  Unread(e) \/ Handed(e)
  <2>e. run[r].pc # "idle" => run[r].ev \in Events /\ rows[run[r].ev] \in Row
    BY <1>t DEF TypeOK
  <2>1. CASE Claim(r)
    <3>1. /\ run[r].ev \in Events
          /\ rows' = [rows EXCEPT ![run[r].ev] = Claimed(rows[run[r].ev])]
          /\ read' = [read EXCEPT ![run[r].ev] = rows[run[r].ev].carries]
      BY <2>1, <2>e DEF Claim
    <3>2. CASE run[r].ev = e
      <4>1. rows'[e] = Claimed(rows[e]) /\ read'[e] = rows[e].carries
        BY <3>1, <3>2, <1>t
      <4> QED
        BY <4>1 DEF Handed, Claimed
    <3>3. CASE run[r].ev # e
      <4>1. rows'[e] = rows[e] /\ read'[e] = read[e]
        BY <3>1, <3>3, <1>t
      <4> QED
        BY <4>1 DEF Unread
    <3> QED
      BY <3>2, <3>3
  <2>2. CASE Renew(r) \/ MarkPosted(r)
    <3>1. /\ run[r].ev \in Events /\ rows[run[r].ev] \in Row /\ UNCHANGED read
          /\ \/ rows' = rows
             \/ /\ rows[run[r].ev].status = "delivered"
                /\ rows' = [rows EXCEPT ![run[r].ev] = Refreshed(rows[run[r].ev])]
      BY <2>2, <2>e DEF Renew, Renewable, MarkPosted, Postable
    <3>2. Refreshed(rows[run[r].ev]).attempts = rows[run[r].ev].attempts
          /\ Refreshed(rows[run[r].ev]).status = "delivered"
          /\ Refreshed(rows[run[r].ev]).carries = rows[run[r].ev].carries
      BY <3>1 DEF Row, Refreshed
    <3> QED
      BY <3>1, <3>2, <1>k, <1>u
  <2>3. CASE Acknowledge(r)
    <3>1. /\ run[r].ev \in Events /\ rows[run[r].ev] \in Row /\ UNCHANGED read
          /\ rows[run[r].ev].status \in {"pending", "delivered"}
          /\ rows' = [rows EXCEPT ![run[r].ev] = Ended(rows[run[r].ev], "acked")]
      BY <2>3, <2>e DEF Acknowledge, Ackable
    <3>2. Ended(rows[run[r].ev], "acked").attempts = rows[run[r].ev].attempts
          /\ Ended(rows[run[r].ev], "acked").status = "acked"
          /\ Ended(rows[run[r].ev], "acked").carries = rows[run[r].ev].carries
      BY <3>1 DEF Row, Ended
    <3>3. rows[run[r].ev].attempts > 0
      BY <2>3 DEF Acknowledge, Reading, HandedOut, Holding
    <3> QED
      BY <3>1, <3>2, <3>3, <1>k
  <2>4. CASE Release(r)
    <3>1. /\ run[r].ev \in Events /\ rows[run[r].ev] \in Row /\ UNCHANGED read
          /\ rows[run[r].ev].status = "delivered"
          /\ rows' = [rows EXCEPT ![run[r].ev] = TakenBack(rows[run[r].ev])]
      BY <2>4, <2>e DEF Release, Releasable
    <3>2. TakenBack(rows[run[r].ev]).attempts = rows[run[r].ev].attempts
          /\ TakenBack(rows[run[r].ev]).status = "pending"
          /\ TakenBack(rows[run[r].ev]).carries = rows[run[r].ev].carries
      BY <3>1 DEF Row, TakenBack
    <3> QED
      BY <3>1, <3>2, <1>k
  <2>5. CASE UNCHANGED <<rows, read>>
    BY <2>5, <1>u
  <2> QED
    BY <1>2, <2>1, <2>2, <2>3, <2>4, <2>5 DEF RunnerNext, Poll, ClaimMissed, Post, LetGo
<1>3. ASSUME NEW w \in Sweepers, FindUnanswered(w) \/ SweepStep(w) \/ SweepFails(w)
      PROVE  Unread(e)
  <2>1. ASSUME NEW d \in Events, NEW n \in 1 .. Ceiling, Retire(w, d, n),
               Retirable(rows[d], n)
        PROVE  Unread(e)
    <3>1. /\ rows' = [rows EXCEPT ![d] = Ended(rows[d], "failed")]
          /\ rows[d].status = "delivered" /\ rows[d] \in Row /\ UNCHANGED read
      BY <2>1, <1>t DEF Retire, Retirable
    <3>2. Ended(rows[d], "failed").attempts = rows[d].attempts
          /\ Ended(rows[d], "failed").status = "failed"
          /\ Ended(rows[d], "failed").carries = rows[d].carries
      BY <3>1 DEF Row, Ended
    <3> QED
      BY <3>1, <3>2, <1>k
  <2>2. CASE UNCHANGED <<rows, read>>
    BY <2>2, <1>u
  <2> QED
    BY <1>3, <2>1, <2>2
       DEF SweepStep, FindUnanswered, Retire, LookForAnswer, PostLine, SweepFails, NoteFails, SweepDies
<1>4. CASE UNCHANGED vars
  BY <1>4, <1>u DEF vars
<1> QED
  BY <1>1, <1>2, <1>3, <1>4 DEF Next

LEMMA ReadingInductive == TypeOK /\ Reading /\ [Next]_vars => Reading'
<1> SUFFICES ASSUME TypeOK, Reading, [Next]_vars
             PROVE  Reading'
  OBVIOUS
<1>t. \A e \in Events : rows[e].attempts \in Nat
  BY DEF TypeOK, Row
<1>1. ASSUME NEW e \in Events
      PROVE  ReadOf(e)'
  <2>1. ReadOf(e)
    BY DEF Reading
  <2>2. CASE Unread(e)
    BY <2>1, <2>2, <1>t DEF ReadOf, Unread
  <2>3. CASE Handed(e)
    BY <2>1, <2>3, <1>t DEF ReadOf, Handed
  <2> QED
    BY <2>2, <2>3, ReadingMoves
<1>2. ASSUME NEW e \in Events
      PROVE  rows'[e].attempts >= rows[e].attempts
  BY ReadingMoves, <1>t DEF Unread, Handed
<1>3. ASSUME NEW r \in Runners, Holding(r)'
      PROVE  rows'[run'[r].ev].attempts > 0
  <2>1. CASE Claim(r)
    <3>1. /\ run[r].ev \in Events /\ run'[r].ev = run[r].ev
          /\ rows'[run[r].ev] = Claimed(rows[run[r].ev])
      BY <2>1 DEF Claim, TypeOK
    <3> QED
      BY <3>1, <1>t DEF Claimed
  <2>2. CASE Holding(r) /\ run'[r].ev = run[r].ev
    <3>1. run[r].ev \in Events /\ rows[run[r].ev].attempts > 0
      BY <2>2 DEF TypeOK, Holding, Reading, HandedOut
    <3>2. rows'[run[r].ev].attempts >= rows[run[r].ev].attempts
          /\ rows'[run[r].ev].attempts \in Nat
      <4>1. TypeOK'
        BY ActorsTyped
      <4> QED
        BY <3>1, <1>2, <4>1 DEF TypeOK, Row
    <3> QED
      BY <3>1, <3>2, <2>2, <1>t
  <2> QED
    BY <1>3, <2>1, <2>2, OnlyClaimsHold
<1> QED
  BY <1>1, <1>3 DEF Reading, HandedOut

(* A message that joined an event was in what some runner received before    *)
(* the event was acknowledged (coalesceMention).                             *)
THEOREM NothingAckedUnread == Spec => []AckedWasRead
<1>1. Init => Reading
  BY DEF Init, Reading, ReadOf, HandedOut, Holding, Unborn, Idle
<1>2. Reading => AckedWasRead
  BY DEF Reading, ReadOf, AckedWasRead
<1> QED
  BY <1>1, <1>2, ReadingInductive, QueueTyped, PTL DEF Spec

-------------------------------------------------------------------------------
(* The line that a retired event's messages are owed: one sweep at most is   *)
(* to note a message, because only the sweep whose compare-and-set retired   *)
(* the document goes on to it.                                               *)
Noting(w, e, i) ==
    /\ job[w].pc \in {"look", "line"} /\ job[w].ev = e
    /\ i = job[w].msg \/ (job[w].msg < i /\ i <= job[w].last)

ToldOf(e, i) ==
    /\ lines[<<e, i>>] <= 1
    /\ lines[<<e, i>>] = 1 => rows[e].status \in {"failed", "gone"}
    /\ \A w \in Sweepers : Noting(w, e, i) =>
          rows[e].status \in {"failed", "gone"} /\ lines[<<e, i>>] = 0
    /\ \A v, w \in Sweepers : Noting(v, e, i) /\ Noting(w, e, i) => v = w
    /\ rows[e].person /\ rows[e].status = "failed" /\ i <= rows[e].carries =>
          \/ lines[<<e, i>>] = 1 \/ answered[<<e, i>>] \/ crashes > 0
          \/ \E w \in Sweepers : Noting(w, e, i)

Told == \A e \in Events : \A i \in 1 .. MaxMessages : ToldOf(e, i)

(* A step that leaves the sweeps alone retires no person's message and       *)
(* revives none.                                                             *)
LEMMA OnlySweepsRetire ==
    ASSUME TypeOK, [Next]_vars, NEW e \in Events
    PROVE  \/ \E w \in Sweepers, n \in 1 .. Ceiling :
                  Retire(w, e, n) /\ Retirable(rows[e], n)
           \/ /\ rows[e].status \in {"failed", "gone"} => rows'[e].status \in {"failed", "gone"}
              /\ rows'[e].person /\ rows'[e].status = "failed" => rows'[e] = rows[e]
<1> DEFINE Stays == /\ rows[e].status \in {"failed", "gone"}
                          => rows'[e].status \in {"failed", "gone"}
                    /\ rows'[e].person /\ rows'[e].status = "failed" => rows'[e] = rows[e]
<1>t. rows \in [Events -> Row] /\ rows[e] \in Row
  BY DEF TypeOK
<1>k. ASSUME NEW d \in Events, NEW x, rows' = [rows EXCEPT ![d] = x],
             \/ d # e
             \/ /\ rows[e].status \in {"failed", "gone"} => x.status = "gone"
                /\ x.status # "failed" \/ ~x.person
      PROVE  Stays
  <2>1. CASE d # e
    BY <1>k, <1>t, <2>1
  <2>2. CASE d = e
    <3>1. rows'[e] = x
      BY <1>k, <1>t, <2>2
    <3> QED
      BY <1>k, <2>2, <3>1
  <2> QED
    BY <2>1, <2>2
<1>u. rows' = rows => Stays
  OBVIOUS
<1> HIDE DEF Stays
<1>1. ASSUME NEW d \in Events, EventNext(d)
      PROVE  Stays
  <2>r. rows[d] \in Row
    BY <1>t
  <2>1. CASE Enqueue(d)
    <3>1. PICK x : rows' = [rows EXCEPT ![d] = x] /\ x.status = "pending"
      <4>1. PICK person \in BOOLEAN : rows' =
              [rows EXCEPT ![d] = [rows[d] EXCEPT !.status = "pending",
                                                  !.carries = 1,
                                                  !.person = person]]
        BY <2>1, <1>t DEF Enqueue
      <4>2. [rows[d] EXCEPT !.status = "pending", !.carries = 1, !.person = person].status
                 = "pending"
        BY <2>r DEF Row
      <4> QED
        BY <4>1, <4>2
    <3>2. rows[d].status = "none"
      BY <2>1 DEF Enqueue
    <3> QED
      BY <3>1, <3>2, <1>k
  <2>2. CASE Join(d)
    <3>1. /\ rows' = [rows EXCEPT ![d] = [rows[d] EXCEPT !.carries = rows[d].carries + 1]]
          /\ rows[d].status = "pending"
      BY <2>2, <1>t DEF Join, Joinable
    <3> DEFINE x == [rows[d] EXCEPT !.carries = rows[d].carries + 1]
    <3>2. x.status = rows[d].status
      BY <2>r DEF Row
    <3> HIDE DEF x
    <3> QED
      BY <3>1, <3>2, <1>k DEF x
  <2>3. CASE GoesStale(d)
    <3>1. /\ rows' = [rows EXCEPT ![d] = [rows[d] EXCEPT !.age = "stale"]]
          /\ rows[d].status = "delivered"
      BY <2>3, <1>t DEF GoesStale
    <3> DEFINE x == [rows[d] EXCEPT !.age = "stale"]
    <3>2. x.status = rows[d].status
      BY <2>r DEF Row
    <3> HIDE DEF x
    <3> QED
      BY <3>1, <3>2, <1>k DEF x
  <2>4. CASE Requeue(d)
    <3>1. rows' = [rows EXCEPT ![d] = TakenBack(rows[d])] /\ rows[d].status = "delivered"
      BY <2>4, <1>t DEF Requeue, Requeueable
    <3>2. TakenBack(rows[d]).status = "pending"
      BY <2>r DEF Row, TakenBack
    <3> QED
      BY <3>1, <3>2, <1>k
  <2>5. CASE Expire(d)
    <3>1. /\ rows' = [rows EXCEPT ![d] = Ended(rows[d], "failed")]
          /\ rows[d].status = "delivered" /\ ~rows[d].person
      BY <2>5, <1>t DEF Expire, Spent, RetiredInBulk
    <3>2. Ended(rows[d], "failed").person = rows[d].person
      BY <2>r DEF Row, Ended
    <3> QED
      BY <3>1, <3>2, <1>k
  <2>6. CASE Delete(d)
    <3>1. rows' = [rows EXCEPT ![d] = Ended(rows[d], "gone")]
      BY <2>6, <1>t DEF Delete
    <3>2. Ended(rows[d], "gone").status = "gone"
      BY <2>r DEF Row, Ended
    <3> QED
      BY <3>1, <3>2, <1>k
  <2> QED
    BY <1>1, <2>1, <2>2, <2>3, <2>4, <2>5, <2>6 DEF EventNext
<1>2. ASSUME NEW r \in Runners, RunnerNext(r)
      PROVE  Stays
  <2>1. CASE rows' = rows
    BY <2>1, <1>u
  <2>2. ASSUME NEW x, run[r].ev \in Events, rows[run[r].ev].status \in {"pending", "delivered"},
               x.status \in {"pending", "delivered", "acked"},
               rows' = [rows EXCEPT ![run[r].ev] = x]
        PROVE  Stays
    BY <2>2, <1>k
  <2>e. run[r].pc # "idle" => run[r].ev \in Events /\ rows[run[r].ev] \in Row
    BY <1>t DEF TypeOK
  <2>3. CASE Claim(r)
    <3>1. Claimed(rows[run[r].ev]).status = "delivered"
      BY DEF Claimed
    <3> QED
      BY <2>3, <3>1, <2>e, <2>2 DEF Claim, Deliverable
  <2>4. CASE Renew(r) \/ MarkPosted(r)
    <3>1. /\ run[r].ev \in Events /\ rows[run[r].ev] \in Row
          /\ \/ rows' = rows
             \/ /\ rows[run[r].ev].status = "delivered"
                /\ rows' = [rows EXCEPT ![run[r].ev] = Refreshed(rows[run[r].ev])]
      BY <2>4, <2>e DEF Renew, Renewable, MarkPosted, Postable
    <3>2. Refreshed(rows[run[r].ev]).status = "delivered"
      BY <3>1 DEF Row, Refreshed
    <3> QED
      BY <3>1, <3>2, <2>2, <2>1
  <2>5. CASE Acknowledge(r)
    <3>1. /\ run[r].ev \in Events /\ rows[run[r].ev] \in Row
          /\ rows[run[r].ev].status \in {"pending", "delivered"}
          /\ rows' = [rows EXCEPT ![run[r].ev] = Ended(rows[run[r].ev], "acked")]
      BY <2>5, <2>e DEF Acknowledge, Ackable
    <3>2. Ended(rows[run[r].ev], "acked").status = "acked"
      BY <3>1 DEF Row, Ended
    <3> QED
      BY <3>1, <3>2, <2>2
  <2>6. CASE Release(r)
    <3>1. /\ run[r].ev \in Events /\ rows[run[r].ev] \in Row
          /\ rows[run[r].ev].status = "delivered"
          /\ rows' = [rows EXCEPT ![run[r].ev] = TakenBack(rows[run[r].ev])]
      BY <2>6, <2>e DEF Release, Releasable
    <3>2. TakenBack(rows[run[r].ev]).status = "pending"
      BY <3>1 DEF Row, TakenBack
    <3> QED
      BY <3>1, <3>2, <2>2
  <2> QED
    BY <1>2, <2>1, <2>3, <2>4, <2>5, <2>6 DEF RunnerNext, Poll, ClaimMissed, Post, LetGo
<1>3. ASSUME NEW w \in Sweepers, FindUnanswered(w) \/ SweepStep(w) \/ SweepFails(w)
      PROVE  \/ Stays
             \/ \E v \in Sweepers, n \in 1 .. Ceiling : Retire(v, e, n) /\ Retirable(rows[e], n)
  <2>1. ASSUME NEW d \in Events, NEW n \in 1 .. Ceiling, Retire(w, d, n)
        PROVE  Stays \/ (Retire(w, e, n) /\ Retirable(rows[e], n))
    <3>1. CASE d # e
      BY <2>1, <3>1, <1>k, <1>u DEF Retire
    <3>2. CASE d = e
      BY <2>1, <3>2, <1>u DEF Retire
    <3> QED
      BY <3>1, <3>2
  <2>2. CASE rows' = rows
    BY <2>2, <1>u
  <2> QED
    BY <1>3, <2>1, <2>2 DEF SweepStep, FindUnanswered, LookForAnswer, PostLine, SweepFails, NoteFails, SweepDies
<1>4. CASE UNCHANGED vars
  BY <1>4, <1>u DEF vars
<1> QED
  BY <1>1, <1>2, <1>3, <1>4 DEF Next, Stays

(* What a step does for the note a message is owed.                          *)
Noted(e, i) ==
    \/ /\ \A w \in Sweepers : Noting(w, e, i)' <=> Noting(w, e, i)
       /\ lines'[<<e, i>>] = lines[<<e, i>>] /\ crashes' >= crashes
       /\ answered[<<e, i>>] => answered'[<<e, i>>]
    \/ \E w \in Sweepers :
         /\ Noting(w, e, i) /\ ~Noting(w, e, i)'
         /\ \A v \in Sweepers \ {w} : Noting(v, e, i)' <=> Noting(v, e, i)
         /\ UNCHANGED answered
         /\ \/ lines'[<<e, i>>] = lines[<<e, i>>] /\ crashes' > 0
            \/ lines'[<<e, i>>] = lines[<<e, i>>] /\ crashes' = crashes /\ answered[<<e, i>>]
            \/ lines'[<<e, i>>] = lines[<<e, i>>] + 1 /\ crashes' = crashes

LEMMA NotesMove ==
    ASSUME TypeOK, [Next]_vars, NEW e \in Events, NEW i \in 1 .. MaxMessages
    PROVE  \/ \E w \in Sweepers, n \in 1 .. Ceiling :
                  Retire(w, e, n) /\ Retirable(rows[e], n)
           \/ Noted(e, i)
<1>t. /\ job \in [Sweepers -> Job]
      /\ answered \in [Mentions -> BOOLEAN] /\ lines \in [Mentions -> Nat] /\ crashes \in Nat
      /\ \A w \in Sweepers : job[w].pc # "retire" =>
           job[w].ev \in Events /\ job[w].msg \in 1 .. MaxMessages
      /\ <<e, i>> \in Mentions /\ lines[<<e, i>>] \in Nat
  BY QueueConstants DEF TypeOK, Mentions
<1>j. \A w \in Sweepers : /\ job[w] \in Job /\ job[w].msg \in Nat /\ job[w].last \in Nat
                          /\ job[w].pc \in {"retire", "look", "line"}
  BY <1>t, QueueConstants DEF Job
<1>u. ASSUME UNCHANGED <<job, lines, crashes>>,
             UNCHANGED answered \/ (answered[<<e, i>>] => answered'[<<e, i>>])
      PROVE  Noted(e, i)
  BY <1>u, <1>t DEF Noted, Noting
<1>1. ASSUME NEW d \in Events, EventNext(d)
      PROVE  Noted(e, i)
  BY <1>1, <1>u DEF EventNext, Enqueue, Join, GoesStale, Requeue, Expire, Delete
<1>2. ASSUME NEW r \in Runners, RunnerNext(r)
      PROVE  Noted(e, i)
  <2>1. CASE Post(r)
    <3>1. answered[<<e, i>>] => answered'[<<e, i>>]
      BY <2>1, <1>t DEF Post
    <3> QED
      BY <2>1, <3>1, <1>u DEF Post
  <2> QED
    BY <1>2, <2>1, <1>u DEF RunnerNext, Poll, Claim, ClaimMissed, Renew, MarkPosted,
                            Acknowledge, Release, LetGo
<1>3. ASSUME NEW w \in Sweepers, FindUnanswered(w) \/ SweepStep(w) \/ SweepFails(w)
      PROVE  \/ Noted(e, i)
             \/ \E v \in Sweepers, n \in 1 .. Ceiling : Retire(v, e, n) /\ Retirable(rows[e], n)
  <2>k. ASSUME \A v \in Sweepers : Noting(v, e, i)' <=> Noting(v, e, i),
               lines'[<<e, i>>] = lines[<<e, i>>], UNCHANGED answered,
               crashes' = crashes \/ crashes' = crashes + 1
        PROVE  Noted(e, i)
    <3>1. crashes' >= crashes /\ (answered[<<e, i>>] => answered'[<<e, i>>])
      BY <2>k, <1>t
    <3> QED
      BY <2>k, <3>1 DEF Noted
  <2>x. ASSUME Noting(w, e, i), ~Noting(w, e, i)',
               \A v \in Sweepers \ {w} : Noting(v, e, i)' <=> Noting(v, e, i),
               UNCHANGED answered,
               \/ lines'[<<e, i>>] = lines[<<e, i>>] /\ crashes' > 0
               \/ lines'[<<e, i>>] = lines[<<e, i>>] /\ crashes' = crashes /\ answered[<<e, i>>]
               \/ lines'[<<e, i>>] = lines[<<e, i>>] + 1 /\ crashes' = crashes
        PROVE  Noted(e, i)
    BY <2>x DEF Noted
  <2>o. ASSUME NEW x, job' = [job EXCEPT ![w] = x]
        PROVE  /\ job'[w] = x
               /\ \A v \in Sweepers \ {w} : job'[v] = job[v] /\ (Noting(v, e, i)' <=> Noting(v, e, i))
    <3>1. job'[w] = x /\ \A v \in Sweepers \ {w} : job'[v] = job[v]
      BY <2>o, <1>t
    <3> QED
      BY <3>1 DEF Noting
  <2>s. ASSUME NEW x, job' = [job EXCEPT ![w] = x], UNCHANGED <<lines, crashes, answered>>,
               x.pc \in {"look", "line"} <=> job[w].pc \in {"look", "line"},
               x.ev = job[w].ev, x.msg = job[w].msg, x.last = job[w].last
        PROVE  Noted(e, i)
    <3>1. job'[w] = x /\ \A v \in Sweepers \ {w} : job'[v] = job[v]
      BY <2>s, <2>o
    <3>2. \A v \in Sweepers : Noting(v, e, i)' <=> Noting(v, e, i)
      BY <2>s, <3>1 DEF Noting
    <3> QED
      BY <2>s, <3>2, <2>k
  <2>1. CASE FindUnanswered(w)
    <3>1. PICK b : job' = [job EXCEPT ![w] = [job[w] EXCEPT !.batch = b]]
      BY <2>1, <1>t DEF FindUnanswered
    <3> DEFINE x == [job[w] EXCEPT !.batch = b]
    <3>2. x.pc = job[w].pc /\ x.ev = job[w].ev /\ x.msg = job[w].msg /\ x.last = job[w].last
      BY <1>j DEF Job
    <3>3. job' = [job EXCEPT ![w] = x]
      BY <3>1
    <3> HIDE DEF x
    <3> QED
      BY <2>1, <3>2, <3>3, <2>s DEF FindUnanswered
  <2>2. ASSUME NEW d \in Events, NEW n \in 1 .. Ceiling, Retire(w, d, n)
        PROVE  Noted(e, i) \/ (Retire(w, e, n) /\ Retirable(rows[e], n))
    <3>1. CASE ~Retirable(rows[d], n)
      <4>1. PICK b : /\ job' = [job EXCEPT ![w] = [job[w] EXCEPT !.batch = b]]
                     /\ UNCHANGED <<lines, crashes, answered>>
        BY <2>2, <3>1, <1>t DEF Retire
      <4> DEFINE x == [job[w] EXCEPT !.batch = b]
      <4>2. x.pc = job[w].pc /\ x.ev = job[w].ev /\ x.msg = job[w].msg /\ x.last = job[w].last
        BY <1>j DEF Job
      <4>3. job' = [job EXCEPT ![w] = x]
        BY <4>1
      <4> HIDE DEF x
      <4> QED
        BY <4>1, <4>2, <4>3, <2>s
    <3>2. CASE Retirable(rows[d], n) /\ d # e
      <4>1. job' = [job EXCEPT ![w] = Retiring(job[w], d, n)]
            /\ job[w].pc = "retire" /\ UNCHANGED <<answered, lines, crashes>>
        BY <2>2, <3>2, <1>t DEF Retire
      <4>2. Retiring(job[w], d, n).ev = d
        BY DEF Retiring
      <4>3. /\ job'[w].ev = d
            /\ \A v \in Sweepers \ {w} : Noting(v, e, i)' <=> Noting(v, e, i)
        BY <4>1, <4>2, <2>o
      <4>4. \A v \in Sweepers : Noting(v, e, i)' <=> Noting(v, e, i)
        BY <3>2, <4>1, <4>3 DEF Noting
      <4> QED
        BY <4>1, <4>4, <2>k
    <3> QED
      BY <2>2, <3>1, <3>2
  <2>g. GoingOn(job[w]).pc = "retire" /\ Resting.pc = "retire"
    BY DEF GoingOn, Resting
  <2>e. ASSUME NEW x, job' = [job EXCEPT ![w] = x], x.pc = "retire"
        PROVE  /\ ~Noting(w, e, i)'
               /\ \A v \in Sweepers \ {w} : Noting(v, e, i)' <=> Noting(v, e, i)
    <3>1. job'[w] = x
      BY <2>e, <2>o
    <3> QED
      BY <2>e, <3>1, <2>o DEF Noting
  <2>n. ASSUME job' = [job EXCEPT ![w] = NextMessage(job[w])], job[w].pc \in {"look", "line"}
        PROVE  /\ \A v \in Sweepers \ {w} : Noting(v, e, i)' <=> Noting(v, e, i)
               /\ IF job[w].ev = e /\ job[w].msg = i
                  THEN Noting(w, e, i) /\ ~Noting(w, e, i)'
                  ELSE Noting(w, e, i)' <=> Noting(w, e, i)
    <3>1. job'[w] = NextMessage(job[w])
      BY <2>n, <2>o
    <3>2. /\ i \in Nat /\ job[w].msg \in Nat /\ job[w].last \in Nat
      BY <1>j
    <3>3. CASE job[w].msg < job[w].last
      <4> DEFINE x == [job[w] EXCEPT !.pc = "look", !.msg = job[w].msg + 1]
      <4>1. x.pc = "look" /\ x.ev = job[w].ev /\ x.msg = job[w].msg + 1 /\ x.last = job[w].last
        BY <1>j DEF Job
      <4>2. job'[w] = x
        BY <3>1, <3>3 DEF NextMessage
      <4> HIDE DEF x
      <4>3. Noting(w, e, i)' <=> /\ job[w].ev = e
                                 /\ \/ i = job[w].msg + 1
                                    \/ job[w].msg + 1 < i /\ i <= job[w].last
        BY <4>1, <4>2 DEF Noting
      <4> QED
        BY <2>n, <3>2, <3>3, <4>3, <2>o DEF Noting
    <3>4. CASE ~(job[w].msg < job[w].last)
      <4>1. ~Noting(w, e, i)'
        BY <3>1, <3>4, <2>g DEF NextMessage, Noting
      <4> QED
        BY <2>n, <3>2, <3>4, <4>1, <2>o DEF Noting
    <3> QED
      BY <3>3, <3>4
  <2>3. CASE LookForAnswer(w)
    <3>0. UNCHANGED <<lines, crashes, answered>> /\ job[w].pc = "look"
      BY <2>3 DEF LookForAnswer
    <3>1. CASE ~answered[<<job[w].ev, job[w].msg>>]
      <4> DEFINE x == [job[w] EXCEPT !.pc = "line"]
      <4>1. job' = [job EXCEPT ![w] = x]
        BY <2>3, <3>1, <1>t DEF LookForAnswer
      <4>2. x.pc = "line" /\ x.ev = job[w].ev /\ x.msg = job[w].msg /\ x.last = job[w].last
        BY <1>j DEF Job
      <4> HIDE DEF x
      <4> QED
        BY <3>0, <4>1, <4>2, <2>s
    <3>2. CASE answered[<<job[w].ev, job[w].msg>>]
      <4>1. job' = [job EXCEPT ![w] = NextMessage(job[w])]
        BY <2>3, <3>2, <1>t DEF LookForAnswer
      <4>2. CASE job[w].ev = e /\ job[w].msg = i
        <5>1. answered[<<e, i>>]
          BY <3>2, <4>2
        <5>2. /\ Noting(w, e, i) /\ ~Noting(w, e, i)'
              /\ \A v \in Sweepers \ {w} : Noting(v, e, i)' <=> Noting(v, e, i)
          BY <3>0, <4>1, <4>2, <2>n
        <5> QED
          BY <3>0, <5>1, <5>2, <2>x
      <4>3. CASE ~(job[w].ev = e /\ job[w].msg = i)
        <5>1. \A v \in Sweepers : Noting(v, e, i)' <=> Noting(v, e, i)
          BY <3>0, <4>1, <4>3, <2>n
        <5> QED
          BY <3>0, <5>1, <2>k
      <4> QED
        BY <4>2, <4>3
    <3> QED
      BY <3>1, <3>2
  <2>4. CASE PostLine(w)
    <3>1. /\ job' = [job EXCEPT ![w] = NextMessage(job[w])]
          /\ UNCHANGED <<crashes, answered>>
          /\ job[w].pc = "line" /\ job[w].ev \in Events /\ job[w].msg \in 1 .. MaxMessages
          /\ lines' = [lines EXCEPT ![<<job[w].ev, job[w].msg>>] = @ + 1]
      BY <2>4, <1>t DEF PostLine
    <3>2. CASE job[w].ev = e /\ job[w].msg = i
      <4>1. lines'[<<e, i>>] = lines[<<e, i>>] + 1
        BY <3>1, <3>2, <1>t
      <4>2. /\ Noting(w, e, i) /\ ~Noting(w, e, i)'
            /\ \A v \in Sweepers \ {w} : Noting(v, e, i)' <=> Noting(v, e, i)
        BY <3>1, <3>2, <2>n
      <4> QED
        BY <3>1, <4>1, <4>2, <2>x
    <3>3. CASE ~(job[w].ev = e /\ job[w].msg = i)
      <4>1. lines'[<<e, i>>] = lines[<<e, i>>]
        BY <3>1, <3>3, <1>t
      <4>2. \A v \in Sweepers : Noting(v, e, i)' <=> Noting(v, e, i)
        BY <3>1, <3>3, <2>n
      <4> QED
        BY <3>1, <4>1, <4>2, <2>k
    <3> QED
      BY <3>2, <3>3
  <2>5. CASE SweepFails(w)
    <3>1. /\ job' = [job EXCEPT ![w] = Resting] \/ job' = [job EXCEPT ![w] = GoingOn(job[w])]
          /\ UNCHANGED <<lines, answered>>
          /\ crashes' = crashes + 1
      BY <2>5, <1>t DEF SweepFails, NoteFails, SweepDies
    <3>2. ~Noting(w, e, i)' /\ \A v \in Sweepers \ {w} : Noting(v, e, i)' <=> Noting(v, e, i)
      BY <3>1, <2>e, <2>g
    <3>3. CASE Noting(w, e, i)
      <4>1. crashes' > 0
        BY <3>1, <1>t
      <4> QED
        BY <3>1, <3>2, <3>3, <4>1, <2>x
    <3>4. CASE ~Noting(w, e, i)
      <4>1. \A v \in Sweepers : Noting(v, e, i)' <=> Noting(v, e, i)
        BY <3>2, <3>4
      <4> QED
        BY <3>1, <4>1, <2>k
    <3> QED
      BY <3>3, <3>4
  <2> QED
    BY <1>3, <2>1, <2>2, <2>3, <2>4, <2>5 DEF SweepStep
<1>4. CASE UNCHANGED vars
  BY <1>4, <1>u DEF vars
<1> QED
  BY <1>1, <1>2, <1>3, <1>4 DEF Next

LEMMA ToldInductive == TypeOK /\ Told /\ [Next]_vars => Told'
<1> SUFFICES ASSUME TypeOK, Told, [Next]_vars, NEW e \in Events, NEW i \in 1 .. MaxMessages
             PROVE  ToldOf(e, i)'
  BY DEF Told
<1>t. /\ crashes \in Nat /\ lines[<<e, i>>] \in Nat
      /\ rows \in [Events -> Row] /\ rows[e].carries \in Nat
  <2>1. <<e, i>> \in Mentions
    BY DEF Mentions
  <2> QED
    BY <2>1, QueueConstants DEF TypeOK, Row
<1>i. ToldOf(e, i)
  BY DEF Told
<1>c. crashes' \in Nat
  <2>1. TypeOK'
    BY ActorsTyped
  <2> QED
    BY <2>1, QueueConstants DEF TypeOK
<1>1. ASSUME NEW w \in Sweepers, NEW n \in 1 .. Ceiling, Retire(w, e, n), Retirable(rows[e], n)
      PROVE  ToldOf(e, i)'
  <2>1. /\ rows' = [rows EXCEPT ![e] = Ended(rows[e], "failed")]
        /\ job' = [job EXCEPT ![w] = Retiring(job[w], e, n)]
        /\ rows[e].status = "delivered" /\ UNCHANGED lines
    BY <1>1 DEF Retire, Retirable, TypeOK
  <2>2. rows'[e].status = "failed" /\ rows'[e].carries = rows[e].carries
    BY <2>1, <1>t DEF Ended, Row
  <2>3. lines[<<e, i>>] = 0 /\ \A v \in Sweepers : ~Noting(v, e, i)
    BY <2>1, <1>i, <1>t DEF ToldOf
  <2>4. /\ job'[w].pc = "look" /\ job'[w].ev = e /\ job'[w].msg = 1 /\ job'[w].last = rows[e].carries
        /\ \A v \in Sweepers \ {w} : job'[v] = job[v]
    BY <2>1 DEF TypeOK, Retiring
  <2>5. \A v \in Sweepers : Noting(v, e, i)' => v = w
    BY <2>3, <2>4 DEF Noting
  <2>6. i <= rows[e].carries => Noting(w, e, i)'
    BY <2>4, <1>t DEF Noting
  <2> QED
    BY <2>1, <2>2, <2>3, <2>5, <2>6 DEF ToldOf
<1>2. ASSUME Noted(e, i),
             rows[e].status \in {"failed", "gone"} => rows'[e].status \in {"failed", "gone"},
             rows'[e].person /\ rows'[e].status = "failed" => rows'[e] = rows[e]
      PROVE  ToldOf(e, i)'
  <2>1. CASE /\ \A w \in Sweepers : Noting(w, e, i)' <=> Noting(w, e, i)
             /\ lines'[<<e, i>>] = lines[<<e, i>>] /\ crashes' >= crashes
             /\ answered[<<e, i>>] => answered'[<<e, i>>]
    BY <1>2, <2>1, <1>i, <1>t, <1>c DEF ToldOf
  <2>2. ASSUME NEW w \in Sweepers, Noting(w, e, i), ~Noting(w, e, i)',
               \A v \in Sweepers \ {w} : Noting(v, e, i)' <=> Noting(v, e, i),
               UNCHANGED answered,
               \/ lines'[<<e, i>>] = lines[<<e, i>>] /\ crashes' > 0
               \/ lines'[<<e, i>>] = lines[<<e, i>>] /\ crashes' = crashes /\ answered[<<e, i>>]
               \/ lines'[<<e, i>>] = lines[<<e, i>>] + 1 /\ crashes' = crashes
        PROVE  ToldOf(e, i)'
    <3>1. lines[<<e, i>>] = 0 /\ rows[e].status \in {"failed", "gone"}
          /\ \A v \in Sweepers : Noting(v, e, i) => v = w
      BY <2>2, <1>i DEF ToldOf
    <3>2. \A v \in Sweepers : ~Noting(v, e, i)'
      BY <2>2, <3>1
    <3> QED
      BY <1>2, <2>2, <3>1, <3>2, <1>t, <1>c DEF ToldOf
  <2> QED
    BY <1>2, <2>1, <2>2 DEF Noted
<1> QED
  BY <1>1, <1>2, OnlySweepsRetire, NotesMove

LEMMA ToldInitially == Init => Told
<1> SUFFICES ASSUME Init, NEW e \in Events, NEW i \in 1 .. MaxMessages PROVE ToldOf(e, i)
  BY DEF Told
<1>1. lines[<<e, i>>] = 0
  BY DEF Init, Mentions
<1> QED
  BY <1>1 DEF Init, ToldOf, Noting, Unborn, Resting

(* However many replicas sweep, a person is told at most once that their     *)
(* message went unanswered, and only of a retired one                        *)
(* (retireUnansweredMentions).                                               *)
THEOREM ToldAtMostOnce == Spec => []OneLineAtMost
<1>1. Told => OneLineAtMost
  <2> SUFFICES ASSUME Told, NEW m \in Mentions
               PROVE  /\ lines[m] <= 1
                      /\ lines[m] = 1 => rows[m[1]].status \in {"failed", "gone"}
    BY DEF OneLineAtMost
  <2>1. PICK e \in Events, i \in 1 .. MaxMessages : m = <<e, i>>
    BY DEF Mentions
  <2>2. ToldOf(e, i)
    BY DEF Told
  <2> QED
    BY <2>1, <2>2 DEF ToldOf
<1> QED
  BY <1>1, ToldInitially, ToldInductive, QueueTyped, PTL DEF Spec

(* No message of a person is retired in silence, unless a sweep died or      *)
(* failed between the retire and the line (garbageCollect,                   *)
(* noteUnansweredMention).                                                   *)
THEOREM RetirementIsTold == Spec => []RetiredIsTold
<1>1. TypeOK /\ Told => RetiredIsTold
  <2> SUFFICES ASSUME TypeOK, Told, NEW e \in Events, NEW i \in 1 .. rows[e].carries,
                      rows[e].person, rows[e].status = "failed",
                      \A w \in Sweepers : job[w].ev # e
               PROVE  lines[<<e, i>>] = 1 \/ answered[<<e, i>>] \/ crashes > 0
    BY DEF RetiredIsTold
  <2>1. i \in 1 .. MaxMessages /\ i <= rows[e].carries
    BY QueueConstants DEF TypeOK, Row
  <2>2. ToldOf(e, i)
    BY <2>1 DEF Told
  <2> QED
    BY <2>1, <2>2 DEF ToldOf, Noting
<1> QED
  BY <1>1, ToldInitially, ToldInductive, QueueTyped, PTL DEF Spec
===============================================================================
