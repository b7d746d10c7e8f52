------------------------- MODULE ApprovalClosureProofs -------------------------
(* Proofs about a parked tool call, for any deciders, sweep passes and runs, *)
(* and any bounds.                                                           *)
EXTENDS ApprovalClosure, TLAPS, FiniteSetTheorems

-------------------------------------------------------------------------------
(* Types.  What an attempt carries from one statement to the next is an      *)
(* ending wherever it will be written as one.                                *)

Writing == {"record", "save", "settling", "trail"}

Answers == {"ran", "refused", "timed out"}

Carrying(x) ==
    /\ x.pc = "decide" => x.closure # "none"
    /\ x.pc = "record" => x.ending \in Answers
    /\ x.pc \in Writing => x.ending \in Endings

Carries == \A a \in Actors : Carrying(at[a])

DeniedHasEnding == Closed /\ ClosureOf(row) # "approved" => row.ending \in Endings

Typed == TypeOK /\ Carries /\ DeniedHasEnding

LEMMA TroubleTyped ==
  ASSUME trouble \in 0 .. MaxTrouble, Trouble
  PROVE  trouble' \in 0 .. MaxTrouble
  BY ApprovalConstants DEF Trouble

LEMMA IdleIsAttempt == Idle \in Attempt /\ Idle.pc = "idle"
  BY ApprovalConstants DEF Idle, Attempt, Steps

LEMMA InitTyped == Init => Typed
<1> SUFFICES ASSUME Init PROVE Typed
  OBVIOUS
<1>1. row \in Row
  BY ApprovalConstants DEF Init, Row
<1>2. Idle \in Attempt
  BY IdleIsAttempt
<1>3. world \in World /\ at \in [Actors -> Attempt]
  BY <1>2 DEF Init, World
<1>4. trouble \in 0 .. MaxTrouble /\ stalls \in 0 .. MaxStalls
  BY ApprovalConstants DEF Init
<1>5. TypeOK
  BY <1>1, <1>3, <1>4 DEF Init, TypeOK
<1> QED
  BY <1>5 DEF Init, Typed, Carries, DeniedHasEnding, Closed, Idle, Writing, Carrying

(* Steps that leave the attempts alone.                                      *)
LEMMA OutsideTyped ==
  ASSUME Typed, Propose \/ MootCardless \/ DeadlinePasses \/ WaitPasses
                \/ (\E u \in Runs : FindCard(u) \/ ParkOnCard(u))
                \/ \E s \in Sends : LeaseLapses(s)
  PROVE  Typed'
<1> USE DEF Typed, TypeOK, Carries, DeniedHasEnding, Closed, ClosureOf
<1>1. CASE Propose
  <2>1. CASE PostCard
    <3>1. world' \in World
      BY <2>1 DEF PostCard, World
    <3> QED
      BY <2>1, <3>1 DEF PostCard
  <2>2. CASE AttachCard
    BY <2>2 DEF AttachCard, Row, Open
  <2>3. CASE PostFails
    BY <2>3, TroubleTyped DEF PostFails, Row, Open
  <2>4. CASE ProposerDies
    BY <2>4, TroubleTyped DEF ProposerDies
  <2> QED
    BY <1>1, <2>1, <2>2, <2>3, <2>4 DEF Propose
<1>2. CASE MootCardless
  BY <1>2, ApprovalConstants DEF MootCardless, Row, Open
<1>3. CASE DeadlinePasses \/ WaitPasses
  BY <1>3 DEF DeadlinePasses, WaitPasses, Awaited, Row
<1>4. ASSUME NEW u \in Runs, FindCard(u) \/ ParkOnCard(u) PROVE Typed'
  BY <1>4 DEF FindCard, ParkOnCard, Parkable, Row, Open
<1>5. ASSUME NEW s \in Sends, LeaseLapses(s) PROVE Typed'
  <2>1. row' \in Row
    BY <1>5 DEF LeaseLapses, Row
  <2> QED
    BY <1>5, <2>1 DEF LeaseLapses
<1> QED
  BY <1>1, <1>2, <1>3, <1>4, <1>5

(* One attempt moves, and carries what it must.                              *)
LEMMA AttemptTyped ==
  ASSUME at \in [Actors -> Attempt], Carries, NEW a \in Actors, NEW x \in Attempt,
         at' = [at EXCEPT ![a] = x], Carrying(x)
  PROVE  at' \in [Actors -> Attempt] /\ Carries'
  BY DEF Carries

(* ... to another statement, with a step failed or not.                      *)
LEMMA GoTyped ==
  ASSUME at \in [Actors -> Attempt], Carries, NEW a \in Actors, NEW pc \in Steps,
         \/ at' = [at EXCEPT ![a].pc = pc]
         \/ \E f \in BOOLEAN : at' = [at EXCEPT ![a] = [@ EXCEPT !.pc = pc, !.failed = f]],
         pc \notin {"decide", "record"}, pc \in Writing => at[a].ending \in Endings
  PROVE  at' \in [Actors -> Attempt] /\ Carries'
<1>1. at[a] \in Attempt
  OBVIOUS
<1>2. CASE at' = [at EXCEPT ![a].pc = pc]
  <2>1. [at[a] EXCEPT !.pc = pc] \in Attempt
    BY <1>1 DEF Attempt
  <2>2. [at[a] EXCEPT !.pc = pc].pc = pc /\ [at[a] EXCEPT !.pc = pc].ending = at[a].ending
    BY <1>1 DEF Attempt
  <2>3. at' = [at EXCEPT ![a] = [at[a] EXCEPT !.pc = pc]]
    BY <1>2
  <2> QED
    BY <2>1, <2>2, <2>3, AttemptTyped DEF Carrying
<1>3. ASSUME NEW f \in BOOLEAN, at' = [at EXCEPT ![a] = [@ EXCEPT !.pc = pc, !.failed = f]]
      PROVE  at' \in [Actors -> Attempt] /\ Carries'
  <2> DEFINE x == [at[a] EXCEPT !.pc = pc, !.failed = f]
  <2>1. x \in Attempt
    BY <1>1 DEF Attempt
  <2>2. x.pc = pc /\ x.ending = at[a].ending
    BY <1>1 DEF Attempt
  <2>3. at' = [at EXCEPT ![a] = x]
    BY <1>3
  <2> HIDE DEF x
  <2> QED
    BY <2>1, <2>2, <2>3, AttemptTyped DEF Carrying
<1> QED
  BY <1>2, <1>3

LEMMA IdleTyped ==
  ASSUME at \in [Actors -> Attempt], Carries, NEW a \in Actors, at' = [at EXCEPT ![a] = Idle]
  PROVE  at' \in [Actors -> Attempt] /\ Carries'
  BY IdleIsAttempt, AttemptTyped DEF Writing, Carrying

(* The closing write.                                                        *)
LEMMA CloseTyped ==
  ASSUME Typed, NEW a \in Actors, NEW closure \in {"approved", "declined", "expired"},
         Close(a, closure)
  PROVE  row' \in Row /\ at' \in [Actors -> Attempt] /\ Carries' /\ DeniedHasEnding'
<1>1. row \in Row /\ at \in [Actors -> Attempt] /\ Carries
  BY DEF Typed, TypeOK
<1>2. EndingOf(closure) \in Endings \cup {"none"} /\ (closure # "approved" => EndingOf(closure) = closure)
  BY DEF EndingOf, Endings
<1>3. row' \in Row /\ DeniedHasEnding'
  BY <1>1, <1>2 DEF Close, Row, DeniedHasEnding, Closed, ClosureOf, Endings
<1> DEFINE x == [Idle EXCEPT !.pc = IF closure = "approved" THEN "run" ELSE "trail",
                             !.closure = closure, !.ending = EndingOf(closure),
                             !.runs = row.parked]
<1>4. x \in Attempt
  <2>1. row.parked \in SUBSET Runs
    BY <1>1 DEF Row
  <2> QED
    BY <1>2, <2>1, IdleIsAttempt DEF Attempt, Steps
<1>5. Carrying(x)
  BY <1>2 DEF Idle, Writing, Endings, Carrying
<1>6. at' = [at EXCEPT ![a] = x]
  BY DEF Close
<1> HIDE DEF x
<1> QED
  BY <1>1, <1>3, <1>4, <1>5, <1>6, AttemptTyped

LEMMA AskedTyped ==
  ASSUME world \in World
  PROVE  [world EXCEPT !.asked = @ + 1] \in World
<1>1. world.asked + 1 \in Nat
  BY DEF World
<1>2. \A n \in Nat : [world EXCEPT !.asked = n] \in World
  BY DEF World
<1> QED
  BY <1>1, <1>2

(* The resolver's steps.                                                     *)
LEMMA ResolveTyped ==
  ASSUME Typed, NEW d \in Deciders,
         Resolve(d) \/ \E answer \in {"approved", "declined"} : ReadToDecide(d, answer)
  PROVE  Typed'
<1>1. /\ row \in Row /\ world \in World /\ at \in [Actors -> Attempt] /\ Carries
      /\ trouble \in 0 .. MaxTrouble /\ d \in Actors /\ at[d] \in Attempt
  BY DEF Typed, TypeOK, Actors
<1>2. ASSUME NEW answer \in {"approved", "declined"}, ReadToDecide(d, answer) PROVE Typed'
  <2> DEFINE x == [at[d] EXCEPT !.pc = "decide", !.closure = IF lapsed THEN "expired" ELSE answer]
  <2>1. x \in Attempt /\ x.pc = "decide" /\ x.closure # "none"
    BY <1>1 DEF Attempt, Steps
  <2>2. at' = [at EXCEPT ![d] = x]
    BY <1>2 DEF ReadToDecide
  <2> HIDE DEF x
  <2>3. at' \in [Actors -> Attempt] /\ Carries'
    BY <1>1, <2>1, <2>2, AttemptTyped DEF Writing, Carrying
  <2> QED
    BY <1>2, <2>3 DEF ReadToDecide, Typed, TypeOK, DeniedHasEnding, Closed, ClosureOf
<1>3. CASE CloseByDecision(d)
  <2>1. CASE Decidable(d)
    <3>1. at[d].closure \in {"approved", "declined", "expired"}
      BY <1>1, <1>3 DEF CloseByDecision, Carries, Carrying, Attempt
    <3> QED
      BY <1>1, <1>3, <2>1, <3>1, CloseTyped DEF CloseByDecision, Typed, TypeOK
  <2>2. CASE ~Decidable(d)
    BY <1>1, <1>3, <2>2, IdleTyped DEF CloseByDecision, Typed, TypeOK, DeniedHasEnding, Closed, ClosureOf
  <2> QED
    BY <2>1, <2>2
<1>4. CASE RunCall(d)
  <2>1. PICK ending \in {"ran", "refused", "timed out"} :
          /\ at' = [at EXCEPT ![d] = [@ EXCEPT !.pc = "record",
                                               !.ending = ending,
                                               !.unsaved = TRUE]]
          /\ world' = IF ending = "refused" THEN world ELSE [world EXCEPT !.asked = @ + 1]
    BY <1>4 DEF RunCall
  <2> DEFINE x == [at[d] EXCEPT !.pc = "record", !.ending = ending, !.unsaved = TRUE]
  <2>2. x \in Attempt /\ Carrying(x)
    BY <1>1 DEF Attempt, Steps, Endings, LiveEndings, Carrying, Answers
  <2>3. at' = [at EXCEPT ![d] = x]
    BY <2>1
  <2> HIDE DEF x
  <2>4. at' \in [Actors -> Attempt] /\ Carries'
    BY <1>1, <2>2, <2>3, AttemptTyped
  <2>5. world' \in World
    <3>1. [world EXCEPT !.asked = @ + 1] \in World
      BY <1>1, AskedTyped
    <3> QED
      BY <1>1, <2>1, <3>1
  <2> QED
    BY <1>4, <2>4, <2>5 DEF RunCall, Typed, TypeOK, DeniedHasEnding, Closed, ClosureOf
<1>5. CASE RecordCall(d)
  <2>1. at[d].ending \in Endings
    BY <1>1, <1>5 DEF RecordCall, Carries, Carrying, Writing
  <2>2. world' \in World
    BY <1>1, <1>5, <2>1 DEF RecordCall, World
  <2>3. at' \in [Actors -> Attempt] /\ Carries'
    BY <1>1, <1>5, <2>1, GoTyped DEF RecordCall, Go, Steps
  <2> QED
    BY <1>5, <2>2, <2>3 DEF RecordCall, Typed, TypeOK, DeniedHasEnding, Closed, ClosureOf
<1>6. CASE RecordFails(d)
  <2>1. PICK ending \in {"ran", "broker_error", "unknown"} :
          at' = [at EXCEPT ![d] = [@ EXCEPT !.pc = "save",
                                            !.ending = ending,
                                            !.unwritten = (at[d].ending = "ran")]]
    <3>1. at[d].ending \in Answers
      BY <1>1, <1>6 DEF RecordFails, Carries, Carrying
    <3> QED
      BY <1>6, <3>1 DEF RecordFails, SelfRecorded, Answers
  <2> DEFINE x == [at[d] EXCEPT !.pc = "save", !.ending = ending,
                                !.unwritten = (at[d].ending = "ran")]
  <2>2. x \in Attempt /\ Carrying(x)
    BY <1>1 DEF Attempt, Steps, Endings, LiveEndings, Carrying
  <2>3. at' = [at EXCEPT ![d] = x]
    BY <2>1
  <2> HIDE DEF x
  <2>4. at' \in [Actors -> Attempt] /\ Carries'
    BY <1>1, <2>2, <2>3, AttemptTyped
  <2> QED
    BY <1>1, <1>6, <2>4, TroubleTyped
    DEF RecordFails, Typed, TypeOK, DeniedHasEnding, Closed, ClosureOf
<1>7. CASE SaveEnding(d)
  <2>1. at[d].ending \in Endings /\ at[d].unwritten \in BOOLEAN
    BY <1>1, <1>7 DEF SaveEnding, Carries, Carrying, Writing, Attempt
  <2>2. row' \in Row /\ DeniedHasEnding'
    BY <1>1, <1>7, <2>1 DEF SaveEnding, Saved, Row, DeniedHasEnding
  <2> DEFINE x == [at[d] EXCEPT !.pc = "trail", !.unsaved = FALSE]
  <2>3. x \in Attempt /\ Carrying(x)
    BY <1>1, <2>1 DEF Attempt, Steps, Carrying
  <2>4. at' = [at EXCEPT ![d] = x]
    BY <1>7 DEF SaveEnding
  <2> HIDE DEF x
  <2>5. at' \in [Actors -> Attempt] /\ Carries'
    BY <1>1, <2>3, <2>4, AttemptTyped
  <2> QED
    BY <1>7, <2>2, <2>5 DEF SaveEnding, Typed, TypeOK
<1>8. CASE SaveFails(d)
  <2>1. at[d].ending \in Endings
    BY <1>1, <1>8 DEF SaveFails, Carries, Carrying, Writing
  <2>2. at' \in [Actors -> Attempt] /\ Carries'
    BY <1>1, <1>8, <2>1, GoTyped DEF SaveFails, Go, Steps
  <2> QED
    BY <1>1, <1>8, <2>2, TroubleTyped
    DEF SaveFails, Typed, TypeOK, DeniedHasEnding, Closed, ClosureOf
<1> QED
  BY <1>2, <1>3, <1>4, <1>5, <1>6, <1>7, <1>8 DEF Resolve

(* The steps that complete a closure.                                        *)
LEMMA CompleteTyped ==
  ASSUME Typed, NEW a \in Actors, Complete(a)
  PROVE  Typed'
<1>1. /\ row \in Row /\ world \in World /\ at \in [Actors -> Attempt] /\ Carries
      /\ trouble \in 0 .. MaxTrouble /\ at[a] \in Attempt
  BY DEF Typed, TypeOK
<1>2. CASE Trail(a) \/ TrailFails(a)
  <2>1. at[a].ending \in Endings /\ Owed(a) \subseteq Endings /\ AfterTrail(a) \in Steps
    BY <1>1, <1>2 DEF Trail, TrailFails, Carries, Carrying, Writing, Owed, AfterTrail, Steps
  <2>2. AfterTrail(a) \notin {"decide", "record"} \cup Writing
    BY DEF AfterTrail, Writing
  <2>3. CASE Trail(a)
    <3>1. world' \in World
      BY <1>1, <2>1, <2>3 DEF Trail, World
    <3>2. row' \in Row /\ DeniedHasEnding'
      <4>1. CASE at[a].unsaved
        <5>1. row' = [row EXCEPT !.ending = at[a].ending, !.unwritten = FALSE, !.done = FALSE]
          BY <2>3, <4>1 DEF Trail, Saved
        <5> QED
          BY <1>1, <2>1, <5>1 DEF Row, DeniedHasEnding
      <4>2. CASE ~at[a].unsaved
        <5>1. row' = row \/ row' = [row EXCEPT !.unwritten = FALSE]
          BY <2>3, <4>2 DEF Trail
        <5> QED
          BY <1>1, <5>1 DEF Row, Typed, DeniedHasEnding, Closed, ClosureOf
      <4> QED
        BY <4>1, <4>2
    <3> DEFINE x == [at[a] EXCEPT !.pc = AfterTrail(a), !.unsaved = FALSE, !.unwritten = FALSE]
    <3>3. x \in Attempt /\ Carrying(x)
      BY <1>1, <2>1, <2>2 DEF Attempt, Carrying
    <3>4. at' = [at EXCEPT ![a] = x]
      BY <2>3 DEF Trail
    <3> HIDE DEF x
    <3>5. at' \in [Actors -> Attempt] /\ Carries'
      BY <1>1, <3>3, <3>4, AttemptTyped
    <3> QED
      BY <2>3, <3>1, <3>2, <3>5 DEF Trail, Typed, TypeOK
  <2>4. CASE TrailFails(a)
    <3>1. world' \in World
      BY <1>1, <2>1, <2>4 DEF TrailFails, World
    <3>2. at' \in [Actors -> Attempt] /\ Carries'
      BY <1>1, <2>1, <2>2, <2>4, GoTyped DEF TrailFails, Fail
    <3> QED
      BY <1>1, <2>4, <3>1, <3>2, TroubleTyped
      DEF TrailFails, Fail, Typed, TypeOK, DeniedHasEnding, Closed, ClosureOf
  <2> QED
    BY <1>2, <2>3, <2>4
<1>3. CASE CheckWake(a) \/ SendWake(a) \/ SendReceipt(a)
  <2>1. at' \in [Actors -> Attempt] /\ Carries'
    BY <1>1, <1>3, GoTyped DEF CheckWake, SendWake, SendReceipt, Go, Steps, Writing
  <2>2. world' \in World
    <3>1. at[a].runs \in SUBSET Runs
      BY <1>1 DEF Attempt
    <3>2. world.wakes + 1 \in Nat /\ world.receipts + 1 \in Nat
      BY <1>1 DEF World
    <3>3. \A n \in Nat : [world EXCEPT !.receipts = n] \in World
      BY <1>1 DEF World
    <3>4. \A n \in Nat : [world EXCEPT !.wakes = n, !.named = @ \cup at[a].runs] \in World
      BY <1>1, <3>1 DEF World
    <3> QED
      BY <1>1, <1>3, <3>2, <3>3, <3>4 DEF CheckWake, SendWake, SendReceipt
  <2> QED
    BY <1>3, <2>1, <2>2
    DEF CheckWake, SendWake, SendReceipt, Typed, TypeOK, DeniedHasEnding, Closed, ClosureOf
<1>4. ASSUME NEW s \in Sends,
             \/ ClaimSend(a, s) \/ PassSend(a, s) \/ SendFails(a, s)
             \/ StampSend(a, s) \/ StampFails(a, s)
      PROVE  Typed'
  <2>1. AfterSend(s) \in {"claim wake", "finish"} /\ AfterSend(s) \in Steps
    BY DEF AfterSend, Steps
  <2>2. at' \in [Actors -> Attempt] /\ Carries'
    <3>1. CASE ClaimSend(a, s)
      BY <1>1, <3>1, GoTyped DEF ClaimSend, Go, Steps, Writing
    <3>2. CASE PassSend(a, s)
      <4>1. (at[a].failed \/ s \notin row.sent) \in BOOLEAN
        BY <1>1 DEF Attempt
      <4>2. at' = [at EXCEPT ![a] = [@ EXCEPT !.pc = AfterSend(s),
                                              !.failed = (at[a].failed \/ s \notin row.sent)]]
        BY <3>2 DEF PassSend
      <4> QED
        BY <1>1, <2>1, <4>1, <4>2, GoTyped DEF Writing
    <3>3. CASE SendFails(a, s) \/ StampFails(a, s)
      BY <1>1, <2>1, <3>3, GoTyped DEF SendFails, StampFails, Fail, Writing
    <3>4. CASE StampSend(a, s)
      BY <1>1, <2>1, <3>4, GoTyped DEF StampSend, Go, Writing
    <3> QED
      BY <1>4, <3>1, <3>2, <3>3, <3>4
  <2>3. /\ row' \in Row /\ row'.status = row.status /\ row'.decision = row.decision
        /\ row'.ending = row.ending
    <3>1. \A b \in Actors \cup {Nobody} : [row EXCEPT !.lease[s] = b] \in Row
      BY <1>1 DEF Row
    <3>2. [row EXCEPT !.sent = @ \cup {s}, !.lease[s] = Nobody] \in Row
      BY <1>1 DEF Row
    <3>3. \/ row' = row
          \/ \E b \in Actors \cup {Nobody} : row' = [row EXCEPT !.lease[s] = b]
          \/ row' = [row EXCEPT !.sent = @ \cup {s}, !.lease[s] = Nobody]
      BY <1>4 DEF ClaimSend, PassSend, SendFails, AfterFailedSend, StampSend, StampFails
    <3> QED
      BY <1>1, <3>1, <3>2, <3>3 DEF Row
  <2>4. trouble' \in 0 .. MaxTrouble
    BY <1>1, <1>4, TroubleTyped DEF ClaimSend, PassSend, SendFails, Fail, StampSend, StampFails
  <2> QED
    BY <1>4, <2>2, <2>3, <2>4
    DEF ClaimSend, PassSend, SendFails, StampSend, StampFails, Typed, TypeOK, DeniedHasEnding,
        Closed, ClosureOf
<1>5. CASE Finish(a) \/ CardFails(a)
  <2>1. at' \in [Actors -> Attempt] /\ Carries'
    BY <1>1, <1>5, IdleTyped DEF Finish, CardFails
  <2>2. /\ row' \in Row /\ row'.status = row.status /\ row'.decision = row.decision
        /\ row'.ending = row.ending
    <3>1. row' = row \/ row' = [row EXCEPT !.done = TRUE]
      BY <1>5 DEF Finish, CardFails
    <3> QED
      BY <1>1, <3>1 DEF Row
  <2>3. trouble' \in 0 .. MaxTrouble
    BY <1>1, <1>5, TroubleTyped DEF Finish, CardFails
  <2> QED
    BY <1>5, <2>1, <2>2, <2>3
    DEF Finish, CardFails, Typed, TypeOK, DeniedHasEnding, Closed, ClosureOf
<1> QED
  BY <1>2, <1>3, <1>4, <1>5 DEF Complete

(* The sweep's own steps.                                                    *)
LEMMA SweepTyped ==
  ASSUME Typed, NEW s \in Sweepers, Sweep(s)
  PROVE  Typed'
<1>1. /\ row \in Row /\ world \in World /\ at \in [Actors -> Attempt] /\ Carries
      /\ trouble \in 0 .. MaxTrouble /\ s \in Actors /\ at[s] \in Attempt
  BY DEF Typed, TypeOK, Actors
<1>2. CASE SweepExpired(s)
  BY <1>1, <1>2, CloseTyped DEF SweepExpired, Typed, TypeOK
<1>3. CASE FindIncomplete(s)
  <2> DEFINE x == [at[s] EXCEPT !.pc = "found", !.seen = row.retries]
  <2>1. x \in Attempt /\ Carrying(x)
    BY <1>1 DEF Attempt, Row, Steps, Carrying, Writing
  <2>2. at' = [at EXCEPT ![s] = x]
    BY <1>3 DEF FindIncomplete
  <2> HIDE DEF x
  <2>3. at' \in [Actors -> Attempt] /\ Carries'
    BY <1>1, <2>1, <2>2, AttemptTyped
  <2> QED
    BY <1>3, <2>3 DEF FindIncomplete, Typed, TypeOK, DeniedHasEnding, Closed, ClosureOf
<1>4. CASE ClaimRetry(s)
  <2>1. CASE Incomplete /\ row.retries = at[s].seen
    <3>1. row' \in Row /\ DeniedHasEnding'
      <4>1. row.retries + 1 \in 0 .. MaxRetries
        BY <1>1, <2>1, ApprovalConstants DEF Incomplete, Row
      <4>2. row' = [row EXCEPT !.retries = row.retries + 1, !.due = FALSE]
        BY <1>4, <2>1 DEF ClaimRetry
      <4> QED
        BY <1>1, <4>1, <4>2 DEF Row, Typed, DeniedHasEnding, Closed, ClosureOf
    <3> DEFINE x == [Idle EXCEPT !.pc = IF ClosureOf(row) = "approved" /\ row.ending = "none"
                                       THEN "settle" ELSE "trail",
                                 !.closure = ClosureOf(row), !.ending = row.ending,
                                 !.unwritten = row.unwritten, !.runs = row.parked]
    <3>2. x \in Attempt
      <4>1. /\ Idle \in Attempt
            /\ row.ending \in Endings \cup {"none"} /\ row.unwritten \in BOOLEAN
            /\ row.parked \in SUBSET Runs
        BY <1>1, IdleIsAttempt DEF Row, Typed
      <4>2. ClosureOf(row) \in {"none", "approved", "declined", "expired"}
        BY <1>1 DEF Row, Typed, ClosureOf
      <4> QED
        BY <4>1, <4>2 DEF Attempt, Steps
    <3>3. Carrying(x)
      <4>1. x.pc = "trail" => x.ending \in Endings
        BY <1>1, <2>1 DEF Row, Incomplete, Typed, DeniedHasEnding, Idle
      <4>2. x.pc \in {"settle", "trail"}
        BY DEF Idle
      <4> QED
        BY <4>1, <4>2 DEF Carrying, Writing
    <3>4. at' = [at EXCEPT ![s] = x]
      BY <1>4, <2>1 DEF ClaimRetry
    <3> HIDE DEF x
    <3>5. at' \in [Actors -> Attempt] /\ Carries'
      BY <1>1, <3>2, <3>3, <3>4, AttemptTyped
    <3> QED
      BY <1>4, <3>1, <3>5 DEF ClaimRetry, Typed, TypeOK
  <2>2. CASE ~(Incomplete /\ row.retries = at[s].seen)
    BY <1>1, <1>4, <2>2, IdleTyped
    DEF ClaimRetry, Typed, TypeOK, DeniedHasEnding, Closed, ClosureOf
  <2> QED
    BY <2>1, <2>2
<1>5. CASE ReadTrail(s)
  <2>1. PICK ending \in Endings :
          at' = [at EXCEPT ![s] = [@ EXCEPT !.pc = "settling", !.ending = ending]]
    BY <1>1, <1>5 DEF ReadTrail, World, Endings
  <2> DEFINE x == [at[s] EXCEPT !.pc = "settling", !.ending = ending]
  <2>2. x \in Attempt /\ Carrying(x)
    BY <1>1 DEF Attempt, Steps, Carrying
  <2>3. at' = [at EXCEPT ![s] = x]
    BY <2>1
  <2> HIDE DEF x
  <2>4. at' \in [Actors -> Attempt] /\ Carries'
    BY <1>1, <2>2, <2>3, AttemptTyped
  <2> QED
    BY <1>5, <2>4 DEF ReadTrail, Typed, TypeOK, DeniedHasEnding, Closed, ClosureOf
<1>6. CASE ReadTrailFails(s)
  BY <1>1, <1>6, IdleTyped, TroubleTyped
  DEF ReadTrailFails, Typed, TypeOK, DeniedHasEnding, Closed, ClosureOf
<1>7. CASE Settle(s)
  <2>1. at[s].ending \in Endings
    BY <1>1, <1>7 DEF Settle, Carries, Carrying, Writing
  <2>2. CASE Unsettled
    <3>1. row' \in Row /\ DeniedHasEnding'
      BY <1>1, <1>7, <2>1, <2>2 DEF Settle, Row, DeniedHasEnding
    <3>2. at' \in [Actors -> Attempt] /\ Carries'
      BY <1>1, <1>7, <2>1, <2>2, GoTyped DEF Settle, Go, Steps
    <3> QED
      BY <1>7, <3>1, <3>2 DEF Settle, Typed, TypeOK
  <2>3. CASE ~Unsettled
    <3> DEFINE x == [at[s] EXCEPT !.pc = "trail", !.ending = row.ending, !.unwritten = row.unwritten]
    <3>1. x \in Attempt /\ Carrying(x)
      BY <1>1, <2>3 DEF Attempt, Steps, Carrying, Row, Unsettled
    <3>2. at' = [at EXCEPT ![s] = x]
      BY <1>7, <2>3 DEF Settle
    <3> HIDE DEF x
    <3>3. at' \in [Actors -> Attempt] /\ Carries'
      BY <1>1, <3>1, <3>2, AttemptTyped
    <3> QED
      BY <1>7, <2>3, <3>3 DEF Settle, Typed, TypeOK, DeniedHasEnding, Closed, ClosureOf
  <2> QED
    BY <2>2, <2>3
<1> QED
  BY <1>2, <1>3, <1>4, <1>5, <1>6, <1>7 DEF Sweep

LEMMA StepTyped == Typed /\ [Next]_vars => Typed'
<1> SUFFICES ASSUME Typed, [Next]_vars PROVE Typed'
  OBVIOUS
<1>1. CASE UNCHANGED vars
  BY <1>1 DEF vars, Typed, TypeOK, Carries, DeniedHasEnding, Closed, ClosureOf
<1>2. ASSUME NEW a \in Actors, Die(a) PROVE Typed'
  <2>1. at' \in [Actors -> Attempt] /\ Carries'
    BY <1>2, IdleTyped DEF Die, Typed, TypeOK
  <2> QED
    BY <1>2, <2>1, TroubleTyped DEF Die, Typed, TypeOK, DeniedHasEnding, Closed, ClosureOf
<1>3. ASSUME NEW a \in Actors, WaitOutlasts(a) \/ \E s \in Sends : LeaseOutlasted(a, s)
      PROVE  Typed'
  <2>1. row \in Row /\ at \in [Actors -> Attempt] /\ Carries
    BY DEF Typed, TypeOK
  <2>2. Stall(a)
    BY <1>3 DEF WaitOutlasts, LeaseOutlasted
  <2> DEFINE x == [at[a] EXCEPT !.slow = TRUE]
  <2>3. x \in Attempt
    BY <2>1 DEF Attempt
  <2>4. Carrying(x)
    BY <2>1 DEF Attempt, Carries, Carrying
  <2>5. at' = [at EXCEPT ![a] = x] /\ stalls' \in 0 .. MaxStalls
    BY <2>2, ApprovalConstants DEF Stall, Typed, TypeOK
  <2> HIDE DEF x
  <2>6. at' \in [Actors -> Attempt] /\ Carries'
    BY <2>1, <2>3, <2>4, <2>5, AttemptTyped
  <2>7. \/ row' = [row EXCEPT !.due = TRUE]
        \/ \E s \in Sends : row' = [row EXCEPT !.lease[s] = Nobody]
    BY <1>3 DEF WaitOutlasts, Awaited, LeaseOutlasted
  <2>8. /\ row' \in Row /\ row'.status = row.status /\ row'.decision = row.decision
        /\ row'.ending = row.ending
    <3>1. \A r \in Sends : [row EXCEPT !.lease[r] = Nobody] \in Row
      BY <2>1 DEF Row
    <3> QED
      BY <2>1, <2>7, <3>1 DEF Row
  <2> QED
    BY <1>3, <2>5, <2>6, <2>8
    DEF WaitOutlasts, LeaseOutlasted, Typed, TypeOK, DeniedHasEnding, Closed, ClosureOf
<1> QED
  BY <1>1, <1>2, <1>3, OutsideTyped, ResolveTyped, CompleteTyped, SweepTyped DEF Next

(* The approval's row, the attempts and what they left outside stay well     *)
(* formed.                                                                   *)
THEOREM ApprovalTyped == Spec => []TypeOK
<1>1. Typed => TypeOK
  BY DEF Typed
<1> QED
  BY <1>1, InitTyped, StepTyped, PTL DEF Spec

-------------------------------------------------------------------------------
(* The call.  Its row closes once; the attempts under way are those of a     *)
(* closed row, and carry the runs parked on it.                              *)

Resting(x) == x.pc \in {"idle", "decide", "found"}

Approved == row.status = "resolved" /\ row.decision = "approved"

Fate ==
    /\ ~Approved => world.asked = 0
    /\ ~Closed => world.named = {}
    /\ world.named \in {{}, row.parked}
    /\ \A a \in Actors : ~Resting(at[a]) => Closed /\ at[a].runs = row.parked
    /\ \A a \in Actors : at[a].pc = "run" => Approved /\ world.asked = 0
    /\ \A a, b \in Actors : at[a].pc = "run" /\ at[b].pc = "run" => a = b

(* What most steps leave alone ...                                           *)
SameCall ==
    /\ row'.status = row.status /\ row'.decision = row.decision /\ row'.parked = row.parked
    /\ world'.asked = world.asked /\ world'.named = world.named

(* ... while an attempt goes on to another statement, or ends.               *)
GoesOn(a) ==
    \/ at'[a] = at[a]
    \/ Resting(at'[a])
    \/ /\ ~Resting(at[a]) /\ at'[a].runs = at[a].runs
       /\ at'[a].pc = "run" => at[a].pc = "run"

Quiet == SameCall /\ \A a \in Actors : GoesOn(a)

LEMMA OthersStay ==
  ASSUME at \in [Actors -> Attempt], NEW a \in Actors, NEW x, at' = [at EXCEPT ![a] = x],
         \/ Resting(x)
         \/ /\ ~Resting(at[a]) /\ x.runs = at[a].runs
            /\ x.pc = "run" => at[a].pc = "run"
  PROVE  \A b \in Actors : GoesOn(b)
  BY DEF GoesOn

(* An attempt goes to another statement, with a step failed or not.          *)
LEMMA GoStays ==
  ASSUME at \in [Actors -> Attempt], NEW a \in Actors, NEW pc,
         \/ at' = [at EXCEPT ![a].pc = pc]
         \/ \E f : at' = [at EXCEPT ![a] = [@ EXCEPT !.pc = pc, !.failed = f]],
         ~Resting(at[a]), pc # "run"
  PROVE  \A b \in Actors : GoesOn(b)
<1>1. at[a] \in Attempt
  OBVIOUS
<1>2. CASE at' = [at EXCEPT ![a].pc = pc]
  <2>1. at' = [at EXCEPT ![a] = [at[a] EXCEPT !.pc = pc]]
    BY <1>2
  <2>2. [at[a] EXCEPT !.pc = pc].pc = pc /\ [at[a] EXCEPT !.pc = pc].runs = at[a].runs
    BY <1>1 DEF Attempt
  <2> QED
    BY <2>1, <2>2, OthersStay
<1>3. ASSUME NEW f, at' = [at EXCEPT ![a] = [@ EXCEPT !.pc = pc, !.failed = f]]
      PROVE  \A b \in Actors : GoesOn(b)
  <2> DEFINE x == [at[a] EXCEPT !.pc = pc, !.failed = f]
  <2>1. at' = [at EXCEPT ![a] = x]
    BY <1>3
  <2>2. x.pc = pc /\ x.runs = at[a].runs
    BY <1>1 DEF Attempt
  <2> HIDE DEF x
  <2> QED
    BY <2>1, <2>2, OthersStay
<1> QED
  BY <1>2, <1>3

LEMMA RestStays ==
  ASSUME at \in [Actors -> Attempt], NEW a \in Actors, at' = [at EXCEPT ![a] = Idle]
  PROVE  \A b \in Actors : GoesOn(b)
  BY IdleIsAttempt, OthersStay DEF Resting

(* Completing a closure leaves the call alone but for the wake.              *)
LEMMA CompleteQuiet ==
  ASSUME Typed, NEW a \in Actors, Complete(a)
  PROVE  Quiet \/ SendWake(a)
<1>1. row \in Row /\ world \in World /\ at \in [Actors -> Attempt] /\ at[a] \in Attempt
  BY DEF Typed, TypeOK
<1>2. CASE Trail(a) \/ TrailFails(a)
  <2>1. SameCall
    <3>1. row' = row \/ row' = [row EXCEPT !.unwritten = FALSE]
          \/ row' = [row EXCEPT !.ending = at[a].ending, !.unwritten = FALSE, !.done = FALSE]
      BY <1>2 DEF Trail, TrailFails, Saved
    <3>2. \E T : world' = [world EXCEPT !.trail = T]
      BY <1>2 DEF Trail, TrailFails
    <3> QED
      BY <1>1, <3>1, <3>2 DEF SameCall, Row, World
  <2>2. ~Resting(at[a]) /\ AfterTrail(a) # "run"
    BY <1>2 DEF Trail, TrailFails, Resting, AfterTrail
  <2>3. CASE Trail(a)
    <3> DEFINE x == [at[a] EXCEPT !.pc = AfterTrail(a), !.unsaved = FALSE, !.unwritten = FALSE]
    <3>1. x.runs = at[a].runs /\ x.pc = AfterTrail(a)
      BY <1>1 DEF Attempt
    <3>2. at' = [at EXCEPT ![a] = x]
      BY <2>3 DEF Trail
    <3> HIDE DEF x
    <3> QED
      BY <1>1, <2>1, <2>2, <3>1, <3>2, OthersStay DEF Quiet
  <2>4. CASE TrailFails(a)
    BY <1>1, <2>1, <2>2, <2>4, GoStays DEF TrailFails, Fail, Quiet
  <2> QED
    BY <1>2, <2>3, <2>4
<1>3. CASE CheckWake(a) \/ SendReceipt(a)
  <2>1. SameCall
    BY <1>1, <1>3 DEF CheckWake, SendReceipt, SameCall, World
  <2>2. ~Resting(at[a])
    BY <1>3 DEF CheckWake, SendReceipt, Resting
  <2>3. \A b \in Actors : GoesOn(b)
    BY <1>1, <1>3, <2>2, GoStays DEF CheckWake, SendReceipt, Go
  <2> QED
    BY <2>1, <2>3 DEF Quiet
<1>4. ASSUME NEW s \in Sends,
             \/ ClaimSend(a, s) \/ PassSend(a, s) \/ SendFails(a, s)
             \/ StampSend(a, s) \/ StampFails(a, s)
      PROVE  Quiet
  <2>1. SameCall
    <3>1. \/ row' = row
          \/ \E b : row' = [row EXCEPT !.lease[s] = b]
          \/ row' = [row EXCEPT !.sent = @ \cup {s}, !.lease[s] = Nobody]
      BY <1>4 DEF ClaimSend, PassSend, SendFails, AfterFailedSend, StampSend, StampFails
    <3>2. world' = world
      BY <1>4 DEF ClaimSend, PassSend, SendFails, StampSend, StampFails
    <3> QED
      BY <1>1, <3>1, <3>2 DEF SameCall, Row
  <2>2. ~Resting(at[a])
    BY <1>4 DEF ClaimSend, PassSend, SendFails, StampSend, StampFails, Claiming, Stamping, Resting
  <2>3. AfterSend(s) # "run"
    BY DEF AfterSend
  <2>4. \A b \in Actors : GoesOn(b)
    <3>1. CASE ClaimSend(a, s) \/ StampSend(a, s)
      BY <1>1, <2>2, <2>3, <3>1, GoStays DEF ClaimSend, StampSend, Go
    <3>2. CASE PassSend(a, s)
      BY <1>1, <2>2, <2>3, <3>2, GoStays DEF PassSend
    <3>3. CASE SendFails(a, s) \/ StampFails(a, s)
      BY <1>1, <2>2, <2>3, <3>3, GoStays DEF SendFails, StampFails, Fail
    <3> QED
      BY <1>4, <3>1, <3>2, <3>3
  <2> QED
    BY <2>1, <2>4 DEF Quiet
<1>5. CASE Finish(a) \/ CardFails(a)
  <2>1. SameCall
    <3>1. row' = row \/ row' = [row EXCEPT !.done = TRUE]
      BY <1>5 DEF Finish, CardFails
    <3> QED
      BY <1>1, <1>5, <3>1 DEF Finish, CardFails, SameCall, Row
  <2> QED
    BY <1>1, <1>5, <2>1, RestStays DEF Finish, CardFails, Quiet
<1> QED
  BY <1>2, <1>3, <1>4, <1>5 DEF Complete

(* So do the resolver's steps, but for the decision and the call itself.     *)
LEMMA ResolveQuiet ==
  ASSUME Typed, NEW d \in Deciders,
         Resolve(d) \/ \E answer \in {"approved", "declined"} : ReadToDecide(d, answer)
  PROVE  Quiet \/ RunCall(d) \/ (CloseByDecision(d) /\ Decidable(d))
<1>1. /\ row \in Row /\ world \in World /\ at \in [Actors -> Attempt]
      /\ d \in Actors /\ at[d] \in Attempt
  BY DEF Typed, TypeOK, Actors
<1>2. ASSUME NEW answer \in {"approved", "declined"}, ReadToDecide(d, answer) PROVE Quiet
  <2> DEFINE x == [at[d] EXCEPT !.pc = "decide", !.closure = IF lapsed THEN "expired" ELSE answer]
  <2>1. x.pc = "decide"
    BY <1>1 DEF Attempt
  <2>2. at' = [at EXCEPT ![d] = x]
    BY <1>2 DEF ReadToDecide
  <2> HIDE DEF x
  <2>3. \A b \in Actors : GoesOn(b)
    BY <1>1, <2>1, <2>2, OthersStay DEF Resting
  <2>4. SameCall
    BY <1>2 DEF ReadToDecide, SameCall
  <2> QED
    BY <2>3, <2>4 DEF Quiet
<1>3. CASE CloseByDecision(d) /\ ~Decidable(d)
  BY <1>1, <1>3, RestStays DEF CloseByDecision, Quiet, SameCall
<1>4. CASE RecordCall(d) \/ SaveFails(d)
  <2>1. SameCall
    BY <1>1, <1>4 DEF RecordCall, SaveFails, SameCall, World
  <2>2. ~Resting(at[d])
    BY <1>4 DEF RecordCall, SaveFails, Resting
  <2>3. \A b \in Actors : GoesOn(b)
    BY <1>1, <1>4, <2>2, GoStays DEF RecordCall, SaveFails, Go
  <2> QED
    BY <2>1, <2>3 DEF Quiet
<1>5. CASE RecordFails(d)
  <2>1. PICK e, u : at' = [at EXCEPT ![d] = [@ EXCEPT !.pc = "save",
                                                      !.ending = e,
                                                      !.unwritten = u]]
    BY <1>5 DEF RecordFails
  <2> DEFINE x == [at[d] EXCEPT !.pc = "save", !.ending = e, !.unwritten = u]
  <2>2. x.pc = "save" /\ x.runs = at[d].runs
    BY <1>1 DEF Attempt
  <2>3. at' = [at EXCEPT ![d] = x]
    BY <2>1
  <2> HIDE DEF x
  <2> QED
    BY <1>1, <1>5, <2>2, <2>3, OthersStay DEF RecordFails, Quiet, SameCall, Resting
<1>6. CASE SaveEnding(d)
  <2> DEFINE x == [at[d] EXCEPT !.pc = "trail", !.unsaved = FALSE]
  <2>1. x.pc = "trail" /\ x.runs = at[d].runs
    BY <1>1 DEF Attempt
  <2>2. at' = [at EXCEPT ![d] = x]
    BY <1>6 DEF SaveEnding
  <2> HIDE DEF x
  <2>3. SameCall
    BY <1>1, <1>6 DEF SaveEnding, Saved, SameCall, Row
  <2> QED
    BY <1>1, <1>6, <2>1, <2>2, <2>3, OthersStay DEF SaveEnding, Quiet, Resting
<1> QED
  BY <1>2, <1>3, <1>4, <1>5, <1>6 DEF Resolve

(* A retry that was claimed starts an attempt of a closed row.               *)
RetryStarts(s) ==
    /\ Closed /\ SameCall
    /\ \E x : /\ at' = [at EXCEPT ![s] = x]
              /\ x.pc \in {"settle", "trail"} /\ x.runs = row.parked

LEMMA SweepQuiet ==
  ASSUME Typed, NEW s \in Sweepers, Sweep(s)
  PROVE  Quiet \/ RetryStarts(s) \/ SweepExpired(s)
<1>1. /\ row \in Row /\ world \in World /\ at \in [Actors -> Attempt]
      /\ s \in Actors /\ at[s] \in Attempt
  BY DEF Typed, TypeOK, Actors
<1>2. CASE FindIncomplete(s)
  <2> DEFINE x == [at[s] EXCEPT !.pc = "found", !.seen = row.retries]
  <2>1. x.pc = "found"
    BY <1>1 DEF Attempt
  <2>2. at' = [at EXCEPT ![s] = x]
    BY <1>2 DEF FindIncomplete
  <2> HIDE DEF x
  <2> QED
    BY <1>1, <1>2, <2>1, <2>2, OthersStay DEF FindIncomplete, Quiet, SameCall, Resting
<1>3. CASE ClaimRetry(s)
  <2>1. CASE Incomplete /\ row.retries = at[s].seen
    <3> DEFINE x == [Idle EXCEPT !.pc = IF ClosureOf(row) = "approved" /\ row.ending = "none"
                                       THEN "settle" ELSE "trail",
                                 !.closure = ClosureOf(row), !.ending = row.ending,
                                 !.unwritten = row.unwritten, !.runs = row.parked]
    <3>1. x.pc \in {"settle", "trail"} /\ x.runs = row.parked
      BY DEF Idle
    <3>2. at' = [at EXCEPT ![s] = x]
      BY <1>3, <2>1 DEF ClaimRetry
    <3> HIDE DEF x
    <3>3. SameCall
      BY <1>1, <1>3, <2>1 DEF ClaimRetry, SameCall, Row
    <3> QED
      BY <2>1, <3>1, <3>2, <3>3 DEF RetryStarts, Incomplete
  <2>2. CASE ~(Incomplete /\ row.retries = at[s].seen)
    BY <1>1, <1>3, <2>2, RestStays DEF ClaimRetry, Quiet, SameCall
  <2> QED
    BY <2>1, <2>2
<1>4. CASE ReadTrail(s)
  <2>1. PICK e : at' = [at EXCEPT ![s] = [@ EXCEPT !.pc = "settling", !.ending = e]]
    BY <1>4 DEF ReadTrail
  <2> DEFINE x == [at[s] EXCEPT !.pc = "settling", !.ending = e]
  <2>2. x.pc = "settling" /\ x.runs = at[s].runs
    BY <1>1 DEF Attempt
  <2>3. at' = [at EXCEPT ![s] = x]
    BY <2>1
  <2> HIDE DEF x
  <2> QED
    BY <1>1, <1>4, <2>2, <2>3, OthersStay DEF ReadTrail, Quiet, SameCall, Resting
<1>5. CASE ReadTrailFails(s)
  BY <1>1, <1>5, RestStays DEF ReadTrailFails, Quiet, SameCall
<1>6. CASE Settle(s)
  <2>1. SameCall
    BY <1>1, <1>6 DEF Settle, SameCall, Row
  <2>2. ~Resting(at[s])
    BY <1>6 DEF Settle, Resting
  <2>3. CASE Unsettled
    BY <1>1, <1>6, <2>1, <2>2, <2>3, GoStays DEF Settle, Go, Quiet
  <2>4. CASE ~Unsettled
    <3> DEFINE x == [at[s] EXCEPT !.pc = "trail", !.ending = row.ending, !.unwritten = row.unwritten]
    <3>1. x.pc = "trail" /\ x.runs = at[s].runs
      BY <1>1 DEF Attempt
    <3>2. at' = [at EXCEPT ![s] = x]
      BY <1>6, <2>4 DEF Settle
    <3> HIDE DEF x
    <3> QED
      BY <1>1, <2>1, <2>2, <3>1, <3>2, OthersStay DEF Quiet
  <2> QED
    BY <2>3, <2>4
<1> QED
  BY <1>2, <1>3, <1>4, <1>5, <1>6 DEF Sweep

(* Before the row closes: it is dropped unseen, or a run joins.              *)
Drops ==
    /\ Open /\ row'.status = "moot" /\ row'.decision = row.decision /\ row'.parked = row.parked
    /\ UNCHANGED <<world, at>>

Joins(u) ==
    /\ Open /\ row'.status = row.status /\ row'.decision = row.decision
    /\ row'.parked = row.parked \cup {u}
    /\ UNCHANGED <<world, at>>

LEMMA OutsideQuiet ==
  ASSUME Typed, Propose \/ MootCardless \/ DeadlinePasses \/ WaitPasses
                \/ (\E u \in Runs : FindCard(u) \/ ParkOnCard(u))
                \/ \E s \in Sends : LeaseLapses(s)
  PROVE  Quiet \/ Drops \/ \E u \in Runs : Joins(u)
<1>1. row \in Row /\ world \in World
  BY DEF Typed, TypeOK
<1>2. CASE Propose
  BY <1>1, <1>2 DEF Propose, PostCard, PostFails, AttachCard, ProposerDies, Quiet, SameCall,
                    GoesOn, Drops, Row, World
<1>3. CASE MootCardless
  BY <1>1, <1>3 DEF MootCardless, Drops, Row
<1>4. CASE DeadlinePasses \/ WaitPasses
  BY <1>1, <1>4 DEF DeadlinePasses, WaitPasses, Awaited, Quiet, SameCall, GoesOn, Row
<1>5. ASSUME NEW u \in Runs, FindCard(u) \/ ParkOnCard(u) PROVE Quiet \/ Joins(u)
  BY <1>1, <1>5 DEF FindCard, ParkOnCard, Parkable, Quiet, SameCall, GoesOn, Joins, Row
<1>6. ASSUME NEW s \in Sends, LeaseLapses(s) PROVE Quiet
  BY <1>1, <1>6 DEF LeaseLapses, Quiet, SameCall, GoesOn, Row
<1> QED
  BY <1>2, <1>3, <1>4, <1>5, <1>6

(* What a step can do to the call.                                           *)
Moved ==
    \/ Quiet \/ Drops
    \/ \E u \in Runs : Joins(u)
    \/ \E d \in Deciders : RunCall(d) \/ (CloseByDecision(d) /\ Decidable(d))
    \/ \E s \in Sweepers : RetryStarts(s) \/ SweepExpired(s)
    \/ \E a \in Actors : SendWake(a)

LEMMA Moves ==
  ASSUME Typed, [Next]_vars
  PROVE  Moved
<1>1. row \in Row /\ at \in [Actors -> Attempt]
  BY DEF Typed, TypeOK
<1>2. CASE UNCHANGED vars
  BY <1>2 DEF vars, Moved, Quiet, SameCall, GoesOn
<1>3. ASSUME NEW a \in Actors, Die(a) PROVE Quiet
  BY <1>1, <1>3, RestStays DEF Die, Quiet, SameCall
<1>4. ASSUME NEW a \in Actors, WaitOutlasts(a) \/ \E s \in Sends : LeaseOutlasted(a, s)
      PROVE  Quiet
  <2>1. Stall(a) /\ at[a] \in Attempt /\ ~Resting(at[a])
    BY <1>1, <1>4 DEF WaitOutlasts, LeaseOutlasted, Sending, Working, Resting
  <2> DEFINE x == [at[a] EXCEPT !.slow = TRUE]
  <2>2. at' = [at EXCEPT ![a] = x]
    BY <2>1 DEF Stall
  <2>3. x.pc = at[a].pc /\ x.runs = at[a].runs
    BY <2>1 DEF Attempt
  <2>4. SameCall
    <3>1. \/ row' = [row EXCEPT !.due = TRUE]
          \/ \E s \in Sends : row' = [row EXCEPT !.lease[s] = Nobody]
      BY <1>4 DEF WaitOutlasts, Awaited, LeaseOutlasted
    <3>2. UNCHANGED world
      BY <1>4 DEF WaitOutlasts, LeaseOutlasted
    <3> QED
      BY <1>1, <3>1, <3>2 DEF SameCall, Row
  <2> HIDE DEF x
  <2> QED
    BY <1>1, <2>1, <2>2, <2>3, <2>4, OthersStay DEF Quiet
<1> QED
  BY <1>2, <1>3, <1>4, OutsideQuiet, ResolveQuiet, CompleteQuiet, SweepQuiet DEF Next, Moved

LEMMA InitFate == Init => Fate
  BY IdleIsAttempt DEF Init, Fate, Approved, Closed, Resting

LEMMA StepFate == Typed /\ Fate /\ [Next]_vars => Fate'
<1> SUFFICES ASSUME Typed, Fate, [Next]_vars PROVE Fate'
  OBVIOUS
<1>1. row \in Row /\ world \in World /\ at \in [Actors -> Attempt]
  BY DEF Typed, TypeOK
<1>2. CASE Quiet
  BY <1>2 DEF Quiet, SameCall, GoesOn, Fate, Approved, Closed, Resting
<1>3. CASE Drops \/ \E u \in Runs : Joins(u)
  BY <1>3 DEF Drops, Joins, Open, Fate, Approved, Closed
<1>4. ASSUME NEW a \in Actors, NEW closure \in {"approved", "declined", "expired"},
             Open, Close(a, closure), UNCHANGED world
      PROVE  Fate'
  <2> DEFINE x == [Idle EXCEPT !.pc = IF closure = "approved" THEN "run" ELSE "trail",
                               !.closure = closure, !.ending = EndingOf(closure),
                               !.runs = row.parked]
  <2>1. x.runs = row.parked /\ x.pc = IF closure = "approved" THEN "run" ELSE "trail"
    BY DEF Idle
  <2>2. at' = [at EXCEPT ![a] = x]
    BY <1>4 DEF Close
  <2> HIDE DEF x
  <2>3. /\ row'.parked = row.parked /\ Closed'
        /\ closure = "approved" => Approved'
    BY <1>1, <1>4 DEF Close, Row, Closed, Approved
  <2>4. ~Approved /\ ~Closed /\ world.named = {} /\ world.asked = 0
    BY <1>4 DEF Open, Approved, Closed, Fate
  <2>5. \A b \in Actors : Resting(at[b]) /\ at[b].pc # "run"
    BY <2>4 DEF Fate, Resting
  <2> QED
    BY <1>1, <1>4, <2>1, <2>2, <2>3, <2>4, <2>5 DEF Fate, Resting
<1>5. ASSUME NEW d \in Deciders, CloseByDecision(d), Decidable(d) PROVE Fate'
  <2>1. d \in Actors /\ at[d].closure \in {"approved", "declined", "expired"}
    BY <1>1, <1>5 DEF CloseByDecision, Typed, Carries, Carrying, Attempt, Actors
  <2> QED
    BY <1>4, <1>5, <2>1 DEF CloseByDecision, Decidable
<1>6. ASSUME NEW s \in Sweepers, SweepExpired(s) PROVE Fate'
  BY <1>4, <1>6 DEF SweepExpired, Actors
<1>7. ASSUME NEW d \in Deciders, RunCall(d) PROVE Fate'
  <2>1. d \in Actors /\ at[d] \in Attempt
    BY <1>1 DEF Actors
  <2>2. Approved /\ world.asked = 0 /\ ~Resting(at[d]) /\ \A b \in Actors \ {d} : at[b].pc # "run"
    BY <1>7, <2>1 DEF RunCall, Fate, Resting
  <2>3. PICK e : at' = [at EXCEPT ![d] = [@ EXCEPT !.pc = "record",
                                                   !.ending = e,
                                                   !.unsaved = TRUE]]
    BY <1>7 DEF RunCall
  <2> DEFINE x == [at[d] EXCEPT !.pc = "record", !.ending = e, !.unsaved = TRUE]
  <2>4. at' = [at EXCEPT ![d] = x]
    BY <2>3
  <2>5. x.pc = "record" /\ x.runs = at[d].runs
    BY <2>1 DEF Attempt
  <2> HIDE DEF x
  <2>6. row' = row /\ world'.named = world.named
    BY <1>1, <1>7 DEF RunCall, World
  <2> QED
    BY <1>1, <2>1, <2>2, <2>4, <2>5, <2>6 DEF Fate, Approved, Closed, Resting
<1>8. ASSUME NEW s \in Sweepers, RetryStarts(s) PROVE Fate'
  <2>1. s \in Actors
    BY DEF Actors
  <2> QED
    BY <1>1, <1>8, <2>1 DEF RetryStarts, SameCall, Fate, Approved, Closed, Resting
<1>9. ASSUME NEW a \in Actors, SendWake(a) PROVE Fate'
  <2>1. at[a].runs = row.parked /\ Closed /\ ~Resting(at[a])
    BY <1>9 DEF SendWake, Fate, Resting
  <2>2. world'.asked = world.asked /\ world'.named = row.parked /\ row' = row
    BY <1>1, <1>9, <2>1 DEF SendWake, World, Fate
  <2>3. \A b \in Actors : GoesOn(b)
    BY <1>1, <1>9, <2>1, GoStays DEF SendWake, Go
  <2> QED
    BY <2>1, <2>2, <2>3 DEF GoesOn, Fate, Approved, Closed, Resting
<1> QED
  BY Moves, <1>2, <1>3, <1>5, <1>6, <1>7, <1>8, <1>9 DEF Moved

(* Each step is one of the call's, or none.                                  *)
LEMMA StepHonoured ==
  Typed /\ Fate /\ [Next]_vars => [Call!PNext]_(Call!pvars)
<1> SUFFICES ASSUME Typed, Fate, [Next]_vars PROVE [Call!PNext]_(Call!pvars)
  OBVIOUS
<1>1. row \in Row /\ world \in World /\ at \in [Actors -> Attempt]
  BY DEF Typed, TypeOK
<1>2. CASE Quiet
  BY <1>2 DEF Quiet, SameCall, Call!pvars
<1>3. CASE Drops
  BY <1>1, <1>3 DEF Drops, Open, Call!PNext, Call!Decide
<1>4. ASSUME NEW u \in Runs, Joins(u) PROVE Call!PNext
  BY <1>4 DEF Joins, Open, Call!PNext, Call!Join
<1>5. ASSUME NEW a \in Actors, NEW closure \in {"approved", "declined", "expired"},
             Open, Close(a, closure), UNCHANGED world
      PROVE  Call!PNext
  <2>1. /\ row'.parked = row.parked
        /\ closure = "approved" => row'.status = "resolved" /\ row'.decision = "approved"
        /\ closure = "declined" => row'.status = "resolved" /\ row'.decision = "declined"
        /\ closure = "expired" => row'.status = "expired"
    BY <1>1, <1>5 DEF Close, Row
  <2> QED
    BY <1>5, <2>1 DEF Open, Call!PNext, Call!Decide
<1>6. ASSUME NEW d \in Deciders, CloseByDecision(d), Decidable(d) PROVE Call!PNext
  <2>1. d \in Actors /\ at[d].closure \in {"approved", "declined", "expired"}
    BY <1>1, <1>6 DEF CloseByDecision, Typed, Carries, Carrying, Attempt, Actors
  <2> QED
    BY <1>5, <1>6, <2>1 DEF CloseByDecision, Decidable
<1>7. ASSUME NEW s \in Sweepers, SweepExpired(s) PROVE Call!PNext
  BY <1>5, <1>7 DEF SweepExpired, Actors
<1>8. ASSUME NEW d \in Deciders, RunCall(d) PROVE [Call!PNext]_(Call!pvars)
  <2>1. Approved /\ world.asked = 0 /\ row' = row
    BY <1>8 DEF RunCall, Fate, Actors
  <2>2. world'.named = world.named /\ world'.asked \in {0, 1}
    <3>1. world' = world \/ world' = [world EXCEPT !.asked = @ + 1]
      BY <1>8 DEF RunCall
    <3>2. world.asked + 1 = 1
      BY <2>1
    <3>3. world' = world \/ world' = [world EXCEPT !.asked = 1]
      BY <3>1, <3>2
    <3> QED
      BY <1>1, <2>1, <3>3 DEF World
  <2> QED
    BY <2>1, <2>2 DEF Approved, Call!PNext, Call!Ask, Call!pvars
<1>9. ASSUME NEW s \in Sweepers, RetryStarts(s) PROVE UNCHANGED Call!pvars
  BY <1>9 DEF RetryStarts, SameCall, Call!pvars
<1>10. ASSUME NEW a \in Actors, SendWake(a) PROVE Call!PNext
  <2>1. at[a].runs = row.parked /\ Closed
    BY <1>10 DEF SendWake, Fate, Resting
  <2>2. world'.asked = world.asked /\ world'.named = row.parked /\ row' = row
    BY <1>1, <1>10, <2>1 DEF SendWake, World, Fate
  <2> QED
    BY <2>1, <2>2 DEF Closed, Call!PNext, Call!Tell
<1> QED
  BY Moves, <1>2, <1>3, <1>4, <1>6, <1>7, <1>8, <1>9, <1>10 DEF Moved

(* However many deciders, sweep passes and retries race, die or stall, the   *)
(* call is decided once, asked of its provider at most once and only when    *)
(* approved, and its wake names every run parked on it.                      *)
THEOREM ApprovalHonoured == Spec => CallIsHonoured
<1>1. Init => Call!PInit
  BY DEF Init, Call!PInit
<1>2. Typed /\ Fate /\ [Next]_vars => [Call!PNext]_(Call!pvars)
  BY StepHonoured
<1> QED
  BY InitTyped, StepTyped, InitFate, StepFate, <1>1, <1>2, PTL
  DEF Spec, CallIsHonoured, Call!PSpec

-------------------------------------------------------------------------------
(* What is known of the call.  An ending other than "unknown" comes from the *)
(* one attempt that ran it (or from a closing without a call), and whatever  *)
(* the row, the trail and the other attempts know, they have from it.        *)

Known == Endings \ {"unknown"}

Somewhere(k) == k \in world.trail \/ k = row.ending \/ \E b \in Actors : at[b].ending = k

Elsewhere(a, k) == k \in world.trail \/ k = row.ending \/ \E b \in Actors \ {a} : at[b].ending = k

Live(x) == x.pc = "run" \/ x.unsaved

Knowledge ==
    /\ ~Closed => row.ending = "none" /\ world.trail = {}
    /\ \A a \in Actors : Resting(at[a]) => at[a].ending = "none" /\ ~at[a].unsaved
    /\ \A a \in Actors : at[a].pc = "run" => at[a].ending = "none"
    /\ \A a \in Actors : at[a].pc \in {"record", "save"} => at[a].unsaved
    /\ \A a \in Actors : at[a].pc \in {"settle", "settling"} => ~at[a].unsaved
    /\ \A a \in Actors : Live(at[a]) => Approved
    /\ \A a, b \in Actors : Live(at[a]) /\ Live(at[b]) => a = b
    /\ \A a \in Actors : at[a].pc \in {"run", "record"} => \A k \in Known : ~Elsewhere(a, k)
    /\ \A a \in Actors : at[a].unsaved /\ at[a].pc \in {"save", "trail"} =>
          \A k \in Known : Elsewhere(a, k) => k = at[a].ending
    /\ \A k, l \in Known : Somewhere(k) /\ Somewhere(l) => k = l

LEMMA InitKnown == Init => Knowledge
<1> SUFFICES ASSUME Init PROVE Knowledge
  OBVIOUS
<1>1. /\ row.ending = "none" /\ row.status = "flagged" /\ world.trail = {}
      /\ \A a \in Actors : at[a].pc = "idle" /\ at[a].ending = "none" /\ ~at[a].unsaved
  BY DEF Init, Idle
<1>2. "none" \notin Known
  BY DEF Known, Endings, LiveEndings
<1> QED
  BY <1>1, <1>2 DEF Knowledge, Closed, Resting, Live, Elsewhere, Somewhere

(* An attempt moves on and repeats what is said already.                     *)
LEMMA EchoKnown ==
  ASSUME at \in [Actors -> Attempt], Knowledge, NEW a \in Actors, NEW x,
         at' = [at EXCEPT ![a] = x],
         row'.status = row.status, row'.decision = row.decision,
         row'.ending \in {row.ending, at[a].ending},
         world'.trail \subseteq world.trail \cup {at[a].ending},
         Closed \/ (row'.ending = row.ending /\ world'.trail = world.trail),
         x.ending \in {at[a].ending, row.ending, "none", "unknown"} \cup world.trail,
         x.pc \notin {"run", "record", "save"},
         x.unsaved => at[a].unsaved,
         x.unsaved /\ x.pc = "trail" => at[a].pc \in {"save", "trail"} /\ x.ending = at[a].ending,
         Resting(x) => x.ending = "none" /\ ~x.unsaved,
         x.pc \in {"settle", "settling"} => ~x.unsaved
  PROVE  Knowledge'
<1>1. at'[a] = x /\ \A b \in Actors \ {a} : at'[b] = at[b]
  OBVIOUS
<1>2. "none" \notin Known /\ "unknown" \notin Known
  BY DEF Known, Endings, LiveEndings
<1>3. \A k \in Known : Somewhere(k)' => Somewhere(k)
  BY <1>1, <1>2 DEF Somewhere
<1>4. \A b \in Actors \ {a}, k \in Known : Elsewhere(b, k)' => Elsewhere(b, k)
  BY <1>1, <1>2 DEF Elsewhere
<1>5. \A k \in Known : Elsewhere(a, k)' => Elsewhere(a, k) \/ k = at[a].ending
  BY <1>1, <1>2 DEF Elsewhere
<1>6. \A b \in Actors : Live(at'[b]) => Live(at[b])
  BY <1>1 DEF Live
<1>7. Approved' <=> Approved
  BY DEF Approved
<1>8. Closed' <=> Closed
  BY DEF Closed
<1>9. ~Closed' => row'.ending = "none" /\ world'.trail = {}
  BY <1>8 DEF Knowledge
<1>10. \A b \in Actors : Resting(at'[b]) => at'[b].ending = "none" /\ ~at'[b].unsaved
  BY <1>1 DEF Knowledge
<1>11. \A b \in Actors : at'[b].pc = "run" => at'[b].ending = "none"
  BY <1>1 DEF Knowledge
<1>12. /\ \A b \in Actors : at'[b].pc \in {"record", "save"} => at'[b].unsaved
       /\ \A b \in Actors : at'[b].pc \in {"settle", "settling"} => ~at'[b].unsaved
  BY <1>1 DEF Knowledge
<1>13. \A b \in Actors : Live(at'[b]) => Approved'
  BY <1>6, <1>7 DEF Knowledge
<1>14. \A b, c \in Actors : Live(at'[b]) /\ Live(at'[c]) => b = c
  BY <1>6 DEF Knowledge
<1>15. \A b \in Actors : at'[b].pc \in {"run", "record"} => \A k \in Known : ~Elsewhere(b, k)'
  BY <1>1, <1>4 DEF Knowledge
<1>16. \A b \in Actors : at'[b].unsaved /\ at'[b].pc \in {"save", "trail"} =>
          \A k \in Known : Elsewhere(b, k)' => k = at'[b].ending
  BY <1>1, <1>4, <1>5 DEF Knowledge
<1>17. \A k, l \in Known : Somewhere(k)' /\ Somewhere(l)' => k = l
  BY <1>3 DEF Knowledge
<1> QED
  BY <1>9, <1>10, <1>11, <1>12, <1>13, <1>14, <1>15, <1>16, <1>17 DEF Knowledge

(* Nothing is said, and no attempt moves.                                    *)
LEMMA StillKnown ==
  ASSUME Knowledge, row'.ending = row.ending, world'.trail = world.trail,
         \/ row'.status = row.status /\ row'.decision = row.decision
         \/ Open /\ row'.status = "moot",
         UNCHANGED at
  PROVE  Knowledge'
  BY DEF Knowledge, Closed, Open, Approved, Live, Resting, Elsewhere, Somewhere

(* An attempt goes to another statement, and at most writes what it knows.   *)
LEMMA GoKnown ==
  ASSUME at \in [Actors -> Attempt], Knowledge, NEW a \in Actors, NEW pc,
         \/ at' = [at EXCEPT ![a].pc = pc]
         \/ \E f : at' = [at EXCEPT ![a] = [@ EXCEPT !.pc = pc, !.failed = f]],
         pc \notin {"run", "record", "save", "idle", "decide", "found", "settle", "settling"},
         pc = "trail" => at[a].pc = "save" \/ ~at[a].unsaved,
         row'.status = row.status, row'.decision = row.decision,
         row'.ending \in {row.ending, at[a].ending},
         world'.trail \subseteq world.trail \cup {at[a].ending},
         Closed
  PROVE  Knowledge'
<1>1. at[a] \in Attempt
  OBVIOUS
<1>2. CASE at' = [at EXCEPT ![a].pc = pc]
  <2> DEFINE x == [at[a] EXCEPT !.pc = pc]
  <2>1. at' = [at EXCEPT ![a] = x]
    BY <1>2
  <2>2. x.pc = pc /\ x.ending = at[a].ending /\ x.unsaved = at[a].unsaved
    BY <1>1 DEF Attempt
  <2> HIDE DEF x
  <2> QED
    BY <2>1, <2>2, EchoKnown DEF Resting
<1>3. ASSUME NEW f, at' = [at EXCEPT ![a] = [@ EXCEPT !.pc = pc, !.failed = f]]
      PROVE  Knowledge'
  <2> DEFINE x == [at[a] EXCEPT !.pc = pc, !.failed = f]
  <2>1. at' = [at EXCEPT ![a] = x]
    BY <1>3
  <2>2. x.pc = pc /\ x.ending = at[a].ending /\ x.unsaved = at[a].unsaved
    BY <1>1 DEF Attempt
  <2> HIDE DEF x
  <2> QED
    BY <2>1, <2>2, EchoKnown DEF Resting
<1> QED
  BY <1>2, <1>3

LEMMA RestKnown ==
  ASSUME at \in [Actors -> Attempt], Knowledge, NEW a \in Actors, at' = [at EXCEPT ![a] = Idle],
         row'.status = row.status, row'.decision = row.decision,
         row'.ending = row.ending, world'.trail = world.trail
  PROVE  Knowledge'
<1>1. Idle.pc = "idle" /\ Idle.ending = "none" /\ ~Idle.unsaved
  BY DEF Idle
<1> QED
  BY <1>1, EchoKnown

LEMMA CompleteKnown ==
  ASSUME Typed, Fate, Knowledge, NEW a \in Actors, Complete(a)
  PROVE  Knowledge'
<1>1. row \in Row /\ world \in World /\ at \in [Actors -> Attempt] /\ at[a] \in Attempt
  BY DEF Typed, TypeOK
<1>2. CASE Trail(a) \/ TrailFails(a)
  <2>1. Closed /\ AfterTrail(a) \in {"claim receipt", "claim wake"} /\ at[a].pc = "trail"
    BY <1>2 DEF Trail, TrailFails, Fate, Resting, AfterTrail
  <2>2. Owed(a) \subseteq {at[a].ending}
    BY DEF Owed
  <2>3. CASE Trail(a)
    <3> DEFINE x == [at[a] EXCEPT !.pc = AfterTrail(a), !.unsaved = FALSE, !.unwritten = FALSE]
    <3>1. x.pc = AfterTrail(a) /\ x.ending = at[a].ending /\ ~x.unsaved
      BY <1>1 DEF Attempt
    <3>2. at' = [at EXCEPT ![a] = x]
      BY <2>3 DEF Trail
    <3> HIDE DEF x
    <3>3. /\ row'.status = row.status /\ row'.decision = row.decision
          /\ row'.ending \in {row.ending, at[a].ending}
      <4>1. row' = row \/ row' = [row EXCEPT !.unwritten = FALSE]
            \/ row' = [row EXCEPT !.ending = at[a].ending, !.unwritten = FALSE, !.done = FALSE]
        BY <2>3 DEF Trail, Saved
      <4> QED
        BY <1>1, <4>1 DEF Row
    <3>4. world'.trail \subseteq world.trail \cup {at[a].ending}
      BY <1>1, <2>2, <2>3 DEF Trail, World
    <3> QED
      BY <1>1, <2>1, <3>1, <3>2, <3>3, <3>4, EchoKnown DEF Resting
  <2>4. CASE TrailFails(a)
    <3>1. world'.trail \subseteq world.trail \cup {at[a].ending} /\ row' = row
      BY <1>1, <2>2, <2>4 DEF TrailFails, World
    <3> QED
      BY <1>1, <2>1, <2>4, <3>1, GoKnown DEF TrailFails, Fail
  <2> QED
    BY <1>2, <2>3, <2>4
<1>3. CASE CheckWake(a) \/ SendWake(a) \/ SendReceipt(a)
  <2>1. Closed
    BY <1>3 DEF CheckWake, SendWake, SendReceipt, Fate, Resting
  <2>2. world'.trail = world.trail /\ row' = row
    BY <1>1, <1>3 DEF CheckWake, SendWake, SendReceipt, World
  <2>3. PICK pc \in {"stamp wake", "send wake", "stamp receipt"} : at' = [at EXCEPT ![a].pc = pc]
    <3>1. (IF Woken THEN "stamp wake" ELSE "send wake") \in {"stamp wake", "send wake"}
      OBVIOUS
    <3> QED
      BY <1>3, <3>1 DEF CheckWake, SendWake, SendReceipt, Go
  <2> QED
    BY <1>1, <2>1, <2>2, <2>3, GoKnown
<1>4. ASSUME NEW s \in Sends,
             \/ ClaimSend(a, s) \/ PassSend(a, s) \/ SendFails(a, s)
             \/ StampSend(a, s) \/ StampFails(a, s)
      PROVE  Knowledge'
  <2>1. /\ row'.status = row.status /\ row'.decision = row.decision /\ row'.ending = row.ending
        /\ world'.trail = world.trail
    <3>1. \/ row' = row
          \/ \E b : row' = [row EXCEPT !.lease[s] = b]
          \/ row' = [row EXCEPT !.sent = @ \cup {s}, !.lease[s] = Nobody]
      BY <1>4 DEF ClaimSend, PassSend, SendFails, AfterFailedSend, StampSend, StampFails
    <3>2. world' = world
      BY <1>4 DEF ClaimSend, PassSend, SendFails, StampSend, StampFails
    <3> QED
      BY <1>1, <3>1, <3>2 DEF Row
  <2>2. Closed
    BY <1>4 DEF ClaimSend, PassSend, SendFails, StampSend, StampFails, Claiming, Stamping,
                Fate, Resting
  <2>3. AfterSend(s) \in {"claim wake", "finish"}
    BY DEF AfterSend
  <2>4. CASE ClaimSend(a, s) \/ StampSend(a, s)
    <3>1. (IF s = "receipt" THEN "send receipt" ELSE "check wake") \in {"send receipt", "check wake"}
      OBVIOUS
    <3>2. PICK pc \in {"send receipt", "check wake", "claim wake", "finish"} :
             at' = [at EXCEPT ![a].pc = pc]
      BY <2>3, <2>4, <3>1 DEF ClaimSend, StampSend, Go
    <3> QED
      BY <1>1, <2>1, <2>2, <3>2, GoKnown
  <2>5. CASE PassSend(a, s)
    BY <1>1, <2>1, <2>2, <2>3, <2>5, GoKnown DEF PassSend
  <2>6. CASE SendFails(a, s) \/ StampFails(a, s)
    BY <1>1, <2>1, <2>2, <2>3, <2>6, GoKnown DEF SendFails, StampFails, Fail
  <2> QED
    BY <1>4, <2>4, <2>5, <2>6
<1>5. CASE Finish(a) \/ CardFails(a)
  <2>1. row' = row \/ row' = [row EXCEPT !.done = TRUE]
    BY <1>5 DEF Finish, CardFails
  <2>2. row'.status = row.status /\ row'.decision = row.decision /\ row'.ending = row.ending
    BY <1>1, <2>1 DEF Row
  <2> QED
    BY <1>1, <1>5, <2>2, RestKnown DEF Finish, CardFails
<1> QED
  BY <1>2, <1>3, <1>4, <1>5 DEF Complete

LEMMA CloseKnown ==
  ASSUME Typed, Fate, Knowledge, NEW a \in Actors,
         NEW closure \in {"approved", "declined", "expired"}, Open, Close(a, closure), UNCHANGED world
  PROVE  Knowledge'
<1>1. row \in Row /\ at \in [Actors -> Attempt]
  BY DEF Typed, TypeOK
<1> DEFINE x == [Idle EXCEPT !.pc = IF closure = "approved" THEN "run" ELSE "trail",
                             !.closure = closure, !.ending = EndingOf(closure),
                             !.runs = row.parked]
<1>2. /\ x.pc = IF closure = "approved" THEN "run" ELSE "trail"
      /\ x.ending = EndingOf(closure) /\ ~x.unsaved
  BY DEF Idle
<1>3. at' = [at EXCEPT ![a] = x]
  BY DEF Close
<1> HIDE DEF x
<1>4. /\ Closed' /\ (closure = "approved" => Approved') /\ row'.ending = EndingOf(closure)
  BY <1>1 DEF Close, Row, Closed, Approved
<1>5. ~Closed /\ world.trail = {}
  BY DEF Open, Closed, Knowledge
<1>6. \A b \in Actors : Resting(at[b]) /\ at[b].ending = "none" /\ ~at[b].unsaved
  BY <1>5 DEF Fate, Knowledge
<1>7. closure = "approved" => EndingOf(closure) \notin Known
  BY DEF EndingOf, Known, Endings, LiveEndings
<1>8. "none" \notin Known
  BY DEF Known, Endings, LiveEndings
<1>9. at'[a] = x /\ \A b \in Actors \ {a} : at'[b] = at[b] /\ at'[b].ending = "none"
  BY <1>1, <1>3, <1>6
<1>10. \A k \in Known : Somewhere(k)' => k = EndingOf(closure)
  BY <1>2, <1>4, <1>5, <1>8, <1>9 DEF Somewhere
<1>11. closure = "approved" => \A b \in Actors, k \in Known : ~Elsewhere(b, k)'
  BY <1>7, <1>10 DEF Elsewhere, Somewhere
<1>12. \A b \in Actors : Live(at'[b]) => b = a /\ closure = "approved"
  BY <1>2, <1>6, <1>9 DEF Live, Resting
<1>13. \A b \in Actors : at'[b].pc \in {"run", "record"} => b = a /\ closure = "approved"
  BY <1>2, <1>6, <1>9 DEF Resting
<1>14. \A b \in Actors : Resting(at'[b]) => at'[b].ending = "none" /\ ~at'[b].unsaved
  BY <1>2, <1>6, <1>9 DEF Resting
<1>15. \A b \in Actors : at'[b].pc = "run" => at'[b].ending = "none"
  BY <1>2, <1>9, <1>13 DEF EndingOf
<1>16. \A b \in Actors : at'[b].pc \notin {"record", "save"} /\ ~at'[b].unsaved
  BY <1>2, <1>6, <1>9 DEF Resting
<1>17. \A k, l \in Known : Somewhere(k)' /\ Somewhere(l)' => k = l
  BY <1>10
<1>18. \A b \in Actors : at'[b].pc \in {"run", "record"} => \A k \in Known : ~Elsewhere(b, k)'
  BY <1>11, <1>13
<1>19. /\ \A b \in Actors : Live(at'[b]) => Approved'
       /\ \A b, c \in Actors : Live(at'[b]) /\ Live(at'[c]) => b = c
  BY <1>4, <1>12
<1>20. /\ ~Closed' => row'.ending = "none" /\ world'.trail = {}
       /\ \A b \in Actors : at'[b].pc \in {"record", "save"} => at'[b].unsaved
       /\ \A b \in Actors : at'[b].pc \in {"settle", "settling"} => ~at'[b].unsaved
  BY <1>4, <1>16
<1>21. \A b \in Actors : at'[b].unsaved /\ at'[b].pc \in {"save", "trail"} =>
          \A k \in Known : Elsewhere(b, k)' => k = at'[b].ending
  BY <1>16
<1> QED
  BY <1>14, <1>15, <1>17, <1>18, <1>19, <1>20, <1>21 DEF Knowledge

(* The call answers, or its answer is recorded: what the one attempt that    *)
(* ran it knows is all that anyone knows.                                    *)
LEMMA AnswerKnown ==
  ASSUME Typed, Knowledge, NEW d \in Actors, at[d].pc \in {"run", "record"}, Approved,
         NEW x, at' = [at EXCEPT ![d] = x], row' = row,
         x.pc \in {"record", "save"}, x.unsaved,
         \/ world'.trail = world.trail
         \/ x.pc = "save" /\ world'.trail = world.trail \cup {x.ending},
         Live(at[d])
  PROVE  Knowledge'
<1>1. row \in Row /\ at \in [Actors -> Attempt]
  BY DEF Typed, TypeOK
<1>2. at'[d] = x /\ \A b \in Actors \ {d} : at'[b] = at[b]
  BY <1>1
<1>3. \A k \in Known : ~Elsewhere(d, k)
  BY DEF Knowledge
<1>4. \A k \in Known : Elsewhere(d, k)' => x.pc = "save" /\ k = x.ending
  BY <1>2, <1>3 DEF Elsewhere
<1>5. \A k \in Known : Somewhere(k)' => k = x.ending
  BY <1>2, <1>4 DEF Elsewhere, Somewhere
<1>6. \A b \in Actors \ {d} : ~Live(at[b])
  BY DEF Knowledge
<1>7. \A b \in Actors : Live(at'[b]) => b = d
  BY <1>2, <1>6 DEF Live
<1>8. Approved' /\ Closed'
  BY DEF Approved, Closed
<1>9. \A b \in Actors \ {d} : at'[b].pc \notin {"run", "record", "save"} /\ ~at'[b].unsaved
  BY <1>2, <1>6 DEF Live, Knowledge
<1>10. \A b \in Actors : Resting(at'[b]) => at'[b].ending = "none" /\ ~at'[b].unsaved
  BY <1>2 DEF Knowledge, Resting
<1>11. \A b \in Actors : at'[b].pc = "run" => at'[b].ending = "none"
  BY <1>2, <1>9
<1>12. /\ \A b \in Actors : at'[b].pc \in {"record", "save"} => at'[b].unsaved
       /\ \A b \in Actors : at'[b].pc \in {"settle", "settling"} => ~at'[b].unsaved
  BY <1>2, <1>9
<1>13. \A b \in Actors : at'[b].pc \in {"run", "record"} => \A k \in Known : ~Elsewhere(b, k)'
  BY <1>2, <1>4, <1>9
<1>14. \A b \in Actors : at'[b].unsaved /\ at'[b].pc \in {"save", "trail"} =>
          \A k \in Known : Elsewhere(b, k)' => k = at'[b].ending
  BY <1>2, <1>4, <1>9
<1>15. \A k, l \in Known : Somewhere(k)' /\ Somewhere(l)' => k = l
  BY <1>5
<1>16. /\ \A b \in Actors : Live(at'[b]) => Approved'
       /\ \A b, c \in Actors : Live(at'[b]) /\ Live(at'[c]) => b = c
  BY <1>7, <1>8
<1>17. ~Closed' => row'.ending = "none" /\ world'.trail = {}
  BY <1>8
<1> QED
  BY <1>10, <1>11, <1>12, <1>13, <1>14, <1>15, <1>16, <1>17 DEF Knowledge

LEMMA ResolveKnown ==
  ASSUME Typed, Fate, Knowledge, NEW d \in Deciders,
         Resolve(d) \/ \E answer \in {"approved", "declined"} : ReadToDecide(d, answer)
  PROVE  Knowledge'
<1>1. /\ row \in Row /\ world \in World /\ at \in [Actors -> Attempt]
      /\ d \in Actors /\ at[d] \in Attempt
  BY DEF Typed, TypeOK, Actors
<1>2. ASSUME NEW answer, ReadToDecide(d, answer) PROVE Knowledge'
  <2> DEFINE x == [at[d] EXCEPT !.pc = "decide", !.closure = IF lapsed THEN "expired" ELSE answer]
  <2>1. at' = [at EXCEPT ![d] = x]
    BY <1>2 DEF ReadToDecide
  <2>2. x.pc = "decide" /\ x.ending = "none" /\ ~x.unsaved
    BY <1>2 DEF ReadToDecide, Idle
  <2> HIDE DEF x
  <2> QED
    BY <1>1, <1>2, <2>1, <2>2, EchoKnown DEF ReadToDecide
<1>3. CASE CloseByDecision(d)
  <2>1. CASE Decidable(d)
    <3>1. at[d].closure \in {"approved", "declined", "expired"}
      BY <1>1, <1>3 DEF CloseByDecision, Typed, Carries, Carrying, Attempt
    <3> QED
      BY <1>1, <1>3, <2>1, <3>1, CloseKnown DEF CloseByDecision, Decidable
  <2>2. CASE ~Decidable(d)
    BY <1>1, <1>3, <2>2, RestKnown DEF CloseByDecision
  <2> QED
    BY <2>1, <2>2
<1>4. CASE RunCall(d)
  <2>1. PICK e : at' = [at EXCEPT ![d] = [@ EXCEPT !.pc = "record",
                                                   !.ending = e,
                                                   !.unsaved = TRUE]]
    BY <1>4 DEF RunCall
  <2> DEFINE x == [at[d] EXCEPT !.pc = "record", !.ending = e, !.unsaved = TRUE]
  <2>2. at' = [at EXCEPT ![d] = x]
    BY <2>1
  <2>3. x.pc = "record" /\ x.unsaved
    BY <1>1 DEF Attempt
  <2> HIDE DEF x
  <2>4. row' = row /\ world'.trail = world.trail
    BY <1>1, <1>4 DEF RunCall, World
  <2>5. Approved /\ Live(at[d]) /\ at[d].pc = "run"
    BY <1>1, <1>4 DEF RunCall, Fate, Live
  <2> QED
    BY <1>1, <2>2, <2>3, <2>4, <2>5, AnswerKnown
<1>5. CASE RecordCall(d)
  <2> DEFINE x == [at[d] EXCEPT !.pc = "save"]
  <2>1. at' = [at EXCEPT ![d] = x]
    BY <1>5 DEF RecordCall, Go
  <2>2. at[d].pc = "record" /\ at[d].unsaved /\ Live(at[d]) /\ Approved
    BY <1>1, <1>5 DEF RecordCall, Knowledge, Live
  <2>3. x.pc = "save" /\ x.unsaved /\ x.ending = at[d].ending
    BY <1>1, <2>2 DEF Attempt
  <2> HIDE DEF x
  <2>4. row' = row /\ world'.trail = world.trail \cup {x.ending}
    BY <1>1, <1>5, <2>3 DEF RecordCall, World
  <2> QED
    BY <1>1, <2>1, <2>2, <2>3, <2>4, AnswerKnown
<1>6. CASE RecordFails(d)
  <2>1. PICK e, w : at' = [at EXCEPT ![d] = [@ EXCEPT !.pc = "save",
                                                      !.ending = e,
                                                      !.unwritten = w]]
    BY <1>6 DEF RecordFails
  <2> DEFINE x == [at[d] EXCEPT !.pc = "save", !.ending = e, !.unwritten = w]
  <2>2. at' = [at EXCEPT ![d] = x]
    BY <2>1
  <2>3. at[d].pc = "record" /\ at[d].unsaved /\ Live(at[d]) /\ Approved
    BY <1>1, <1>6 DEF RecordFails, Knowledge, Live
  <2>4. x.pc = "save" /\ x.unsaved
    BY <1>1, <2>3 DEF Attempt
  <2> HIDE DEF x
  <2> QED
    BY <1>1, <1>6, <2>2, <2>3, <2>4, AnswerKnown DEF RecordFails
<1>7. CASE SaveEnding(d)
  <2> DEFINE x == [at[d] EXCEPT !.pc = "trail", !.unsaved = FALSE]
  <2>1. at' = [at EXCEPT ![d] = x]
    BY <1>7 DEF SaveEnding
  <2>2. x.pc = "trail" /\ ~x.unsaved /\ x.ending = at[d].ending
    BY <1>1 DEF Attempt
  <2> HIDE DEF x
  <2>3. row'.status = row.status /\ row'.decision = row.decision /\ row'.ending = at[d].ending
    BY <1>1, <1>7 DEF SaveEnding, Saved, Row
  <2>4. Closed /\ world' = world
    BY <1>1, <1>7 DEF SaveEnding, Fate, Resting
  <2> QED
    BY <1>1, <2>1, <2>2, <2>3, <2>4, EchoKnown DEF Resting
<1>8. CASE SaveFails(d)
  <2>1. Closed /\ at[d].pc = "save"
    BY <1>1, <1>8 DEF SaveFails, Fate, Resting
  <2>2. row' = row /\ world' = world /\ \E pc \in {"trail"} : at' = [at EXCEPT ![d].pc = pc]
    BY <1>8 DEF SaveFails, Go
  <2> QED
    BY <1>1, <2>1, <2>2, GoKnown
<1> QED
  BY <1>2, <1>3, <1>4, <1>5, <1>6, <1>7, <1>8 DEF Resolve

LEMMA SweepKnown ==
  ASSUME Typed, Fate, Knowledge, NEW s \in Sweepers, Sweep(s)
  PROVE  Knowledge'
<1>1. /\ row \in Row /\ world \in World /\ at \in [Actors -> Attempt]
      /\ s \in Actors /\ at[s] \in Attempt
  BY DEF Typed, TypeOK, Actors
<1>2. CASE SweepExpired(s)
  BY <1>1, <1>2, CloseKnown DEF SweepExpired
<1>3. CASE FindIncomplete(s)
  <2> DEFINE x == [at[s] EXCEPT !.pc = "found", !.seen = row.retries]
  <2>1. at' = [at EXCEPT ![s] = x]
    BY <1>3 DEF FindIncomplete
  <2>2. x.pc = "found" /\ x.ending = "none" /\ ~x.unsaved
    BY <1>3 DEF FindIncomplete, Idle
  <2> HIDE DEF x
  <2>3. row' = row /\ world' = world
    BY <1>3 DEF FindIncomplete
  <2> QED
    BY <1>1, <2>1, <2>2, <2>3, EchoKnown
<1>4. CASE ClaimRetry(s)
  <2>1. CASE Incomplete /\ row.retries = at[s].seen
    <3> DEFINE x == [Idle EXCEPT
                       !.pc = IF ClosureOf(row) = "approved" /\ row.ending = "none"
                              THEN "settle" ELSE "trail",
                       !.closure = ClosureOf(row), !.ending = row.ending,
                       !.unwritten = row.unwritten, !.runs = row.parked]
    <3>1. at' = [at EXCEPT ![s] = x]
      BY <1>4, <2>1 DEF ClaimRetry
    <3>2. x.pc \in {"settle", "trail"} /\ x.ending = row.ending /\ ~x.unsaved
      BY DEF Idle
    <3> HIDE DEF x
    <3>3. /\ row'.status = row.status /\ row'.decision = row.decision
          /\ row'.ending = row.ending /\ world' = world
      BY <1>1, <1>4, <2>1 DEF ClaimRetry, Row
    <3> QED
      BY <1>1, <3>1, <3>2, <3>3, EchoKnown DEF Resting
  <2>2. CASE ~(Incomplete /\ row.retries = at[s].seen)
    BY <1>1, <1>4, <2>2, RestKnown DEF ClaimRetry
  <2> QED
    BY <2>1, <2>2
<1>5. CASE ReadTrail(s)
  <2>1. PICK e \in {"unknown"} \cup world.trail :
           at' = [at EXCEPT ![s] = [@ EXCEPT !.pc = "settling", !.ending = e]]
    BY <1>5 DEF ReadTrail
  <2> DEFINE x == [at[s] EXCEPT !.pc = "settling", !.ending = e]
  <2>2. at' = [at EXCEPT ![s] = x]
    BY <2>1
  <2>3. x.pc = "settling" /\ x.ending = e /\ ~x.unsaved
    BY <1>1, <1>5 DEF Attempt, ReadTrail, Knowledge
  <2> HIDE DEF x
  <2>4. row' = row /\ world' = world
    BY <1>5 DEF ReadTrail
  <2> QED
    BY <1>1, <2>1, <2>2, <2>3, <2>4, EchoKnown DEF Resting
<1>6. CASE ReadTrailFails(s)
  BY <1>1, <1>6, RestKnown DEF ReadTrailFails
<1>7. CASE Settle(s)
  <2>1. Closed /\ at[s].pc = "settling" /\ ~at[s].unsaved /\ world' = world
    BY <1>1, <1>7 DEF Settle, Fate, Resting, Knowledge
  <2>2. CASE Unsettled
    <3>1. /\ row' = [row EXCEPT !.ending = at[s].ending]
          /\ \E pc \in {"trail"} : at' = [at EXCEPT ![s].pc = pc]
      BY <1>7, <2>2 DEF Settle, Go
    <3>2. /\ row'.status = row.status /\ row'.decision = row.decision
          /\ row'.ending = at[s].ending
      BY <1>1, <3>1 DEF Row
    <3> QED
      BY <1>1, <2>1, <3>1, <3>2, GoKnown
  <2>3. CASE ~Unsettled
    <3> DEFINE x == [at[s] EXCEPT !.pc = "trail", !.ending = row.ending, !.unwritten = row.unwritten]
    <3>1. x.pc = "trail" /\ x.ending = row.ending /\ ~x.unsaved
      BY <1>1, <2>1 DEF Attempt
    <3>2. at' = [at EXCEPT ![s] = x] /\ row' = row
      BY <1>7, <2>3 DEF Settle
    <3> HIDE DEF x
    <3> QED
      BY <1>1, <2>1, <3>1, <3>2, EchoKnown DEF Resting
  <2> QED
    BY <2>2, <2>3
<1> QED
  BY <1>2, <1>3, <1>4, <1>5, <1>6, <1>7 DEF Sweep

(* An attempt is taken for dead: it still knows what it knew.                *)
LEMMA SlowKnown ==
  ASSUME at \in [Actors -> Attempt], Knowledge, NEW a \in Actors, Stall(a),
         row'.status = row.status, row'.decision = row.decision, row'.ending = row.ending,
         world' = world
  PROVE  Knowledge'
<1> DEFINE x == [at[a] EXCEPT !.slow = TRUE]
<1>1. at' = [at EXCEPT ![a] = x]
  BY DEF Stall
<1>2. x.pc = at[a].pc /\ x.ending = at[a].ending /\ x.unsaved = at[a].unsaved
  BY DEF Attempt
<1> HIDE DEF x
<1>3. \A b \in Actors : /\ at'[b].pc = at[b].pc /\ at'[b].ending = at[b].ending
                        /\ at'[b].unsaved = at[b].unsaved
  BY <1>1, <1>2
<1>4. /\ \A b \in Actors : /\ Live(at'[b]) <=> Live(at[b])
                           /\ Resting(at'[b]) <=> Resting(at[b])
      /\ (Closed' <=> Closed) /\ (Approved' <=> Approved)
  BY <1>3 DEF Live, Resting, Closed, Approved
<1>5. /\ \A k \in Known : Somewhere(k)' <=> Somewhere(k)
      /\ \A b \in Actors, k \in Known : Elsewhere(b, k)' <=> Elsewhere(b, k)
  BY <1>3 DEF Somewhere, Elsewhere
<1>6. /\ \A b \in Actors : at'[b].pc \in {"run", "record"} => \A k \in Known : ~Elsewhere(b, k)'
      /\ \A b \in Actors : at'[b].unsaved /\ at'[b].pc \in {"save", "trail"} =>
            \A k \in Known : Elsewhere(b, k)' => k = at'[b].ending
      /\ \A k, l \in Known : Somewhere(k)' /\ Somewhere(l)' => k = l
  BY <1>3, <1>5 DEF Knowledge
<1>7. /\ \A b \in Actors : Live(at'[b]) => Approved'
      /\ \A b, c \in Actors : Live(at'[b]) /\ Live(at'[c]) => b = c
      /\ \A b \in Actors : Resting(at'[b]) => at'[b].ending = "none" /\ ~at'[b].unsaved
      /\ ~Closed' => row'.ending = "none" /\ world'.trail = {}
  BY <1>3, <1>4 DEF Knowledge
<1>8. /\ \A b \in Actors : at'[b].pc = "run" => at'[b].ending = "none"
      /\ \A b \in Actors : at'[b].pc \in {"record", "save"} => at'[b].unsaved
      /\ \A b \in Actors : at'[b].pc \in {"settle", "settling"} => ~at'[b].unsaved
  BY <1>3 DEF Knowledge
<1> QED
  BY <1>6, <1>7, <1>8 DEF Knowledge

LEMMA StepKnown == Typed /\ Fate /\ Knowledge /\ [Next]_vars => Knowledge'
<1> SUFFICES ASSUME Typed, Fate, Knowledge, [Next]_vars PROVE Knowledge'
  OBVIOUS
<1>1. row \in Row /\ world \in World /\ at \in [Actors -> Attempt]
  BY DEF Typed, TypeOK
<1>2. CASE UNCHANGED vars
  BY <1>2, StillKnown DEF vars
<1>3. CASE Propose \/ MootCardless \/ DeadlinePasses \/ WaitPasses
           \/ (\E u \in Runs : FindCard(u) \/ ParkOnCard(u))
           \/ \E s \in Sends : LeaseLapses(s)
  <2>1. UNCHANGED at /\ row'.ending = row.ending /\ world'.trail = world.trail
    BY <1>1, <1>3 DEF Propose, PostCard, PostFails, AttachCard, ProposerDies, MootCardless,
                      DeadlinePasses, WaitPasses, Awaited, FindCard, ParkOnCard, LeaseLapses,
                      Row, World
  <2>2. \/ row'.status = row.status /\ row'.decision = row.decision
        \/ Open /\ row'.status = "moot"
    BY <1>1, <1>3 DEF Propose, PostCard, PostFails, AttachCard, ProposerDies, MootCardless,
                      DeadlinePasses, WaitPasses, Awaited, FindCard, ParkOnCard, LeaseLapses, Row
  <2> QED
    BY <2>1, <2>2, StillKnown
<1>4. ASSUME NEW a \in Actors, Die(a) PROVE Knowledge'
  BY <1>1, <1>4, RestKnown DEF Die
<1>5. ASSUME NEW a \in Actors, WaitOutlasts(a) \/ \E s \in Sends : LeaseOutlasted(a, s)
      PROVE  Knowledge'
  <2>1. \/ row' = [row EXCEPT !.due = TRUE]
        \/ \E s \in Sends : row' = [row EXCEPT !.lease[s] = Nobody]
    BY <1>5 DEF WaitOutlasts, Awaited, LeaseOutlasted
  <2>2. row'.status = row.status /\ row'.decision = row.decision /\ row'.ending = row.ending
    BY <1>1, <2>1 DEF Row
  <2>3. Stall(a) /\ world' = world
    BY <1>5 DEF WaitOutlasts, LeaseOutlasted
  <2> QED
    BY <1>1, <2>2, <2>3, SlowKnown
<1> QED
  BY <1>2, <1>3, <1>4, <1>5, ResolveKnown, CompleteKnown, SweepKnown DEF Next

(* What the row's ending may become: an attempt that has not yet saved what  *)
(* it heard saves it, or a settler finds that there was none.                *)
LEMMA EndingMoves ==
  ASSUME Typed, Fate, Knowledge, [Next]_vars, row'.ending # row.ending
  PROVE  \/ row.ending = "none"
         \/ \E a \in Actors : /\ at[a].unsaved /\ at[a].pc \in {"save", "trail"}
                              /\ row'.ending = at[a].ending
<1>1. row \in Row /\ at \in [Actors -> Attempt]
  BY DEF Typed, TypeOK
<1>2. ASSUME NEW a \in Actors, NEW closure, Open, Close(a, closure) PROVE row.ending = "none"
  BY <1>2 DEF Open, Closed, Knowledge
<1>3. ASSUME NEW d \in Deciders,
             Resolve(d) \/ \E answer \in {"approved", "declined"} : ReadToDecide(d, answer)
      PROVE  \/ row.ending = "none"
             \/ at[d].unsaved /\ at[d].pc = "save" /\ row'.ending = at[d].ending
  <2>1. d \in Actors
    BY DEF Actors
  <2>2. CASE SaveEnding(d)
    BY <1>1, <2>1, <2>2 DEF SaveEnding, Saved, Row, Knowledge
  <2>3. CASE CloseByDecision(d)
    BY <1>2, <2>1, <2>3 DEF CloseByDecision, Decidable
  <2> QED
    BY <1>3, <2>2, <2>3 DEF Resolve, ReadToDecide, RunCall, RecordCall, RecordFails, SaveFails
<1>4. ASSUME NEW s \in Sweepers, Sweep(s) PROVE row.ending = "none"
  <2>1. s \in Actors
    BY DEF Actors
  <2>2. CASE SweepExpired(s)
    BY <1>2, <2>1, <2>2 DEF SweepExpired
  <2>3. CASE ClaimRetry(s)
    BY <1>1, <2>3 DEF ClaimRetry, Row
  <2>4. CASE Settle(s)
    BY <2>4 DEF Settle, Unsettled
  <2> QED
    BY <1>4, <2>2, <2>3, <2>4 DEF Sweep, FindIncomplete, ReadTrail, ReadTrailFails
<1>5. ASSUME NEW a \in Actors, Complete(a)
      PROVE  at[a].unsaved /\ at[a].pc = "trail" /\ row'.ending = at[a].ending
  <2>1. CASE Trail(a)
    BY <1>1, <2>1 DEF Trail, Saved, Row
  <2>2. ASSUME NEW s \in Sends,
               \/ ClaimSend(a, s) \/ PassSend(a, s) \/ SendFails(a, s)
               \/ StampSend(a, s) \/ StampFails(a, s)
        PROVE  FALSE
    BY <1>1, <2>2 DEF ClaimSend, PassSend, SendFails, AfterFailedSend, StampSend, StampFails, Row
  <2>3. CASE Finish(a)
    BY <1>1, <2>3 DEF Finish, Row
  <2> QED
    BY <1>5, <2>1, <2>2, <2>3
    DEF Complete, TrailFails, CheckWake, SendWake, SendReceipt, CardFails
<1>6. ~(\/ UNCHANGED vars \/ Propose \/ MootCardless \/ DeadlinePasses \/ WaitPasses
        \/ \E u \in Runs : FindCard(u) \/ ParkOnCard(u)
        \/ \E s \in Sends : LeaseLapses(s))
  BY <1>1 DEF vars, Propose, PostCard, PostFails, AttachCard, ProposerDies, MootCardless,
              DeadlinePasses, WaitPasses, Awaited, FindCard, ParkOnCard, LeaseLapses, Row
<1>7. ASSUME NEW a \in Actors,
             Die(a) \/ WaitOutlasts(a) \/ \E s \in Sends : LeaseOutlasted(a, s)
      PROVE  FALSE
  BY <1>1, <1>7 DEF Die, WaitOutlasts, Awaited, LeaseOutlasted, Row
<1> QED
  BY <1>3, <1>4, <1>5, <1>6, <1>7 DEF Next, Actors

(* Whatever retries guess while the call still runs, and whoever fails or    *)
(* dies in between: an ending that is known stays the row's ending.          *)
THEOREM ApprovalKnownEndingStands == Spec => KnownEndingStands
<1>1. ASSUME Typed, Fate, Knowledge, [Next]_vars, row.ending \notin {"none", "unknown"}
      PROVE  row'.ending = row.ending
  <2>1. row.ending \in Known
    BY <1>1 DEF Typed, TypeOK, Row, Known
  <2>2. SUFFICES ASSUME row'.ending # row.ending PROVE FALSE
    OBVIOUS
  <2>3. PICK a \in Actors : /\ at[a].unsaved /\ at[a].pc \in {"save", "trail"}
                            /\ row'.ending = at[a].ending
    BY <1>1, <2>2, EndingMoves
  <2>4. Elsewhere(a, row.ending)
    BY DEF Elsewhere
  <2> QED
    BY <1>1, <2>1, <2>2, <2>3, <2>4 DEF Knowledge
<1>2. Typed /\ Fate /\ Knowledge /\ [Next]_vars
      => (row.ending \notin {"none", "unknown"} => row'.ending = row.ending)
  BY <1>1
<1>3. Typed /\ Fate /\ Knowledge /\ [Next]_vars
      => [row.ending \notin {"none", "unknown"} => row'.ending = row.ending]_vars
  BY <1>2
<1> QED
  BY InitTyped, StepTyped, InitFate, StepFate, InitKnown, StepKnown, <1>3, PTL
  DEF Spec, KnownEndingStands

-------------------------------------------------------------------------------
(* How often a wake or a receipt goes out.  An attempt under way is prompt   *)
(* until its lease or its wait has outlasted it: prompt senders have the     *)
(* lease to themselves, and each slow one was paid for by a stall.           *)

AfterReceipt == {"claim wake", "check wake", "send wake", "stamp wake", "finish"}

Past(s) == IF s = "wake" THEN {"stamp wake", "finish"} ELSE {"stamp receipt"} \cup AfterReceipt

Zone(s) == IF s = "wake" THEN {"check wake", "send wake", "stamp wake"}
                         ELSE {"send receipt", "stamp receipt"}

Ready(s) == IF s = "wake" THEN "send wake" ELSE "send receipt"

Prompt(x, s) == x.pc \in Zone(s) /\ ~x.slow

SlowTo(s) == {a \in Actors : at[a].slow /\ at[a].pc \notin Past(s)}

Stamped(x) == x.pc = "stamp receipt" /\ ~x.slow

Count(s) == IF s = "wake" THEN world.wakes ELSE world.receipts

Slack(s) == IF s = "wake" THEN stalls ELSE stalls + trouble

OneSender(s) ==
    /\ \A a \in Actors : Prompt(at[a], s) => row.lease[s] = a \/ s \in row.sent
    /\ \A a, b \in Actors : Prompt(at[a], s) /\ Prompt(at[b], s) => a = b

(* With nothing left to pay with, whoever could send knows better: it sees   *)
(* the wake, or the receipt is stamped or about to be.                       *)
Spent(s) ==
    /\ \A a \in Actors : at[a].pc = Ready(s) => at[a].slow
    /\ s = "wake" => world.wakes > 0
    /\ s = "receipt" => "receipt" \in row.sent \/ \E a \in Actors : Stamped(at[a])

Budget(s) ==
    /\ Count(s) + Cardinality(SlowTo(s)) <= Slack(s) + 1
    /\ Count(s) + Cardinality(SlowTo(s)) = Slack(s) + 1 => Spent(s)

Sending1 == \A s \in Sends : OneSender(s) /\ Budget(s)

(* y is no more of a sender than x was.                                      *)
Lags(x, y, s) ==
    /\ y.slow => x.slow /\ (x.pc \in Past(s) => y.pc \in Past(s))
    /\ Prompt(y, s) => Prompt(x, s) /\ (y.pc = Ready(s) => x.pc = Ready(s))

AllLag(s) == \A b \in Actors : Lags(at[b], at'[b], s)

(* What a step can do to the sends: nothing more, ...                        *)
Steady(s) ==
    /\ AllLag(s)
    /\ Count(s)' = Count(s) /\ stalls' >= stalls /\ trouble' >= trouble
    /\ s \in row.sent => s \in row'.sent
    /\ \A b \in Actors : Prompt(at'[b], s) /\ row.lease[s] = b
          => row'.lease[s] = b \/ s \in row'.sent
    /\ s = "receipt" => \A b \in Actors : Stamped(at[b])
          => Stamped(at'[b]) \/ s \in row'.sent \/ trouble' > trouble

(* ... take the lease, ...                                                   *)
Takes(a, s) ==
    /\ s \notin row.sent /\ row.lease[s] = Nobody
    /\ row'.lease[s] = a /\ row'.sent = row.sent
    /\ UNCHANGED <<world, stalls, trouble>>
    /\ at[a].pc \notin Past(s) \cup Zone(s)
    /\ \E x : /\ at' = [at EXCEPT ![a] = x]
              /\ x.slow = at[a].slow
              /\ s = "wake" => x.pc # Ready(s)
              /\ s = "receipt" => x.pc # "stamp receipt"

(* ... find no wake, ...                                                     *)
Checks(a) ==
    /\ world.wakes = 0 /\ at[a].pc = "check wake"
    /\ UNCHANGED <<row, world, stalls, trouble>>
    /\ \E x : at' = [at EXCEPT ![a] = x] /\ x.slow = at[a].slow /\ x.pc = "send wake"

(* ... send, ...                                                             *)
Goes(a, s) ==
    /\ Count(s)' = Count(s) + 1
    /\ UNCHANGED <<row, stalls, trouble>>
    /\ at[a].pc = Ready(s)
    /\ \E x : /\ at' = [at EXCEPT ![a] = x]
              /\ x.slow = at[a].slow
              /\ x.pc = IF s = "wake" THEN "stamp wake" ELSE "stamp receipt"

(* ... or be outlasted.                                                      *)
Slows(a, s) ==
    /\ ~at[a].slow
    /\ stalls' = stalls + 1 /\ UNCHANGED <<world, trouble>>
    /\ row'.sent = row.sent
    /\ \A b \in Actors \ {a} : row.lease[s] = b => row'.lease[s] = b
    /\ \E x : at' = [at EXCEPT ![a] = x] /\ x.slow /\ x.pc = at[a].pc

SendMove(s) ==
    \/ Steady(s)
    \/ s = "wake" /\ \E a \in Actors : Checks(a)
    \/ \E a \in Actors : Takes(a, s) \/ Goes(a, s) \/ Slows(a, s)

(* A step that has nothing to do with sending.                               *)
Unsent ==
    /\ row'.sent = row.sent /\ row'.lease = row.lease
    /\ world'.wakes = world.wakes /\ world'.receipts = world.receipts
    /\ stalls' >= stalls /\ trouble' >= trouble

LEMMA UnsentSteady ==
    ASSUME Unsent, NEW s \in Sends, AllLag(s),
           \A b \in Actors : Stamped(at[b]) => Stamped(at'[b]) \/ trouble' > trouble
    PROVE  Steady(s)
BY DEF Unsent, Steady, Count

LEMMA OnwardLags ==
    ASSUME at \in [Actors -> Attempt], NEW a \in Actors, NEW x, NEW s \in Sends,
           at' = [at EXCEPT ![a] = x], Lags(at[a], x, s)
    PROVE  AllLag(s)
<1>1. at'[a] = x /\ \A b \in Actors \ {a} : at'[b] = at[b]
  OBVIOUS
<1>2. \A b \in Actors \ {a} : Lags(at[b], at'[b], s)
  BY <1>1 DEF Lags
<1> QED
  BY <1>1, <1>2 DEF AllLag

(* An attempt goes on without sending.                                       *)
LEMMA OnwardSteady ==
    ASSUME at \in [Actors -> Attempt], NEW a \in Actors, NEW x, NEW s \in Sends,
           at' = [at EXCEPT ![a] = x], Unsent,
           x.slow => at[a].slow,
           x.slow => (at[a].pc \in Past(s) => x.pc \in Past(s)),
           x.pc \notin Zone(s) \/ x.slow,
           at[a].pc # "stamp receipt" \/ trouble' > trouble
    PROVE  Steady(s)
<1>1. Lags(at[a], x, s)
  BY DEF Lags, Prompt
<1>2. AllLag(s)
  BY <1>1, OnwardLags
<1>3. \A b \in Actors : Stamped(at[b]) => Stamped(at'[b]) \/ trouble' > trouble
  BY DEF Stamped
<1> QED
  BY <1>2, <1>3, UnsentSteady

LEMMA RestSteady ==
    ASSUME at \in [Actors -> Attempt], NEW a \in Actors, NEW s \in Sends,
           at' = [at EXCEPT ![a] = Idle], Unsent,
           at[a].pc # "stamp receipt" \/ trouble' > trouble
    PROVE  Steady(s)
<1>1. ~Idle.slow /\ Idle.pc = "idle"
  BY DEF Idle
<1>2. Idle.pc \notin Zone(s)
  BY <1>1 DEF Zone
<1> QED
  BY <1>1, <1>2, OnwardSteady

(* ... to another statement, with a step failed or not.                      *)
LEMMA GoSteady ==
    ASSUME at \in [Actors -> Attempt], NEW a \in Actors, NEW pc, NEW s \in Sends,
           \/ at' = [at EXCEPT ![a].pc = pc]
           \/ \E f : at' = [at EXCEPT ![a] = [@ EXCEPT !.pc = pc, !.failed = f]],
           Unsent,
           at[a].pc \in Past(s) => pc \in Past(s),
           pc \notin Zone(s),
           at[a].pc # "stamp receipt" \/ trouble' > trouble
    PROVE  Steady(s)
<1>t. at[a] \in Attempt
  OBVIOUS
<1>1. PICK x : /\ at' = [at EXCEPT ![a] = x]
               /\ x.slow = at[a].slow /\ x.pc = pc
  <2>1. CASE at' = [at EXCEPT ![a].pc = pc]
    <3>1. at' = [at EXCEPT ![a] = [at[a] EXCEPT !.pc = pc]]
      BY <2>1
    <3>2. [at[a] EXCEPT !.pc = pc].slow = at[a].slow /\ [at[a] EXCEPT !.pc = pc].pc = pc
      BY <1>t DEF Attempt
    <3> QED
      BY <3>1, <3>2
  <2>2. ASSUME NEW f, at' = [at EXCEPT ![a] = [@ EXCEPT !.pc = pc, !.failed = f]]
        PROVE  \E x : at' = [at EXCEPT ![a] = x] /\ x.slow = at[a].slow /\ x.pc = pc
    <3>1. at' = [at EXCEPT ![a] = [at[a] EXCEPT !.pc = pc, !.failed = f]]
      BY <2>2
    <3>2. /\ [at[a] EXCEPT !.pc = pc, !.failed = f].slow = at[a].slow
          /\ [at[a] EXCEPT !.pc = pc, !.failed = f].pc = pc
      BY <1>t DEF Attempt
    <3> QED
      BY <3>1, <3>2
  <2> QED
    BY <2>1, <2>2
<1> QED
  BY <1>1, OnwardSteady

LEMMA ZonesAreDisjoint ==
    \A s \in Sends, pc \in {"idle", "decide", "run", "record", "save", "found", "settle",
                            "settling", "trail", "claim receipt"} :
        pc \notin Past(s) /\ pc \notin Zone(s) /\ pc # "stamp receipt"
BY DEF Past, Zone, AfterReceipt

(* The sends among the completing steps.                                     *)
LEMMA ClaimMoves ==
    ASSUME Typed, NEW a \in Actors, NEW t \in Sends, ClaimSend(a, t), NEW s \in Sends
    PROVE  SendMove(s)
<1>1. row \in Row /\ at \in [Actors -> Attempt] /\ at[a] \in Attempt /\ trouble \in Nat /\ stalls \in Nat
  BY ApprovalConstants DEF Typed, TypeOK
<1> DEFINE pc == IF t = "receipt" THEN "send receipt" ELSE "check wake"
<1>2. /\ row' = [row EXCEPT !.lease[t] = a] /\ UNCHANGED <<world, stalls, trouble>>
      /\ t \notin row.sent /\ row.lease[t] = Nobody /\ at[a].pc = Claiming(t)
      /\ at' = [at EXCEPT ![a].pc = pc]
  BY DEF ClaimSend, Leasable, Go
<1>3. /\ row'.sent = row.sent /\ row'.lease[t] = a
      /\ \A r \in Sends \ {t} : row'.lease[r] = row.lease[r]
  BY <1>1, <1>2 DEF Row
<1>4. PICK x : at' = [at EXCEPT ![a] = x] /\ x.slow = at[a].slow /\ x.pc = pc
  <2>1. at' = [at EXCEPT ![a] = [at[a] EXCEPT !.pc = pc]]
    BY <1>2
  <2>2. [at[a] EXCEPT !.pc = pc].slow = at[a].slow /\ [at[a] EXCEPT !.pc = pc].pc = pc
    BY <1>1 DEF Attempt
  <2> QED
    BY <2>1, <2>2
<1>5. CASE s = t
  <2>1. at[a].pc \notin Past(s) \cup Zone(s)
    BY <1>2, <1>5 DEF Claiming, Past, Zone, AfterReceipt, Sends
  <2>2. (s = "wake" => x.pc # Ready(s)) /\ (s = "receipt" => x.pc # "stamp receipt")
    BY <1>4, <1>5 DEF Ready
  <2>3. Takes(a, s)
    BY <1>2, <1>3, <1>4, <1>5, <2>1, <2>2 DEF Takes
  <2> QED
    BY <2>3 DEF SendMove
<1>6. CASE s # t
  <2>1. Lags(at[a], x, s)
    <3>1. at[a].pc \in Past(s) => x.pc \in Past(s)
      BY <1>2, <1>4, <1>6 DEF Claiming, Past, AfterReceipt, Sends
    <3>2. x.pc \notin Zone(s)
      <4>1. CASE t = "receipt" /\ s = "wake"
        BY <1>4, <4>1 DEF Zone
      <4>2. CASE t = "wake" /\ s = "receipt"
        BY <1>4, <4>2 DEF Zone
      <4> QED
        BY <1>6, <4>1, <4>2 DEF Sends
    <3> QED
      BY <1>4, <3>1, <3>2 DEF Lags, Prompt
  <2>2. AllLag(s)
    BY <1>1, <1>4, <2>1, OnwardLags
  <2>3. \A b \in Actors : Stamped(at[b]) => Stamped(at'[b])
    <3>1. ~Stamped(at[a])
      BY <1>2 DEF Claiming, Stamped
    <3> QED
      BY <1>1, <1>4, <3>1
  <2>4. row'.lease[s] = row.lease[s]
    BY <1>3, <1>6
  <2>5. Count(s)' = Count(s) /\ stalls' >= stalls /\ trouble' >= trouble
    <3>1. UNCHANGED <<world, stalls, trouble>> /\ trouble \in Nat /\ stalls \in Nat
      BY <1>1, <1>2
    <3>2. Count(s)' = Count(s)
      BY <3>1 DEF Count
    <3> QED
      BY <3>1, <3>2
  <2>6. Steady(s)
    BY <1>3, <2>2, <2>3, <2>4, <2>5 DEF Steady
  <2> QED
    BY <2>6 DEF SendMove
<1> QED
  BY <1>5, <1>6

LEMMA StampMoves ==
    ASSUME Typed, NEW a \in Actors, NEW t \in Sends,
           SendFails(a, t) \/ StampSend(a, t), NEW s \in Sends
    PROVE  Steady(s)
<1>1. row \in Row /\ at \in [Actors -> Attempt] /\ at[a] \in Attempt /\ trouble \in Nat /\ stalls \in Nat
  BY ApprovalConstants DEF Typed, TypeOK
<1>2. PICK x : /\ at' = [at EXCEPT ![a] = x]
               /\ x.slow = at[a].slow /\ x.pc = AfterSend(t)
  <2>1. CASE StampSend(a, t)
    <3>1. at' = [at EXCEPT ![a] = [at[a] EXCEPT !.pc = AfterSend(t)]]
      BY <2>1 DEF StampSend, Go
    <3>2. /\ [at[a] EXCEPT !.pc = AfterSend(t)].slow = at[a].slow
          /\ [at[a] EXCEPT !.pc = AfterSend(t)].pc = AfterSend(t)
      BY <1>1 DEF Attempt
    <3> QED
      BY <3>1, <3>2
  <2>2. CASE SendFails(a, t)
    <3>1. at' = [at EXCEPT ![a] = [at[a] EXCEPT !.pc = AfterSend(t), !.failed = TRUE]]
      BY <2>2 DEF SendFails, Fail
    <3>2. /\ [at[a] EXCEPT !.pc = AfterSend(t), !.failed = TRUE].slow = at[a].slow
          /\ [at[a] EXCEPT !.pc = AfterSend(t), !.failed = TRUE].pc = AfterSend(t)
      BY <1>1 DEF Attempt
    <3> QED
      BY <3>1, <3>2
  <2> QED
    BY <2>1, <2>2
<1>3. /\ UNCHANGED world /\ stalls' >= stalls /\ trouble' >= trouble
      /\ at[a].pc \in Zone(t) /\ (at[a].pc = "stamp receipt" => t = "receipt" /\ StampSend(a, t))
  <2>1. CASE StampSend(a, t)
    <3>1. UNCHANGED <<world, stalls, trouble>> /\ trouble \in Nat /\ stalls \in Nat
      BY <1>1, <2>1 DEF StampSend
    <3>2. \/ t = "receipt" /\ at[a].pc = "stamp receipt" /\ at[a].pc \in Zone("receipt")
          \/ t = "wake" /\ at[a].pc = "stamp wake" /\ at[a].pc \in Zone("wake")
      BY <2>1 DEF StampSend, Stamping, Sends, Zone
    <3>3. UNCHANGED world /\ stalls' >= stalls /\ trouble' >= trouble
      BY <3>1
    <3> QED
      BY <2>1, <3>2, <3>3
  <2>2. CASE SendFails(a, t)
    <3>1. UNCHANGED <<world, stalls>> /\ trouble' = trouble + 1 /\ trouble \in Nat /\ stalls \in Nat
      BY <1>1, <2>2 DEF SendFails, Fail, Trouble
    <3>2. \/ t = "receipt" /\ at[a].pc = "send receipt" /\ at[a].pc \in Zone("receipt")
          \/ t = "wake" /\ at[a].pc \in {"check wake", "send wake"} /\ at[a].pc \in Zone("wake")
      <4>1. CASE t = "receipt"
        BY <2>2, <4>1 DEF SendFails, Zone
      <4>2. CASE t = "wake"
        BY <2>2, <4>2 DEF SendFails, Zone
      <4> QED
        BY <4>1, <4>2 DEF Sends
    <3>3. UNCHANGED world /\ stalls' >= stalls /\ trouble' >= trouble
      BY <3>1
    <3> QED
      BY <3>2, <3>3
  <2> QED
    BY <2>1, <2>2
<1>4. x.pc \notin Zone(s) /\ (at[a].pc \in Past(s) => x.pc \in Past(s))
  BY <1>2, <1>3 DEF Zone, AfterSend, Past, AfterReceipt, Sends
<1>5. AllLag(s)
  <2>1. Lags(at[a], x, s)
    BY <1>2, <1>4 DEF Lags, Prompt
  <2> QED
    BY <1>1, <1>2, <2>1, OnwardLags
<1>6. /\ row.sent \subseteq row'.sent
      /\ StampSend(a, t) => t \in row'.sent
      /\ \A b \in Actors \ {a} : row.lease[s] = b => row'.lease[s] = b \/ s \in row'.sent
  <2>1. CASE StampSend(a, t)
    <3>1. row' = [row EXCEPT !.sent = row.sent \cup {t}, !.lease[t] = Nobody]
      BY <2>1 DEF StampSend
    <3> QED
      BY <1>1, <3>1 DEF Row
  <2>2. CASE SendFails(a, t)
    <3>1. row' = row \/ (row.lease[t] = a /\ row' = [row EXCEPT !.lease[t] = Nobody])
      BY <2>2 DEF SendFails, AfterFailedSend
    <3>2. ~StampSend(a, t)
      BY <2>2 DEF SendFails, StampSend, Stamping
    <3> QED
      BY <1>1, <3>1, <3>2 DEF Row
  <2> QED
    BY <2>1, <2>2
<1>7. \A b \in Actors : Prompt(at'[b], s) /\ row.lease[s] = b
          => row'.lease[s] = b \/ s \in row'.sent
  <2>1. ~Prompt(at'[a], s)
    BY <1>1, <1>2, <1>4 DEF Prompt
  <2> QED
    BY <1>6, <2>1
<1>8. s = "receipt" => \A b \in Actors : Stamped(at[b])
          => Stamped(at'[b]) \/ s \in row'.sent
  <2>1. Stamped(at[a]) => t = "receipt" /\ t \in row'.sent
    BY <1>3, <1>6 DEF Stamped
  <2>2. \A b \in Actors \ {a} : at'[b] = at[b]
    BY <1>1, <1>2
  <2> QED
    BY <2>1, <2>2
<1> QED
  BY <1>3, <1>5, <1>6, <1>7, <1>8 DEF Steady, Count

LEMMA CompleteMoves ==
    ASSUME Typed, NEW a \in Actors, Complete(a), NEW s \in Sends
    PROVE  SendMove(s)
<1>1. /\ row \in Row /\ world \in World /\ at \in [Actors -> Attempt] /\ at[a] \in Attempt
      /\ trouble \in Nat /\ stalls \in Nat
  BY ApprovalConstants DEF Typed, TypeOK
<1>2. CASE Trail(a) \/ TrailFails(a)
  <2>1. PICK x : /\ at' = [at EXCEPT ![a] = x]
                 /\ x.slow = at[a].slow /\ x.pc = AfterTrail(a)
    <3>1. CASE Trail(a)
      <4>1. at' = [at EXCEPT ![a] = [at[a] EXCEPT !.pc = AfterTrail(a), !.unsaved = FALSE,
                                                  !.unwritten = FALSE]]
        BY <3>1 DEF Trail
      <4>2. /\ [at[a] EXCEPT !.pc = AfterTrail(a), !.unsaved = FALSE, !.unwritten = FALSE].slow
                  = at[a].slow
            /\ [at[a] EXCEPT !.pc = AfterTrail(a), !.unsaved = FALSE, !.unwritten = FALSE].pc
                  = AfterTrail(a)
        BY <1>1 DEF Attempt
      <4> QED
        BY <4>1, <4>2
    <3>2. CASE TrailFails(a)
      <4>1. at' = [at EXCEPT ![a] = [at[a] EXCEPT !.pc = AfterTrail(a), !.failed = TRUE]]
        BY <3>2 DEF TrailFails, Fail
      <4>2. /\ [at[a] EXCEPT !.pc = AfterTrail(a), !.failed = TRUE].slow = at[a].slow
            /\ [at[a] EXCEPT !.pc = AfterTrail(a), !.failed = TRUE].pc = AfterTrail(a)
        BY <1>1 DEF Attempt
      <4> QED
        BY <4>1, <4>2
    <3> QED
      BY <1>2, <3>1, <3>2
  <2>2. Unsent
    <3>1. \/ row' = row
          \/ row' = [row EXCEPT !.unwritten = FALSE]
          \/ row' = [row EXCEPT !.ending = at[a].ending, !.unwritten = FALSE, !.done = FALSE]
      BY <1>2 DEF Trail, TrailFails, Saved
    <3>2. \E T : world' = [world EXCEPT !.trail = T]
      BY <1>2 DEF Trail, TrailFails
    <3>3. stalls' >= stalls /\ trouble' >= trouble
      <4>1. trouble' = trouble \/ trouble' = trouble + 1
        BY <1>2 DEF Trail, TrailFails, Fail, Trouble
      <4>2. stalls' = stalls
        BY <1>2 DEF Trail, TrailFails
      <4> QED
        BY <1>1, <4>1, <4>2
    <3> QED
      BY <1>1, <3>1, <3>2, <3>3 DEF Unsent, Row, World
  <2>3. at[a].pc = "trail" /\ x.pc \notin Zone(s)
    BY <1>2, <2>1 DEF Trail, TrailFails, AfterTrail, Zone
  <2>4. at[a].pc \notin Past(s) /\ at[a].pc # "stamp receipt"
    BY <2>3, ZonesAreDisjoint
  <2>5. Steady(s)
    BY <1>1, <2>1, <2>2, <2>3, <2>4, OnwardSteady
  <2> QED
    BY <2>5 DEF SendMove
<1>3. CASE CheckWake(a)
  <2>u. at[a].pc = "check wake" /\ UNCHANGED <<row, world, stalls, trouble>>
    BY <1>3 DEF CheckWake
  <2>1. at' = [at EXCEPT ![a] = [at[a] EXCEPT !.pc = IF Woken THEN "stamp wake" ELSE "send wake"]]
    BY <1>3 DEF CheckWake, Go
  <2> DEFINE pc == IF Woken THEN "stamp wake" ELSE "send wake"
  <2>2. PICK x : at' = [at EXCEPT ![a] = x] /\ x.slow = at[a].slow /\ x.pc = pc
    <3>1. [at[a] EXCEPT !.pc = pc].slow = at[a].slow /\ [at[a] EXCEPT !.pc = pc].pc = pc
      BY <1>1 DEF Attempt
    <3> QED
      BY <2>1, <3>1
  <2>3. CASE Woken \/ s = "receipt"
    <3>1. Lags(at[a], x, s)
      BY <2>u, <2>2, <2>3 DEF Lags, Prompt, Past, Zone, Ready, AfterReceipt, Sends
    <3>2. AllLag(s)
      BY <1>1, <2>2, <3>1, OnwardLags
    <3>3. \A b \in Actors : Stamped(at[b]) => Stamped(at'[b])
      BY <1>1, <2>u, <2>2 DEF Stamped
    <3>4. Unsent
      <4>1. UNCHANGED <<row, world, stalls, trouble>> /\ trouble \in Nat /\ stalls \in Nat
        BY <1>1, <2>u
      <4> QED
        BY <4>1 DEF Unsent
    <3> QED
      BY <3>2, <3>3, <3>4, UnsentSteady DEF SendMove
  <2>4. CASE ~Woken /\ s = "wake"
    <3>1. world.wakes = 0
      BY <1>1, <2>4 DEF Woken, World
    <3>2. Checks(a)
      BY <2>u, <2>2, <2>4, <3>1 DEF Checks
    <3> QED
      BY <2>4, <3>2 DEF SendMove
  <2> QED
    BY <2>3, <2>4 DEF Sends
<1>4. CASE SendWake(a) \/ SendReceipt(a)
  <2>1. PICK t \in Sends : /\ at[a].pc = Ready(t) /\ UNCHANGED <<row, stalls, trouble>>
                           /\ Count(t)' = Count(t) + 1
                           /\ \A r \in Sends \ {t} : Count(r)' = Count(r)
                           /\ at' = [at EXCEPT ![a] = [at[a] EXCEPT !.pc = Stamping(t)]]
    <3>1. CASE SendWake(a)
      <4>1. world'.wakes = world.wakes + 1 /\ world'.receipts = world.receipts
        BY <1>1, <3>1 DEF SendWake, World
      <4>2. at' = [at EXCEPT ![a] = [at[a] EXCEPT !.pc = "stamp wake"]]
        BY <3>1 DEF SendWake, Go
      <4> QED
        BY <3>1, <4>1, <4>2 DEF SendWake, Ready, Count, Stamping, Sends
    <3>2. CASE SendReceipt(a)
      <4>1. world'.receipts = world.receipts + 1 /\ world'.wakes = world.wakes
        BY <1>1, <3>2 DEF SendReceipt, World
      <4>2. at' = [at EXCEPT ![a] = [at[a] EXCEPT !.pc = "stamp receipt"]]
        BY <3>2 DEF SendReceipt, Go
      <4> QED
        BY <3>2, <4>1, <4>2 DEF SendReceipt, Ready, Count, Stamping, Sends
    <3> QED
      BY <1>4, <3>1, <3>2
  <2>2. PICK x : at' = [at EXCEPT ![a] = x] /\ x.slow = at[a].slow /\ x.pc = Stamping(t)
    <3>1. /\ [at[a] EXCEPT !.pc = Stamping(t)].slow = at[a].slow
          /\ [at[a] EXCEPT !.pc = Stamping(t)].pc = Stamping(t)
      BY <1>1 DEF Attempt
    <3> QED
      BY <2>1, <3>1
  <2>3. CASE s = t
    <3>1. Goes(a, s)
      BY <2>1, <2>2, <2>3 DEF Goes, Stamping, Sends
    <3> QED
      BY <3>1 DEF SendMove
  <2>4. CASE s # t
    <3>1. Lags(at[a], x, s)
      BY <2>1, <2>2, <2>4 DEF Lags, Prompt, Past, Zone, Ready, Stamping, AfterReceipt, Sends
    <3>2. AllLag(s)
      BY <1>1, <2>2, <3>1, OnwardLags
    <3>3. \A b \in Actors : Stamped(at[b]) => Stamped(at'[b])
      BY <1>1, <2>1, <2>2 DEF Stamped, Ready
    <3>4. Count(s)' = Count(s)
      BY <2>1, <2>4
    <3> QED
      BY <1>1, <2>1, <3>2, <3>3, <3>4 DEF Steady, SendMove
  <2> QED
    BY <2>3, <2>4
<1>5. ASSUME NEW t \in Sends, PassSend(a, t) PROVE SendMove(s)
  <2>1. /\ at[a].pc = Claiming(t) /\ UNCHANGED <<row, world, stalls, trouble>>
        /\ at' = [at EXCEPT ![a] = [@ EXCEPT !.pc = AfterSend(t),
                                             !.failed = (at[a].failed \/ t \notin row.sent)]]
    BY <1>5 DEF PassSend
  <2>2. /\ at[a].pc \in Past(s) => AfterSend(t) \in Past(s)
        /\ AfterSend(t) \notin Zone(s) /\ at[a].pc # "stamp receipt"
    BY <2>1 DEF Claiming, AfterSend, Past, Zone, AfterReceipt, Sends
  <2>3. Unsent
    BY <1>1, <2>1 DEF Unsent
  <2>4. Steady(s)
    BY <1>1, <2>1, <2>2, <2>3, GoSteady
  <2> QED
    BY <2>4 DEF SendMove
<1>6. ASSUME NEW t \in Sends, StampFails(a, t) PROVE SendMove(s)
  <2>1. /\ at[a].pc = Stamping(t) /\ UNCHANGED <<row, world, stalls>>
        /\ trouble' = trouble + 1
        /\ at' = [at EXCEPT ![a] = [@ EXCEPT !.pc = AfterSend(t), !.failed = TRUE]]
    BY <1>6 DEF StampFails, Fail, Trouble
  <2>2. /\ at[a].pc \in Past(s) => AfterSend(t) \in Past(s)
        /\ AfterSend(t) \notin Zone(s)
    BY <2>1 DEF Stamping, AfterSend, Past, Zone, AfterReceipt, Sends
  <2>3. Unsent /\ trouble' > trouble
    BY <1>1, <2>1 DEF Unsent
  <2>4. Steady(s)
    BY <1>1, <2>1, <2>2, <2>3, GoSteady
  <2> QED
    BY <2>4 DEF SendMove
<1>7. CASE Finish(a) \/ CardFails(a)
  <2>1. at' = [at EXCEPT ![a] = Idle] /\ at[a].pc = "finish"
    BY <1>7 DEF Finish, CardFails
  <2>2. Unsent
    <3>1. row' = row \/ row' = [row EXCEPT !.done = TRUE]
      BY <1>7 DEF Finish, CardFails
    <3>2. UNCHANGED world /\ stalls' >= stalls /\ trouble' >= trouble
      BY <1>1, <1>7 DEF Finish, CardFails, Trouble
    <3> QED
      BY <1>1, <3>1, <3>2 DEF Unsent, Row
  <2>3. Steady(s)
    BY <1>1, <2>1, <2>2, RestSteady
  <2> QED
    BY <2>3 DEF SendMove
<1> QED
  BY <1>2, <1>3, <1>4, <1>5, <1>6, <1>7, ClaimMoves, StampMoves DEF Complete, SendMove

(* Before the sends.                                                         *)
LEMMA EarlySteady ==
    ASSUME at \in [Actors -> Attempt], NEW a \in Actors, NEW x, NEW s \in Sends,
           at' = [at EXCEPT ![a] = x], Unsent, x.slow => at[a].slow,
           at[a].pc \in {"idle", "decide", "run", "record", "save", "found", "settle", "settling"},
           x.pc \in {"idle", "decide", "run", "record", "save", "found", "settle",
                     "settling", "trail"}
    PROVE  Steady(s)
BY ZonesAreDisjoint, OnwardSteady

LEMMA CloseSteady ==
    ASSUME Typed, NEW a \in Actors, NEW closure, Close(a, closure),
           UNCHANGED <<world, trouble, stalls>>, at[a].pc \in {"idle", "decide"},
           NEW s \in Sends
    PROVE  Steady(s)
<1>1. /\ row \in Row /\ at \in [Actors -> Attempt] /\ at[a] \in Attempt
      /\ trouble \in Nat /\ stalls \in Nat
  BY ApprovalConstants DEF Typed, TypeOK
<1> DEFINE x == [Idle EXCEPT !.pc = IF closure = "approved" THEN "run" ELSE "trail",
                             !.closure = closure, !.ending = EndingOf(closure),
                             !.runs = row.parked]
<1>2. at' = [at EXCEPT ![a] = x]
  BY DEF Close
<1>3. ~x.slow /\ x.pc \in {"run", "trail"}
  BY DEF Idle
<1> HIDE DEF x
<1>4. row'.sent = row.sent /\ row'.lease = row.lease
  BY <1>1 DEF Close, Row
<1>5. Unsent
  BY <1>1, <1>4 DEF Unsent
<1> QED
  BY <1>1, <1>2, <1>3, <1>5, EarlySteady

LEMMA ResolveSteady ==
    ASSUME Typed, NEW d \in Deciders,
           Resolve(d) \/ \E answer \in {"approved", "declined"} : ReadToDecide(d, answer),
           NEW s \in Sends
    PROVE  Steady(s)
<1>1. /\ row \in Row /\ world \in World /\ at \in [Actors -> Attempt]
      /\ d \in Actors /\ at[d] \in Attempt /\ trouble \in Nat /\ stalls \in Nat
  BY ApprovalConstants DEF Typed, TypeOK, Actors
<1>u. ASSUME UNCHANGED <<row, world, stalls>>, trouble' \in {trouble, trouble + 1}
      PROVE  Unsent
  BY <1>1, <1>u DEF Unsent
<1>2. ASSUME NEW answer \in {"approved", "declined"}, ReadToDecide(d, answer) PROVE Steady(s)
  <2> DEFINE x == [at[d] EXCEPT !.pc = "decide", !.closure = IF lapsed THEN "expired" ELSE answer]
  <2>1. x.pc = "decide" /\ x.slow = at[d].slow
    BY <1>1 DEF Attempt
  <2>2. at' = [at EXCEPT ![d] = x]
    BY <1>2 DEF ReadToDecide
  <2> HIDE DEF x
  <2>3. at[d].pc = "idle" /\ UNCHANGED <<row, world, stalls, trouble>>
    BY <1>2, IdleIsAttempt DEF ReadToDecide
  <2> QED
    BY <1>1, <1>u, <2>1, <2>2, <2>3, EarlySteady
<1>3. CASE CloseByDecision(d)
  <2>1. at[d].pc = "decide" /\ UNCHANGED <<world, stalls, trouble>>
    BY <1>3 DEF CloseByDecision
  <2>2. CASE Decidable(d)
    BY <1>1, <1>3, <2>1, <2>2, CloseSteady DEF CloseByDecision
  <2>3. CASE ~Decidable(d)
    <3>1. at' = [at EXCEPT ![d] = Idle] /\ UNCHANGED row
      BY <1>3, <2>3 DEF CloseByDecision
    <3> QED
      BY <1>1, <1>u, <2>1, <3>1, RestSteady
  <2> QED
    BY <2>2, <2>3
<1>4. CASE RunCall(d)
  <2>1. PICK e : at' = [at EXCEPT ![d] = [@ EXCEPT !.pc = "record",
                                                   !.ending = e,
                                                   !.unsaved = TRUE]]
    BY <1>4 DEF RunCall
  <2> DEFINE x == [at[d] EXCEPT !.pc = "record", !.ending = e, !.unsaved = TRUE]
  <2>2. at' = [at EXCEPT ![d] = x]
    BY <2>1
  <2>3. x.pc = "record" /\ x.slow = at[d].slow
    BY <1>1 DEF Attempt
  <2> HIDE DEF x
  <2>4. at[d].pc = "run" /\ UNCHANGED <<row, stalls, trouble>>
    BY <1>4 DEF RunCall
  <2>5. world'.wakes = world.wakes /\ world'.receipts = world.receipts
    BY <1>1, <1>4 DEF RunCall, World
  <2>6. Unsent
    BY <1>1, <2>4, <2>5 DEF Unsent
  <2> QED
    BY <1>1, <2>2, <2>3, <2>4, <2>6, EarlySteady
<1>5. CASE RecordCall(d) \/ SaveFails(d)
  <2>1. PICK pc \in {"save", "trail"} : at' = [at EXCEPT ![d].pc = pc]
    BY <1>5 DEF RecordCall, SaveFails, Go
  <2>2. at[d].pc \in {"record", "save"}
    BY <1>5 DEF RecordCall, SaveFails
  <2>3. Unsent
    <3>1. row' = row /\ stalls' = stalls /\ trouble' \in {trouble, trouble + 1}
      BY <1>5 DEF RecordCall, SaveFails, Trouble
    <3>2. world'.wakes = world.wakes /\ world'.receipts = world.receipts
      BY <1>1, <1>5 DEF RecordCall, SaveFails, World
    <3> QED
      BY <1>1, <3>1, <3>2 DEF Unsent
  <2>4. at[d].pc \notin Past(s) /\ pc \notin Zone(s) /\ at[d].pc # "stamp receipt"
    BY <2>1, <2>2, ZonesAreDisjoint
  <2> QED
    BY <1>1, <2>1, <2>3, <2>4, GoSteady
<1>6. CASE RecordFails(d)
  <2>1. PICK e, w : at' = [at EXCEPT ![d] = [@ EXCEPT !.pc = "save",
                                                      !.ending = e,
                                                      !.unwritten = w]]
    BY <1>6 DEF RecordFails
  <2> DEFINE x == [at[d] EXCEPT !.pc = "save", !.ending = e, !.unwritten = w]
  <2>2. at' = [at EXCEPT ![d] = x]
    BY <2>1
  <2>3. x.pc = "save" /\ x.slow = at[d].slow
    BY <1>1 DEF Attempt
  <2> HIDE DEF x
  <2>4. at[d].pc = "record" /\ UNCHANGED <<row, world, stalls>> /\ trouble' = trouble + 1
    BY <1>6 DEF RecordFails, Trouble
  <2> QED
    BY <1>1, <1>u, <2>2, <2>3, <2>4, EarlySteady
<1>7. CASE SaveEnding(d)
  <2> DEFINE x == [at[d] EXCEPT !.pc = "trail", !.unsaved = FALSE]
  <2>1. at' = [at EXCEPT ![d] = x]
    BY <1>7 DEF SaveEnding
  <2>2. x.pc = "trail" /\ x.slow = at[d].slow
    BY <1>1 DEF Attempt
  <2> HIDE DEF x
  <2>3. at[d].pc = "save" /\ UNCHANGED <<world, stalls, trouble>>
    BY <1>7 DEF SaveEnding
  <2>4. row'.sent = row.sent /\ row'.lease = row.lease
    BY <1>1, <1>7 DEF SaveEnding, Saved, Row
  <2>5. Unsent
    BY <1>1, <2>3, <2>4 DEF Unsent
  <2> QED
    BY <1>1, <2>1, <2>2, <2>3, <2>5, EarlySteady
<1> QED
  BY <1>2, <1>3, <1>4, <1>5, <1>6, <1>7 DEF Resolve

LEMMA SweepSteady ==
    ASSUME Typed, NEW w \in Sweepers, Sweep(w), NEW s \in Sends
    PROVE  Steady(s)
<1>1. /\ row \in Row /\ world \in World /\ at \in [Actors -> Attempt]
      /\ w \in Actors /\ at[w] \in Attempt /\ trouble \in Nat /\ stalls \in Nat
  BY ApprovalConstants DEF Typed, TypeOK, Actors
<1>u. ASSUME UNCHANGED <<row, world, stalls>>, trouble' \in {trouble, trouble + 1}
      PROVE  Unsent
  BY <1>1, <1>u DEF Unsent
<1>2. CASE SweepExpired(w)
  <2>1. at[w].pc = "idle" /\ UNCHANGED <<world, stalls, trouble>>
    BY <1>2, IdleIsAttempt DEF SweepExpired
  <2> QED
    BY <1>1, <1>2, <2>1, CloseSteady DEF SweepExpired
<1>3. CASE FindIncomplete(w)
  <2> DEFINE x == [at[w] EXCEPT !.pc = "found", !.seen = row.retries]
  <2>1. at' = [at EXCEPT ![w] = x]
    BY <1>3 DEF FindIncomplete
  <2>2. x.pc = "found" /\ x.slow = at[w].slow
    BY <1>1 DEF Attempt
  <2> HIDE DEF x
  <2>3. at[w].pc = "idle" /\ UNCHANGED <<row, world, stalls, trouble>>
    BY <1>3, IdleIsAttempt DEF FindIncomplete
  <2> QED
    BY <1>1, <1>u, <2>1, <2>2, <2>3, EarlySteady
<1>4. CASE ClaimRetry(w)
  <2>0. at[w].pc = "found" /\ UNCHANGED <<world, stalls, trouble>>
    BY <1>4 DEF ClaimRetry
  <2>1. CASE Incomplete /\ row.retries = at[w].seen
    <3> DEFINE x == [Idle EXCEPT
                       !.pc = IF ClosureOf(row) = "approved" /\ row.ending = "none"
                              THEN "settle" ELSE "trail",
                       !.closure = ClosureOf(row), !.ending = row.ending,
                       !.unwritten = row.unwritten, !.runs = row.parked]
    <3>1. at' = [at EXCEPT ![w] = x]
      BY <1>4, <2>1 DEF ClaimRetry
    <3>2. x.pc \in {"settle", "trail"} /\ ~x.slow
      BY DEF Idle
    <3> HIDE DEF x
    <3>3. row'.sent = row.sent /\ row'.lease = row.lease
      BY <1>1, <1>4, <2>1 DEF ClaimRetry, Row
    <3>4. Unsent
      BY <1>1, <2>0, <3>3 DEF Unsent
    <3> QED
      BY <1>1, <2>0, <3>1, <3>2, <3>4, EarlySteady
  <2>2. CASE ~(Incomplete /\ row.retries = at[w].seen)
    <3>1. at' = [at EXCEPT ![w] = Idle] /\ UNCHANGED row
      BY <1>4, <2>2 DEF ClaimRetry
    <3> QED
      BY <1>1, <1>u, <2>0, <3>1, RestSteady
  <2> QED
    BY <2>1, <2>2
<1>5. CASE ReadTrail(w)
  <2>1. PICK e : at' = [at EXCEPT ![w] = [@ EXCEPT !.pc = "settling", !.ending = e]]
    BY <1>5 DEF ReadTrail
  <2> DEFINE x == [at[w] EXCEPT !.pc = "settling", !.ending = e]
  <2>2. at' = [at EXCEPT ![w] = x]
    BY <2>1
  <2>3. x.pc = "settling" /\ x.slow = at[w].slow
    BY <1>1 DEF Attempt
  <2> HIDE DEF x
  <2>4. at[w].pc = "settle" /\ UNCHANGED <<row, world, stalls, trouble>>
    BY <1>5 DEF ReadTrail
  <2> QED
    BY <1>1, <1>u, <2>2, <2>3, <2>4, EarlySteady
<1>6. CASE ReadTrailFails(w)
  <2>1. /\ at[w].pc = "settle" /\ UNCHANGED <<row, world, stalls>> /\ trouble' = trouble + 1
        /\ at' = [at EXCEPT ![w] = Idle]
    BY <1>6 DEF ReadTrailFails, Trouble
  <2> QED
    BY <1>1, <1>u, <2>1, RestSteady
<1>7. CASE Settle(w)
  <2>0. at[w].pc = "settling" /\ UNCHANGED <<world, stalls, trouble>>
    BY <1>7 DEF Settle
  <2>1. PICK x : at' = [at EXCEPT ![w] = x] /\ x.pc = "trail" /\ x.slow = at[w].slow
    <3>1. CASE Unsettled
      <4>1. at' = [at EXCEPT ![w] = [at[w] EXCEPT !.pc = "trail"]]
        BY <1>7, <3>1 DEF Settle, Go
      <4>2. [at[w] EXCEPT !.pc = "trail"].pc = "trail"
            /\ [at[w] EXCEPT !.pc = "trail"].slow = at[w].slow
        BY <1>1 DEF Attempt
      <4> QED
        BY <4>1, <4>2
    <3>2. CASE ~Unsettled
      <4> DEFINE y == [at[w] EXCEPT !.pc = "trail", !.ending = row.ending,
                                    !.unwritten = row.unwritten]
      <4>1. at' = [at EXCEPT ![w] = y]
        BY <1>7, <3>2 DEF Settle
      <4>2. y.pc = "trail" /\ y.slow = at[w].slow
        BY <1>1 DEF Attempt
      <4> HIDE DEF y
      <4> QED
        BY <4>1, <4>2
    <3> QED
      BY <3>1, <3>2
  <2>2. row'.sent = row.sent /\ row'.lease = row.lease
    BY <1>1, <1>7 DEF Settle, Row
  <2>3. Unsent
    BY <1>1, <2>0, <2>2 DEF Unsent
  <2> QED
    BY <1>1, <2>0, <2>1, <2>3, EarlySteady
<1> QED
  BY <1>2, <1>3, <1>4, <1>5, <1>6, <1>7 DEF Sweep

(* No attempt moves.                                                         *)
LEMMA StillSteady ==
    ASSUME UNCHANGED at, Unsent, NEW s \in Sends
    PROVE  Steady(s)
<1>1. AllLag(s)
  BY DEF AllLag, Lags, Prompt
<1> QED
  BY <1>1, UnsentSteady

LEMMA LapseSteady ==
    ASSUME Typed, NEW t \in Sends, LeaseLapses(t), NEW s \in Sends
    PROVE  Steady(s)
<1>1. /\ row \in Row /\ UNCHANGED <<at, world, stalls, trouble>>
      /\ trouble \in Nat /\ stalls \in Nat
  BY ApprovalConstants DEF Typed, TypeOK, LeaseLapses
<1>2. AllLag(s)
  BY <1>1 DEF AllLag, Lags, Prompt
<1>3. /\ row' = [row EXCEPT !.lease[t] = Nobody]
      /\ row'.sent = row.sent /\ \A r \in Sends \ {t} : row'.lease[r] = row.lease[r]
  BY <1>1 DEF LeaseLapses, Row
<1>4. ASSUME NEW b \in Actors, Prompt(at[b], t), row.lease[t] = b
      PROVE  FALSE
  <2>1. ~Sending(b, t)
    BY <1>4 DEF LeaseLapses
  <2>2. CASE t = "wake"
    BY <1>4, <2>1, <2>2 DEF Sending, Working, Prompt, Zone
  <2>3. CASE t = "receipt"
    BY <1>4, <2>1, <2>3 DEF Sending, Working, Prompt, Zone
  <2> QED
    BY <2>2, <2>3 DEF Sends
<1>5. \A b \in Actors : Prompt(at'[b], s) /\ row.lease[s] = b => row'.lease[s] = b
  BY <1>1, <1>3, <1>4
<1>6. Count(s)' = Count(s) /\ stalls' >= stalls /\ trouble' >= trouble
  BY <1>1 DEF Count
<1>7. \A b \in Actors : Stamped(at[b]) => Stamped(at'[b])
  BY <1>1
<1> QED
  BY <1>2, <1>3, <1>5, <1>6, <1>7 DEF Steady

LEMMA SlowMoves ==
    ASSUME Typed, NEW a \in Actors, WaitOutlasts(a) \/ (\E t \in Sends : LeaseOutlasted(a, t)),
           NEW s \in Sends
    PROVE  Slows(a, s)
<1>1. row \in Row /\ at \in [Actors -> Attempt] /\ at[a] \in Attempt
  BY DEF Typed, TypeOK
<1>2. ~at[a].slow /\ UNCHANGED <<world, trouble>> /\ stalls' = stalls + 1
  BY DEF WaitOutlasts, LeaseOutlasted, Sending, Working, Stall
<1>3. PICK x : at' = [at EXCEPT ![a] = x] /\ x.slow /\ x.pc = at[a].pc
  <2>1. at' = [at EXCEPT ![a] = [at[a] EXCEPT !.slow = TRUE]]
    BY DEF WaitOutlasts, LeaseOutlasted, Stall
  <2>2. [at[a] EXCEPT !.slow = TRUE].slow /\ [at[a] EXCEPT !.slow = TRUE].pc = at[a].pc
    BY <1>1 DEF Attempt
  <2> QED
    BY <2>1, <2>2
<1>4. row'.sent = row.sent /\ \A b \in Actors \ {a} : row.lease[s] = b => row'.lease[s] = b
  <2>1. CASE WaitOutlasts(a)
    BY <1>1, <2>1 DEF WaitOutlasts, Awaited, Row
  <2>2. ASSUME NEW t \in Sends, LeaseOutlasted(a, t)
        PROVE  row'.sent = row.sent /\ \A b \in Actors \ {a} : row.lease[s] = b => row'.lease[s] = b
    <3>1. row' = [row EXCEPT !.lease[t] = Nobody] /\ row.lease[t] = a
      BY <2>2 DEF LeaseOutlasted, Sending
    <3> QED
      BY <1>1, <3>1 DEF Row
  <2> QED
    BY <2>1, <2>2
<1> QED
  BY <1>2, <1>3, <1>4 DEF Slows

LEMMA SendMoves ==
    ASSUME Typed, [Next]_vars, NEW s \in Sends
    PROVE  SendMove(s)
<1>1. /\ row \in Row /\ world \in World /\ at \in [Actors -> Attempt]
      /\ trouble \in Nat /\ stalls \in Nat
  BY ApprovalConstants DEF Typed, TypeOK
<1>2. CASE UNCHANGED vars
  <2>1. UNCHANGED <<at, row, world, stalls, trouble>>
    BY <1>2 DEF vars
  <2>2. Unsent
    BY <1>1, <2>1 DEF Unsent
  <2> QED
    BY <2>1, <2>2, StillSteady DEF SendMove
<1>3. CASE Propose \/ MootCardless \/ DeadlinePasses \/ WaitPasses
           \/ \E u \in Runs : FindCard(u) \/ ParkOnCard(u)
  <2>1. UNCHANGED at /\ row'.sent = row.sent /\ row'.lease = row.lease
    BY <1>1, <1>3 DEF Propose, PostCard, PostFails, AttachCard, ProposerDies, MootCardless,
                      DeadlinePasses, WaitPasses, Awaited, FindCard, ParkOnCard, Row
  <2>2. world'.wakes = world.wakes /\ world'.receipts = world.receipts
    BY <1>1, <1>3 DEF Propose, PostCard, PostFails, AttachCard, ProposerDies, MootCardless,
                      DeadlinePasses, WaitPasses, Awaited, FindCard, ParkOnCard, World
  <2>3. stalls' \in {stalls, stalls + 1} /\ trouble' \in {trouble, trouble + 1}
    BY <1>3 DEF Propose, PostCard, PostFails, AttachCard, ProposerDies, MootCardless,
                DeadlinePasses, WaitPasses, FindCard, ParkOnCard, Trouble
  <2>4. Unsent
    BY <1>1, <2>1, <2>2, <2>3 DEF Unsent
  <2> QED
    BY <2>1, <2>4, StillSteady DEF SendMove
<1>4. ASSUME NEW a \in Actors, Die(a) PROVE SendMove(s)
  <2>1. UNCHANGED <<row, world, stalls>> /\ trouble' = trouble + 1 /\ at' = [at EXCEPT ![a] = Idle]
    BY <1>4 DEF Die, Trouble
  <2>2. Unsent /\ trouble' > trouble
    BY <1>1, <2>1 DEF Unsent
  <2> QED
    BY <1>1, <2>1, <2>2, RestSteady DEF SendMove
<1>5. ASSUME NEW a \in Actors, WaitOutlasts(a) \/ \E t \in Sends : LeaseOutlasted(a, t)
      PROVE  SendMove(s)
  BY <1>5, SlowMoves DEF SendMove
<1>6. ASSUME NEW t \in Sends, LeaseLapses(t) PROVE SendMove(s)
  BY <1>6, LapseSteady DEF SendMove
<1>7. ASSUME NEW d \in Deciders,
             Resolve(d) \/ \E answer \in {"approved", "declined"} : ReadToDecide(d, answer)
      PROVE  SendMove(s)
  BY <1>7, ResolveSteady DEF SendMove
<1>8. ASSUME NEW w \in Sweepers, Sweep(w) PROVE SendMove(s)
  BY <1>8, SweepSteady DEF SendMove
<1>9. ASSUME NEW a \in Actors, Complete(a) PROVE SendMove(s)
  BY <1>9, CompleteMoves
<1> QED
  BY <1>2, <1>3, <1>4, <1>5, <1>6, <1>7, <1>8, <1>9 DEF Next

-------------------------------------------------------------------------------
LEMMA CountSlow ==
    ASSUME NEW S, NEW T, T \subseteq Actors
    PROVE  /\ Cardinality(T) \in Nat
           /\ S \subseteq T => Cardinality(S) \in Nat /\ Cardinality(S) <= Cardinality(T)
           /\ \A a \in T : S \subseteq T \ {a} =>
                  Cardinality(S) \in Nat /\ Cardinality(S) + 1 <= Cardinality(T)
           /\ \A a \in Actors : S \subseteq T \cup {a} =>
                  Cardinality(S) \in Nat /\ Cardinality(S) <= Cardinality(T) + 1
<1>1. IsFiniteSet(T) /\ Cardinality(T) \in Nat
  BY ApprovalConstants, FS_Subset, FS_CardinalityType
<1>2. ASSUME S \subseteq T
      PROVE  Cardinality(S) \in Nat /\ Cardinality(S) <= Cardinality(T)
  <2>1. IsFiniteSet(S) /\ Cardinality(S) <= Cardinality(T)
    BY <1>1, <1>2, FS_Subset
  <2> QED
    BY <2>1, FS_CardinalityType
<1>3. ASSUME NEW a \in T, S \subseteq T \ {a}
      PROVE  Cardinality(S) \in Nat /\ Cardinality(S) + 1 <= Cardinality(T)
  <2>1. IsFiniteSet(T \ {a}) /\ Cardinality(T \ {a}) = Cardinality(T) - 1
    BY <1>1, FS_RemoveElement
  <2>2. IsFiniteSet(S) /\ Cardinality(S) <= Cardinality(T \ {a})
    BY <1>3, <2>1, FS_Subset
  <2>3. Cardinality(S) \in Nat
    BY <2>2, FS_CardinalityType
  <2> QED
    BY <1>1, <2>1, <2>2, <2>3
<1>4. ASSUME NEW a \in Actors, S \subseteq T \cup {a}
      PROVE  Cardinality(S) \in Nat /\ Cardinality(S) <= Cardinality(T) + 1
  <2>1. /\ IsFiniteSet(T \cup {a})
        /\ Cardinality(T \cup {a}) = Cardinality(T) \/ Cardinality(T \cup {a}) = Cardinality(T) + 1
    BY <1>1, FS_AddElement
  <2>2. IsFiniteSet(S) /\ Cardinality(S) <= Cardinality(T \cup {a})
    BY <1>4, <2>1, FS_Subset
  <2>3. Cardinality(S) \in Nat
    BY <2>2, FS_CardinalityType
  <2> QED
    BY <1>1, <2>1, <2>2, <2>3
<1> QED
  BY <1>1, <1>2, <1>3, <1>4

LEMMA Sums ==
    ASSUME NEW i \in Nat, NEW j \in Nat, NEW m \in Nat, NEW n \in Nat, m >= i, n >= j
    PROVE  /\ m + n \in Nat /\ i + j \in Nat /\ m + n >= i + j
           /\ m + n <= i + j => m = i /\ n = j
  OBVIOUS

LEMMA SteadyKeeps ==
    ASSUME Typed, stalls' \in Nat, trouble' \in Nat,
           NEW s \in Sends, OneSender(s), Budget(s), Steady(s)
    PROVE  OneSender(s)' /\ Budget(s)'
<1>1. /\ Count(s) \in Nat /\ stalls \in Nat /\ trouble \in Nat
      /\ SlowTo(s) \subseteq Actors
  BY ApprovalConstants DEF Typed, TypeOK, World, Count, SlowTo, Sends
<1>2. SlowTo(s)' \subseteq SlowTo(s)
  BY DEF SlowTo, Steady, AllLag, Lags
<1>3. PICK m, n \in Nat : m = Cardinality(SlowTo(s)') /\ n = Cardinality(SlowTo(s)) /\ m <= n
  BY <1>1, <1>2, CountSlow
<1>4. OneSender(s)'
  <2>1. ASSUME NEW b \in Actors, Prompt(at'[b], s)
        PROVE  Prompt(at[b], s) /\ (row'.lease[s] = b \/ s \in row'.sent)
    <3>1. Prompt(at[b], s)
      BY <2>1 DEF Steady, AllLag, Lags
    <3> QED
      BY <2>1, <3>1 DEF Steady, OneSender
  <2> QED
    BY <2>1 DEF OneSender
<1>5. ASSUME Slack(s)' <= Slack(s), Spent(s)
      PROVE  Spent(s)'
  <2>1. stalls' = stalls /\ (s = "receipt" => trouble' = trouble)
    <3>1. stalls' >= stalls /\ trouble' >= trouble
      BY DEF Steady
    <3>2. s = "wake" => stalls' <= stalls
      BY <1>5 DEF Slack
    <3>3. s = "receipt" => stalls' + trouble' <= stalls + trouble
      BY <1>5 DEF Slack
    <3>4. stalls' \in Nat /\ trouble' \in Nat /\ stalls \in Nat /\ trouble \in Nat
      BY <1>1
    <3>5. CASE s = "wake"
      BY <3>1, <3>2, <3>4, <3>5
    <3>6. CASE s = "receipt"
      BY <3>1, <3>3, <3>4, <3>6, Sums
    <3> QED
      BY <3>5, <3>6 DEF Sends
  <2>2. ASSUME NEW b \in Actors, at'[b].pc = Ready(s) PROVE at'[b].slow
    <3>1. SUFFICES ASSUME ~at'[b].slow PROVE FALSE
      OBVIOUS
    <3>2. Ready(s) \in Zone(s)
      BY DEF Ready, Zone, Sends
    <3>3. Prompt(at'[b], s)
      BY <2>2, <3>1, <3>2 DEF Prompt
    <3>4. at[b].pc = Ready(s) /\ ~at[b].slow
      BY <2>2, <3>3 DEF Steady, AllLag, Lags, Prompt
    <3> QED
      BY <1>5, <3>4 DEF Spent
  <2>3. s = "wake" => world'.wakes > 0
    BY <1>5 DEF Spent, Steady, Count
  <2>4. s = "receipt" => "receipt" \in row'.sent \/ \E b \in Actors : Stamped(at'[b])
    BY <1>1, <1>5, <2>1 DEF Spent, Steady
  <2> QED
    BY <2>2, <2>3, <2>4 DEF Spent, Ready
<1>6. /\ Count(s)' = Count(s)
      /\ Slack(s) \in Nat /\ Slack(s)' \in Nat /\ Slack(s)' >= Slack(s)
  <2>1. Count(s)' = Count(s) /\ stalls' >= stalls /\ trouble' >= trouble
    BY DEF Steady
  <2>2. CASE s = "wake"
    BY <1>1, <2>1, <2>2 DEF Slack
  <2>3. CASE s = "receipt"
    <3>2. PICK i, j, k, l \in Nat : /\ i = stalls /\ j = trouble /\ k = stalls' /\ l = trouble'
                                   /\ k >= i /\ l >= j
      BY <1>1, <2>1
    <3>3. Slack(s) = i + j
      BY <2>3, <3>2 DEF Slack
    <3>1. Slack(s)' = k + l
      BY <2>3, <3>2 DEF Slack
    <3>4. k >= i /\ l >= j
      BY <3>2
    <3>5. i + j \in Nat /\ k + l \in Nat /\ k + l >= i + j
      BY <3>4
    <3> QED
      BY <2>1, <3>1, <3>3, <3>5
  <2> QED
    BY <2>2, <2>3 DEF Sends
<1>7. Budget(s)'
  BY <1>1, <1>3, <1>5, <1>6 DEF Budget
<1> QED
  BY <1>4, <1>7

-------------------------------------------------------------------------------
LEMMA SlackTyped ==
    ASSUME Typed, NEW s \in Sends
    PROVE  Slack(s) \in Nat /\ Count(s) \in Nat /\ SlowTo(s) \subseteq Actors
<1>1. stalls \in Nat /\ trouble \in Nat /\ world \in World
  BY ApprovalConstants DEF Typed, TypeOK
<1>2. Slack(s) \in Nat
  BY <1>1 DEF Slack, Sends
<1>3. Count(s) \in Nat
  BY <1>1 DEF Count, World, Sends
<1> QED
  BY <1>2, <1>3 DEF SlowTo

LEMMA TakeKeeps ==
    ASSUME Typed, NEW s \in Sends, OneSender(s), Budget(s), NEW a \in Actors, Takes(a, s)
    PROVE  OneSender(s)' /\ Budget(s)'
<1>1. at \in [Actors -> Attempt] /\ row \in Row
  BY DEF Typed, TypeOK
<1>2. PICK x : /\ at' = [at EXCEPT ![a] = x] /\ x.slow = at[a].slow
               /\ s = "wake" => x.pc # Ready(s)
               /\ s = "receipt" => x.pc # "stamp receipt"
  BY DEF Takes
<1>3. at'[a] = x /\ \A b \in Actors \ {a} : at'[b] = at[b]
  BY <1>1, <1>2
<1>4. \A b \in Actors : ~Prompt(at[b], s)
  BY ApprovalConstants DEF Takes, OneSender
<1>5. OneSender(s)'
  <2>1. \A b \in Actors : Prompt(at'[b], s) => b = a
    BY <1>3, <1>4
  <2>2. row'.lease[s] = a
    BY DEF Takes
  <2> QED
    BY <2>1, <2>2 DEF OneSender
<1>6. SlowTo(s)' \subseteq SlowTo(s)
  BY <1>2, <1>3 DEF SlowTo, Takes
<1>7. PICK m, n \in Nat : m = Cardinality(SlowTo(s)') /\ n = Cardinality(SlowTo(s)) /\ m <= n
  BY <1>6, SlackTyped, CountSlow
<1>8. Count(s)' = Count(s) /\ Slack(s)' = Slack(s)
  BY DEF Takes, Count, Slack
<1>9. ASSUME Spent(s) PROVE Spent(s)'
  <2>1. s = "wake"
    <3>1. ASSUME NEW b \in Actors, Stamped(at[b]), s = "receipt" PROVE FALSE
      <4>1. Prompt(at[b], s)
        BY <3>1 DEF Stamped, Prompt, Zone
      <4> QED
        BY <1>4, <4>1
    <3> QED
      BY <1>9, <3>1 DEF Spent, Takes, Sends
  <2>2. \A b \in Actors : at'[b].pc = Ready(s) => at'[b].slow
    BY <1>2, <1>3, <1>9, <2>1 DEF Spent
  <2>3. world' = world
    BY DEF Takes
  <2> QED
    BY <1>9, <2>1, <2>2, <2>3 DEF Spent, Ready
<1> QED
  BY <1>5, <1>7, <1>8, <1>9, SlackTyped DEF Budget

LEMMA CheckKeeps ==
    ASSUME Typed, OneSender("wake"), Budget("wake"), NEW a \in Actors, Checks(a)
    PROVE  OneSender("wake")' /\ Budget("wake")'
<1>1. at \in [Actors -> Attempt] /\ "wake" \in Sends
  BY DEF Typed, TypeOK, Sends
<1>2. PICK x : at' = [at EXCEPT ![a] = x] /\ x.slow = at[a].slow /\ x.pc = "send wake"
  BY DEF Checks
<1>3. at'[a] = x /\ \A b \in Actors \ {a} : at'[b] = at[b]
  BY <1>1, <1>2
<1>4. \A b \in Actors : Prompt(at'[b], "wake") => Prompt(at[b], "wake")
  <2>1. Prompt(x, "wake") => Prompt(at[a], "wake")
    BY <1>2 DEF Prompt, Zone, Checks
  <2> QED
    BY <1>3, <2>1
<1>5. OneSender("wake")'
  BY <1>4 DEF OneSender, Checks
<1>6. SlowTo("wake")' \subseteq SlowTo("wake")
  BY <1>2, <1>3 DEF SlowTo, Checks, Past
<1>7. PICK m, n \in Nat : m = Cardinality(SlowTo("wake")') /\ n = Cardinality(SlowTo("wake")) /\ m <= n
  BY <1>1, <1>6, SlackTyped, CountSlow
<1>8. Count("wake")' = Count("wake") /\ Slack("wake")' = Slack("wake")
  BY DEF Checks, Count, Slack
<1>9. ~Spent("wake")
  <2>1. Spent("wake") => world.wakes > 0
    BY DEF Spent
  <2>2. world.wakes = 0
    BY DEF Checks
  <2> QED
    BY <2>1, <2>2
<1> QED
  BY <1>1, <1>5, <1>7, <1>8, <1>9, SlackTyped DEF Budget

LEMMA GoKeeps ==
    ASSUME Typed, NEW s \in Sends, OneSender(s), Budget(s), NEW a \in Actors, Goes(a, s)
    PROVE  OneSender(s)' /\ Budget(s)'
<1>1. at \in [Actors -> Attempt]
  BY DEF Typed, TypeOK
<1>2. PICK x : /\ at' = [at EXCEPT ![a] = x] /\ x.slow = at[a].slow
               /\ x.pc = IF s = "wake" THEN "stamp wake" ELSE "stamp receipt"
  BY DEF Goes
<1>3. at'[a] = x /\ \A b \in Actors \ {a} : at'[b] = at[b]
  BY <1>1, <1>2
<1>4. /\ at[a].pc = Ready(s) /\ Ready(s) \in Zone(s) /\ Ready(s) \notin Past(s)
      /\ x.pc \in Past(s) /\ x.pc # Ready(s)
  BY <1>2 DEF Goes, Ready, Zone, Past, AfterReceipt, Sends
<1>5. OneSender(s)'
  <2>1. \A b \in Actors : Prompt(at'[b], s) => Prompt(at[b], s)
    <3>1. Prompt(x, s) => Prompt(at[a], s)
      BY <1>2, <1>4 DEF Prompt
    <3> QED
      BY <1>3, <3>1
  <2> QED
    BY <2>1 DEF OneSender, Goes
<1>6. SlowTo(s)' \subseteq SlowTo(s) \ {a}
  BY <1>3, <1>4 DEF SlowTo
<1>7. Count(s)' = Count(s) + 1 /\ Slack(s)' = Slack(s)
  BY DEF Goes, Slack
<1>8. /\ Count(s)' > 0
      /\ s = "wake" => world'.wakes > 0
  <2>1. Count(s)' > 0
    BY <1>7, SlackTyped
  <2> QED
    BY <2>1 DEF Count
<1>9. CASE at[a].slow
  <2>1. a \in SlowTo(s)
    BY <1>4, <1>9 DEF SlowTo
  <2>2. PICK m, n \in Nat : m = Cardinality(SlowTo(s)') /\ n = Cardinality(SlowTo(s)) /\ m + 1 <= n
    BY <1>6, <2>1, SlackTyped, CountSlow
  <2>3. ASSUME Spent(s) PROVE Spent(s)'
    <3>1. \A b \in Actors : at'[b].pc = Ready(s) => at'[b].slow
      BY <1>3, <1>4, <2>3 DEF Spent
    <3>2. s = "receipt" => "receipt" \in row'.sent \/ \E b \in Actors : Stamped(at'[b])
      <4>1. SUFFICES ASSUME s = "receipt", NEW b \in Actors, Stamped(at[b])
                     PROVE  Stamped(at'[b])
        BY <2>3 DEF Spent, Goes
      <4>2. b # a
        BY <1>4, <4>1 DEF Stamped, Ready
      <4> QED
        BY <1>3, <4>1, <4>2
    <3> QED
      BY <1>8, <3>1, <3>2 DEF Spent, Ready
  <2> QED
    BY <1>5, <1>7, <2>2, <2>3, SlackTyped DEF Budget
<1>10. CASE ~at[a].slow
  <2>1. ~Spent(s)
    BY <1>4, <1>10 DEF Spent
  <2>2. SlowTo(s)' \subseteq SlowTo(s)
    BY <1>6
  <2>3. PICK m, n \in Nat : m = Cardinality(SlowTo(s)') /\ n = Cardinality(SlowTo(s)) /\ m <= n
    BY <2>2, SlackTyped, CountSlow
  <2>4. Spent(s)'
    <3>1. ASSUME NEW b \in Actors, at'[b].pc = Ready(s), ~at'[b].slow PROVE FALSE
      <4>1. b # a /\ at[b].pc = Ready(s) /\ ~at[b].slow
        BY <1>3, <1>4, <3>1
      <4>2. Prompt(at[b], s) /\ Prompt(at[a], s)
        BY <1>4, <1>10, <4>1 DEF Prompt
      <4> QED
        BY <4>1, <4>2 DEF OneSender
    <3>2. s = "receipt" => Stamped(at'[a])
      BY <1>2, <1>3, <1>10 DEF Stamped
    <3> QED
      BY <1>8, <3>1, <3>2 DEF Spent, Ready
  <2> QED
    BY <1>5, <1>7, <2>1, <2>3, <2>4, SlackTyped DEF Budget
<1> QED
  BY <1>9, <1>10

LEMMA SlowKeeps ==
    ASSUME Typed, NEW s \in Sends, OneSender(s), Budget(s), NEW a \in Actors, Slows(a, s)
    PROVE  OneSender(s)' /\ Budget(s)'
<1>1. at \in [Actors -> Attempt] /\ stalls \in Nat /\ trouble \in Nat
  BY ApprovalConstants DEF Typed, TypeOK
<1>2. PICK x : at' = [at EXCEPT ![a] = x] /\ x.slow /\ x.pc = at[a].pc
  BY DEF Slows
<1>3. at'[a] = x /\ \A b \in Actors \ {a} : at'[b] = at[b]
  BY <1>1, <1>2
<1>4. OneSender(s)'
  <2>1. \A b \in Actors : Prompt(at'[b], s) => b # a /\ Prompt(at[b], s)
    BY <1>2, <1>3 DEF Prompt
  <2> QED
    BY <2>1 DEF OneSender, Slows
<1>5. Count(s)' = Count(s) /\ Slack(s)' = Slack(s) + 1
  <2>1. Count(s)' = Count(s)
    BY DEF Slows, Count
  <2>2. stalls' = stalls + 1 /\ trouble' = trouble
    BY DEF Slows
  <2>3. CASE s = "wake"
    BY <2>1, <2>2, <2>3 DEF Slack
  <2>4. CASE s = "receipt"
    <3>1. Slack(s)' = (stalls + 1) + trouble /\ Slack(s) = stalls + trouble
      BY <2>2, <2>4 DEF Slack
    <3> QED
      BY <1>1, <2>1, <3>1
  <2> QED
    BY <2>1, <2>3, <2>4 DEF Sends
<1>6. SlowTo(s)' \subseteq SlowTo(s) \cup {a}
  BY <1>3 DEF SlowTo
<1>7. PICK m, n \in Nat : m = Cardinality(SlowTo(s)') /\ n = Cardinality(SlowTo(s)) /\ m <= n + 1
  BY <1>6, SlackTyped, CountSlow
<1>8. ASSUME m = n + 1, Spent(s) PROVE Spent(s)'
  <2>1. \A b \in Actors : at'[b].pc = Ready(s) => at'[b].slow
    BY <1>2, <1>3, <1>8 DEF Spent
  <2>2. UNCHANGED world /\ row'.sent = row.sent
    BY DEF Slows
  <2>3. s = "receipt" => "receipt" \in row'.sent \/ \E b \in Actors : Stamped(at'[b])
    <3>1. SUFFICES ASSUME s = "receipt", NEW b \in Actors, Stamped(at[b])
                   PROVE  Stamped(at'[b])
      BY <1>8, <2>2 DEF Spent
    <3>2. CASE b = a
      <4>1. at[a].pc = "stamp receipt"
        BY <3>1, <3>2 DEF Stamped
      <4>2. a \notin SlowTo(s)'
        <5>1. "stamp receipt" \in Past(s)
          BY <3>1 DEF Past
        <5> QED
          BY <1>2, <1>3, <4>1, <5>1 DEF SlowTo
      <4>3. SlowTo(s)' \subseteq SlowTo(s)
        BY <1>6, <4>2
      <4>4. Cardinality(SlowTo(s)') <= Cardinality(SlowTo(s))
        BY <4>3, SlackTyped, CountSlow
      <4> QED
        BY <1>7, <1>8, <4>4
    <3>3. CASE b # a
      BY <1>3, <3>1, <3>3
    <3> QED
      BY <3>2, <3>3
  <2> QED
    BY <1>8, <2>1, <2>2, <2>3 DEF Spent, Ready
<1> QED
  BY <1>4, <1>5, <1>7, <1>8, SlackTyped DEF Budget

-------------------------------------------------------------------------------
LEMMA InitSending1 == Init => Sending1
<1> SUFFICES ASSUME Init, NEW s \in Sends PROVE OneSender(s) /\ Budget(s)
  BY DEF Sending1
<1>1. \A a \in Actors : ~at[a].slow /\ at[a].pc = "idle"
  BY DEF Init, Idle
<1>2. OneSender(s)
  BY <1>1 DEF OneSender, Prompt, Zone
<1>3. SlowTo(s) = {}
  BY <1>1 DEF SlowTo
<1>4. Count(s) = 0 /\ Slack(s) = 0
  BY DEF Init, Count, Slack
<1>5. Cardinality(SlowTo(s)) = 0
  BY <1>3, FS_EmptySet
<1> QED
  BY <1>2, <1>4, <1>5 DEF Budget

LEMMA StepSending1 ==
    ASSUME Typed, Typed', Sending1, [Next]_vars
    PROVE  Sending1'
<1> SUFFICES ASSUME NEW s \in Sends PROVE OneSender(s)' /\ Budget(s)'
  BY DEF Sending1
<1>1. OneSender(s) /\ Budget(s)
  BY DEF Sending1
<1>2. stalls' \in Nat /\ trouble' \in Nat
  BY ApprovalConstants DEF Typed, TypeOK
<1>3. CASE Steady(s)
  BY <1>1, <1>2, <1>3, SteadyKeeps
<1>4. ASSUME s = "wake", NEW a \in Actors, Checks(a) PROVE OneSender(s)' /\ Budget(s)'
  BY <1>1, <1>4, CheckKeeps
<1>5. ASSUME NEW a \in Actors, Takes(a, s) \/ Goes(a, s) \/ Slows(a, s)
      PROVE  OneSender(s)' /\ Budget(s)'
  <2>1. CASE Takes(a, s)
    BY <1>1, <2>1, TakeKeeps
  <2>2. CASE Goes(a, s)
    BY <1>1, <2>2, GoKeeps
  <2>3. CASE Slows(a, s)
    BY <1>1, <2>3, SlowKeeps
  <2> QED
    BY <1>5, <2>1, <2>2, <2>3
<1> QED
  BY <1>3, <1>4, <1>5, SendMoves DEF SendMove

LEMMA BudgetKept == ASSUME Typed, Sending1 PROVE SentAgainOnlyInTrouble
<1>1. "wake" \in Sends /\ "receipt" \in Sends
  BY DEF Sends
<1>2. Budget("wake") /\ Budget("receipt")
  BY <1>1 DEF Sending1
<1>3. PICK m, n \in Nat : m = Cardinality(SlowTo("wake")) /\ n = Cardinality(SlowTo("receipt"))
  BY <1>1, SlackTyped, CountSlow
<1>4. stalls \in Nat /\ trouble \in Nat /\ world.wakes \in Nat /\ world.receipts \in Nat
  BY ApprovalConstants DEF Typed, TypeOK, World
<1>5. world.wakes + m <= stalls + 1
  BY <1>2, <1>3 DEF Budget, Count, Slack
<1>6. world.receipts + n <= (stalls + trouble) + 1
  BY <1>2, <1>3 DEF Budget, Count, Slack
<1> QED
  BY <1>4, <1>5, <1>6 DEF SentAgainOnlyInTrouble

(* A second wake costs an attempt that was outlasted, and a second receipt   *)
(* line that or a crash or failure, in every execution.                      *)
THEOREM SentAgainIsPaidFor == Spec => []SentAgainOnlyInTrouble
<1>1. Init => Typed /\ Sending1
  BY InitTyped, InitSending1
<1>2. Typed /\ Sending1 /\ [Next]_vars => (Typed /\ Sending1)'
  BY StepTyped, StepSending1
<1>3. Typed /\ Sending1 => SentAgainOnlyInTrouble
  BY BudgetKept
<1> QED
  BY <1>1, <1>2, <1>3, PTL DEF Spec

-------------------------------------------------------------------------------
(* What a closed row owes.  An ending that is passed on has its trail row,   *)
(* or an owner that will still write it: that is what lets an attempt with   *)
(* no failure stamp the row done, on the ending it closed on.                *)

Denials == {"declined", "expired"}

Standing(ending, unwritten) ==
    \/ ending \in world.trail
    \/ unwritten /\ ending = "ran"
    \/ ending \in {"none", "unknown", "broker_error"} \cup Denials

AfterTrails == {"claim receipt", "send receipt", "stamp receipt"} \cup AfterReceipt

RowOwes ==
    /\ row.done => /\ Closed /\ row.ending \in world.trail /\ world.wakes > 0
                   /\ Approved => world.receipts > 0
    /\ "wake" \in row.sent => world.wakes > 0
    /\ "receipt" \in row.sent => world.receipts > 0
    /\ row.unwritten => row.ending = "ran"
    /\ Standing(row.ending, row.unwritten)
    /\ Approved => row.ending \notin Denials /\ world.trail \cap Denials = {}
    /\ ~Closed => row.ending = "none" /\ world.trail = {}
    /\ row.decision = "approved" => row.status = "resolved"

AttemptOwes(x) ==
    /\ Resting(x) => x.ending = "none" /\ ~x.unwritten
    /\ ~Resting(x) => x.closure = ClosureOf(row)
    /\ x.unwritten => x.ending = "ran" /\ x.pc \notin {"run", "record", "settle", "settling"}
    /\ x.pc \in {"save", "settling", "trail"} => Standing(x.ending, x.unwritten)
    /\ Approved => x.ending \notin Denials
    /\ x.pc \in AfterTrails /\ ~x.failed => x.ending \in world.trail
    /\ x.pc \in AfterReceipt /\ ~x.failed /\ Approved => world.receipts > 0
    /\ x.pc = "stamp receipt" => world.receipts > 0
    /\ x.pc = "stamp wake" => world.wakes > 0
    /\ x.pc = "finish" /\ ~x.failed => world.wakes > 0

Owing == RowOwes /\ \A a \in Actors : AttemptOwes(at[a])

-------------------------------------------------------------------------------
(* The world only gains, and the row keeps its decision.                     *)
Gains ==
    /\ row'.status = row.status /\ row'.decision = row.decision
    /\ world.trail \subseteq world'.trail
    /\ world.wakes > 0 => world'.wakes > 0
    /\ world.receipts > 0 => world'.receipts > 0

LEMMA GainsOwes ==
    ASSUME Gains, NEW x, AttemptOwes(x)
    PROVE  AttemptOwes(x)'
<1>1. Approved' = Approved /\ ClosureOf(row)' = ClosureOf(row)
  BY DEF Gains, Approved, ClosureOf
<1>2. Standing(x.ending, x.unwritten) => Standing(x.ending, x.unwritten)'
  BY DEF Gains, Standing
<1> QED
  BY <1>1, <1>2 DEF Gains, AttemptOwes

LEMMA OneOwes ==
    ASSUME at \in [Actors -> Attempt], Gains, \A b \in Actors : AttemptOwes(at[b]),
           NEW a \in Actors, NEW x, at' = [at EXCEPT ![a] = x], AttemptOwes(x)'
    PROVE  (\A b \in Actors : AttemptOwes(at[b]))'
<1> SUFFICES ASSUME NEW b \in Actors PROVE AttemptOwes(at[b])'
  OBVIOUS
<1>1. CASE b = a
  <2>1. at'[b] = x
    BY <1>1
  <2> QED
    BY <2>1 DEF AttemptOwes
<1>2. CASE b # a
  <2>1. PICK y : y = at[b] /\ y = at'[b]
    BY <1>2
  <2>2. AttemptOwes(y)
    BY <2>1
  <2>3. AttemptOwes(y)'
    BY <2>2, GainsOwes
  <2> QED
    BY <2>1, <2>3 DEF AttemptOwes
<1> QED
  BY <1>1, <1>2

LEMMA IdleOwes == AttemptOwes(Idle)
  BY DEF AttemptOwes, Idle, Resting, AfterTrails, AfterReceipt, Denials

LEMMA RestOwes ==
    ASSUME at \in [Actors -> Attempt], Gains, \A b \in Actors : AttemptOwes(at[b]),
           NEW a \in Actors, at' = [at EXCEPT ![a] = Idle]
    PROVE  (\A b \in Actors : AttemptOwes(at[b]))'
<1>1. PICK x : x = Idle
  OBVIOUS
<1>2. AttemptOwes(x)
  BY <1>1, IdleOwes
<1>3. AttemptOwes(x)'
  BY <1>2, GainsOwes
<1> QED
  BY <1>1, <1>3, OneOwes

LEMMA StillOwes ==
    ASSUME Gains, \A b \in Actors : AttemptOwes(at[b]), UNCHANGED at
    PROVE  (\A b \in Actors : AttemptOwes(at[b]))'
<1> SUFFICES ASSUME NEW b \in Actors PROVE AttemptOwes(at[b])'
  OBVIOUS
<1>1. PICK y : y = at[b] /\ y = at'[b]
  OBVIOUS
<1>2. AttemptOwes(y)'
  BY <1>1, GainsOwes
<1> QED
  BY <1>1, <1>2 DEF AttemptOwes

(* Where a step takes an attempt.                                            *)
LEMMA GoTo ==
    ASSUME at \in [Actors -> Attempt], NEW a \in Actors, NEW pc, Go(a, pc)
    PROVE  \E x : /\ at' = [at EXCEPT ![a] = x]
                  /\ x.pc = pc /\ x.closure = at[a].closure /\ x.ending = at[a].ending
                  /\ x.unwritten = at[a].unwritten /\ x.failed = at[a].failed
<1>1. at[a] \in Attempt
  OBVIOUS
<1> DEFINE x == [at[a] EXCEPT !.pc = pc]
<1>2. /\ x.pc = pc /\ x.closure = at[a].closure /\ x.ending = at[a].ending
      /\ x.unwritten = at[a].unwritten /\ x.failed = at[a].failed
  BY <1>1 DEF Attempt
<1>3. at' = [at EXCEPT ![a] = x]
  BY DEF Go
<1> HIDE DEF x
<1> QED
  BY <1>2, <1>3

LEMMA FailTo ==
    ASSUME at \in [Actors -> Attempt], NEW a \in Actors, NEW pc, Fail(a, pc)
    PROVE  \E x : /\ at' = [at EXCEPT ![a] = x]
                  /\ x.pc = pc /\ x.closure = at[a].closure /\ x.ending = at[a].ending
                  /\ x.unwritten = at[a].unwritten /\ x.failed
<1>1. at[a] \in Attempt
  OBVIOUS
<1> DEFINE x == [at[a] EXCEPT !.pc = pc, !.failed = TRUE]
<1>2. /\ x.pc = pc /\ x.closure = at[a].closure /\ x.ending = at[a].ending
      /\ x.unwritten = at[a].unwritten /\ x.failed
  BY <1>1 DEF Attempt
<1>3. at' = [at EXCEPT ![a] = x]
  BY DEF Fail
<1> HIDE DEF x
<1> QED
  BY <1>2, <1>3

(* An attempt at work closed a row, and a wake or a receipt that was sent    *)
(* stays sent.                                                               *)
LEMMA AtWork ==
    ASSUME Typed, Fate, Owing, NEW a \in Actors, ~Resting(at[a])
    PROVE  /\ Closed /\ AttemptOwes(at[a])
           /\ at[a].closure = "approved" <=> Approved
<1>1. Closed /\ AttemptOwes(at[a])
  BY DEF Fate, Owing
<1>2. at[a].closure = ClosureOf(row)
  BY <1>1 DEF AttemptOwes
<1> QED
  BY <1>1, <1>2 DEF ClosureOf, Approved, Closed, Owing, RowOwes

-------------------------------------------------------------------------------
LEMMA TrailOwes ==
    ASSUME Typed, Fate, Owing, NEW a \in Actors, Trail(a) \/ TrailFails(a)
    PROVE  Owing'
<1>1. /\ row \in Row /\ world \in World /\ at \in [Actors -> Attempt] /\ at[a] \in Attempt
      /\ at[a].ending \in Endings
  BY DEF Typed, TypeOK, Carries, Carrying, Writing, Trail, TrailFails
<1>2. at[a].pc = "trail" /\ ~Resting(at[a])
  BY DEF Trail, TrailFails, Resting
<1>3. /\ Closed /\ AttemptOwes(at[a])
      /\ at[a].closure = "approved" <=> Approved
  BY <1>2, AtWork
<1>4. PICK T : /\ world' = [world EXCEPT !.trail = world.trail \cup T] /\ T \subseteq Owed(a)
               /\ Trail(a) => T = Owed(a)
  BY DEF Trail, TrailFails
<1>5. /\ world'.trail = world.trail \cup T
      /\ world'.wakes = world.wakes /\ world'.receipts = world.receipts
  BY <1>1, <1>4 DEF World
<1>6. Owed(a) \subseteq {at[a].ending}
  BY DEF Owed
<1>7. Trail(a) => at[a].ending \in world'.trail
  <2>1. SUFFICES ASSUME Trail(a), at[a].closure = "approved", ~at[a].unwritten,
                        at[a].ending \notin {"unknown", "broker_error"}
                 PROVE  at[a].ending \in world.trail
    BY <1>4, <1>5 DEF Owed
  <2>2. Standing(at[a].ending, at[a].unwritten) /\ at[a].ending \notin Denials
    BY <1>2, <1>3, <2>1 DEF AttemptOwes
  <2>3. at[a].ending # "none"
    BY <1>1 DEF Endings, LiveEndings
  <2> QED
    BY <2>1, <2>2, <2>3 DEF Standing
<1>8. /\ row'.status = row.status /\ row'.decision = row.decision /\ row'.sent = row.sent
      /\ \/ row'.ending = row.ending /\ row'.done = row.done
            /\ \/ row'.unwritten = row.unwritten
               \/ Trail(a) /\ at[a].unwritten /\ ~row'.unwritten
         \/ Trail(a) /\ row'.ending = at[a].ending /\ ~row'.done /\ ~row'.unwritten
  <2>1. \/ row' = row
        \/ Trail(a) /\ at[a].unwritten /\ row' = [row EXCEPT !.unwritten = FALSE]
        \/ Trail(a) /\ row' = [row EXCEPT !.ending = at[a].ending, !.unwritten = FALSE, !.done = FALSE]
    BY DEF Trail, TrailFails, Saved
  <2> QED
    BY <1>1, <2>1 DEF Row
<1>9. Gains
  BY <1>5, <1>8 DEF Gains
<1>10. RowOwes'
  <2>1. RowOwes
    BY DEF Owing
  <2>2. Approved' = Approved /\ Closed' = Closed
    BY <1>8 DEF Approved, Closed
  <2>3. Approved => T \cap Denials = {}
    BY <1>3, <1>4, <1>6 DEF AttemptOwes
  <2>4. CASE row'.ending = row.ending /\ row'.done = row.done /\ row'.unwritten = row.unwritten
    <3>1. Standing(row.ending, row.unwritten)'
      BY <1>5, <2>1, <2>4 DEF RowOwes, Standing
    <3> QED
      BY <1>3, <1>5, <1>8, <2>1, <2>2, <2>3, <2>4, <3>1 DEF RowOwes
  <2>5. CASE row'.ending = row.ending /\ row'.done = row.done
             /\ Trail(a) /\ at[a].unwritten /\ ~row'.unwritten
    <3>1. Standing(row.ending, row.unwritten)'
      <4>1. at[a].ending = "ran"
        BY <1>3, <2>5 DEF AttemptOwes
      <4>2. \/ row.ending \in world.trail \/ row.ending = "ran"
            \/ row.ending \in {"none", "unknown", "broker_error"} \cup Denials
        BY <2>1 DEF RowOwes, Standing
      <4> QED
        BY <1>5, <1>7, <2>5, <4>1, <4>2 DEF Standing
    <3> QED
      BY <1>3, <1>5, <1>8, <2>1, <2>2, <2>3, <2>5, <3>1 DEF RowOwes
  <2>6. CASE Trail(a) /\ row'.ending = at[a].ending /\ ~row'.done /\ ~row'.unwritten
    <3>1. Standing(row.ending, row.unwritten)'
      BY <1>7, <2>6 DEF Standing
    <3>2. Approved => at[a].ending \notin Denials
      BY <1>3 DEF AttemptOwes
    <3> QED
      BY <1>3, <1>5, <1>8, <2>1, <2>2, <2>3, <2>6, <3>1, <3>2 DEF RowOwes
  <2> QED
    BY <1>8, <2>4, <2>5, <2>6
<1>11. PICK x : /\ at' = [at EXCEPT ![a] = x]
                /\ x.pc = AfterTrail(a) /\ x.closure = at[a].closure /\ x.ending = at[a].ending
                /\ x.unwritten => at[a].unwritten
                /\ x.failed \/ Trail(a)
  <2>1. CASE Trail(a)
    <3> DEFINE y == [at[a] EXCEPT !.pc = AfterTrail(a), !.unsaved = FALSE, !.unwritten = FALSE]
    <3>1. y.pc = AfterTrail(a) /\ y.closure = at[a].closure /\ y.ending = at[a].ending /\ ~y.unwritten
      BY <1>1 DEF Attempt
    <3>2. at' = [at EXCEPT ![a] = y]
      BY <2>1 DEF Trail
    <3> HIDE DEF y
    <3> QED
      BY <2>1, <3>1, <3>2
  <2>2. CASE TrailFails(a)
    <3>1. Fail(a, AfterTrail(a))
      BY <2>2 DEF TrailFails
    <3> QED
      BY <1>1, <3>1, FailTo
  <2> QED
    BY <2>1, <2>2
<1>12. AttemptOwes(x)'
  <2>1. /\ x.pc \in {"claim receipt", "claim wake"}
        /\ x.pc = "claim wake" => ~Approved
    BY <1>3, <1>11 DEF AfterTrail
  <2>2. ~Resting(x) /\ ClosureOf(row)' = ClosureOf(row) /\ Approved' = Approved
    BY <1>8, <2>1 DEF Resting, ClosureOf, Approved
  <2>3. x.closure = ClosureOf(row) /\ (x.unwritten => x.ending = "ran")
        /\ (Approved => x.ending \notin Denials)
    BY <1>2, <1>3, <1>11 DEF AttemptOwes
  <2>4. ~x.failed => x.ending \in world'.trail
    BY <1>7, <1>11
  <2> QED
    BY <2>1, <2>2, <2>3, <2>4 DEF AttemptOwes, AfterReceipt, Resting
<1>13. (\A b \in Actors : AttemptOwes(at[b]))'
  BY <1>1, <1>9, <1>11, <1>12, OneOwes DEF Owing
<1> QED
  BY <1>10, <1>13 DEF Owing

(* The row's debts when its ending stands.                                   *)
LEMMA RowStands ==
    ASSUME RowOwes, Gains, world'.trail = world.trail,
           row'.ending = row.ending, row'.unwritten = row.unwritten,
           "wake" \in row'.sent => "wake" \in row.sent \/ world'.wakes > 0,
           "receipt" \in row'.sent => "receipt" \in row.sent \/ world'.receipts > 0,
           row'.done => row.done \/ (/\ Closed /\ row.ending \in world.trail /\ world.wakes > 0
                                     /\ Approved => world.receipts > 0)
    PROVE  RowOwes'
<1>1. Approved' = Approved /\ Closed' = Closed
  BY DEF Gains, Approved, Closed
<1>2. Standing(row.ending, row.unwritten)'
  BY DEF RowOwes, Standing
<1> QED
  BY <1>1, <1>2 DEF RowOwes, Gains

-------------------------------------------------------------------------------
(* An attempt past its trail goes on, with nothing gained but by sending.    *)
LEMMA PastTrailOwes ==
    ASSUME NEW x, NEW y, Gains, AttemptOwes(x), x.pc \in AfterTrails, y.pc \in AfterTrails,
           y.closure = x.closure, y.ending = x.ending, y.unwritten = x.unwritten,
           ~y.failed => ~x.failed,
           y.pc \in AfterReceipt /\ ~y.failed =>
               x.pc \in AfterReceipt \/ world'.receipts > 0,
           y.pc = "stamp receipt" => world'.receipts > 0,
           y.pc = "stamp wake" => world'.wakes > 0,
           y.pc = "finish" /\ ~y.failed => world'.wakes > 0
    PROVE  AttemptOwes(y)'
<1>1. Approved' = Approved /\ ClosureOf(row)' = ClosureOf(row)
  BY DEF Gains, Approved, ClosureOf
<1>2. ~Resting(x) /\ ~Resting(y)
  BY DEF Resting, AfterTrails, AfterReceipt
<1>3. /\ y.closure = ClosureOf(row)
      /\ y.unwritten => y.ending = "ran"
      /\ Approved => y.ending \notin Denials
      /\ ~y.failed => y.ending \in world.trail
      /\ y.pc \in AfterReceipt /\ ~y.failed /\ Approved => world'.receipts > 0
  BY <1>2 DEF AttemptOwes, Gains
<1> QED
  BY <1>1, <1>2, <1>3 DEF AttemptOwes, AfterTrails, AfterReceipt, Gains

(* An attempt under a lease, or with no send to do.                          *)
LEMMA LeaseOwes ==
    ASSUME Typed, Owing, NEW a \in Actors, NEW s \in Sends,
           \/ ClaimSend(a, s) \/ PassSend(a, s) \/ SendFails(a, s)
           \/ StampSend(a, s) \/ StampFails(a, s)
    PROVE  Owing'
<1>1. /\ row \in Row /\ world \in World /\ at \in [Actors -> Attempt] /\ at[a] \in Attempt
      /\ RowOwes /\ AttemptOwes(at[a])
  BY DEF Typed, TypeOK, Owing
<1>2. UNCHANGED world
  BY DEF ClaimSend, PassSend, SendFails, StampSend, StampFails
<1>3. /\ row'.status = row.status /\ row'.decision = row.decision /\ row'.done = row.done
      /\ row'.ending = row.ending /\ row'.unwritten = row.unwritten
      /\ row'.sent = row.sent \/ (StampSend(a, s) /\ row'.sent = row.sent \cup {s})
  <2>1. \/ row' = row \/ \E b : row' = [row EXCEPT !.lease[s] = b]
        \/ /\ StampSend(a, s)
           /\ row' = [row EXCEPT !.sent = @ \cup {s}, !.lease[s] = Nobody]
    BY DEF ClaimSend, PassSend, SendFails, AfterFailedSend, StampSend, StampFails
  <2> QED
    BY <1>1, <2>1 DEF Row
<1>4. Gains
  BY <1>2, <1>3 DEF Gains
<1>5. StampSend(a, s) => /\ s = "wake" => world.wakes > 0
                         /\ s = "receipt" => world.receipts > 0
  BY <1>1 DEF StampSend, Stamping, AttemptOwes, Sends
<1>6. RowOwes'
  BY <1>1, <1>2, <1>3, <1>4, <1>5, RowStands
<1>7. PICK y : /\ at' = [at EXCEPT ![a] = y]
               /\ y.closure = at[a].closure /\ y.ending = at[a].ending
               /\ y.unwritten = at[a].unwritten
               /\ \/ /\ ClaimSend(a, s) /\ y.failed = at[a].failed
                     /\ y.pc = IF s = "receipt" THEN "send receipt" ELSE "check wake"
                  \/ /\ PassSend(a, s) /\ y.pc = AfterSend(s)
                     /\ ~y.failed => ~at[a].failed /\ s \in row.sent
                  \/ (SendFails(a, s) \/ StampFails(a, s)) /\ y.pc = AfterSend(s) /\ y.failed
                  \/ StampSend(a, s) /\ y.pc = AfterSend(s) /\ y.failed = at[a].failed
  <2>1. CASE ClaimSend(a, s)
    <3> DEFINE pc == IF s = "receipt" THEN "send receipt" ELSE "check wake"
    <3>1. Go(a, pc)
      BY <2>1 DEF ClaimSend
    <3> HIDE DEF pc
    <3>2. PICK x : /\ at' = [at EXCEPT ![a] = x]
                   /\ x.pc = pc /\ x.closure = at[a].closure /\ x.ending = at[a].ending
                   /\ x.unwritten = at[a].unwritten /\ x.failed = at[a].failed
      BY <1>1, <3>1, GoTo
    <3> QED
      BY <2>1, <3>2 DEF pc
  <2>2. CASE PassSend(a, s)
    <3> DEFINE x == [at[a] EXCEPT !.pc = AfterSend(s), !.failed = at[a].failed \/ s \notin row.sent]
    <3>1. /\ x.pc = AfterSend(s) /\ x.closure = at[a].closure /\ x.ending = at[a].ending
          /\ x.unwritten = at[a].unwritten /\ x.failed = (at[a].failed \/ s \notin row.sent)
      BY <1>1 DEF Attempt
    <3>2. at' = [at EXCEPT ![a] = x]
      BY <2>2 DEF PassSend
    <3> HIDE DEF x
    <3> QED
      BY <2>2, <3>1, <3>2
  <2>3. CASE SendFails(a, s) \/ StampFails(a, s)
    <3>1. Fail(a, AfterSend(s))
      BY <2>3 DEF SendFails, StampFails
    <3>2. PICK x : /\ at' = [at EXCEPT ![a] = x]
                   /\ x.pc = AfterSend(s) /\ x.closure = at[a].closure
                   /\ x.ending = at[a].ending /\ x.unwritten = at[a].unwritten
                   /\ x.failed
      BY <1>1, <3>1, FailTo
    <3> QED
      BY <2>3, <3>2
  <2>4. CASE StampSend(a, s)
    <3>1. Go(a, AfterSend(s))
      BY <2>4 DEF StampSend
    <3>2. PICK x : /\ at' = [at EXCEPT ![a] = x]
                   /\ x.pc = AfterSend(s) /\ x.closure = at[a].closure
                   /\ x.ending = at[a].ending /\ x.unwritten = at[a].unwritten
                   /\ x.failed = at[a].failed
      BY <1>1, <3>1, GoTo
    <3> QED
      BY <2>4, <3>2
  <2> QED
    BY <2>1, <2>2, <2>3, <2>4
<1>9. /\ at[a].pc \in AfterTrails /\ y.pc \in AfterTrails
      /\ s = "wake" => at[a].pc \in AfterReceipt
  <2>1. CASE s = "receipt"
    BY <1>7, <2>1 DEF ClaimSend, PassSend, SendFails, StampSend, StampFails, Claiming, Stamping,
                      AfterSend, AfterTrails, AfterReceipt
  <2>2. CASE s = "wake"
    BY <1>7, <2>2 DEF ClaimSend, PassSend, SendFails, StampSend, StampFails, Claiming, Stamping,
                      AfterSend, AfterTrails, AfterReceipt
  <2> QED
    BY <2>1, <2>2 DEF Sends
<1>10. /\ y.pc \notin {"stamp receipt", "stamp wake"}
       /\ s = "receipt" => y.pc # "finish"
       /\ s = "receipt" /\ y.pc \in AfterReceipt /\ ~y.failed => world'.receipts > 0
       /\ y.pc = "finish" /\ ~y.failed => world'.wakes > 0
  <2>1. CASE ClaimSend(a, s) /\ y.pc = IF s = "receipt" THEN "send receipt" ELSE "check wake"
    BY <2>1 DEF AfterReceipt
  <2>2. CASE y.pc = AfterSend(s)
    <3>1. ~y.failed => s \in row.sent \/ StampSend(a, s)
      BY <1>7, <2>2 DEF ClaimSend, AfterSend, Sends
    <3>2. ~y.failed => /\ s = "wake" => world.wakes > 0
                       /\ s = "receipt" => world.receipts > 0
      BY <1>1, <1>5, <3>1 DEF RowOwes
    <3> QED
      BY <1>2, <2>2, <3>2 DEF AfterSend, Sends
  <2> QED
    BY <1>7, <2>1, <2>2
<1>11. ~y.failed => ~at[a].failed
  BY <1>7
<1>12. AttemptOwes(y)'
  <2>1. PICK x : x = at[a]
    OBVIOUS
  <2>2. y.pc \in AfterReceipt /\ ~y.failed => x.pc \in AfterReceipt \/ world'.receipts > 0
    BY <1>9, <1>10, <2>1 DEF Sends
  <2> QED
    BY <1>1, <1>4, <1>7, <1>9, <1>10, <1>11, <2>1, <2>2, PastTrailOwes
<1>13. (\A b \in Actors : AttemptOwes(at[b]))'
  BY <1>1, <1>4, <1>7, <1>12, OneOwes DEF Owing
<1> QED
  BY <1>6, <1>13 DEF Owing

-------------------------------------------------------------------------------
LEMMA SendOwes ==
    ASSUME Typed, Owing, NEW a \in Actors, CheckWake(a) \/ SendWake(a) \/ SendReceipt(a)
    PROVE  Owing'
<1>1. /\ row \in Row /\ world \in World /\ at \in [Actors -> Attempt]
      /\ world.wakes \in Nat /\ world.receipts \in Nat
      /\ RowOwes /\ AttemptOwes(at[a])
  BY DEF Typed, TypeOK, Owing, World
<1>2. UNCHANGED row
  BY DEF CheckWake, SendWake, SendReceipt
<1>3. /\ world'.trail = world.trail
      /\ world'.wakes = IF SendWake(a) THEN world.wakes + 1 ELSE world.wakes
      /\ world'.receipts = IF SendReceipt(a) THEN world.receipts + 1 ELSE world.receipts
  BY <1>1 DEF CheckWake, SendWake, SendReceipt, World
<1>4. Gains
  BY <1>1, <1>2, <1>3 DEF Gains
<1>5. RowOwes'
  BY <1>1, <1>2, <1>3, <1>4, RowStands
<1>6. PICK pc : /\ Go(a, pc)
                /\ \/ /\ at[a].pc = "check wake" /\ pc \in {"stamp wake", "send wake"}
                      /\ pc = "stamp wake" => world'.wakes > 0
                   \/ at[a].pc = "send wake" /\ pc = "stamp wake" /\ world'.wakes > 0
                   \/ at[a].pc = "send receipt" /\ pc = "stamp receipt" /\ world'.receipts > 0
  <2>1. CASE CheckWake(a)
    <3>1. UNCHANGED world
      BY <2>1 DEF CheckWake
    <3>2. CASE Woken
      BY <2>1, <3>1, <3>2 DEF CheckWake, Woken
    <3>3. CASE ~Woken
      <4>1. Go(a, "send wake") /\ at[a].pc = "check wake"
        BY <2>1, <3>3 DEF CheckWake
      <4>2. PICK pc : pc = "send wake"
        OBVIOUS
      <4>3. Go(a, pc) /\ pc \in {"stamp wake", "send wake"} /\ pc # "stamp wake"
        BY <4>1, <4>2
      <4> QED
        BY <4>1, <4>3
    <3> QED
      BY <3>2, <3>3
  <2>2. CASE SendWake(a)
    <3>1. world'.wakes > 0
      BY <1>1, <1>3, <2>2
    <3>2. Go(a, "stamp wake") /\ at[a].pc = "send wake"
      BY <2>2 DEF SendWake
    <3> QED
      BY <3>1, <3>2
  <2>3. CASE SendReceipt(a)
    <3>1. world'.receipts > 0
      BY <1>1, <1>3, <2>3
    <3>2. Go(a, "stamp receipt") /\ at[a].pc = "send receipt"
      BY <2>3 DEF SendReceipt
    <3> QED
      BY <3>1, <3>2
  <2> QED
    BY <2>1, <2>2, <2>3
<1>7. PICK y : /\ at' = [at EXCEPT ![a] = y]
               /\ y.pc = pc /\ y.closure = at[a].closure /\ y.ending = at[a].ending
               /\ y.unwritten = at[a].unwritten /\ y.failed = at[a].failed
  BY <1>1, <1>6, GoTo
<1>8. AttemptOwes(y)'
  <2>1. PICK x : x = at[a]
    OBVIOUS
  <2>2. /\ x.pc \in AfterTrails /\ y.pc \in AfterTrails /\ y.pc # "finish"
        /\ y.pc \in AfterReceipt => x.pc \in AfterReceipt
    BY <1>6, <1>7, <2>1 DEF AfterTrails, AfterReceipt
  <2>3. /\ y.pc = "stamp receipt" => world'.receipts > 0
        /\ y.pc = "stamp wake" => world'.wakes > 0
    BY <1>6, <1>7
  <2> QED
    BY <1>1, <1>4, <1>7, <2>1, <2>2, <2>3, PastTrailOwes
<1>9. (\A b \in Actors : AttemptOwes(at[b]))'
  BY <1>1, <1>4, <1>7, <1>8, OneOwes DEF Owing
<1> QED
  BY <1>5, <1>9 DEF Owing

(* The done stamp.                                                           *)
LEMMA FinishOwes ==
    ASSUME Typed, Fate, Owing, NEW a \in Actors, Finish(a) \/ CardFails(a)
    PROVE  Owing'
<1>1. /\ row \in Row /\ at \in [Actors -> Attempt] /\ RowOwes
  BY DEF Typed, TypeOK, Owing
<1>2. at[a].pc = "finish" /\ ~Resting(at[a])
  BY DEF Finish, CardFails, Resting
<1>3. Closed /\ AttemptOwes(at[a])
  BY <1>2, AtWork
<1>4. UNCHANGED world /\ at' = [at EXCEPT ![a] = Idle]
  BY DEF Finish, CardFails
<1>5. /\ row'.status = row.status /\ row'.decision = row.decision /\ row'.sent = row.sent
      /\ row'.ending = row.ending /\ row'.unwritten = row.unwritten
      /\ row'.done => row.done \/ Stampable(a)
  <2>1. row' = row \/ (Stampable(a) /\ row' = [row EXCEPT !.done = TRUE])
    BY DEF Finish, CardFails
  <2> QED
    BY <1>1, <2>1 DEF Row
<1>6. Gains
  BY <1>4, <1>5 DEF Gains
<1>7. Stampable(a) => /\ row.ending \in world.trail /\ world.wakes > 0
                      /\ Approved => world.receipts > 0
  BY <1>2, <1>3 DEF Stampable, AttemptOwes, AfterTrails, AfterReceipt
<1>8. RowOwes'
  BY <1>1, <1>3, <1>4, <1>5, <1>6, <1>7, RowStands
<1> QED
  BY <1>1, <1>4, <1>6, <1>8, RestOwes DEF Owing

LEMMA CompleteOwes ==
    ASSUME Typed, Fate, Owing, NEW a \in Actors, Complete(a)
    PROVE  Owing'
<1>1. CASE Trail(a) \/ TrailFails(a)
  BY <1>1, TrailOwes
<1>2. CASE CheckWake(a) \/ SendWake(a) \/ SendReceipt(a)
  BY <1>2, SendOwes
<1>3. ASSUME NEW s \in Sends,
             \/ ClaimSend(a, s) \/ PassSend(a, s) \/ SendFails(a, s)
             \/ StampSend(a, s) \/ StampFails(a, s)
      PROVE  Owing'
  BY <1>3, LeaseOwes
<1>4. CASE Finish(a) \/ CardFails(a)
  BY <1>4, FinishOwes
<1> QED
  BY <1>1, <1>2, <1>3, <1>4 DEF Complete

(* A row that closes: every attempt but the closer is at rest.               *)
LEMMA CloseOwes ==
    ASSUME Typed, Fate, Owing, Open, UNCHANGED world,
           NEW a \in Actors, NEW closure \in {"approved", "declined", "expired"}, Close(a, closure)
    PROVE  Owing'
<1>1. /\ row \in Row /\ world \in World /\ at \in [Actors -> Attempt]
      /\ RowOwes /\ \A b \in Actors : AttemptOwes(at[b])
  BY DEF Typed, TypeOK, Owing
<1>2. ~Closed /\ ~row.done /\ ~row.unwritten /\ world.trail = {}
  <2>1. ~Closed
    BY DEF Open, Closed
  <2> QED
    BY <1>1, <2>1 DEF RowOwes
<1>3. /\ row'.status = IF closure = "expired" THEN "expired" ELSE "resolved"
      /\ row'.decision = IF closure = "expired" THEN "none" ELSE closure
      /\ row'.ending = EndingOf(closure) /\ row'.done = row.done
      /\ row'.sent = row.sent /\ row'.unwritten = row.unwritten
  BY <1>1 DEF Close, Row
<1>4. /\ Closed' /\ ClosureOf(row)' = closure
      /\ closure = "approved" <=> Approved'
  BY <1>3 DEF Closed, ClosureOf, Approved
<1>5. /\ Standing(EndingOf(closure), FALSE)'
      /\ EndingOf(closure) \in {"none"} \cup Denials
      /\ closure = "approved" => EndingOf(closure) \notin Denials
  BY DEF Standing, EndingOf, Denials
<1>6. RowOwes'
  <2>1. Standing(row.ending, row.unwritten)'
    BY <1>3, <1>5 DEF Standing
  <2> QED
    BY <1>1, <1>2, <1>3, <1>4, <1>5, <2>1 DEF RowOwes, Denials
<1>7. PICK x : /\ at' = [at EXCEPT ![a] = x]
               /\ x.pc = IF closure = "approved" THEN "run" ELSE "trail"
               /\ x.closure = closure /\ x.ending = EndingOf(closure) /\ ~x.unwritten
  <2> DEFINE y == [Idle EXCEPT !.pc = IF closure = "approved" THEN "run" ELSE "trail",
                               !.closure = closure, !.ending = EndingOf(closure),
                               !.runs = row.parked]
  <2>1. /\ y.pc = IF closure = "approved" THEN "run" ELSE "trail"
        /\ y.closure = closure /\ y.ending = EndingOf(closure) /\ ~y.unwritten
    BY DEF Idle
  <2>2. at' = [at EXCEPT ![a] = y]
    BY DEF Close
  <2> HIDE DEF y
  <2> QED
    BY <2>1, <2>2
<1>8. AttemptOwes(x)'
  <2>1. ~Resting(x) /\ x.pc \in {"run", "trail"}
    BY <1>7 DEF Resting
  <2>2. Standing(x.ending, x.unwritten)'
    BY <1>5, <1>7 DEF Standing
  <2> QED
    BY <1>4, <1>5, <1>7, <2>1, <2>2 DEF AttemptOwes, AfterTrails, AfterReceipt
<1>9. ASSUME NEW b \in Actors, b # a PROVE AttemptOwes(at[b])'
  <2>1. PICK y : y = at[b] /\ y = at'[b]
    BY <1>7, <1>9
  <2>2. Resting(y) /\ AttemptOwes(y)
    BY <1>1, <1>2, <2>1 DEF Fate
  <2>3. y.ending = "none" /\ ~y.unwritten
    BY <2>2 DEF AttemptOwes
  <2>4. AttemptOwes(y)'
    BY <2>2, <2>3 DEF AttemptOwes, Resting, AfterTrails, AfterReceipt, Denials
  <2> QED
    BY <2>1, <2>4 DEF AttemptOwes
<1>10. AttemptOwes(at[a])'
  <2>1. at'[a] = x
    BY <1>1, <1>7
  <2> QED
    BY <1>8, <2>1 DEF AttemptOwes
<1> QED
  BY <1>6, <1>9, <1>10 DEF Owing

-------------------------------------------------------------------------------
(* An attempt moves and the row and the world stand still.                   *)
LEMMA MoveOwes ==
    ASSUME Typed, Owing, NEW a \in Actors, NEW x, UNCHANGED <<row, world>>,
           at' = [at EXCEPT ![a] = x], AttemptOwes(x)
    PROVE  Owing'
<1>1. at \in [Actors -> Attempt] /\ RowOwes
  BY DEF Typed, TypeOK, Owing
<1>2. Gains
  BY DEF Gains
<1>3. AttemptOwes(x)'
  BY <1>2, GainsOwes
<1>4. RowOwes'
  BY <1>1, <1>2, RowStands
<1> QED
  BY <1>1, <1>2, <1>3, <1>4, OneOwes DEF Owing

LEMMA AnswerOwes ==
    ASSUME Typed, Fate, Owing, NEW d \in Deciders, RunCall(d) \/ RecordCall(d) \/ RecordFails(d)
    PROVE  Owing'
<1>1. /\ row \in Row /\ world \in World /\ at \in [Actors -> Attempt]
      /\ d \in Actors /\ at[d] \in Attempt /\ RowOwes /\ AttemptOwes(at[d])
      /\ at[d].pc = "record" => at[d].ending \in Answers
  BY DEF Typed, TypeOK, Actors, Owing, Carries, Carrying
<1>2. at[d].pc \in {"run", "record"} /\ ~Resting(at[d])
  BY DEF RunCall, RecordCall, RecordFails, Resting
<1>3. Closed /\ at[d].closure = ClosureOf(row) /\ ~at[d].unwritten
  BY <1>1, <1>2, AtWork DEF AttemptOwes
<1>4. UNCHANGED row
  BY DEF RunCall, RecordCall, RecordFails
<1>5. PICK T : /\ T \subseteq {at[d].ending} /\ (T # {} => at[d].pc = "record")
               /\ RecordCall(d) => at[d].ending \in T
               /\ world'.trail = world.trail \cup T
               /\ world'.wakes = world.wakes /\ world'.receipts = world.receipts
  <2>1. CASE RunCall(d)
    <3>1. world' = world \/ world' = [world EXCEPT !.asked = @ + 1]
      BY <2>1 DEF RunCall
    <3>4. PICK T : T = {}
      OBVIOUS
    <3>2. /\ T \subseteq {at[d].ending} /\ world'.trail = world.trail \cup T
          /\ world'.wakes = world.wakes /\ world'.receipts = world.receipts
      BY <1>1, <3>1, <3>4 DEF World
    <3>3. ~RecordCall(d)
      BY <2>1 DEF RunCall, RecordCall
    <3> QED
      BY <3>2, <3>3, <3>4
  <2>2. CASE RecordCall(d)
    <3>1. /\ world'.trail = world.trail \cup {at[d].ending} /\ at[d].pc = "record"
          /\ world'.wakes = world.wakes /\ world'.receipts = world.receipts
      BY <1>1, <2>2 DEF RecordCall, World
    <3> QED
      BY <3>1
  <2>3. CASE RecordFails(d)
    <3>4. PICK T : T = {}
      OBVIOUS
    <3>1. /\ T \subseteq {at[d].ending} /\ world' = world
          /\ world'.trail = world.trail \cup T
      BY <2>3, <3>4 DEF RecordFails
    <3>2. CASE RecordCall(d)
      BY <2>2, <3>2
    <3>3. CASE ~RecordCall(d)
      BY <3>1, <3>3, <3>4
    <3> QED
      BY <3>2, <3>3
  <2> QED
    BY <2>1, <2>2, <2>3
<1>6. Gains
  BY <1>4, <1>5 DEF Gains
<1>7. Approved => at[d].ending \notin Denials
  BY <1>1 DEF AttemptOwes
<1>8. RowOwes'
  <2>1. Approved' = Approved /\ Closed' = Closed
    BY <1>4 DEF Approved, Closed
  <2>2. Standing(row.ending, row.unwritten)'
    BY <1>1, <1>4, <1>5 DEF RowOwes, Standing
  <2> QED
    BY <1>1, <1>3, <1>4, <1>5, <1>7, <2>1, <2>2 DEF RowOwes
<1>9. PICK x : /\ at' = [at EXCEPT ![d] = x]
               /\ x.closure = at[d].closure
               /\ x.pc \in {"record", "save"}
               /\ x.ending \in Answers \cup {"broker_error", "unknown"}
               /\ x.unwritten => x.ending = "ran" /\ x.pc = "save"
               /\ x.pc = "save" => Standing(x.ending, x.unwritten)'
  <2>1. CASE RunCall(d)
    <3>1. PICK ending \in Answers :
               at' = [at EXCEPT ![d] = [@ EXCEPT !.pc = "record", !.ending = ending, !.unsaved = TRUE]]
      BY <2>1 DEF RunCall, Answers
    <3> DEFINE y == [at[d] EXCEPT !.pc = "record", !.ending = ending, !.unsaved = TRUE]
    <3>2. /\ y.closure = at[d].closure /\ y.pc = "record" /\ y.ending = ending
          /\ y.unwritten = at[d].unwritten
      BY <1>1 DEF Attempt
    <3>3. at' = [at EXCEPT ![d] = y]
      BY <3>1
    <3> HIDE DEF y
    <3> QED
      BY <1>3, <3>2, <3>3
  <2>2. CASE RecordCall(d)
    <3>1. at[d].pc = "record" /\ Go(d, "save")
      BY <2>2 DEF RecordCall
    <3>2. PICK y : /\ at' = [at EXCEPT ![d] = y]
                   /\ y.pc = "save" /\ y.closure = at[d].closure /\ y.ending = at[d].ending
                   /\ y.unwritten = at[d].unwritten /\ y.failed = at[d].failed
      BY <1>1, <3>1, GoTo
    <3>3. Standing(y.ending, y.unwritten)'
      BY <1>5, <2>2, <3>2 DEF Standing
    <3> QED
      BY <1>1, <1>3, <3>1, <3>2, <3>3
  <2>3. CASE RecordFails(d)
    <3> DEFINE y == [at[d] EXCEPT !.pc = "save", !.ending = SelfRecorded(at[d].ending),
                                  !.unwritten = (at[d].ending = "ran")]
    <3>1. /\ y.closure = at[d].closure /\ y.pc = "save"
          /\ y.ending = SelfRecorded(at[d].ending)
          /\ y.unwritten = (at[d].ending = "ran")
      BY <1>1 DEF Attempt
    <3>2. at' = [at EXCEPT ![d] = y]
      BY <2>3 DEF RecordFails
    <3> HIDE DEF y
    <3>3. at[d].ending \in Answers
      BY <1>1, <2>3 DEF RecordFails
    <3>4. PICK z : z = y
      OBVIOUS
    <3>5. \/ z.ending = "ran" /\ z.unwritten
          \/ z.ending \in {"broker_error", "unknown"} /\ ~z.unwritten
      BY <3>1, <3>3, <3>4 DEF SelfRecorded, Answers
    <3>6. Standing(z.ending, z.unwritten)'
      BY <3>5 DEF Standing
    <3> QED
      BY <3>1, <3>2, <3>4, <3>5, <3>6 DEF Answers
  <2> QED
    BY <2>1, <2>2, <2>3
<1>10. AttemptOwes(x)'
  <2>1. /\ ~Resting(x) /\ x.closure = ClosureOf(row)' /\ x.ending \notin Denials
        /\ x.pc \notin AfterTrails \cup AfterReceipt
    BY <1>3, <1>4, <1>9 DEF Resting, ClosureOf, Denials, Answers, AfterTrails, AfterReceipt
  <2> QED
    BY <1>9, <2>1 DEF AttemptOwes
<1> QED
  BY <1>1, <1>6, <1>8, <1>9, <1>10, OneOwes DEF Owing

LEMMA SaveOwes ==
    ASSUME Typed, Fate, Owing, NEW d \in Deciders, SaveEnding(d) \/ SaveFails(d)
    PROVE  Owing'
<1>1. /\ row \in Row /\ at \in [Actors -> Attempt]
      /\ d \in Actors /\ at[d] \in Attempt /\ RowOwes
  BY DEF Typed, TypeOK, Actors, Owing
<1>2. at[d].pc = "save" /\ ~Resting(at[d]) /\ UNCHANGED world
  BY DEF SaveEnding, SaveFails, Resting
<1>3. Closed /\ AttemptOwes(at[d])
  BY <1>1, <1>2, AtWork
<1>4. PICK x : /\ at' = [at EXCEPT ![d] = x]
               /\ x.pc = "trail" /\ x.closure = at[d].closure /\ x.ending = at[d].ending
               /\ x.unwritten = at[d].unwritten
  <2>1. CASE SaveEnding(d)
    <3> DEFINE y == [at[d] EXCEPT !.pc = "trail", !.unsaved = FALSE]
    <3>1. /\ y.pc = "trail" /\ y.closure = at[d].closure /\ y.ending = at[d].ending
          /\ y.unwritten = at[d].unwritten
      BY <1>1 DEF Attempt
    <3>2. at' = [at EXCEPT ![d] = y]
      BY <2>1 DEF SaveEnding
    <3> HIDE DEF y
    <3> QED
      BY <3>1, <3>2
  <2>2. CASE SaveFails(d)
    <3>1. Go(d, "trail")
      BY <2>2 DEF SaveFails
    <3>2. PICK y : /\ at' = [at EXCEPT ![d] = y]
                   /\ y.pc = "trail" /\ y.closure = at[d].closure /\ y.ending = at[d].ending
                   /\ y.unwritten = at[d].unwritten /\ y.failed = at[d].failed
      BY <1>1, <3>1, GoTo
    <3> QED
      BY <3>2
  <2> QED
    BY <2>1, <2>2
<1>5. AttemptOwes(x)
  <2>1. ~Resting(x) /\ x.pc \notin AfterTrails \cup AfterReceipt
    BY <1>4 DEF Resting, AfterTrails, AfterReceipt
  <2> QED
    BY <1>2, <1>3, <1>4, <2>1 DEF AttemptOwes
<1>6. CASE SaveFails(d)
  <2>1. UNCHANGED row
    BY <1>6 DEF SaveFails
  <2> QED
    BY <1>1, <1>2, <1>4, <1>5, <2>1, MoveOwes
<1>7. CASE SaveEnding(d)
  <2>1. /\ row'.status = row.status /\ row'.decision = row.decision /\ row'.sent = row.sent
        /\ row'.ending = at[d].ending /\ row'.unwritten = at[d].unwritten /\ ~row'.done
    BY <1>1, <1>7 DEF SaveEnding, Saved, Row
  <2>2. Gains
    BY <1>2, <2>1 DEF Gains
  <2>3. Approved' = Approved /\ Closed' = Closed
    BY <2>1 DEF Approved, Closed
  <2>4. Standing(row.ending, row.unwritten)'
    BY <1>2, <1>3, <2>1 DEF AttemptOwes, Standing
  <2>5. RowOwes'
    BY <1>1, <1>2, <1>3, <2>1, <2>3, <2>4 DEF RowOwes, AttemptOwes
  <2>6. AttemptOwes(x)'
    BY <1>5, <2>2, GainsOwes
  <2> QED
    BY <1>1, <1>4, <2>2, <2>5, <2>6, OneOwes DEF Owing
<1> QED
  BY <1>6, <1>7

-------------------------------------------------------------------------------
LEMMA ResolveOwes ==
    ASSUME Typed, Fate, Owing, NEW d \in Deciders,
           Resolve(d) \/ \E answer \in {"approved", "declined"} : ReadToDecide(d, answer)
    PROVE  Owing'
<1>1. /\ at \in [Actors -> Attempt] /\ d \in Actors /\ at[d] \in Attempt
      /\ RowOwes /\ AttemptOwes(at[d])
  BY DEF Typed, TypeOK, Actors, Owing
<1>2. ASSUME NEW answer \in {"approved", "declined"}, ReadToDecide(d, answer) PROVE Owing'
  <2> DEFINE y == [at[d] EXCEPT !.pc = "decide", !.closure = IF lapsed THEN "expired" ELSE answer]
  <2>1. y.pc = "decide" /\ y.ending = at[d].ending /\ y.unwritten = at[d].unwritten
    BY <1>1 DEF Attempt
  <2>2. at' = [at EXCEPT ![d] = y] /\ UNCHANGED <<row, world>> /\ at[d] = Idle
    BY <1>2 DEF ReadToDecide
  <2> HIDE DEF y
  <2>3. y.ending = "none" /\ ~y.unwritten
    BY <2>1, <2>2 DEF Idle
  <2>4. AttemptOwes(y)
    BY <2>1, <2>3 DEF AttemptOwes, Resting, AfterTrails, AfterReceipt, Denials
  <2>5. PICK x : x = y
    OBVIOUS
  <2> QED
    BY <1>1, <2>2, <2>4, <2>5, MoveOwes
<1>3. CASE CloseByDecision(d)
  <2>1. CASE Decidable(d)
    <3>1. Open /\ UNCHANGED world /\ Close(d, at[d].closure) /\ at[d].pc = "decide"
      BY <1>3, <2>1 DEF CloseByDecision, Decidable
    <3>2. at[d].closure \in {"approved", "declined", "expired"}
      BY <1>1, <3>1 DEF Typed, Carries, Carrying, Attempt
    <3>3. PICK closure \in {"approved", "declined", "expired"} : closure = at[d].closure
      BY <3>2
    <3> QED
      BY <1>1, <3>1, <3>3, CloseOwes
  <2>2. CASE ~Decidable(d)
    <3>1. UNCHANGED <<row, world>> /\ at' = [at EXCEPT ![d] = Idle]
      BY <1>3, <2>2 DEF CloseByDecision
    <3> QED
      BY <1>1, <3>1, IdleOwes, MoveOwes
  <2> QED
    BY <2>1, <2>2
<1>4. CASE RunCall(d) \/ RecordCall(d) \/ RecordFails(d)
  BY <1>4, AnswerOwes
<1>5. CASE SaveEnding(d) \/ SaveFails(d)
  BY <1>5, SaveOwes
<1> QED
  BY <1>2, <1>3, <1>4, <1>5 DEF Resolve

LEMMA SettleOwes ==
    ASSUME Typed, Fate, Owing, NEW w \in Sweepers, Settle(w)
    PROVE  Owing'
<1>1. /\ row \in Row /\ world \in World /\ at \in [Actors -> Attempt]
      /\ w \in Actors /\ at[w] \in Attempt /\ RowOwes
  BY DEF Typed, TypeOK, Actors, Owing
<1>2. at[w].pc = "settling" /\ ~Resting(at[w]) /\ UNCHANGED world
  BY DEF Settle, Resting
<1>3. Closed /\ AttemptOwes(at[w])
  BY <1>1, <1>2, AtWork
<1>4. CASE Unsettled
  <2>1. row' = [row EXCEPT !.ending = at[w].ending] /\ Go(w, "trail")
    BY <1>4 DEF Settle
  <2>2. PICK x : /\ at' = [at EXCEPT ![w] = x]
                 /\ x.pc = "trail" /\ x.closure = at[w].closure /\ x.ending = at[w].ending
                 /\ x.unwritten = at[w].unwritten /\ x.failed = at[w].failed
    BY <1>1, <2>1, GoTo
  <2>3. /\ row'.status = row.status /\ row'.decision = row.decision /\ row'.sent = row.sent
        /\ row'.ending = at[w].ending /\ row'.unwritten = row.unwritten /\ row'.done = row.done
    BY <1>1, <2>1 DEF Row
  <2>4. Gains
    BY <1>2, <2>3 DEF Gains
  <2>5. ~row.unwritten /\ ~row.done
    <3>1. "none" \notin world.trail
      BY <1>1 DEF World, Endings, LiveEndings
    <3> QED
      BY <1>1, <1>4, <3>1 DEF RowOwes, Unsettled
  <2>6. ~at[w].unwritten /\ Standing(at[w].ending, at[w].unwritten)
    BY <1>2, <1>3 DEF AttemptOwes
  <2>7. RowOwes'
    <3>1. Standing(row.ending, row.unwritten)'
      BY <1>2, <2>3, <2>5, <2>6 DEF Standing
    <3>2. Approved' = Approved /\ Closed' = Closed
      BY <2>3 DEF Approved, Closed
    <3> QED
      BY <1>1, <1>2, <1>3, <2>3, <2>5, <3>1, <3>2 DEF RowOwes, AttemptOwes
  <2>8. AttemptOwes(x)
    <3>1. ~Resting(x) /\ x.pc \notin AfterTrails \cup AfterReceipt
      BY <2>2 DEF Resting, AfterTrails, AfterReceipt
    <3> QED
      BY <1>2, <1>3, <2>2, <2>6, <3>1 DEF AttemptOwes
  <2>9. AttemptOwes(x)'
    BY <2>4, <2>8, GainsOwes
  <2> QED
    BY <1>1, <2>2, <2>4, <2>7, <2>9, OneOwes DEF Owing
<1>5. CASE ~Unsettled
  <2> DEFINE y == [at[w] EXCEPT !.pc = "trail", !.ending = row.ending, !.unwritten = row.unwritten]
  <2>1. /\ y.pc = "trail" /\ y.closure = at[w].closure /\ y.ending = row.ending
        /\ y.unwritten = row.unwritten
    BY <1>1 DEF Attempt
  <2>2. at' = [at EXCEPT ![w] = y] /\ UNCHANGED row
    BY <1>5 DEF Settle
  <2> HIDE DEF y
  <2>3. AttemptOwes(y)
    <3>1. ~Resting(y) /\ y.pc \notin AfterTrails \cup AfterReceipt
      BY <2>1 DEF Resting, AfterTrails, AfterReceipt
    <3> QED
      BY <1>1, <1>2, <1>3, <2>1, <3>1 DEF AttemptOwes, RowOwes
  <2>4. PICK x : x = y
    OBVIOUS
  <2> QED
    BY <1>1, <1>2, <2>2, <2>3, <2>4, MoveOwes
<1> QED
  BY <1>4, <1>5

LEMMA RetryOwes ==
    ASSUME Typed, Owing, NEW w \in Sweepers, ClaimRetry(w)
    PROVE  Owing'
<1>1. /\ row \in Row /\ world \in World /\ at \in [Actors -> Attempt]
      /\ w \in Actors /\ RowOwes /\ UNCHANGED world
  BY DEF Typed, TypeOK, Actors, Owing, ClaimRetry
<1>2. CASE Incomplete /\ row.retries = at[w].seen
  <2>1. row' = [row EXCEPT !.retries = @ + 1, !.due = FALSE]
    BY <1>2 DEF ClaimRetry
  <2>2. /\ row'.status = row.status /\ row'.decision = row.decision /\ row'.sent = row.sent
        /\ row'.ending = row.ending /\ row'.unwritten = row.unwritten /\ row'.done = row.done
    BY <1>1, <2>1 DEF Row
  <2>3. Gains
    BY <1>1, <2>2 DEF Gains
  <2>4. RowOwes'
    BY <1>1, <2>2, <2>3, RowStands
  <2>5. PICK x : /\ at' = [at EXCEPT ![w] = x]
                 /\ x.pc = IF ClosureOf(row) = "approved" /\ row.ending = "none"
                           THEN "settle" ELSE "trail"
                 /\ x.closure = ClosureOf(row) /\ x.ending = row.ending
                 /\ x.unwritten = row.unwritten
    <3> DEFINE y == [Idle EXCEPT !.pc = IF ClosureOf(row) = "approved" /\ row.ending = "none"
                                        THEN "settle" ELSE "trail",
                                 !.closure = ClosureOf(row), !.ending = row.ending,
                                 !.unwritten = row.unwritten, !.runs = row.parked]
    <3>1. /\ y.pc = IF ClosureOf(row) = "approved" /\ row.ending = "none"
                    THEN "settle" ELSE "trail"
          /\ y.closure = ClosureOf(row) /\ y.ending = row.ending
          /\ y.unwritten = row.unwritten
      BY DEF Idle
    <3>2. at' = [at EXCEPT ![w] = y]
      BY <1>2 DEF ClaimRetry
    <3> HIDE DEF y
    <3> QED
      BY <3>1, <3>2
  <2>6. AttemptOwes(x)
    <3>1. /\ x.pc \in {"settle", "trail"}
          /\ x.pc = "settle" => row.ending = "none"
      BY <2>5
    <3>2. ~Resting(x) /\ x.pc \notin AfterTrails \cup AfterReceipt
      BY <3>1 DEF Resting, AfterTrails, AfterReceipt
    <3> QED
      BY <1>1, <2>5, <3>1, <3>2 DEF AttemptOwes, RowOwes
  <2>7. AttemptOwes(x)'
    BY <2>3, <2>6, GainsOwes
  <2> QED
    BY <1>1, <2>3, <2>4, <2>5, <2>7, OneOwes DEF Owing
<1>3. CASE ~(Incomplete /\ row.retries = at[w].seen)
  <2>1. UNCHANGED row /\ at' = [at EXCEPT ![w] = Idle]
    BY <1>3 DEF ClaimRetry
  <2> QED
    BY <1>1, <2>1, IdleOwes, MoveOwes
<1> QED
  BY <1>2, <1>3

LEMMA SweepOwes ==
    ASSUME Typed, Fate, Owing, NEW w \in Sweepers, Sweep(w)
    PROVE  Owing'
<1>1. /\ at \in [Actors -> Attempt] /\ w \in Actors /\ at[w] \in Attempt
      /\ RowOwes /\ AttemptOwes(at[w])
  BY DEF Typed, TypeOK, Actors, Owing
<1>2. CASE SweepExpired(w)
  BY <1>1, <1>2, CloseOwes DEF SweepExpired
<1>3. CASE FindIncomplete(w)
  <2> DEFINE y == [at[w] EXCEPT !.pc = "found", !.seen = row.retries]
  <2>1. y.pc = "found" /\ y.ending = at[w].ending /\ y.unwritten = at[w].unwritten
    BY <1>1 DEF Attempt
  <2>2. at' = [at EXCEPT ![w] = y] /\ UNCHANGED <<row, world>> /\ at[w] = Idle
    BY <1>3 DEF FindIncomplete
  <2> HIDE DEF y
  <2>3. y.ending = "none" /\ ~y.unwritten
    BY <2>1, <2>2 DEF Idle
  <2>4. AttemptOwes(y)
    BY <2>1, <2>3 DEF AttemptOwes, Resting, AfterTrails, AfterReceipt, Denials
  <2>5. PICK x : x = y
    OBVIOUS
  <2> QED
    BY <1>1, <2>2, <2>4, <2>5, MoveOwes
<1>4. CASE ClaimRetry(w)
  BY <1>4, RetryOwes
<1>5. CASE ReadTrail(w)
  <2>0. at[w].pc = "settle" /\ ~Resting(at[w]) /\ UNCHANGED <<row, world>>
    BY <1>5 DEF ReadTrail, Resting
  <2>1. PICK ending \in world.trail \cup {"unknown"} :
             at' = [at EXCEPT ![w] = [@ EXCEPT !.pc = "settling", !.ending = ending]]
    BY <1>5 DEF ReadTrail
  <2> DEFINE y == [at[w] EXCEPT !.pc = "settling", !.ending = ending]
  <2>2. /\ y.pc = "settling" /\ y.closure = at[w].closure /\ y.ending = ending
        /\ y.unwritten = at[w].unwritten
    BY <1>1 DEF Attempt
  <2>3. at' = [at EXCEPT ![w] = y]
    BY <2>1
  <2> HIDE DEF y
  <2>4. ~at[w].unwritten /\ at[w].closure = ClosureOf(row)
    BY <1>1, <2>0 DEF AttemptOwes
  <2>5. Standing(ending, FALSE) /\ (Approved => ending \notin Denials)
    BY <1>1 DEF Standing, RowOwes, Denials
  <2>6. AttemptOwes(y)
    <3>1. ~Resting(y) /\ y.pc \notin AfterTrails \cup AfterReceipt
      BY <2>2 DEF Resting, AfterTrails, AfterReceipt
    <3>2. Standing(y.ending, y.unwritten)
      BY <2>2, <2>5 DEF Standing
    <3> QED
      BY <2>2, <2>4, <2>5, <3>1, <3>2 DEF AttemptOwes
  <2>7. PICK x : x = y
    OBVIOUS
  <2> QED
    BY <1>1, <2>0, <2>3, <2>6, <2>7, MoveOwes
<1>6. CASE ReadTrailFails(w)
  <2>1. UNCHANGED <<row, world>> /\ at' = [at EXCEPT ![w] = Idle]
    BY <1>6 DEF ReadTrailFails
  <2> QED
    BY <1>1, <2>1, IdleOwes, MoveOwes
<1>7. CASE Settle(w)
  BY <1>7, SettleOwes
<1> QED
  BY <1>2, <1>3, <1>4, <1>5, <1>6, <1>7 DEF Sweep

(* Steps that move no attempt, or only make one slow.                        *)
LEMMA OutsideOwes ==
    ASSUME Typed, Owing, UNCHANGED at,
           world'.trail = world.trail /\ world'.wakes = world.wakes,
           world'.receipts = world.receipts,
           row'.ending = row.ending /\ row'.unwritten = row.unwritten,
           row'.sent = row.sent /\ row'.done = row.done,
           row'.status = row.status /\ row'.decision = row.decision
    PROVE  Owing'
<1>1. Gains
  BY DEF Gains
<1>2. RowOwes'
  BY <1>1, RowStands DEF Owing
<1> QED
  BY <1>1, <1>2, StillOwes DEF Owing

(* A card no one can see is dropped.                                         *)
LEMMA MootOwes ==
    ASSUME Typed, Fate, Owing, UNCHANGED <<at, world>>, Open, row' = [row EXCEPT !.status = "moot"]
    PROVE  Owing'
<1>1. /\ row \in Row /\ at \in [Actors -> Attempt] /\ RowOwes
  BY DEF Typed, TypeOK, Owing
<1>2. /\ row'.status = "moot" /\ row'.decision = row.decision /\ row'.sent = row.sent
      /\ row'.ending = row.ending /\ row'.unwritten = row.unwritten /\ row'.done = row.done
  BY <1>1 DEF Row
<1>3. ~Closed /\ ~Closed' /\ ~Approved' /\ ~row.done /\ row.decision # "approved"
  BY <1>1, <1>2 DEF Closed, Approved, Open, RowOwes
<1>4. RowOwes'
  <2>1. Standing(row.ending, row.unwritten)'
    BY <1>1, <1>2 DEF RowOwes, Standing
  <2> QED
    BY <1>1, <1>2, <1>3, <2>1 DEF RowOwes
<1>5. ASSUME NEW b \in Actors PROVE AttemptOwes(at[b])'
  <2>1. PICK y : y = at[b] /\ y = at'[b]
    OBVIOUS
  <2>2. Resting(y) /\ AttemptOwes(y)
    BY <1>3, <1>5, <2>1 DEF Fate, Owing
  <2>3. AttemptOwes(y)'
    BY <1>3, <2>2 DEF AttemptOwes, Resting, AfterTrails, AfterReceipt, Denials
  <2> QED
    BY <2>1, <2>3 DEF AttemptOwes
<1> QED
  BY <1>4, <1>5 DEF Owing

-------------------------------------------------------------------------------
LEMMA SlowOwes ==
    ASSUME Typed, Owing, NEW a \in Actors,
           WaitOutlasts(a) \/ \E s \in Sends : LeaseOutlasted(a, s)
    PROVE  Owing'
<1>1. /\ row \in Row /\ at \in [Actors -> Attempt] /\ at[a] \in Attempt
      /\ RowOwes /\ AttemptOwes(at[a])
  BY DEF Typed, TypeOK, Owing
<1>2. UNCHANGED world
  BY DEF WaitOutlasts, LeaseOutlasted
<1>3. /\ row'.status = row.status /\ row'.decision = row.decision /\ row'.sent = row.sent
      /\ row'.ending = row.ending /\ row'.unwritten = row.unwritten /\ row'.done = row.done
  <2>1. \/ row' = [row EXCEPT !.due = TRUE]
        \/ \E s \in Sends : row' = [row EXCEPT !.lease[s] = Nobody]
    BY DEF WaitOutlasts, Awaited, LeaseOutlasted
  <2> QED
    BY <1>1, <2>1 DEF Row
<1>4. Gains
  BY <1>2, <1>3 DEF Gains
<1>5. RowOwes'
  BY <1>1, <1>2, <1>3, <1>4, RowStands
<1> DEFINE y == [at[a] EXCEPT !.slow = TRUE]
<1>6. /\ y.pc = at[a].pc /\ y.closure = at[a].closure /\ y.ending = at[a].ending
      /\ y.unwritten = at[a].unwritten /\ y.failed = at[a].failed
  BY <1>1 DEF Attempt
<1>7. at' = [at EXCEPT ![a] = y]
  BY DEF WaitOutlasts, LeaseOutlasted, Stall
<1> HIDE DEF y
<1>8. PICK x : x = y
  OBVIOUS
<1>9. AttemptOwes(x)
  BY <1>1, <1>6, <1>8 DEF AttemptOwes, Resting
<1>10. AttemptOwes(x)'
  BY <1>4, <1>9, GainsOwes
<1> QED
  BY <1>1, <1>4, <1>5, <1>7, <1>8, <1>10, OneOwes DEF Owing

LEMMA InitOwing == Init => Owing
<1> SUFFICES ASSUME Init PROVE Owing
  OBVIOUS
<1>1. RowOwes
  BY DEF Init, RowOwes, Closed, Approved, Standing, Denials
<1>2. \A a \in Actors : at[a] = Idle
  BY DEF Init
<1> QED
  BY <1>1, <1>2, IdleOwes DEF Owing

LEMMA StepOwing == Typed /\ Fate /\ Owing /\ [Next]_vars => Owing'
<1> SUFFICES ASSUME Typed, Fate, Owing, [Next]_vars PROVE Owing'
  OBVIOUS
<1>1. row \in Row /\ world \in World /\ at \in [Actors -> Attempt]
  BY DEF Typed, TypeOK
<1>2. CASE UNCHANGED vars
  BY <1>2, OutsideOwes DEF vars
<1>3. CASE \/ PostCard \/ AttachCard \/ ProposerDies \/ (PostFails /\ ~Open)
           \/ DeadlinePasses \/ WaitPasses
           \/ (\E u \in Runs : FindCard(u) \/ ParkOnCard(u))
           \/ (\E s \in Sends : LeaseLapses(s))
  <2>1. UNCHANGED at
    BY <1>3 DEF PostCard, AttachCard, ProposerDies, PostFails, DeadlinePasses, WaitPasses,
                FindCard, ParkOnCard, LeaseLapses
  <2>2. /\ world'.trail = world.trail /\ world'.wakes = world.wakes
        /\ world'.receipts = world.receipts
    <3>1. world' = world \/ world' = [world EXCEPT !.posted = TRUE]
      BY <1>3 DEF PostCard, AttachCard, ProposerDies, PostFails, DeadlinePasses, WaitPasses,
                  FindCard, ParkOnCard, LeaseLapses
    <3> QED
      BY <1>1, <3>1 DEF World
  <2>3. /\ row'.ending = row.ending /\ row'.unwritten = row.unwritten
        /\ row'.sent = row.sent /\ row'.done = row.done
        /\ row'.status = row.status /\ row'.decision = row.decision
    BY <1>1, <1>3 DEF PostCard, AttachCard, ProposerDies, PostFails, DeadlinePasses, WaitPasses,
                      Awaited, FindCard, ParkOnCard, LeaseLapses, Row
  <2> QED
    BY <2>1, <2>2, <2>3, OutsideOwes
<1>4. CASE MootCardless \/ (PostFails /\ Open)
  BY <1>4, MootOwes DEF MootCardless, PostFails
<1>5. ASSUME NEW a \in Actors, Die(a) PROVE Owing'
  BY <1>1, <1>5, IdleOwes, MoveOwes DEF Die
<1>6. ASSUME NEW a \in Actors, WaitOutlasts(a) \/ \E s \in Sends : LeaseOutlasted(a, s)
      PROVE  Owing'
  BY <1>6, SlowOwes
<1>7. ASSUME NEW d \in Deciders,
             Resolve(d) \/ \E answer \in {"approved", "declined"} : ReadToDecide(d, answer)
      PROVE  Owing'
  BY <1>7, ResolveOwes
<1>8. ASSUME NEW w \in Sweepers, Sweep(w) PROVE Owing'
  BY <1>8, SweepOwes
<1>9. ASSUME NEW a \in Actors, Complete(a) PROVE Owing'
  BY <1>9, CompleteOwes
<1> QED
  BY <1>2, <1>3, <1>4, <1>5, <1>6, <1>7, <1>8, <1>9 DEF Next, Propose

(* A row that was stamped done owes nothing for the ending it shows, in      *)
(* every execution.                                                          *)
THEOREM DoneIsPaid == Spec => []DoneOwesNothing
<1>1. Init => Typed /\ Fate /\ Owing
  BY InitTyped, InitFate, InitOwing
<1>2. Typed /\ Fate /\ Owing /\ [Next]_vars => (Typed /\ Fate /\ Owing)'
  BY StepTyped, StepFate, StepOwing
<1>3. Owing => DoneOwesNothing
  BY DEF Owing, RowOwes, Approved, DoneOwesNothing
<1> QED
  BY <1>1, <1>2, <1>3, PTL DEF Spec
===============================================================================
