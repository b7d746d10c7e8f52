------------------------ MODULE HostedConnectionProofs ------------------------
(* Proofs about one connection, for any callbacks, refreshes and removals.   *)
EXTENDS HostedConnection, FiniteSetTheorems, TLAPS

-------------------------------------------------------------------------------
(* Sorts and typed parts.                                                    *)

(* An authorization, a refresh and a removal are never the same request.     *)
LEMMA Sorts ==
  /\ Flows \subseteq Nat \ {0} /\ 1 \in Flows
  /\ \A c \in Flows : c \notin Refreshers /\ c \notin Removers
  /\ \A r \in Refreshers : r \notin Flows /\ r \notin Removers
  /\ \A d \in Removers : d \notin Flows /\ d \notin Refreshers /\ d # NoRemover
<1>1. Cardinality(Removers) \in Nat
  BY ConnectionConstants, FS_CardinalityType
<1>2. Flows \subseteq Nat \ {0} /\ 1 \in Flows
  BY <1>1, ConnectionConstants DEF Flows
<1> QED
  BY <1>2, ConnectionConstants

LEMMA Written ==
  ASSUME NEW a \in Nat, NEW g \in Nat
  PROVE  WriteGeneration(a, g) \in Nat
<1>1. a * Stride \in Nat
  BY ConnectionConstants
<1> QED
  BY <1>1 DEF WriteGeneration

LEMMA PutTyped ==
  ASSUME NEW s \in Secret, NEW g \in Nat, NEW t \in Token
  PROVE  Put(s, g, t) \in Secret
BY DEF Put, Present, Secret, None

LEMMA SweepTyped ==
  ASSUME NEW s \in Secret, NEW ref \in Nat
  PROVE  Swept(s, ref) \in Secret
BY DEF Swept, Empty, Secret, NoToken, Token, None

LEMMA FlowStep ==
  ASSUME NEW f \in [Flows -> Flow], NEW c \in Flows, NEW p \in FlowSteps
  PROVE  [f EXCEPT ![c].pc = p] \in [Flows -> Flow]
<1>1. [f[c] EXCEPT !.pc = p] \in Flow
  BY DEF Flow
<1> QED
  BY <1>1

LEMMA RefreshStep ==
  ASSUME NEW f \in [Refreshers -> Refresh], NEW r \in Refreshers, NEW p \in RefreshSteps
  PROVE  [f EXCEPT ![r].pc = p] \in [Refreshers -> Refresh]
<1>1. [f[r] EXCEPT !.pc = p] \in Refresh
  BY DEF Refresh
<1> QED
  BY <1>1

LEMMA RemovalStep ==
  ASSUME NEW f \in [Removers -> Removal], NEW d \in Removers, NEW p \in RemovalSteps
  PROVE  [f EXCEPT ![d].pc = p] \in [Removers -> Removal]
<1>1. [f[d] EXCEPT !.pc = p] \in Removal
  BY DEF Removal
<1> QED
  BY <1>1

(* Every step keeps the row, its secrets and every request well formed.      *)
LEMMA StepTyped ==
  ASSUME TypeOK, [Next]_vars
  PROVE  TypeOK'
<1> DEFINE VendorState == [live : SUBSET Flows, seq : [Flows -> Nat], rotates : BOOLEAN]
<1> DEFINE Clocks == [taken : Nat, lapsed : Nat, over : Nat]
<1>row. row \in Row
  BY DEF TypeOK
<1>secrets. secrets \in [access : Secret, refresh : Secret]
  BY DEF TypeOK
<1>vendor. vendor \in VendorState
  BY DEF TypeOK
<1>flow. flow \in [Flows -> Flow]
  BY DEF TypeOK
<1>refresh. refresh \in [Refreshers -> Refresh]
  BY DEF TypeOK
<1>removal. removal \in [Removers -> Removal]
  BY DEF TypeOK
<1>clock. /\ clock \in Clocks
          /\ clock.over <= clock.lapsed /\ clock.lapsed <= clock.taken
  BY DEF TypeOK
<1>left. left \subseteq Flows \cup {None}
  BY DEF TypeOK
<1>dead. dead \subseteq Flows \cup Refreshers \cup Removers
  BY DEF TypeOK
<1>overtaken. overtaken \subseteq Flows \cup Refreshers
  BY DEF TypeOK
<1>1. ASSUME Start PROVE TypeOK'
  <2>1. row.auth + 1 \in Nat \ {0}
    BY <1>row DEF Row
  <2>3. row' \in Row
    BY <1>1, <2>1, <1>row DEF Row, Start
  <2>5. flow' \in [Flows -> Flow]
    BY <1>1, <1>flow, FlowStep DEF Start, FlowSteps
  <2> QED
    BY <1>1, <2>1, <2>3, <2>5 DEF TypeOK, Start
<1>2. ASSUME NEW c \in Flows, Consume(c) PROVE TypeOK'
  <2>2. row' \in Row
    BY <1>2, <1>row DEF Row, Consume, None
  <2>3. [NoFlow EXCEPT !.pc = "consumed", !.refs = row.refs, !.revokedAt = row.revokedAt] \in Flow
    BY <1>row DEF Row, Flow, NoFlow, FlowSteps, Refs, None
  <2>4. flow' \in [Flows -> Flow]
    BY <1>2, <2>3, <1>flow DEF Consume
  <2> QED
    BY <1>2, <2>2, <2>3, <2>4 DEF TypeOK, Consume
<1>3. ASSUME NEW c \in Flows, Exchange(c) PROVE TypeOK'
  <2>1. vendor' \in VendorState
    BY <1>3, <1>vendor DEF Exchange
  <2>2. PICK p \in FlowSteps : flow' = [flow EXCEPT ![c].pc = p]
    BY <1>3 DEF Exchange, FlowSteps
  <2>3. flow' \in [Flows -> Flow]
    BY <2>2, <1>flow, FlowStep
  <2> QED
    BY <1>3, <2>1, <2>2, <2>3 DEF TypeOK, Exchange
<1>4. ASSUME NEW c \in Flows, Withdraw(c) PROVE TypeOK'
  <2>1. vendor' \in VendorState
    BY <1>4, <1>vendor DEF Withdraw, AfterRevoking
  <2>2. secrets.refresh.token.grant \in Flows \cup {None}
    BY <1>secrets DEF Secret, Token
  <2>3. left' \subseteq Flows \cup {None}
    BY <1>4, <2>2, <1>left DEF Withdraw
  <2>5. flow' \in [Flows -> Flow]
    BY <1>4, <1>flow, FlowStep DEF Withdraw, FlowSteps
  <2> QED
    BY <1>4, <2>1, <2>2, <2>3, <2>5 DEF TypeOK, Withdraw
<1>5. ASSUME NEW c \in Flows, Retire(c) PROVE TypeOK'
  <2>1. clock.taken + 1 \in Nat /\ row.lease \in Nat
    BY <1>clock, <1>row DEF Row
  <2>2. NoHold \in Hold
    BY DEF Hold
  <2>3. Retired(clock.taken + 1) \in Row
    BY <2>1, <2>2, <1>row DEF Row, Retired
  <2>4. row' \in Row
    BY <1>5, <2>3, <1>row DEF Retire
  <2>5. /\ clock' \in Clocks
        /\ clock'.over <= clock'.lapsed /\ clock'.lapsed <= clock'.taken
    BY <1>5, <1>clock DEF Retire
  <2>6. [flow[c] EXCEPT !.pc = "writing", !.lease = clock.taken + 1, !.inherited = row.lease] \in Flow
    BY <2>1, <1>flow DEF Flow, FlowSteps
  <2>7. [flow[c] EXCEPT !.pc = "refused"] \in Flow
    BY <1>flow DEF Flow, FlowSteps
  <2>8. flow' \in [Flows -> Flow]
    BY <1>5, <2>6, <2>7, <1>flow DEF Retire
  <2> QED
    BY <1>5, <2>1, <2>2, <2>3, <2>4, <2>5, <2>6, <2>7, <2>8 DEF TypeOK, Retire
<1>6. ASSUME NEW c \in Flows, PutAccess(c) PROVE TypeOK'
  <2>1. Put(secrets.access, WriteGeneration(c, 0), Issued(c)) \in Secret
    BY Sorts, Written, PutTyped, <1>secrets DEF Issued, Token
  <2>2. secrets' \in [access : Secret, refresh : Secret]
    BY <1>6, <2>1, <1>secrets DEF PutAccess
  <2>3. secrets.access.token.grant \in Flows \cup {None}
    BY <1>secrets DEF Secret, Token
  <2>4. left' \subseteq Flows \cup {None}
    BY <1>6, <2>3, <1>left DEF PutAccess
  <2>5. PICK p \in FlowSteps : flow' = [flow EXCEPT ![c].pc = p]
    BY <1>6 DEF PutAccess, FlowSteps
  <2>6. flow' \in [Flows -> Flow]
    BY <2>5, <1>flow, FlowStep
  <2> QED
    BY <1>6, <2>1, <2>2, <2>3, <2>4, <2>5, <2>6 DEF TypeOK, PutAccess
<1>7. ASSUME NEW c \in Flows, PutRefresh(c) PROVE TypeOK'
  <2>1. Put(secrets.refresh, WriteGeneration(c, 0), Issued(c)) \in Secret
    BY Sorts, Written, PutTyped, <1>secrets DEF Issued, Token
  <2>2. secrets' \in [access : Secret, refresh : Secret]
    BY <1>7, <2>1, <1>secrets DEF PutRefresh
  <2>3. secrets.refresh.token.grant \in Flows \cup {None}
    BY <1>secrets DEF Secret, Token
  <2>4. left' \subseteq Flows \cup {None}
    BY <1>7, <2>3, <1>left DEF PutRefresh
  <2>5. PICK p \in FlowSteps : flow' = [flow EXCEPT ![c].pc = p]
    BY <1>7 DEF PutRefresh, FlowSteps
  <2>6. flow' \in [Flows -> Flow]
    BY <2>5, <1>flow, FlowStep
  <2> QED
    BY <1>7, <2>1, <2>2, <2>3, <2>4, <2>5, <2>6 DEF TypeOK, PutRefresh
<1>8. ASSUME NEW c \in Flows, PutFails(c) PROVE TypeOK'
  <2>2. flow' \in [Flows -> Flow]
    BY <1>8, <1>flow, FlowStep DEF PutFails, FlowSteps
  <2> QED
    BY <1>8, <2>2 DEF TypeOK, PutFails, Trouble
<1>9. ASSUME NEW c \in Flows, Publish(c) PROVE TypeOK'
  <2>1. [access |-> secrets.access.id, refresh |-> secrets.refresh.id] \in Refs /\ flow[c].inherited \in Nat
    BY <1>secrets, <1>flow DEF Secret, Refs, Flow
  <2>2. None \in Nat /\ 0 \in Nat
    BY DEF None
  <2>2a. Published(c) \in Row
    BY <2>1, <2>2, <1>row DEF Row, Published
  <2>3. row' \in Row
    BY <1>9, <2>2a, <1>row DEF Publish
  <2>4. PICK p \in FlowSteps : flow' = [flow EXCEPT ![c].pc = p]
    BY <1>9 DEF Publish, FlowSteps
  <2>5. flow' \in [Flows -> Flow]
    BY <2>4, <1>flow, FlowStep
  <2> QED
    BY <1>9, <2>1, <2>2, <2>3, <2>4, <2>5 DEF TypeOK, Publish
<1>10. ASSUME NEW c \in Flows, Settle(c) PROVE TypeOK'
  <2>1. flow[c].inherited \in Nat
    BY <1>flow DEF Flow
  <2>3. row' \in Row
    BY <1>10, <2>1, <1>row DEF Row, Settle, Released
  <2>4. vendor' \in VendorState
    BY <1>10, <1>vendor DEF Settle
  <2>5. left' \subseteq Flows \cup {None}
    BY <1>10, <1>left DEF Settle
  <2>6. trouble' \in Nat
    BY <1>10, ConnectionConstants DEF Settle, Trouble, TypeOK
  <2>8. flow' \in [Flows -> Flow]
    BY <1>10, <1>flow, FlowStep DEF Settle, FlowSteps
  <2> QED
    BY <1>10, <2>1, <2>3, <2>4, <2>5, <2>6, <2>8 DEF TypeOK, Settle
<1>11. ASSUME NEW c \in Flows, GiveUp(c) PROVE TypeOK'
  <2>1. flow[c].inherited \in Nat
    BY <1>flow DEF Flow
  <2>3. row' \in Row
    BY <1>11, <2>1, <1>row DEF Row, GiveUp, Released
  <2>4. left' \subseteq Flows \cup {None}
    BY <1>11, <1>left DEF GiveUp
  <2>6. flow' \in [Flows -> Flow]
    BY <1>11, <1>flow, FlowStep DEF GiveUp, FlowSteps
  <2> QED
    BY <1>11, <2>1, <2>3, <2>4, <2>6 DEF TypeOK, GiveUp
<1>12. ASSUME NEW r \in Refreshers, Fence(r) PROVE TypeOK'
  <2>1. /\ row.gen + 1 \in Nat /\ clock.taken + 1 \in Nat
        /\ row.auth \in Nat /\ row.refs.refresh \in Nat
    BY <1>row, <1>clock DEF Row, Refs
  <2>3. row' \in Row
    BY <1>12, <2>1, <1>row DEF Row, Fence
  <2>4. /\ clock' \in Clocks
        /\ clock'.over <= clock'.lapsed /\ clock'.lapsed <= clock'.taken
    BY <1>12, <1>clock DEF Fence
  <2>5. [Calm EXCEPT !.pc = "fenced", !.auth = row.auth, !.gen = row.gen + 1,
                  !.ref = row.refs.refresh, !.lease = clock.taken + 1] \in Refresh
    BY <2>1 DEF Calm, Refresh, RefreshSteps, NoToken, Token, None
  <2>6. refresh' \in [Refreshers -> Refresh]
    BY <1>12, <2>5, <1>refresh DEF Fence
  <2>7. overtaken' \subseteq Flows \cup Refreshers
    BY <1>12, <1>overtaken DEF Fence
  <2> QED
    BY <1>12, <2>1, <2>3, <2>4, <2>5, <2>6, <2>7 DEF TypeOK, Fence
<1>13. ASSUME NEW r \in Refreshers, ReadToken(r) PROVE TypeOK'
  <2>1. secrets.refresh.token \in Token
    BY <1>secrets DEF Secret
  <2>2. /\ [refresh[r] EXCEPT !.pc = "asking", !.token = secrets.refresh.token] \in Refresh
        /\ [refresh[r] EXCEPT !.pc = "done"] \in Refresh
    BY <2>1, <1>refresh DEF Refresh, RefreshSteps
  <2>3. refresh' \in [Refreshers -> Refresh]
    BY <1>13, <2>2, <1>refresh DEF ReadToken
  <2> QED
    BY <1>13, <2>1, <2>2, <2>3 DEF TypeOK, ReadToken
<1>14. ASSUME NEW r \in Refreshers, Refreshed(r) PROVE TypeOK'
  <2>1. refresh[r].token \in Token
    BY <1>refresh DEF Refresh
  <2>2. /\ refresh[r].token.grant \in Flows \cup {None}
        /\ refresh[r].token.seq \in Nat /\ refresh[r].token.seq + 1 \in Nat
    BY <2>1 DEF Token
  <2>3. PICK n \in Nat :
          /\ vendor' = [vendor EXCEPT !.seq[refresh[r].token.grant] = n]
          /\ refresh' = [refresh EXCEPT ![r] =
                           [refresh[r] EXCEPT !.pc = "got",
                                              !.token = [grant |-> refresh[r].token.grant, seq |-> n]]]
    <3> DEFINE n == refresh[r].token.seq + IF vendor.rotates THEN 1 ELSE 0
    <3>1. n \in Nat
      BY <2>2
    <3>2. /\ vendor' = [vendor EXCEPT !.seq[refresh[r].token.grant] = n]
          /\ refresh' = [refresh EXCEPT ![r] =
                           [refresh[r] EXCEPT !.pc = "got",
                                              !.token = [grant |-> refresh[r].token.grant, seq |-> n]]]
      BY <1>14 DEF Refreshed
    <3> QED
      BY <3>1, <3>2
  <2>4. vendor' \in VendorState
    BY <2>3, <1>vendor
  <2>5. [grant |-> refresh[r].token.grant, seq |-> n] \in Token
    BY <2>2 DEF Token
  <2>6. [refresh[r] EXCEPT !.pc = "got", !.token = [grant |-> refresh[r].token.grant, seq |-> n]]
          \in Refresh
    BY <2>5, <1>refresh DEF Refresh, RefreshSteps
  <2>7. refresh' \in [Refreshers -> Refresh]
    BY <2>3, <2>6, <1>refresh
  <2> QED
    BY <1>14, <2>1, <2>2, <2>3, <2>4, <2>5, <2>6, <2>7 DEF TypeOK, Refreshed
<1>15. ASSUME NEW r \in Refreshers, Refused(r) PROVE TypeOK'
  <2>1. None \in Nat
    BY DEF None
  <2>1a. [row EXCEPT !.status = "error", !.lease = None] \in Row
    BY <2>1, <1>row DEF Row
  <2>2. row' \in Row
    BY <1>15, <2>1a, <1>row DEF Refused
  <2>4. refresh' \in [Refreshers -> Refresh]
    BY <1>15, <1>refresh, RefreshStep DEF Refused, RefreshSteps
  <2> QED
    BY <1>15, <2>1, <2>2, <2>4 DEF TypeOK, Refused
<1>16. ASSUME NEW r \in Refreshers, Unreachable(r) PROVE TypeOK'
  <2>2. refresh' \in [Refreshers -> Refresh]
    BY <1>16, <1>refresh, RefreshStep DEF Unreachable, RefreshSteps
  <2> QED
    BY <1>16, <2>2 DEF TypeOK, Unreachable
<1>17. ASSUME NEW r \in Refreshers, PutAccessAgain(r) PROVE TypeOK'
  <2>1. refresh[r].auth \in Nat /\ refresh[r].gen \in Nat /\ refresh[r].token \in Token
    BY <1>refresh DEF Refresh
  <2>2. Put(secrets.access, RefreshGeneration(r), refresh[r].token) \in Secret
    BY <2>1, Written, PutTyped, <1>secrets DEF RefreshGeneration
  <2>3. secrets' \in [access : Secret, refresh : Secret]
    BY <1>17, <2>2, <1>secrets DEF PutAccessAgain
  <2>4. PICK p \in RefreshSteps : refresh' = [refresh EXCEPT ![r].pc = p]
    BY <1>17 DEF PutAccessAgain, RefreshSteps
  <2>5. refresh' \in [Refreshers -> Refresh]
    BY <2>4, <1>refresh, RefreshStep
  <2> QED
    BY <1>17, <2>1, <2>2, <2>3, <2>4, <2>5 DEF TypeOK, PutAccessAgain
<1>18. ASSUME NEW r \in Refreshers, PutRefreshAgain(r) PROVE TypeOK'
  <2>1. refresh[r].auth \in Nat /\ refresh[r].gen \in Nat /\ refresh[r].token \in Token
    BY <1>refresh DEF Refresh
  <2>2. Put(secrets.refresh, RefreshGeneration(r), refresh[r].token) \in Secret
    BY <2>1, Written, PutTyped, <1>secrets DEF RefreshGeneration
  <2>3. secrets' \in [access : Secret, refresh : Secret]
    BY <1>18, <2>2, <1>secrets DEF PutRefreshAgain
  <2>4. PICK p \in RefreshSteps : refresh' = [refresh EXCEPT ![r].pc = p]
    BY <1>18 DEF PutRefreshAgain, RefreshSteps
  <2>5. refresh' \in [Refreshers -> Refresh]
    BY <2>4, <1>refresh, RefreshStep
  <2> QED
    BY <1>18, <2>1, <2>2, <2>3, <2>4, <2>5 DEF TypeOK, PutRefreshAgain
<1>19. ASSUME NEW r \in Refreshers, Commit(r) PROVE TypeOK'
  <2>1. [access |-> secrets.access.id, refresh |-> secrets.refresh.id] \in Refs
    BY <1>secrets DEF Secret, Refs
  <2>2. None \in Nat
    BY DEF None
  <2>2a. [row EXCEPT !.lease = None,
                    !.refs = [access |-> secrets.access.id, refresh |-> secrets.refresh.id]] \in Row
    BY <2>1, <2>2, <1>row DEF Row
  <2>3. row' \in Row
    BY <1>19, <2>2a, <1>row DEF Commit
  <2>5. refresh' \in [Refreshers -> Refresh]
    BY <1>19, <1>refresh, RefreshStep DEF Commit, RefreshSteps
  <2> QED
    BY <1>19, <2>1, <2>2, <2>3, <2>5 DEF TypeOK, Commit
<1>20. ASSUME NEW d \in Removers, Disconnect(d) PROVE TypeOK'
  <2>1. row.auth + 1 \in Nat \ {0} /\ row.refs \in Refs /\ row.mark \in BOOLEAN
    BY <1>row DEF Row
  <2>2. row' = Disconnected
    BY <1>20 DEF Disconnect
  <2>3. row' \in Row
    BY <2>1, <2>2, <1>row DEF Row, Disconnected, None
  <2>4. [Waiting EXCEPT !.pc = "marked", !.auth = row.auth + 1, !.refs = row.refs, !.mark = row.mark]
          \in Removal
    BY <2>1 DEF Removal, Waiting, RemovalSteps, NoToken, Token, None
  <2>5. removal' \in [Removers -> Removal]
    BY <1>20, <2>4, <1>removal DEF Disconnect
  <2> QED
    BY <1>20, <2>1, <2>2, <2>3, <2>4, <2>5 DEF TypeOK, Disconnect
<1>21. ASSUME NEW d \in Removers, TakeHold(d) PROVE TypeOK'
  <2>1. [by |-> d, term |-> 1, lapsed |-> FALSE] \in Hold
    BY DEF Hold
  <2>2. row' = [row EXCEPT !.hold = [by |-> d, term |-> 1, lapsed |-> FALSE]] \/ row' = row
    BY <1>21 DEF TakeHold
  <2>3. row' \in Row
    BY <2>1, <2>2, <1>row DEF Row
  <2>4. PICK p \in RemovalSteps : removal' = [removal EXCEPT ![d].pc = p]
    BY <1>21 DEF TakeHold, RemovalSteps
  <2>5. removal' \in [Removers -> Removal]
    BY <2>4, <1>removal, RemovalStep
  <2> QED
    BY <1>21, <2>1, <2>3, <2>4, <2>5 DEF TypeOK, TakeHold
<1>22. ASSUME NEW d \in Removers, Look(d) PROVE TypeOK'
  <2>1. /\ secrets.refresh.token \in Token /\ secrets.access.token \in Token /\ NoToken \in Token
        /\ Mixed(d) \in BOOLEAN
    BY <1>secrets DEF Secret, NoToken, Token, None, Mixed, Behind
  <2>2. /\ [removal[d] EXCEPT !.pc = "renewing", !.claim = TRUE] \in Removal
        /\ [removal[d] EXCEPT !.pc = "renewing"] \in Removal
    BY <1>removal DEF Removal, RemovalSteps
  <2>3. \A b \in BOOLEAN, t, u \in Token :
          [removal[d] EXCEPT !.pc = "sending", !.mixed = b, !.token = t, !.access = u] \in Removal
    BY <1>removal DEF Removal, RemovalSteps
  <2>4. [removal[d] EXCEPT !.pc = "sending", !.mixed = Mixed(d), !.token = secrets.refresh.token,
          !.access = IF Mixed(d) THEN secrets.access.token ELSE NoToken] \in Removal
    BY <2>1, <2>3
  <2>5. removal' \in [Removers -> Removal]
    BY <1>22, <2>2, <2>4, <1>removal DEF Look
  <2> QED
    BY <1>22, <2>1, <2>2, <2>3, <2>4, <2>5 DEF TypeOK, Look
<1>23. ASSUME NEW d \in Removers, Send(d) PROVE TypeOK'
  <2>1. vendor' \in VendorState
    BY <1>23, <1>vendor DEF Send, AfterRevoking
  <2>2. \A p \in RemovalSteps, b \in BOOLEAN : [removal[d] EXCEPT !.pc = p, !.claim = b] \in Removal
    BY <1>removal DEF Removal
  <2>3. removal[d].mixed \in BOOLEAN
    BY <1>removal DEF Removal
  <2>4. [removal[d] EXCEPT !.pc = IF removal[d].mixed THEN "sending access" ELSE "renewing",
                      !.claim = ~removal[d].mixed] \in Removal
    BY <2>2, <2>3 DEF RemovalSteps
  <2>5. removal' \in [Removers -> Removal]
    BY <1>23, <2>4, <1>removal DEF Send
  <2> QED
    BY <1>23, <2>1, <2>2, <2>3, <2>4, <2>5 DEF TypeOK, Send
<1>24. ASSUME NEW d \in Removers, SendFails(d) PROVE TypeOK'
  <2>1. NoHold \in Hold
    BY DEF Hold
  <2>3. row' \in Row
    BY <1>24, <2>1, <1>row DEF Row, SendFails, Freed
  <2>5. removal' \in [Removers -> Removal]
    BY <1>24, <1>removal, RemovalStep DEF SendFails, RemovalSteps
  <2> QED
    BY <1>24, <2>1, <2>3, <2>5 DEF TypeOK, SendFails
<1>25. ASSUME NEW d \in Removers, SendAccess(d) PROVE TypeOK'
  <2>1. vendor' \in VendorState
    BY <1>25, <1>vendor DEF SendAccess
  <2>3. removal' \in [Removers -> Removal]
    BY <1>25, <1>removal, RemovalStep DEF SendAccess, RemovalSteps
  <2> QED
    BY <1>25, <2>1, <2>3 DEF TypeOK, SendAccess
<1>26. ASSUME NEW d \in Removers, Renew(d) PROVE TypeOK'
  <2>1. [by |-> d, term |-> 2, lapsed |-> FALSE] \in Hold
    BY DEF Hold
  <2>2. row' = [row EXCEPT !.hold = [by |-> d, term |-> 2, lapsed |-> FALSE]] \/ row' = row
    BY <1>26 DEF Renew
  <2>3. row' \in Row
    BY <2>1, <2>2, <1>row DEF Row
  <2>4. PICK p \in RemovalSteps : removal' = [removal EXCEPT ![d].pc = p]
    BY <1>26 DEF Renew, RemovalSteps
  <2>5. removal' \in [Removers -> Removal]
    BY <2>4, <1>removal, RemovalStep
  <2> QED
    BY <1>26, <2>1, <2>3, <2>4, <2>5 DEF TypeOK, Renew
<1>27. ASSUME NEW d \in Removers, Mark(d) PROVE TypeOK'
  <2>2. row' \in Row
    BY <1>27, <1>row DEF Row, Mark
  <2>4. removal' \in [Removers -> Removal]
    BY <1>27, <1>removal, RemovalStep DEF Mark, RemovalSteps
  <2> QED
    BY <1>27, <2>2, <2>4 DEF TypeOK, Mark
<1>28. ASSUME NEW d \in Removers, SweepRefresh(d) PROVE TypeOK'
  <2>1. removal[d].refs.refresh \in Nat
    BY <1>removal DEF Removal, Refs
  <2>2. Swept(secrets.refresh, removal[d].refs.refresh) \in Secret
    BY <2>1, SweepTyped, <1>secrets
  <2>3. secrets' \in [access : Secret, refresh : Secret]
    BY <1>28, <2>2, <1>secrets DEF SweepRefresh
  <2>5. removal' \in [Removers -> Removal]
    BY <1>28, <1>removal, RemovalStep DEF SweepRefresh, RemovalSteps
  <2>6. left' \subseteq Flows \cup {None}
    BY <1>28, <1>secrets, <1>left DEF SweepRefresh, Abandoned, Secret, Token
  <2> QED
    BY <1>28, <2>1, <2>2, <2>3, <2>5, <2>6 DEF TypeOK, SweepRefresh
<1>29. ASSUME NEW d \in Removers, SweepAccess(d) PROVE TypeOK'
  <2>1. removal[d].refs.access \in Nat
    BY <1>removal DEF Removal, Refs
  <2>2. Swept(secrets.access, removal[d].refs.access) \in Secret
    BY <2>1, SweepTyped, <1>secrets
  <2>3. secrets' \in [access : Secret, refresh : Secret]
    BY <1>29, <2>2, <1>secrets DEF SweepAccess
  <2>5. removal' \in [Removers -> Removal]
    BY <1>29, <1>removal, RemovalStep DEF SweepAccess, RemovalSteps
  <2>6. left' \subseteq Flows \cup {None}
    BY <1>29, <1>secrets, <1>left DEF SweepAccess, Abandoned, Secret, Token
  <2> QED
    BY <1>29, <2>1, <2>2, <2>3, <2>5, <2>6 DEF TypeOK, SweepAccess
<1>30. ASSUME NEW d \in Removers, Delete(d) PROVE TypeOK'
  <2>1. NoHold \in Hold
    BY DEF Hold
  <2>3. row' \in Row
    BY <1>30, <2>1, <1>row DEF Row, Delete
  <2>5. removal' \in [Removers -> Removal]
    BY <1>30, <1>removal, RemovalStep DEF Delete, RemovalSteps
  <2> QED
    BY <1>30, <2>1, <2>3, <2>5 DEF TypeOK, Delete
<1>31. ASSUME NEW d \in Removers, SweepFails(d) PROVE TypeOK'
  <2>1. NoHold \in Hold
    BY DEF Hold
  <2>3. row' \in Row
    BY <1>31, <2>1, <1>row DEF Row, SweepFails, Freed
  <2>5. removal' \in [Removers -> Removal]
    BY <1>31, <1>removal, RemovalStep DEF SweepFails, RemovalSteps
  <2>6. trouble' \in Nat
    <3>1. Trouble
      BY <1>31 DEF SweepFails
    <3> QED
      BY <3>1 DEF Trouble, TypeOK
  <2> QED
    BY <1>31, <2>3, <2>5, <2>6 DEF TypeOK, SweepFails
<1>32. ASSUME LeaseLapses PROVE TypeOK'
  <2>1. /\ clock' \in Clocks
        /\ clock'.over <= clock'.lapsed /\ clock'.lapsed <= clock'.taken
    BY <1>32, <1>clock DEF LeaseLapses
  <2> QED
    BY <1>32, <2>1 DEF TypeOK, LeaseLapses
<1>33. ASSUME LeaseIsOver PROVE TypeOK'
  <2>1. /\ clock' \in Clocks
        /\ clock'.over <= clock'.lapsed /\ clock'.lapsed <= clock'.taken
    BY <1>33, <1>clock DEF LeaseIsOver
  <2> QED
    BY <1>33, <2>1 DEF TypeOK, LeaseIsOver
<1>34. ASSUME HoldLapses PROVE TypeOK'
  <2>1. row.hold \in Hold /\ row.hold # NoHold
    <3>1. row.hold \in Hold
      BY <1>row DEF Row
    <3>2. NoHold.by = NoRemover /\ row.hold.by # NoRemover
      BY <1>34 DEF HoldLapses, NoHold
    <3> QED
      BY <3>1, <3>2
  <2>2. [row.hold EXCEPT !.lapsed = TRUE] \in Hold
    BY <2>1 DEF Hold
  <2>3. row' = [row EXCEPT !.hold = [row.hold EXCEPT !.lapsed = TRUE]]
    BY <1>34 DEF HoldLapses
  <2>4. row' \in Row
    BY <2>2, <2>3, <1>row DEF Row
  <2> QED
    BY <1>34, <2>1, <2>2, <2>3, <2>4 DEF TypeOK, HoldLapses
<1>35. ASSUME NEW x \in Flows \cup Refreshers \cup Removers, BreaksOff(x) PROVE TypeOK'
  <2>1. dead' \subseteq Flows \cup Refreshers \cup Removers
    BY <1>35, <1>dead DEF BreaksOff
  <2> QED
    BY <1>35, <2>1 DEF TypeOK, BreaksOff, Trouble
<1>36. CASE UNCHANGED vars
  BY <1>36 DEF TypeOK, vars
<1> QED
  BY <1>1, <1>2, <1>3, <1>4, <1>5, <1>6, <1>7, <1>8, <1>9, <1>10, <1>11, <1>12,
     <1>13, <1>14, <1>15, <1>16, <1>17, <1>18, <1>19, <1>20, <1>21, <1>22, <1>23, <1>24,
     <1>25, <1>26, <1>27, <1>28, <1>29, <1>30, <1>31, <1>32, <1>33, <1>34, <1>35, <1>36
     DEF Next, FlowNext, RefreshNext, RemovalNext

LEMMA InitTyped == Init => TypeOK
<1> SUFFICES ASSUME Init PROVE TypeOK
  OBVIOUS
<1>0. Flows \subseteq Nat \ {0} /\ 1 \in Flows /\ 0 \in Nat /\ 1 \in Nat
  BY Sorts
<1>1. NoHold \in Hold
  BY DEF Hold
<1>2. row \in Row
  BY <1>0, <1>1 DEF Init, Row, Refs, None
<1>3. /\ NoToken \in Token /\ Empty(0) \in Secret
      /\ \A g \in Flows : [grant |-> g, seq |-> 0] \in Token
  BY <1>0 DEF NoToken, Token, Empty, Secret, None
<1>4. [id |-> 1, gen |-> Stride, token |-> [grant |-> 1, seq |-> 0]] \in Secret
  BY <1>0, <1>3, ConnectionConstants DEF Secret
<1>5. secrets \in [access : Secret, refresh : Secret]
  BY <1>3, <1>4 DEF Init
<1>6. vendor \in [live : SUBSET Flows, seq : [Flows -> Nat], rotates : BOOLEAN]
  BY <1>0 DEF Init
<1>7. /\ NoFlow \in Flow
      /\ [NoFlow EXCEPT !.pc = "done"] \in Flow /\ [NoFlow EXCEPT !.pc = "pending"] \in Flow
  BY <1>0 DEF NoFlow, Flow, FlowSteps, Refs, None
<1>8. flow \in [Flows -> Flow]
  BY <1>7 DEF Init
<1>9. Calm \in Refresh
  BY <1>0, <1>3 DEF Calm, Refresh, RefreshSteps, None
<1>10. Waiting \in Removal
  BY <1>0, <1>3 DEF Waiting, Removal, RemovalSteps, Refs, None
<1>11. /\ clock \in [taken : Nat, lapsed : Nat, over : Nat]
       /\ clock.over <= clock.lapsed /\ clock.lapsed <= clock.taken
  BY DEF Init
<1> QED
  BY <1>2, <1>5, <1>6, <1>8, <1>9, <1>10, <1>11, ConnectionConstants DEF Init, TypeOK

(* The row, its secrets and every request stay well formed, through every    *)
(* order of callbacks, refreshes, removals, lapsing leases and deaths.       *)
THEOREM ConnectionTyped == Spec => []TypeOK
<1>1. Init => TypeOK
  BY InitTyped
<1>2. TypeOK /\ [Next]_vars => TypeOK'
  BY StepTyped
<1> QED
  BY <1>1, <1>2, PTL DEF Spec

-------------------------------------------------------------------------------
(* Leases.  A writer that goes on is known to the row by its lease, or the   *)
(* refresh that took its lapsed lease has marked it as overtaken.            *)

Writers == Flows \cup Refreshers

Puttings == {"writing", "half", "stored"}

Leased == Puttings \cup {"unpublished", "failed"}

Active(r) == refresh[r].pc \notin {"idle", "done"}

Leading(x) == Writing(x) /\ x \notin overtaken

LeasesTaken ==
  /\ row.lease <= clock.taken
  /\ \A x \in Writers : LeaseOf(x) <= clock.taken
  /\ \A c \in Flows : flow[c].inherited <= flow[c].lease
  /\ \A c \in Flows : flow[c].pc \in Leased => flow[c].lease > 0
  /\ \A c \in Flows : flow[c].pc \in {"none", "pending"} =>
                       flow[c].lease = 0 /\ flow[c].inherited = 0
  /\ \A r \in Refreshers : refresh[r].pc # "idle" => refresh[r].lease > 0

LeasesDiffer == \A x, y \in Writers : x # y /\ LeaseOf(x) = LeaseOf(y) => LeaseOf(x) = 0

(* A writer that goes on is done before its lease is over.                   *)
InTime == \A x \in Writers : Writing(x) /\ LeaseOf(x) > 0 => LeaseOf(x) > clock.over

(* The row's lease is not older than that of a writer nobody overtook; nor   *)
(* was the one a callback will put back when it is done.                     *)
Lead == \A x \in Writers : Leading(x) => LeaseOf(x) <= row.lease

LeadBefore ==
  \A c \in Flows, x \in Writers :
    Leading(x) /\ LeaseOf(x) < flow[c].lease => LeaseOf(x) <= flow[c].inherited

(* A refresh that may still commit holds the row's lease, and whoever writes *)
(* beside it was overtaken.                                                  *)
Alone ==
  \A r \in Refreshers : Active(r) /\ StillFenced(r) =>
    /\ row.lease = refresh[r].lease
    /\ \A x \in Writers \ {r} : Writing(x) /\ LeaseOf(x) > 0 => x \in overtaken

Leases == LeasesTaken /\ LeasesDiffer /\ InTime /\ Lead /\ LeadBefore /\ Alone

(* Authorization generations.  What is admitted under one belongs to a       *)
(* callback that is done, or to a removal that no callback shares it with.   *)

Begins ==
  /\ \A c \in Flows : c > row.auth => flow[c].pc = "none"
  /\ row.cred # None => row.cred <= row.auth /\ flow[row.cred].pc = "done"

RefreshesKnow ==
  \A r \in Refreshers : refresh[r].pc # "idle" =>
    /\ refresh[r].auth \in Flows /\ refresh[r].auth <= row.auth
    /\ flow[refresh[r].auth].pc = "done"
    /\ refresh[r].auth = row.auth => refresh[r].gen <= row.gen
    /\ row.status = "disconnected" => refresh[r].auth # row.auth

LastRetired ==
  \A c \in Flows : flow[c].pc \in Puttings /\ row.auth = c => row.lease = flow[c].lease

RemovalsKnow ==
  \A d \in Removers : removal[d].pc # "idle" =>
    /\ removal[d].auth <= row.auth
    /\ removal[d].auth \in Flows => flow[removal[d].auth].pc = "none"
    /\ removal[d].auth = row.auth => row.status \in {"disconnected", "gone"}

Generations == Begins /\ RefreshesKnow /\ LastRetired /\ RemovalsKnow

(* A row that is held, though its hold may have lapsed, is disconnected, and *)
(* no writer but an overtaken one goes on.                                   *)
HoldIsQuiet ==
  row.hold.by # NoRemover =>
    /\ row.status = "disconnected"
    /\ \A x \in Writers : Writing(x) /\ LeaseOf(x) > 0 => x \in overtaken

Quiet == TypeOK /\ Leases /\ Generations /\ HoldIsQuiet

-------------------------------------------------------------------------------
(* Steps that move requests on and leave leases and generations alone.       *)

WritersGoOn ==
  \A x \in Writers : LeaseOf(x)' = LeaseOf(x) /\ (Writing(x)' => Writing(x))

FlowsGoOn ==
  \A c \in Flows :
    /\ flow'[c].lease = flow[c].lease /\ flow'[c].inherited = flow[c].inherited
    /\ flow'[c].pc = "none" <=> flow[c].pc = "none"
    /\ flow[c].pc = "done" => flow'[c].pc = "done"
    /\ flow'[c].pc \in Leased => flow[c].pc \in Leased
    /\ flow'[c].pc \in Puttings => flow[c].pc \in Puttings
    /\ flow'[c].pc = "pending" => flow[c].pc = "pending"

RefreshesGoOn ==
  \A r \in Refreshers :
    /\ refresh'[r].lease = refresh[r].lease
    /\ refresh'[r].auth = refresh[r].auth /\ refresh'[r].gen = refresh[r].gen
    /\ refresh'[r].pc = "idle" <=> refresh[r].pc = "idle"
    /\ refresh[r].pc = "done" => refresh'[r].pc = "done"

RemovalsGoOn ==
  \A d \in Removers :
    /\ removal'[d].auth = removal[d].auth
    /\ removal'[d].pc = "idle" <=> removal[d].pc = "idle"

RowRests ==
  /\ row'.auth = row.auth /\ row'.gen = row.gen /\ row'.cred = row.cred /\ row'.lease = row.lease
  /\ \/ row'.status = row.status /\ row'.hold.by \in {row.hold.by, NoRemover}
     \/ row'.status = "gone" /\ row'.hold.by = NoRemover

TimeRests ==
  /\ clock'.taken = clock.taken /\ clock'.over = clock.over
  /\ dead \subseteq dead' /\ overtaken' = overtaken

LEMMA LeaseTyped == TypeOK => \A x \in Writers : LeaseOf(x) \in Nat
BY DEF TypeOK, Writers, LeaseOf, Flow, Refresh

LEMMA Kinds ==
  /\ \A c \in Flows : LeaseOf(c) = flow[c].lease /\ (Writing(c) <=> flow[c].pc # "done" /\ c \notin dead)
  /\ \A r \in Refreshers :
        LeaseOf(r) = refresh[r].lease /\ (Writing(r) <=> refresh[r].pc # "done" /\ r \notin dead)
BY Sorts DEF LeaseOf, Writing, Finished, Runs

LEMMA KindsNext ==
  /\ \A c \in Flows :
        LeaseOf(c)' = flow'[c].lease /\ (Writing(c)' <=> flow'[c].pc # "done" /\ c \notin dead')
  /\ \A r \in Refreshers :
        LeaseOf(r)' = refresh'[r].lease /\ (Writing(r)' <=> refresh'[r].pc # "done" /\ r \notin dead')
BY Sorts DEF LeaseOf, Writing, Finished, Runs

LEMMA GoingOn ==
  ASSUME FlowsGoOn, RefreshesGoOn, dead \subseteq dead'
  PROVE  WritersGoOn
<1>1. ASSUME NEW c \in Flows PROVE LeaseOf(c)' = LeaseOf(c) /\ (Writing(c)' => Writing(c))
  BY Kinds, KindsNext DEF FlowsGoOn
<1>2. ASSUME NEW r \in Refreshers PROVE LeaseOf(r)' = LeaseOf(r) /\ (Writing(r)' => Writing(r))
  BY Kinds, KindsNext DEF RefreshesGoOn
<1> QED
  BY <1>1, <1>2 DEF WritersGoOn, Writers

LEMMA RestKeeps ==
  ASSUME Quiet, TypeOK', RowRests, TimeRests, FlowsGoOn, RefreshesGoOn, RemovalsGoOn
  PROVE  Quiet'
<1>1. WritersGoOn
  BY GoingOn DEF TimeRests
<1>2. LeasesTaken'
  BY <1>1 DEF Quiet, Leases, LeasesTaken, WritersGoOn, RowRests, TimeRests, FlowsGoOn, RefreshesGoOn
<1>3. LeasesDiffer'
  BY <1>1 DEF Quiet, Leases, LeasesDiffer, WritersGoOn
<1>4. InTime'
  BY <1>1 DEF Quiet, Leases, InTime, WritersGoOn, TimeRests
<1>5. Lead'
  BY <1>1 DEF Quiet, Leases, Lead, Leading, WritersGoOn, TimeRests, RowRests
<1>6. LeadBefore'
  BY <1>1 DEF Quiet, Leases, LeadBefore, Leading, WritersGoOn, TimeRests, FlowsGoOn
<1>7. Alone'
  <2>1. \A r \in Refreshers : Active(r)' => Active(r)
    BY DEF RefreshesGoOn, Active
  <2>2. \A r \in Refreshers : StillFenced(r)' => StillFenced(r)
    BY DEF StillFenced, Exists, RowRests, RefreshesGoOn
  <2> QED
    BY <1>1, <2>1, <2>2 DEF Quiet, Leases, Alone, WritersGoOn, TimeRests, RowRests, RefreshesGoOn
<1>8. Begins'
  BY DEF Quiet, Generations, Begins, RowRests, FlowsGoOn, TypeOK, Row, None
<1>9. RefreshesKnow'
  BY DEF Quiet, Generations, RefreshesKnow, RowRests, RefreshesGoOn, FlowsGoOn
<1>10. LastRetired'
  BY DEF Quiet, Generations, LastRetired, RowRests, FlowsGoOn
<1>11. RemovalsKnow'
  BY DEF Quiet, Generations, RemovalsKnow, RowRests, FlowsGoOn, RemovalsGoOn
<1>12. HoldIsQuiet'
  BY <1>1 DEF Quiet, HoldIsQuiet, RowRests, WritersGoOn, TimeRests
<1> QED
  BY <1>2, <1>3, <1>4, <1>5, <1>6, <1>7, <1>8, <1>9, <1>10, <1>11, <1>12
     DEF Quiet, Leases, Generations

LEMMA FlowMoves ==
  ASSUME TypeOK, NEW c \in Flows, NEW p \in FlowSteps, flow' = [flow EXCEPT ![c].pc = p]
  PROVE  \A k \in Flows : /\ flow'[k].lease = flow[k].lease /\ flow'[k].inherited = flow[k].inherited
                          /\ flow'[k].pc = IF k = c THEN p ELSE flow[k].pc
<1>1. flow \in [Flows -> Flow]
  BY DEF TypeOK
<1> QED
  BY <1>1 DEF Flow

LEMMA RefreshMoves ==
  ASSUME TypeOK, NEW r \in Refreshers, NEW p \in RefreshSteps, refresh[r].pc \notin {"idle", "done"},
         p # "idle", refresh' = [refresh EXCEPT ![r].pc = p]
  PROVE  RefreshesGoOn
<1>1. refresh \in [Refreshers -> Refresh]
  BY DEF TypeOK
<1> QED
  BY <1>1 DEF Refresh, RefreshesGoOn

LEMMA RemovalMoves ==
  ASSUME TypeOK, NEW d \in Removers, NEW p \in RemovalSteps, removal[d].pc # "idle",
         p # "idle", removal' = [removal EXCEPT ![d].pc = p]
  PROVE  RemovalsGoOn
<1>1. removal \in [Removers -> Removal]
  BY DEF TypeOK
<1> QED
  BY <1>1 DEF Removal, RemovalsGoOn

LEMMA UntouchedRest ==
  /\ UNCHANGED row => RowRests
  /\ UNCHANGED flow => FlowsGoOn
  /\ UNCHANGED refresh => RefreshesGoOn
  /\ UNCHANGED removal => RemovalsGoOn
  /\ UNCHANGED <<clock, dead, overtaken>> => TimeRests
BY DEF RowRests, FlowsGoOn, RefreshesGoOn, RemovalsGoOn, TimeRests

(* Callbacks, but for those that take or give back a lease.                  *)
LEMMA CallbacksKeep ==
  ASSUME Quiet, TypeOK', NEW c \in Flows,
         \/ Consume(c) \/ Exchange(c) \/ Withdraw(c) \/ PutAccess(c) \/ PutRefresh(c) \/ PutFails(c)
         \/ (Retire(c) /\ ~Retirable(c)) \/ (Publish(c) /\ ~Publishable(c))
         \/ (Settle(c) /\ flow[c].pc = "refused")
  PROVE  Quiet'
<1>0. TypeOK /\ row \in Row /\ flow \in [Flows -> Flow]
  BY DEF Quiet, TypeOK
<1>1. CASE Consume(c)
  <2>1. RowRests
    BY <1>0, <1>1 DEF Consume, RowRests, Row
  <2>2. flow[c].lease = 0 /\ flow[c].inherited = 0 /\ flow[c].pc = "pending"
    BY <1>1 DEF Consume, Quiet, Leases, LeasesTaken
  <2>3. \A k \in Flows : /\ flow'[k].lease = flow[k].lease /\ flow'[k].inherited = flow[k].inherited
                         /\ flow'[k].pc = IF k = c THEN "consumed" ELSE flow[k].pc
    BY <1>0, <1>1, <2>2 DEF Consume, NoFlow, Flow, None
  <2>4. FlowsGoOn
    BY <2>2, <2>3 DEF FlowsGoOn, Leased, Puttings
  <2> QED
    BY <1>1, <2>1, <2>4, RestKeeps, UntouchedRest DEF Consume
<1>2. CASE ~Consume(c)
  <2>1. UNCHANGED <<row, refresh, removal, clock, dead, overtaken>>
    BY <1>2 DEF Exchange, Withdraw, PutAccess, PutRefresh, PutFails, Retire, Publish, Settle
  <2>2. PICK p \in FlowSteps :
          /\ flow' = [flow EXCEPT ![c].pc = p]
          /\ flow[c].pc \notin {"none", "pending", "done"} /\ p \notin {"none", "pending"}
          /\ p \in Leased => flow[c].pc \in Leased
          /\ p \in Puttings => flow[c].pc \in Puttings
    BY <1>2 DEF Exchange, Withdraw, PutAccess, PutRefresh, PutFails, Retire, Publish, Settle,
                FlowSteps, Leased, Puttings
  <2>3. FlowsGoOn
    BY <1>0, <2>2, FlowMoves DEF FlowsGoOn
  <2> QED
    BY <2>1, <2>3, RestKeeps, UntouchedRest
<1> QED
  BY <1>1, <1>2

LEMMA RefreshesKeep ==
  ASSUME Quiet, TypeOK', NEW r \in Refreshers,
         \/ ReadToken(r) \/ Refreshed(r) \/ Unreachable(r) \/ PutAccessAgain(r) \/ PutRefreshAgain(r)
         \/ ((Refused(r) \/ Commit(r)) /\ ~StillFenced(r))
  PROVE  Quiet'
<1>0. TypeOK /\ refresh \in [Refreshers -> Refresh]
  BY DEF Quiet, TypeOK
<1>1. UNCHANGED <<row, flow, removal, clock, dead, overtaken>>
  BY DEF ReadToken, Refreshed, Unreachable, PutAccessAgain, PutRefreshAgain, Refused, Commit
<1>2. CASE ReadToken(r) \/ Refreshed(r)
  <2>1. /\ refresh[r].pc \notin {"idle", "done"}
        /\ \/ refresh' = [refresh EXCEPT ![r] = [refresh[r] EXCEPT !.pc = "done"]]
           \/ \E t : refresh' = [refresh EXCEPT ![r] = [refresh[r] EXCEPT !.pc = "asking", !.token = t]]
           \/ \E t : refresh' = [refresh EXCEPT ![r] = [refresh[r] EXCEPT !.pc = "got", !.token = t]]
    BY <1>2 DEF ReadToken, Refreshed
  <2>2. RefreshesGoOn
    <3>1. ASSUME NEW v, refresh' = [refresh EXCEPT ![r] = v], v.pc # "idle", v.lease = refresh[r].lease,
                 v.auth = refresh[r].auth, v.gen = refresh[r].gen
          PROVE  RefreshesGoOn
      BY <1>0, <2>1, <3>1 DEF RefreshesGoOn
    <3>2. CASE refresh' = [refresh EXCEPT ![r] = [refresh[r] EXCEPT !.pc = "done"]]
      <4> DEFINE v == [refresh[r] EXCEPT !.pc = "done"]
      <4>1. v.pc # "idle" /\ v.lease = refresh[r].lease /\ v.auth = refresh[r].auth /\ v.gen = refresh[r].gen
        BY <1>0 DEF Refresh
      <4>2. refresh' = [refresh EXCEPT ![r] = v]
        BY <3>2
      <4> HIDE DEF v
      <4> QED
        BY <4>1, <4>2, <3>1
    <3>3. ASSUME NEW t, refresh' = [refresh EXCEPT ![r] = [refresh[r] EXCEPT !.pc = "asking", !.token = t]]
          PROVE  RefreshesGoOn
      <4> DEFINE v == [refresh[r] EXCEPT !.pc = "asking", !.token = t]
      <4>1. v.pc # "idle" /\ v.lease = refresh[r].lease /\ v.auth = refresh[r].auth /\ v.gen = refresh[r].gen
        BY <1>0 DEF Refresh
      <4>2. refresh' = [refresh EXCEPT ![r] = v]
        BY <3>3
      <4> HIDE DEF v
      <4> QED
        BY <4>1, <4>2, <3>1
    <3>4. ASSUME NEW t, refresh' = [refresh EXCEPT ![r] = [refresh[r] EXCEPT !.pc = "got", !.token = t]]
          PROVE  RefreshesGoOn
      <4> DEFINE v == [refresh[r] EXCEPT !.pc = "got", !.token = t]
      <4>1. v.pc # "idle" /\ v.lease = refresh[r].lease /\ v.auth = refresh[r].auth /\ v.gen = refresh[r].gen
        BY <1>0 DEF Refresh
      <4>2. refresh' = [refresh EXCEPT ![r] = v]
        BY <3>4
      <4> HIDE DEF v
      <4> QED
        BY <4>1, <4>2, <3>1
    <3> QED
      BY <2>1, <3>2, <3>3, <3>4
  <2> QED
    BY <1>1, <2>2, RestKeeps, UntouchedRest
<1>3. CASE ~(ReadToken(r) \/ Refreshed(r))
  <2>1. PICK p \in RefreshSteps :
          /\ refresh' = [refresh EXCEPT ![r].pc = p]
          /\ p # "idle" /\ refresh[r].pc \notin {"idle", "done"}
    BY <1>3 DEF Unreachable, PutAccessAgain, PutRefreshAgain, Refused, Commit, RefreshSteps
  <2> QED
    BY <1>0, <1>1, <2>1, RefreshMoves, RestKeeps, UntouchedRest
<1> QED
  BY <1>2, <1>3

LEMMA RemovalsKeep ==
  ASSUME Quiet, TypeOK', NEW d \in Removers,
         \/ (TakeHold(d) /\ ~Holdable(d)) \/ Look(d) \/ Send(d) \/ SendFails(d) \/ SendAccess(d)
         \/ Renew(d) \/ Mark(d) \/ SweepRefresh(d) \/ SweepAccess(d) \/ Delete(d) \/ SweepFails(d)
  PROVE  Quiet'
<1>0. TypeOK /\ row \in Row /\ removal \in [Removers -> Removal] /\ d # NoRemover
  BY Sorts DEF Quiet, TypeOK
<1>1. UNCHANGED <<flow, refresh, clock, dead, overtaken>>
  BY DEF TakeHold, Look, Send, SendFails, SendAccess, Renew, Mark, SweepRefresh, SweepAccess, Delete,
         SweepFails
<1>2. RowRests
  <2>a. ASSUME NEW h, row' = [row EXCEPT !.hold = h], h.by \in {row.hold.by, NoRemover}
        PROVE  RowRests
    BY <1>0, <2>a DEF RowRests, Row
  <2>1. CASE Renew(d) /\ ~UNCHANGED row
    BY <2>a, <2>1 DEF Renew, Renewable
  <2>2. CASE (SendFails(d) \/ SweepFails(d)) /\ ~UNCHANGED row
    BY <2>a, <2>2 DEF SendFails, SweepFails, Freed, NoHold
  <2>3. CASE Mark(d)
    BY <1>0, <2>3 DEF Mark, RowRests, Row
  <2>4. CASE Delete(d)
    BY <1>0, <2>4 DEF Delete, NoHold, RowRests, Row
  <2>5. CASE UNCHANGED row
    BY <2>5, UntouchedRest
  <2> QED
    BY <2>1, <2>2, <2>3, <2>4, <2>5 DEF TakeHold, Look, Send, SendAccess, SweepRefresh, SweepAccess
<1>3. RemovalsGoOn
  <2>1. CASE Look(d) \/ Send(d)
    <3>1. ASSUME NEW v, removal' = [removal EXCEPT ![d] = v], v.pc # "idle", removal[d].pc # "idle",
                 v.auth = removal[d].auth
          PROVE  RemovalsGoOn
      BY <1>0, <3>1 DEF RemovalsGoOn
    <3>2. CASE Look(d)
      <4> DEFINE v == IF removal[d].mark THEN [removal[d] EXCEPT !.pc = "renewing", !.claim = TRUE]
                      ELSE IF ~Behind(secrets.refresh, removal[d].refs.refresh)
                           THEN [removal[d] EXCEPT !.pc = "renewing"]
                      ELSE [removal[d] EXCEPT !.pc = "sending", !.mixed = Mixed(d),
                              !.token = secrets.refresh.token,
                              !.access = IF Mixed(d) THEN secrets.access.token ELSE NoToken]
      <4>1. v.pc # "idle" /\ v.auth = removal[d].auth
        BY <1>0 DEF Removal
      <4>2. removal' = [removal EXCEPT ![d] = v] /\ removal[d].pc # "idle"
        BY <3>2 DEF Look
      <4> HIDE DEF v
      <4> QED
        BY <4>1, <4>2, <3>1
    <3>3. CASE Send(d)
      <4> DEFINE v == [removal[d] EXCEPT !.pc = IF removal[d].mixed THEN "sending access" ELSE "renewing",
                                         !.claim = ~removal[d].mixed]
      <4>1. v.pc # "idle" /\ v.auth = removal[d].auth
        BY <1>0 DEF Removal
      <4>2. removal' = [removal EXCEPT ![d] = v] /\ removal[d].pc # "idle"
        BY <3>3 DEF Send
      <4> HIDE DEF v
      <4> QED
        BY <4>1, <4>2, <3>1
    <3> QED
      BY <2>1, <3>2, <3>3
  <2>2. CASE ~(Look(d) \/ Send(d))
    <3>1. PICK p \in RemovalSteps :
            removal' = [removal EXCEPT ![d].pc = p] /\ p # "idle" /\ removal[d].pc # "idle"
      BY <2>2 DEF TakeHold, SendFails, SendAccess, Renew, Mark, SweepRefresh, SweepAccess, Delete,
                  SweepFails, RemovalSteps
    <3> QED
      BY <1>0, <3>1, RemovalMoves
  <2> QED
    BY <2>1, <2>2
<1> QED
  BY <1>1, <1>2, <1>3, RestKeeps, UntouchedRest

LEMMA OutsideKeeps ==
  ASSUME Quiet, TypeOK',
         LeaseLapses \/ HoldLapses \/ UNCHANGED vars
         \/ \E x \in Flows \cup Refreshers \cup Removers : BreaksOff(x)
  PROVE  Quiet'
<1>0. TypeOK /\ row \in Row
  BY DEF Quiet, TypeOK
<1>1. UNCHANGED <<flow, refresh, removal>>
  BY DEF LeaseLapses, HoldLapses, BreaksOff, vars
<1>2. RowRests
  <2>1. CASE HoldLapses
    <3>1. row' = [row EXCEPT !.hold = [row.hold EXCEPT !.lapsed = TRUE]]
      BY <2>1 DEF HoldLapses
    <3>2. row.hold \in Hold
      BY <1>0 DEF Row
    <3>3. [row.hold EXCEPT !.lapsed = TRUE].by = row.hold.by
      BY <3>2 DEF Hold, NoHold
    <3> QED
      BY <1>0, <3>1, <3>3 DEF RowRests, Row
  <2>2. CASE UNCHANGED row
    BY <2>2, UntouchedRest
  <2> QED
    BY <2>1, <2>2 DEF LeaseLapses, BreaksOff, vars
<1>3. TimeRests
  <2>1. CASE LeaseLapses
    <3>1. clock \in [taken : Nat, lapsed : Nat, over : Nat]
      BY <1>0 DEF TypeOK
    <3> QED
      BY <2>1, <3>1 DEF LeaseLapses, TimeRests
  <2>2. CASE ~LeaseLapses
    BY <2>2 DEF HoldLapses, BreaksOff, vars, TimeRests
  <2> QED
    BY <2>1, <2>2
<1> QED
  BY <1>1, <1>2, <1>3, RestKeeps, UntouchedRest

-------------------------------------------------------------------------------
(* A new generation: whoever was admitted under an older one is no longer    *)
(* current.                                                                  *)
LEMMA GenerationKeeps ==
  ASSUME Quiet, TypeOK', Start \/ \E d \in Removers : Disconnect(d)
  PROVE  Quiet'
<1>0. /\ TypeOK /\ row \in Row /\ flow \in [Flows -> Flow] /\ removal \in [Removers -> Removal]
      /\ row.auth \in Nat /\ row.auth + 1 \in Nat /\ row.auth + 1 > row.auth
      /\ Flows \subseteq Nat
  BY Sorts DEF Quiet, TypeOK, Row
<1>1. UNCHANGED <<refresh, clock, dead, overtaken>>
  BY DEF Start, Disconnect
<1>2. /\ row'.auth = row.auth + 1 /\ row'.gen = row.gen /\ row'.cred = row.cred
      /\ row'.lease = row.lease /\ row'.hold = row.hold
      /\ row'.status \in {row.status, "disconnected"}
  <2>1. CASE Start
    BY <1>0, <2>1 DEF Start, Row
  <2>2. ASSUME NEW d \in Removers, Disconnect(d) PROVE <1>2!:
    BY <1>0, <2>2 DEF Disconnect, Disconnected, Row
  <2> QED
    BY <2>1, <2>2
<1>3. \A k \in Flows : /\ flow'[k].lease = flow[k].lease /\ flow'[k].inherited = flow[k].inherited
                       /\ \/ flow'[k].pc = flow[k].pc
                          \/ k = row.auth + 1 /\ flow'[k].pc = "pending" /\ Start
  <2>1. CASE Start
    BY <1>0, <2>1 DEF Start, Flow
  <2>2. ASSUME NEW d \in Removers, Disconnect(d) PROVE UNCHANGED flow
    BY <2>2 DEF Disconnect
  <2> QED
    BY <2>1, <2>2
<1>4. \A k \in Flows : k > row.auth => flow[k].pc = "none"
  BY DEF Quiet, Generations, Begins
<1>5. WritersGoOn
  <2>1. \A k \in Flows : flow'[k].pc = "done" <=> flow[k].pc = "done"
    BY <1>0, <1>3, <1>4
  <2>2. ASSUME NEW c \in Flows PROVE LeaseOf(c)' = LeaseOf(c) /\ (Writing(c)' => Writing(c))
    BY <1>1, <1>3, <2>1, Kinds, KindsNext
  <2>3. ASSUME NEW r \in Refreshers PROVE LeaseOf(r)' = LeaseOf(r) /\ (Writing(r)' => Writing(r))
    BY <1>1, Kinds, KindsNext
  <2> QED
    BY <2>2, <2>3 DEF WritersGoOn, Writers
<1>6. LeasesTaken'
  BY <1>0, <1>1, <1>2, <1>3, <1>4, <1>5
     DEF Quiet, Leases, LeasesTaken, WritersGoOn, Leased, Puttings
<1>7. LeasesDiffer' /\ InTime'
  BY <1>1, <1>5 DEF Quiet, Leases, LeasesDiffer, InTime, WritersGoOn
<1>8. Lead' /\ LeadBefore'
  BY <1>1, <1>2, <1>3, <1>5 DEF Quiet, Leases, Lead, LeadBefore, Leading, WritersGoOn
<1>9. \A r \in Refreshers : refresh[r].pc # "idle" => refresh[r].auth \in Nat /\ refresh[r].auth < row'.auth
  <2>1. \A r \in Refreshers :
          refresh[r].pc # "idle" => refresh[r].auth \in Flows /\ refresh[r].auth <= row.auth
    BY DEF Quiet, Generations, RefreshesKnow
  <2>2. row.auth \in Nat /\ row'.auth = row.auth + 1 /\ Flows \subseteq Nat
    BY <1>0, <1>2
  <2>3. ASSUME NEW r \in Refreshers, refresh[r].pc # "idle"
        PROVE  refresh[r].auth \in Nat /\ refresh[r].auth < row'.auth
    <3>1. refresh[r].auth \in Nat /\ refresh[r].auth <= row.auth
      BY <2>1, <2>2, <2>3
    <3>2. \A a, b \in Nat : a <= b => a < b + 1
      OBVIOUS
    <3>3. refresh[r].auth < row.auth + 1
      BY <2>2, <3>1, <3>2
    <3> QED
      BY <2>2, <3>1, <3>3
  <2> QED
    BY <2>3
<1>10. Alone'
  BY <1>1, <1>9 DEF Alone, Active, StillFenced
<1>11. Begins'
  <2>1. ASSUME NEW k \in Flows, k > row'.auth PROVE flow'[k].pc = "none"
    BY <1>0, <1>2, <1>3, <1>4, <2>1
  <2>2. row.cred # None => row.cred \in Flows /\ row.cred <= row.auth /\ flow[row.cred].pc = "done"
    BY <1>0 DEF Quiet, Generations, Begins, Row
  <2>3. row.cred # None => row.cred <= row'.auth /\ flow'[row.cred].pc = "done"
    BY <1>0, <1>2, <1>3, <2>2
  <2> QED
    BY <1>2, <2>1, <2>3 DEF Begins
<1>12. RefreshesKnow'
  BY <1>0, <1>1, <1>2, <1>3, <1>9 DEF Quiet, Generations, RefreshesKnow
<1>13. LastRetired'
  BY <1>0, <1>2, <1>3, <1>4 DEF LastRetired, Puttings
<1>14. RemovalsKnow'
  <2>1. ASSUME NEW e \in Removers, removal[e].pc # "idle", removal'[e] = removal[e]
        PROVE  /\ removal'[e].auth <= row'.auth /\ removal'[e].auth # row'.auth
               /\ removal'[e].auth \in Flows => flow'[removal'[e].auth].pc = "none"
    <3>1. removal[e].auth \in Nat /\ removal[e].auth <= row.auth
      BY <1>0, <2>1 DEF Quiet, Generations, RemovalsKnow, Removal
    <3> QED
      BY <1>0, <1>2, <1>3, <2>1, <3>1 DEF Quiet, Generations, RemovalsKnow
  <2>2. CASE Start
    BY <2>1, <2>2 DEF Start, RemovalsKnow
  <2>3. ASSUME NEW d \in Removers, Disconnect(d) PROVE RemovalsKnow'
    <3>1. /\ removal'[d].auth = row'.auth
          /\ \A e \in Removers \ {d} : removal'[e] = removal[e]
      BY <1>0, <1>2, <2>3 DEF Disconnect, Waiting
    <3>2. row'.status = "disconnected" /\ UNCHANGED flow
      BY <1>0, <2>3 DEF Disconnect, Disconnected, Row
    <3> QED
      BY <1>0, <1>2, <1>4, <2>1, <3>1, <3>2 DEF RemovalsKnow
  <2> QED
    BY <2>2, <2>3
<1>15. HoldIsQuiet'
  BY <1>1, <1>2, <1>5 DEF Quiet, HoldIsQuiet, WritersGoOn
<1> QED
  BY <1>6, <1>7, <1>8, <1>10, <1>11, <1>12, <1>13, <1>14, <1>15 DEF Quiet, Leases, Generations

(* The removal takes its hold: every lease of the row is over.               *)
LEMMA HoldKeeps ==
  ASSUME Quiet, TypeOK', NEW d \in Removers, TakeHold(d), Holdable(d)
  PROVE  Quiet'
<1>0. TypeOK /\ row \in Row
  BY DEF Quiet, TypeOK
<1>1. /\ row'.auth = row.auth /\ row'.gen = row.gen /\ row'.cred = row.cred
      /\ row'.lease = row.lease /\ row'.status = row.status
  BY <1>0 DEF TakeHold, Row
<1>2. UNCHANGED <<flow, refresh, clock, dead, overtaken>>
  BY DEF TakeHold
<1>3. removal' = [removal EXCEPT ![d].pc = "held"] /\ removal[d].pc = "marked"
  BY DEF TakeHold
<1>4. RemovalsGoOn
  BY <1>0, <1>3, RemovalMoves DEF RemovalSteps
<1>5. row.status = "disconnected"
  BY <1>3 DEF Holdable, Exists, Quiet, Generations, RemovalsKnow
<1>6. \A x \in Writers : Writing(x) /\ LeaseOf(x) > 0 => x \in overtaken
  <2>1. /\ row.lease \in Nat /\ clock.over \in Nat /\ row.lease <= clock.over
        /\ \A x \in Writers : LeaseOf(x) \in Nat
    BY <1>0, LeaseTyped DEF Holdable, Row, TypeOK
  <2> QED
    BY <2>1 DEF Quiet, Leases, InTime, Lead, Leading
<1>7. WritersGoOn
  BY <1>2, GoingOn, UntouchedRest
<1>8. Leases'
  <2>1. LeasesTaken' /\ LeasesDiffer' /\ InTime' /\ Lead' /\ LeadBefore'
    BY <1>1, <1>2, <1>7 DEF Quiet, Leases, LeasesTaken, LeasesDiffer, InTime, Lead, LeadBefore, Leading,
                            WritersGoOn
  <2>2. Alone'
    BY <1>1, <1>2, <1>7 DEF Quiet, Leases, Alone, Active, StillFenced, Exists, WritersGoOn
  <2> QED
    BY <2>1, <2>2 DEF Leases
<1>9. Generations'
  <2>1. Begins' /\ RefreshesKnow' /\ LastRetired'
    BY <1>1, <1>2 DEF Quiet, Generations, Begins, RefreshesKnow, LastRetired
  <2>2. RemovalsKnow'
    BY <1>1, <1>2, <1>4 DEF Quiet, Generations, RemovalsKnow, RemovalsGoOn
  <2> QED
    BY <2>1, <2>2 DEF Generations
<1>10. HoldIsQuiet'
  BY <1>1, <1>2, <1>5, <1>6, <1>7 DEF HoldIsQuiet, WritersGoOn
<1> QED
  BY <1>8, <1>9, <1>10 DEF Quiet

(* A lease is over when its writer is done or dead.                          *)
LEMMA OverKeeps ==
  ASSUME Quiet, TypeOK', LeaseIsOver
  PROVE  Quiet'
<1>0. TypeOK /\ clock \in [taken : Nat, lapsed : Nat, over : Nat]
  BY DEF Quiet, TypeOK
<1>1. /\ UNCHANGED <<row, flow, refresh, removal, dead, overtaken>>
      /\ clock'.taken = clock.taken /\ clock'.over = clock.over + 1
  BY <1>0 DEF LeaseIsOver
<1>2. WritersGoOn
  BY <1>1, GoingOn, UntouchedRest
<1>3. ASSUME NEW x \in Writers, Writing(x), LeaseOf(x) = clock.over + 1
      PROVE  FALSE
  <2> DEFINE w == Writer(clock.over + 1)
  <2>1. w \in Writers /\ LeaseOf(w) = clock.over + 1
    BY <1>3 DEF Writer, Writers
  <2>2. w = x
    BY <1>0, <1>3, <2>1 DEF Quiet, Leases, LeasesDiffer
  <2>3. Finished(w) \/ w \in dead
    BY DEF LeaseIsOver
  <2> QED
    BY <1>3, <2>2, <2>3 DEF Writing, Runs
<1>4. InTime'
  BY <1>0, <1>1, <1>2, <1>3, LeaseTyped DEF Quiet, Leases, InTime, WritersGoOn
<1>5. LeasesTaken' /\ LeasesDiffer' /\ Lead' /\ LeadBefore' /\ Alone'
  BY <1>1, <1>2 DEF Quiet, Leases, LeasesTaken, LeasesDiffer, Lead, LeadBefore, Leading, Alone, Active,
                    StillFenced, Exists, WritersGoOn
<1>6. Generations'
  BY <1>1 DEF Quiet, Generations, Begins, RefreshesKnow, LastRetired, RemovalsKnow
<1>7. HoldIsQuiet'
  BY <1>1, <1>2 DEF Quiet, HoldIsQuiet, WritersGoOn
<1> QED
  BY <1>4, <1>5, <1>6, <1>7 DEF Quiet, Leases

-------------------------------------------------------------------------------
(* Leases taken.                                                             *)

(* The retire write of a callback.                                           *)
LEMMA RetireKeeps ==
  ASSUME Quiet, TypeOK', NEW c \in Flows, Retire(c), Retirable(c)
  PROVE  Quiet'
<1> DEFINE new == clock.taken + 1
<1>0. /\ TypeOK /\ row \in Row /\ flow \in [Flows -> Flow] /\ c \in Nat
      /\ clock \in [taken : Nat, lapsed : Nat, over : Nat]
      /\ clock.over <= clock.lapsed /\ clock.lapsed <= clock.taken
  BY Sorts DEF Quiet, TypeOK
<1>1. /\ row'.auth = row.auth /\ row'.gen = row.gen /\ row'.cred = row.cred /\ row.auth = c
      /\ row'.lease = new /\ row'.status = "error" /\ row'.hold = NoHold
  BY <1>0 DEF Retire, Retirable, Retired, Row
<1>2. /\ UNCHANGED <<refresh, removal, dead, overtaken>> /\ c \notin dead
      /\ clock'.taken = new /\ clock'.over = clock.over
  BY <1>0 DEF Retire, Runs
<1>3. /\ flow[c].pc = "issued" /\ flow'[c].pc = "writing"
      /\ flow'[c].lease = new /\ flow'[c].inherited = row.lease
      /\ \A k \in Flows \ {c} : flow'[k] = flow[k]
  BY <1>0 DEF Retire, Flow
<1>4. /\ LeaseOf(c)' = new /\ Writing(c)
      /\ \A x \in Writers \ {c} : LeaseOf(x)' = LeaseOf(x) /\ (Writing(x)' <=> Writing(x))
  <2>1. LeaseOf(c)' = new /\ Writing(c)
    BY <1>2, <1>3, Kinds, KindsNext
  <2>2. \A k \in Flows \ {c} : LeaseOf(k)' = LeaseOf(k) /\ (Writing(k)' <=> Writing(k))
    BY <1>2, <1>3, Kinds, KindsNext
  <2>3. \A r \in Refreshers : LeaseOf(r)' = LeaseOf(r) /\ (Writing(r)' <=> Writing(r))
    BY <1>2, Kinds, KindsNext
  <2> QED
    BY <2>1, <2>2, <2>3 DEF Writers
<1>5. /\ new \in Nat /\ clock.taken \in Nat /\ row.lease \in Nat /\ row.lease <= clock.taken
      /\ clock.over \in Nat /\ clock.over < new
      /\ \A x \in Writers : LeaseOf(x) \in Nat /\ LeaseOf(x) < new
      /\ \A k \in Flows : flow[k].lease \in Nat /\ flow[k].lease < new
  <2>1. \A x \in Writers : LeaseOf(x) \in Nat /\ LeaseOf(x) <= clock.taken
    BY <1>0, LeaseTyped DEF Quiet, Leases, LeasesTaken
  <2>2. row.lease \in Nat /\ row.lease <= clock.taken
    BY <1>0 DEF Quiet, Leases, LeasesTaken, Row
  <2>3. \A k \in Flows : flow[k].lease = LeaseOf(k) /\ k \in Writers
    BY Kinds DEF Writers
  <2> QED
    BY <1>0, <2>1, <2>2, <2>3
<1>6. LeasesTaken'
  <2>1. \A x \in Writers : LeaseOf(x)' <= new
    BY <1>4, <1>5
  <2>2. \A k \in Flows : flow'[k].inherited <= flow'[k].lease
    BY <1>3, <1>5 DEF Quiet, Leases, LeasesTaken
  <2>3. /\ \A k \in Flows : flow'[k].pc \in Leased => flow'[k].lease > 0
        /\ \A k \in Flows : flow'[k].pc \in {"none", "pending"} =>
                               flow'[k].lease = 0 /\ flow'[k].inherited = 0
    BY <1>3, <1>5 DEF Quiet, Leases, LeasesTaken
  <2>4. new <= new
    BY <1>5
  <2> HIDE DEF new
  <2> QED
    BY <1>1, <1>2, <2>1, <2>2, <2>3, <2>4 DEF Quiet, Leases, LeasesTaken
<1>7. LeasesDiffer'
  BY <1>4, <1>5 DEF Quiet, Leases, LeasesDiffer
<1>8. InTime'
  BY <1>2, <1>4, <1>5 DEF Quiet, Leases, InTime
<1>9. Lead'
  BY <1>1, <1>4, <1>5 DEF Lead
<1>10. LeadBefore'
  <2> SUFFICES ASSUME NEW k \in Flows, NEW x \in Writers, Leading(x)', LeaseOf(x)' < flow'[k].lease
               PROVE  LeaseOf(x)' <= flow'[k].inherited
    BY DEF LeadBefore
  <2>1. x # c
    BY <1>3, <1>4, <1>5
  <2>2. Leading(x) /\ LeaseOf(x)' = LeaseOf(x)
    BY <1>2, <1>4, <2>1 DEF Leading
  <2>3. CASE k = c
    BY <1>3, <2>2, <2>3 DEF Quiet, Leases, Lead
  <2>4. CASE k # c
    BY <1>3, <2>2, <2>4 DEF Quiet, Leases, LeadBefore
  <2> QED
    BY <2>3, <2>4
<1>11. \A r \in Refreshers : refresh[r].pc # "idle" => refresh[r].auth # row.auth
  BY <1>1, <1>3 DEF Quiet, Generations, RefreshesKnow
<1>12. Alone'
  BY <1>1, <1>2, <1>11 DEF Alone, Active, StillFenced
<1>13. Begins'
  <2>1. row.cred # None => row.cred \in Flows /\ row.cred # c
    BY <1>0, <1>3 DEF Quiet, Generations, Begins, Row
  <2>2. \A k \in Flows : k > row.auth => k # c
    BY <1>0, <1>1
  <2> QED
    BY <1>1, <1>3, <2>1, <2>2 DEF Quiet, Generations, Begins
<1>14. RefreshesKnow'
  BY <1>1, <1>2, <1>3 DEF Quiet, Generations, RefreshesKnow
<1>15. LastRetired'
  BY <1>1, <1>3, <1>5 DEF LastRetired
<1>16. RemovalsKnow'
  BY <1>1, <1>2, <1>3 DEF Quiet, Generations, RemovalsKnow
<1>17. HoldIsQuiet'
  BY <1>1 DEF HoldIsQuiet, NoHold
<1> QED
  BY <1>6, <1>7, <1>8, <1>9, <1>10, <1>12, <1>13, <1>14, <1>15, <1>16, <1>17
     DEF Quiet, Leases, Generations

(* The fence of a refresh: whoever still writes under the row's lapsed lease *)
(* is overtaken.                                                             *)
LEMMA FenceKeeps ==
  ASSUME Quiet, TypeOK', NEW r \in Refreshers, Fence(r)
  PROVE  Quiet'
<1> DEFINE new == clock.taken + 1
<1>0. /\ TypeOK /\ row \in Row /\ refresh \in [Refreshers -> Refresh] /\ row.cred \in Flows \cup {None}
      /\ clock \in [taken : Nat, lapsed : Nat, over : Nat]
      /\ clock.over <= clock.lapsed /\ clock.lapsed <= clock.taken
      /\ row.auth \in Nat \ {0} /\ row.gen \in Nat
  BY DEF Quiet, TypeOK, Row
<1>1. /\ row'.auth = row.auth /\ row'.gen = row.gen + 1 /\ row'.cred = row.cred
      /\ row'.lease = new /\ row'.status = row.status /\ row'.hold = row.hold
      /\ row.status = "connected" /\ row.cred = row.auth
  BY <1>0 DEF Fence, Fenceable, Row
<1>2. /\ UNCHANGED <<flow, removal, dead>>
      /\ clock'.taken = new /\ clock'.over = clock.over
  BY <1>0 DEF Fence
<1>3. /\ refresh[r].pc = "idle" /\ refresh'[r].pc = "fenced"
      /\ refresh'[r].lease = new /\ refresh'[r].auth = row.auth /\ refresh'[r].gen = row.gen + 1
      /\ \A q \in Refreshers \ {r} : refresh'[q] = refresh[q]
  BY <1>0 DEF Fence, Calm
<1>4. /\ LeaseOf(r)' = new
      /\ \A x \in Writers \ {r} : LeaseOf(x)' = LeaseOf(x) /\ (Writing(x)' <=> Writing(x))
  <2>1. LeaseOf(r)' = new
    BY <1>3, KindsNext
  <2>2. \A k \in Flows : LeaseOf(k)' = LeaseOf(k) /\ (Writing(k)' <=> Writing(k))
    BY <1>2, Kinds, KindsNext
  <2>3. \A q \in Refreshers \ {r} : LeaseOf(q)' = LeaseOf(q) /\ (Writing(q)' <=> Writing(q))
    BY <1>2, <1>3, Kinds, KindsNext
  <2> QED
    BY <2>1, <2>2, <2>3 DEF Writers
<1>5. /\ new \in Nat /\ clock.taken \in Nat /\ row.lease \in Nat /\ row.lease <= clock.taken
      /\ clock.over \in Nat /\ clock.over < new
      /\ \A x \in Writers : LeaseOf(x) \in Nat /\ LeaseOf(x) < new
      /\ \A k \in Flows : flow[k].lease \in Nat /\ flow[k].lease < new
  <2>1. \A x \in Writers : LeaseOf(x) \in Nat /\ LeaseOf(x) <= clock.taken
    BY <1>0, LeaseTyped DEF Quiet, Leases, LeasesTaken
  <2>2. row.lease \in Nat /\ row.lease <= clock.taken
    BY <1>0 DEF Quiet, Leases, LeasesTaken, Row
  <2>3. \A k \in Flows : flow[k].lease = LeaseOf(k) /\ k \in Writers
    BY Kinds DEF Writers
  <2> QED
    BY <1>0, <2>1, <2>2, <2>3
<1>6. /\ overtaken \subseteq overtaken'
      /\ \A x \in Writers : Writing(x) /\ LeaseOf(x) > 0 => x \in overtaken'
  <2>1. overtaken' = overtaken \cup
                     {x \in Writers : LeaseOf(x) \in 1 .. row.lease /\ Writing(x)}
    BY DEF Fence, Writers
  <2>2. \A x \in Writers : Writing(x) /\ x \notin overtaken => LeaseOf(x) <= row.lease
    BY DEF Quiet, Leases, Lead, Leading
  <2> QED
    BY <1>5, <2>1, <2>2
<1>7. LeasesTaken'
  <2>1. \A x \in Writers : LeaseOf(x)' <= new
    BY <1>4, <1>5
  <2>2. new <= new /\ new > 0
    BY <1>5
  <2> HIDE DEF new
  <2> QED
    BY <1>1, <1>2, <1>3, <2>1, <2>2 DEF Quiet, Leases, LeasesTaken
<1>8. LeasesDiffer'
  BY <1>4, <1>5 DEF Quiet, Leases, LeasesDiffer
<1>9. InTime'
  BY <1>2, <1>4, <1>5 DEF Quiet, Leases, InTime
<1>10. Lead'
  BY <1>1, <1>4, <1>5 DEF Lead
<1>11. LeadBefore'
  <2> SUFFICES ASSUME NEW k \in Flows, NEW x \in Writers, Leading(x)', LeaseOf(x)' < flow[k].lease
               PROVE  LeaseOf(x)' <= flow[k].inherited
    BY <1>2 DEF LeadBefore
  <2>1. x # r
    BY <1>4, <1>5
  <2>2. Leading(x) /\ LeaseOf(x)' = LeaseOf(x)
    BY <1>4, <1>6, <2>1 DEF Leading
  <2> QED
    BY <2>2 DEF Quiet, Leases, LeadBefore
<1>12. Alone'
  <2>1. ASSUME NEW q \in Refreshers \ {r} PROVE ~(Active(q)' /\ StillFenced(q)')
    <3>1. refresh[q].pc # "idle" /\ refresh[q].auth = row.auth =>
             refresh[q].gen \in Nat /\ refresh[q].gen <= row.gen
      BY <1>0 DEF Quiet, Generations, RefreshesKnow, Refresh
    <3> QED
      BY <1>0, <1>1, <1>3, <3>1 DEF Active, StillFenced
  <2>2. \A x \in Writers \ {r} : Writing(x)' /\ LeaseOf(x)' > 0 => x \in overtaken'
    BY <1>4, <1>6
  <2> QED
    BY <1>1, <1>3, <2>1, <2>2 DEF Alone
<1>13. row.auth \in Flows /\ flow[row.auth].pc = "done"
  BY <1>0, <1>1 DEF Quiet, Generations, Begins, None
<1>14. Begins' /\ LastRetired' /\ RemovalsKnow'
  <2>1. Begins'
    BY <1>1, <1>2 DEF Quiet, Generations, Begins
  <2>2. LastRetired'
    BY <1>1, <1>2, <1>13 DEF LastRetired, Puttings
  <2>3. RemovalsKnow'
    BY <1>1, <1>2 DEF Quiet, Generations, RemovalsKnow
  <2> QED
    BY <2>1, <2>2, <2>3
<1>15. RefreshesKnow'
  <2>1. ASSUME NEW q \in Refreshers \ {r}, refresh[q].pc # "idle", refresh[q].auth = row.auth
        PROVE  refresh[q].gen <= row.gen + 1
    <3>1. refresh[q].gen \in Nat /\ refresh[q].gen <= row.gen
      BY <1>0, <2>1 DEF Quiet, Generations, RefreshesKnow, Refresh
    <3> QED
      BY <1>0, <3>1
  <2>2. row.auth <= row.auth /\ row.gen + 1 <= row.gen + 1
    BY <1>0
  <2> QED
    BY <1>1, <1>2, <1>3, <1>13, <2>1, <2>2 DEF Quiet, Generations, RefreshesKnow
<1>16. HoldIsQuiet'
  BY <1>1 DEF Quiet, HoldIsQuiet
<1> QED
  BY <1>7, <1>8, <1>9, <1>10, <1>11, <1>12, <1>14, <1>15, <1>16 DEF Quiet, Leases, Generations

-------------------------------------------------------------------------------
(* Leases given back.                                                        *)

(* A callback is done and puts back the lease it found: publishing, or, if   *)
(* the row still has its own lease, giving up.                               *)
LEMMA GiveBackKeeps ==
  ASSUME Quiet, TypeOK', NEW c \in Flows,
         \/ Publish(c) /\ Publishable(c)
         \/ Settle(c) /\ flow[c].pc = "unpublished"
         \/ GiveUp(c)
  PROVE  Quiet'
<1>0. /\ TypeOK /\ row \in Row /\ flow \in [Flows -> Flow] /\ c \in Nat /\ c # None
      /\ row.lease \in Nat /\ flow[c].lease \in Nat /\ flow[c].inherited \in Nat
  BY Sorts DEF Quiet, TypeOK, Row, Flow, None
<1>1. /\ UNCHANGED <<refresh, removal, clock, dead, overtaken>>
      /\ flow' = [flow EXCEPT ![c].pc = "done"]
      /\ flow[c].pc \in {"stored", "unpublished", "failed"}
  BY DEF Publish, Settle, GiveUp
<1>2. /\ \A k \in Flows : flow'[k].lease = flow[k].lease /\ flow'[k].inherited = flow[k].inherited
      /\ \A k \in Flows \ {c} : flow'[k].pc = flow[k].pc
      /\ flow'[c].pc = "done"
  BY <1>0, <1>1, FlowMoves DEF FlowSteps
<1>3. FlowsGoOn
  BY <1>1, <1>2 DEF FlowsGoOn, Leased, Puttings
<1>4. WritersGoOn /\ ~Writing(c)'
  BY <1>1, <1>2, <1>3, GoingOn, KindsNext, UntouchedRest
<1>5. flow[c].lease > 0 /\ flow[c].inherited <= flow[c].lease
  BY <1>1 DEF Quiet, Leases, LeasesTaken, Leased, Puttings
<1>6. /\ row'.auth = row.auth /\ row'.hold = row.hold
      /\ \/ row'.lease = row.lease
         \/ row.lease = flow[c].lease /\ row'.lease = flow[c].inherited
      /\ \/ /\ row.auth = c /\ row.status = "error" /\ row'.status = "connected"
            /\ row'.cred = c /\ row'.gen = 0
         \/ row'.status = row.status /\ row'.cred = row.cred /\ row'.gen = row.gen
  <2>1. CASE Publish(c) /\ Publishable(c)
    <3>1. flow[c].pc = "stored" /\ row.auth = c /\ row.status = "error" /\ row' = Published(c)
      BY <2>1 DEF Publish, Publishable
    <3>2. row.lease = flow[c].lease
      BY <3>1 DEF Quiet, Generations, LastRetired, Puttings
    <3> QED
      BY <1>0, <3>1, <3>2 DEF Published, Row
  <2>2. CASE row' = Released(c)
    BY <1>0, <2>2 DEF Released, Row
  <2> QED
    BY <2>1, <2>2 DEF Settle, GiveUp
  (* A refresh of this generation would mean a callback that is done.        *)
<1>7. \A r \in Refreshers : refresh[r].pc # "idle" => refresh[r].auth # c
  BY <1>1 DEF Quiet, Generations, RefreshesKnow
<1>8. c \in Writers /\ LeaseOf(c) = flow[c].lease
  BY Kinds DEF Writers
<1>9. LeasesTaken'
  <2>1. row'.lease <= clock.taken
    BY <1>0, <1>5, <1>6 DEF Quiet, Leases, LeasesTaken, TypeOK
  <2> QED
    BY <1>1, <1>3, <1>4, <2>1 DEF Quiet, Leases, LeasesTaken, WritersGoOn, FlowsGoOn
<1>10. LeasesDiffer' /\ InTime' /\ LeadBefore'
  BY <1>1, <1>2, <1>4 DEF Quiet, Leases, LeasesDiffer, InTime, LeadBefore, Leading, WritersGoOn
<1>11. Lead'
  <2> SUFFICES ASSUME NEW x \in Writers, Leading(x)' PROVE LeaseOf(x)' <= row'.lease
    BY DEF Lead
  <2>1. x # c /\ Leading(x) /\ LeaseOf(x)' = LeaseOf(x) /\ LeaseOf(x) \in Nat
    BY <1>1, <1>4, <1>0, LeaseTyped DEF Leading, WritersGoOn
  <2>2. LeaseOf(x) <= row.lease
    BY <2>1 DEF Quiet, Leases, Lead
  <2>3. CASE row.lease = flow[c].lease /\ row'.lease = flow[c].inherited
    <3>1. LeaseOf(x) # flow[c].lease
      BY <1>5, <1>8, <2>1 DEF Quiet, Leases, LeasesDiffer
    <3>2. LeaseOf(x) < flow[c].lease
      BY <1>0, <2>1, <2>2, <2>3, <3>1
    <3> QED
      BY <2>1, <2>3, <3>2 DEF Quiet, Leases, LeadBefore
  <2> QED
    BY <1>6, <2>1, <2>2, <2>3
<1>12. Alone'
  <2> SUFFICES ASSUME NEW r \in Refreshers, Active(r)', StillFenced(r)'
               PROVE  /\ row'.lease = refresh'[r].lease
                      /\ \A x \in Writers \ {r} : Writing(x)' /\ LeaseOf(x)' > 0 => x \in overtaken'
    BY DEF Alone
  <2>1. Active(r) /\ refresh[r].pc # "idle" /\ refresh[r].auth = row.auth /\ refresh[r].gen = row'.gen
    BY <1>1, <1>6 DEF Active, StillFenced
  <2>2. row'.status = row.status /\ row'.gen = row.gen
    BY <1>6, <1>7, <2>1
  <2>3. StillFenced(r)
    BY <2>1, <2>2 DEF StillFenced, Exists
  <2>4. /\ row.lease = refresh[r].lease
        /\ \A x \in Writers \ {r} : Writing(x) /\ LeaseOf(x) > 0 => x \in overtaken
    BY <2>1, <2>3 DEF Quiet, Leases, Alone
  <2>5. row.lease # flow[c].lease
    <3>1. r \in Writers /\ r # c /\ LeaseOf(r) = refresh[r].lease
      BY Kinds, Sorts DEF Writers
    <3> QED
      BY <1>5, <1>8, <2>4, <3>1 DEF Quiet, Leases, LeasesDiffer
  <2> QED
    BY <1>1, <1>4, <1>6, <2>4, <2>5 DEF WritersGoOn
<1>13. Begins'
  <2>1. row.cred # None => row.cred \in Flows /\ row.cred <= row.auth /\ flow'[row.cred].pc = "done"
    BY <1>0, <1>2 DEF Quiet, Generations, Begins, Row
  <2>2. \A k \in Flows : k > row.auth => flow'[k].pc = "none"
    BY <1>3 DEF Quiet, Generations, Begins, FlowsGoOn
  <2>3. c <= c
    BY <1>0
  <2> QED
    BY <1>2, <1>6, <2>1, <2>2, <2>3 DEF Begins
<1>14. RefreshesKnow'
  <2> SUFFICES ASSUME NEW r \in Refreshers, refresh[r].pc # "idle"
               PROVE  /\ refresh[r].auth \in Flows /\ refresh[r].auth <= row.auth
                      /\ flow'[refresh[r].auth].pc = "done"
                      /\ refresh[r].auth = row.auth => refresh[r].gen <= row'.gen
                      /\ row'.status = "disconnected" => refresh[r].auth # row.auth
    BY <1>1, <1>6 DEF RefreshesKnow
  <2>1. /\ refresh[r].auth \in Flows /\ refresh[r].auth <= row.auth
        /\ flow[refresh[r].auth].pc = "done"
        /\ refresh[r].auth = row.auth => refresh[r].gen <= row.gen
        /\ row.status = "disconnected" => refresh[r].auth # row.auth
    BY DEF Quiet, Generations, RefreshesKnow
  <2> QED
    BY <1>3, <1>6, <1>7, <2>1 DEF FlowsGoOn
<1>15. LastRetired'
  <2> SUFFICES ASSUME NEW k \in Flows, flow'[k].pc \in Puttings, row.auth = k
               PROVE  row'.lease = flow'[k].lease
    BY <1>6 DEF LastRetired
  <2>1. k # c /\ flow[k].pc \in Puttings /\ flow'[k].lease = flow[k].lease
    BY <1>2 DEF Puttings
  <2>2. row.lease = flow[k].lease
    BY <2>1 DEF Quiet, Generations, LastRetired
  <2>3. flow[k].lease # flow[c].lease
    <3>1. k \in Writers /\ LeaseOf(k) = flow[k].lease
      BY Kinds DEF Writers
    <3> QED
      BY <1>5, <1>8, <2>1, <3>1 DEF Quiet, Leases, LeasesDiffer
  <2> QED
    BY <1>6, <2>1, <2>2, <2>3
<1>16. RemovalsKnow'
  <2>1. \A d \in Removers : removal[d].pc # "idle" => removal[d].auth # c
    BY <1>1 DEF Quiet, Generations, RemovalsKnow
  <2> QED
    BY <1>1, <1>3, <1>6, <2>1 DEF Quiet, Generations, RemovalsKnow, FlowsGoOn
<1>17. HoldIsQuiet'
  BY <1>1, <1>4, <1>6 DEF Quiet, HoldIsQuiet, WritersGoOn
<1> QED
  BY <1>9, <1>10, <1>11, <1>12, <1>13, <1>14, <1>15, <1>16, <1>17 DEF Quiet, Leases, Generations

(* A refresh that may still commit does, or marks the row: the lease is      *)
(* cleared.                                                                  *)
LEMMA ClearKeeps ==
  ASSUME Quiet, TypeOK', NEW r \in Refreshers, Refused(r) \/ Commit(r), StillFenced(r)
  PROVE  Quiet'
<1>0. /\ TypeOK /\ row \in Row /\ None \in Nat
      /\ \A x \in Writers : LeaseOf(x) \in Nat
      /\ clock.taken \in Nat
  BY LeaseTyped DEF Quiet, TypeOK, None
<1>1. /\ UNCHANGED <<flow, removal, clock, dead, overtaken>>
      /\ refresh' = [refresh EXCEPT ![r].pc = "done"] /\ refresh[r].pc \in {"asking", "stored"}
  BY DEF Refused, Commit
<1>2. /\ row'.auth = row.auth /\ row'.gen = row.gen /\ row'.cred = row.cred /\ row'.hold = row.hold
      /\ row'.lease = 0 /\ row'.status \in {row.status, "error"}
  <2>1. CASE Refused(r)
    BY <1>0, <2>1 DEF Refused, Row, None
  <2>2. CASE Commit(r)
    BY <1>0, <2>2 DEF Commit, Row, None
  <2> QED
    BY <2>1, <2>2
<1>3. RefreshesGoOn /\ refresh'[r].pc = "done"
  <2>1. refresh \in [Refreshers -> Refresh]
    BY <1>0 DEF TypeOK
  <2> QED
    BY <1>0, <1>1, <2>1, RefreshMoves DEF RefreshSteps, Refresh
<1>4. WritersGoOn /\ ~Writing(r)'
  BY <1>1, <1>3, GoingOn, KindsNext, UntouchedRest
<1>5. Active(r) /\ refresh[r].auth = row.auth /\ refresh[r].gen = row.gen
  BY <1>1 DEF Active, StillFenced
<1>6. \A x \in Writers \ {r} : Writing(x) /\ LeaseOf(x) > 0 => x \in overtaken
  BY <1>5 DEF Quiet, Leases, Alone
<1>7. LeasesTaken' /\ LeasesDiffer' /\ InTime' /\ LeadBefore'
  BY <1>0, <1>1, <1>2, <1>3, <1>4
     DEF Quiet, Leases, LeasesTaken, LeasesDiffer, InTime, LeadBefore, Leading, WritersGoOn,
         RefreshesGoOn
<1>8. Lead'
  BY <1>0, <1>1, <1>2, <1>4, <1>6 DEF Lead, Leading, WritersGoOn
<1>9. Alone'
  <2> SUFFICES ASSUME NEW q \in Refreshers, Active(q)', StillFenced(q)' PROVE FALSE
    BY DEF Alone
  <2>1. q # r /\ Active(q) /\ q \in Writers /\ r \in Writers
    BY <1>3 DEF Active, RefreshesGoOn, Writers
  <2>2. StillFenced(q)
    BY <1>2, <1>3 DEF StillFenced, Exists, RefreshesGoOn
  <2>3. row.lease = refresh[q].lease /\ row.lease = refresh[r].lease
    BY <1>5, <2>1, <2>2 DEF Quiet, Leases, Alone
  <2>4. refresh[r].lease > 0
    BY <1>1 DEF Quiet, Leases, LeasesTaken
  <2>5. LeaseOf(q) = refresh[q].lease /\ LeaseOf(r) = refresh[r].lease
    BY Kinds
  <2>6. LeaseOf(q) = LeaseOf(r)
    BY <2>3, <2>5
  <2>7. refresh[r].lease \in Nat
    BY <1>0, <2>1, <2>5
  <2>8. LeaseOf(r) # 0
    BY <2>4, <2>5, <2>7
  <2> QED
    BY <2>1, <2>6, <2>8 DEF Quiet, Leases, LeasesDiffer
<1>10. Begins' /\ RefreshesKnow'
  BY <1>1, <1>2, <1>3 DEF Quiet, Generations, Begins, RefreshesKnow, RefreshesGoOn
<1>11. flow[row.auth].pc = "done" /\ row.auth \in Flows
  BY <1>1, <1>5 DEF Quiet, Generations, RefreshesKnow
<1>12. LastRetired'
  BY <1>1, <1>2, <1>11 DEF LastRetired, Puttings
<1>13. RemovalsKnow'
  <2>1. \A d \in Removers : removal[d].pc # "idle" => removal[d].auth # row.auth
    BY <1>11 DEF Quiet, Generations, RemovalsKnow
  <2> QED
    BY <1>1, <1>2, <2>1 DEF Quiet, Generations, RemovalsKnow
<1>14. HoldIsQuiet'
  <2>1. CASE row.hold.by = NoRemover
    BY <1>2, <2>1 DEF HoldIsQuiet
  (* A held row is disconnected: no refresh of its generation was admitted.  *)
  <2>2. CASE row.hold.by # NoRemover
    BY <1>1, <1>5, <2>2 DEF Quiet, HoldIsQuiet, Generations, RefreshesKnow
  <2> QED
    BY <2>1, <2>2
<1> QED
  BY <1>7, <1>8, <1>9, <1>10, <1>12, <1>13, <1>14 DEF Quiet, Leases, Generations

-------------------------------------------------------------------------------
(* Every step keeps all of it.                                               *)

LEMMA CallbackKeeps ==
  ASSUME Quiet, TypeOK', NEW c \in Flows, FlowNext(c)
  PROVE  Quiet'
<1>1. CASE Consume(c) \/ Exchange(c) \/ Withdraw(c) \/ PutAccess(c) \/ PutRefresh(c) \/ PutFails(c)
  BY <1>1, CallbacksKeep
<1>2. CASE Retire(c)
  BY <1>2, CallbacksKeep, RetireKeeps
<1>3. CASE Publish(c)
  BY <1>3, CallbacksKeep, GiveBackKeeps
<1>4. CASE Settle(c)
  <2>1. flow[c].pc \in {"refused", "unpublished"}
    BY <1>4 DEF Settle
  <2> QED
    BY <1>4, <2>1, CallbacksKeep, GiveBackKeeps
<1>5. CASE GiveUp(c)
  BY <1>5, GiveBackKeeps
<1> QED
  BY <1>1, <1>2, <1>3, <1>4, <1>5 DEF FlowNext

LEMMA RefreshKeeps ==
  ASSUME Quiet, TypeOK', NEW r \in Refreshers, RefreshNext(r)
  PROVE  Quiet'
<1>1. CASE Fence(r)
  BY <1>1, FenceKeeps
<1>2. CASE Refused(r) \/ Commit(r)
  BY <1>2, RefreshesKeep, ClearKeeps
<1>3. CASE ReadToken(r) \/ Refreshed(r) \/ Unreachable(r) \/ PutAccessAgain(r) \/ PutRefreshAgain(r)
  BY <1>3, RefreshesKeep
<1> QED
  BY <1>1, <1>2, <1>3 DEF RefreshNext

LEMMA RemovalKeeps ==
  ASSUME Quiet, TypeOK', NEW d \in Removers, RemovalNext(d)
  PROVE  Quiet'
<1>1. CASE Disconnect(d)
  BY <1>1, GenerationKeeps
<1>2. CASE TakeHold(d)
  BY <1>2, HoldKeeps, RemovalsKeep
<1>3. CASE ~(Disconnect(d) \/ TakeHold(d))
  BY <1>3, RemovalsKeep DEF RemovalNext
<1> QED
  BY <1>1, <1>2, <1>3

LEMMA StepQuiet == Quiet /\ [Next]_vars => Quiet'
<1> SUFFICES ASSUME Quiet, [Next]_vars PROVE Quiet'
  OBVIOUS
<1>0. TypeOK'
  BY StepTyped DEF Quiet
<1>1. CASE Start
  BY <1>0, <1>1, GenerationKeeps
<1>2. CASE \E c \in Flows : FlowNext(c)
  BY <1>0, <1>2, CallbackKeeps
<1>3. CASE \E r \in Refreshers : RefreshNext(r)
  BY <1>0, <1>3, RefreshKeeps
<1>4. CASE \E d \in Removers : RemovalNext(d)
  BY <1>0, <1>4, RemovalKeeps
<1>5. CASE LeaseIsOver
  BY <1>0, <1>5, OverKeeps
<1>6. CASE \/ LeaseLapses \/ HoldLapses \/ UNCHANGED vars
           \/ \E x \in Flows \cup Refreshers \cup Removers : BreaksOff(x)
  BY <1>0, <1>6, OutsideKeeps
<1> QED
  BY <1>1, <1>2, <1>3, <1>4, <1>5, <1>6 DEF Next

LEMMA InitQuiet == Init => Quiet
<1> SUFFICES ASSUME Init PROVE Quiet
  OBVIOUS
<1>0. TypeOK /\ Flows \subseteq Nat \ {0} /\ 1 \in Flows
  BY InitTyped, Sorts
<1>1. /\ row.auth = 1 /\ row.lease = 0 /\ row.hold = NoHold /\ row.cred \in {None, 1}
      /\ row.cred = 1 => flow[1].pc = "done"
      /\ clock.taken = 0 /\ clock.over = 0
  BY <1>0 DEF Init, None, NoFlow
<1>2. \A c \in Flows : /\ flow[c].lease = 0 /\ flow[c].inherited = 0
                       /\ flow[c].pc \in {"none", "pending", "done"}
                       /\ c > 1 => flow[c].pc = "none"
  BY <1>0 DEF Init, NoFlow, None
<1>3. /\ \A r \in Refreshers : refresh[r].pc = "idle" /\ refresh[r].lease = 0
      /\ \A d \in Removers : removal[d].pc = "idle"
  BY DEF Init, Calm, Waiting, None
<1>4. \A x \in Writers : LeaseOf(x) = 0
  BY <1>2, <1>3, Kinds DEF Writers
<1>5. Leases
  <2>1. LeasesTaken
    BY <1>1, <1>2, <1>3, <1>4 DEF LeasesTaken, Leased, Puttings
  <2>2. LeasesDiffer /\ InTime
    BY <1>4 DEF LeasesDiffer, InTime
  <2>3. Lead /\ LeadBefore
    BY <1>1, <1>2, <1>4 DEF Lead, LeadBefore
  <2>4. Alone
    BY <1>3 DEF Alone, Active
  <2> QED
    BY <2>1, <2>2, <2>3, <2>4 DEF Leases
<1>6. Generations
  <2>1. Begins
    BY <1>1, <1>2 DEF Begins
  <2>2. LastRetired
    BY <1>2 DEF LastRetired, Puttings
  <2>3. RefreshesKnow /\ RemovalsKnow
    BY <1>3 DEF RefreshesKnow, RemovalsKnow
  <2> QED
    BY <2>1, <2>2, <2>3 DEF Generations
<1>7. HoldIsQuiet
  BY <1>1 DEF HoldIsQuiet, NoHold
<1> QED
  BY <1>0, <1>5, <1>6, <1>7 DEF Quiet

(* Whoever can still put material behind the refs has taken a lease.         *)
LEMMA PuttersLease ==
  ASSUME Quiet, NEW x \in Writers, Puts(x)
  PROVE  Writing(x) /\ LeaseOf(x) > 0
<1>1. CASE x \in Flows
  <2>1. flow[x].pc \in {"writing", "half"} /\ x \notin dead
    BY <1>1, Sorts DEF Puts, Runs
  <2>2. flow[x].lease > 0
    BY <1>1, <2>1 DEF Quiet, Leases, LeasesTaken, Leased, Puttings
  <2> QED
    BY <1>1, <2>1, <2>2, Kinds
<1>2. CASE x \in Refreshers
  <2>1. refresh[x].pc \in {"got", "half"} /\ x \notin dead
    BY <1>2, Sorts DEF Puts, Runs
  <2>2. refresh[x].lease > 0
    BY <1>2, <2>1 DEF Quiet, Leases, LeasesTaken
  <2> QED
    BY <1>2, <2>1, <2>2, Kinds
<1> QED
  BY <1>1, <1>2 DEF Writers

(* While a removal holds the row, no callback and no refresh can put new     *)
(* material behind the refs it revokes and sweeps, but for a writer whose    *)
(* lapsed lease a later refresh took.                                        *)
THEOREM HoldAlwaysExclusive == Spec => []HoldIsExclusive
<1>1. Init => Quiet
  BY InitQuiet
<1>2. Quiet /\ [Next]_vars => Quiet'
  BY StepQuiet
<1>3. Quiet => HoldIsExclusive
  <2> SUFFICES ASSUME Quiet, Held, NEW x \in Writers, Puts(x) PROVE x \in overtaken
    BY DEF HoldIsExclusive, Writers
  <2>1. Writing(x) /\ LeaseOf(x) > 0
    BY PuttersLease
  <2> QED
    BY <2>1 DEF Quiet, HoldIsQuiet, Held
<1> QED
  BY <1>1, <1>2, <1>3, PTL DEF Spec

(* A removal that is at work on the row leaves it disconnected: whatever     *)
(* callback or refresh is under way, none can connect the row it will        *)
(* delete.                                                                   *)
THEOREM HeldIsDisconnected == Spec => [](Held => row.status = "disconnected")
<1>1. Init => Quiet
  BY InitQuiet
<1>2. Quiet /\ [Next]_vars => Quiet'
  BY StepQuiet
<1>3. Quiet => (Held => row.status = "disconnected")
  BY DEF Quiet, HoldIsQuiet, Held
<1> QED
  BY <1>1, <1>2, <1>3, PTL DEF Spec
-------------------------------------------------------------------------------
(* One pair.  What the secrets of a connected row hold was put by its own    *)
(* authorization or by a refresh admitted under it.                          *)

Working == {"held", "marking", "sweeping refresh", "sweeping access", "deleting"}

(* A removal holds the row while it reads what it will revoke and while it   *)
(* sweeps; only the vendor's calls may outlast the hold.                     *)
WorkersHold ==
  \A d \in Removers :
    removal[d].pc \in Working /\ d \notin dead => row.hold.by = d /\ ~row.hold.lapsed

Fenced == {r \in Refreshers : refresh[r].pc # "idle"}

(* A generation was counted by as many refreshes: none reaches the stride.   *)
FewFences ==
  /\ row.gen <= Cardinality(Fenced)
  /\ \A r \in Fenced : refresh[r].gen <= Cardinality(Fenced)

(* The callback of the newest authorization stores its pair undisturbed.     *)
Stores ==
  \A c \in Flows : row.auth = c /\ flow[c].pc \in Puttings =>
    /\ row.status = "error"
    /\ flow[c].pc # "writing" => secrets.access.gen = WriteGeneration(c, 0)
    /\ flow[c].pc = "stored" => /\ secrets.refresh.gen = WriteGeneration(c, 0)
                                /\ secrets.refresh.token = Issued(c)

(* Whoever else writes beside a connected row was admitted under an older    *)
(* authorization, or is a refresh of its own.                                *)
Admitted ==
  row.status = "connected" =>
    /\ row.cred # None
    /\ \A c \in Flows : flow[c].pc \in Puttings => c < row.cred
    /\ \A r \in Fenced : /\ refresh[r].auth <= row.cred
                         /\ refresh[r].auth = row.cred => refresh[r].gen <= row.gen
    /\ \A d \in Removers : removal[d].pc # "idle" => removal[d].auth <= row.cred

OfCredential(s) ==
  WriteGeneration(row.cred, 0) <= s.gen /\ s.gen <= WriteGeneration(row.cred, row.gen)

HalfDone(r) == refresh[r].pc = "half" /\ refresh[r].auth = row.cred

OnePair ==
  row.status = "connected" =>
    /\ OfCredential(secrets.access) /\ OfCredential(secrets.refresh)
    /\ secrets.refresh.gen <= secrets.access.gen
    /\ \A r \in Refreshers : HalfDone(r) => RefreshGeneration(r) <= secrets.access.gen
    /\ secrets.access.gen # secrets.refresh.gen =>
         \E r \in Refreshers : HalfDone(r) /\ secrets.access.gen = RefreshGeneration(r)

Paired == Quiet /\ WorkersHold /\ FewFences /\ Stores /\ Admitted /\ OnePair

(* A newer authorization's generations are above all those of an older one.  *)
LEMMA Ordered ==
  ASSUME NEW a \in Nat, NEW b \in Nat, NEW g \in Nat, NEW h \in Nat, g < Stride, a < b
  PROVE  WriteGeneration(a, g) < WriteGeneration(b, h)
<1>1. PICK k \in Nat : b = (a + 1) + k
  <2>1. b - (a + 1) \in Nat /\ b = (a + 1) + (b - (a + 1))
    OBVIOUS
  <2> QED
    BY <2>1
<1>2. Stride \in Nat
  BY ConnectionConstants
<1>3. /\ a * Stride \in Nat /\ k * Stride \in Nat
      /\ b * Stride = (a * Stride + Stride) + k * Stride
  BY <1>1, <1>2
<1>4. PICK m, n \in Nat : m = a * Stride /\ n = k * Stride /\ b * Stride = (m + Stride) + n
  BY <1>3
<1>5. m + g < ((m + Stride) + n) + h
  BY <1>2, <1>4
<1> QED
  BY <1>4, <1>5 DEF WriteGeneration

LEMMA Counted ==
  ASSUME NEW a \in Nat, NEW g \in Nat, NEW h \in Nat
  PROVE  /\ WriteGeneration(a, g) <= WriteGeneration(a, h) <=> g <= h
         /\ WriteGeneration(a, g) = WriteGeneration(a, h) <=> g = h
         /\ a > 0 => WriteGeneration(a, g) > 0
<1>1. Stride \in Nat /\ Stride > 0
  <2>1. Cardinality(Refreshers) \in Nat
    BY ConnectionConstants, FS_CardinalityType
  <2> QED
    BY <2>1, ConnectionConstants
<1>2. PICK m \in Nat : m = a * Stride
  BY <1>1
<1>3. a > 0 => a * Stride > 0
  BY <1>1
<1> QED
  BY <1>2, <1>3 DEF WriteGeneration

(* The generations that are counted stay below the stride.                   *)
LEMMA BelowStride ==
  ASSUME TypeOK, FewFences
  PROVE  /\ row.gen \in Nat /\ row.gen < Stride
         /\ \A r \in Fenced : refresh[r].gen \in Nat /\ refresh[r].gen < Stride
<1>1. IsFiniteSet(Fenced) /\ Cardinality(Fenced) <= Cardinality(Refreshers)
  BY ConnectionConstants, FS_Subset DEF Fenced
<1>2. Cardinality(Fenced) \in Nat /\ Cardinality(Refreshers) \in Nat /\ Stride \in Nat
  BY <1>1, ConnectionConstants, FS_CardinalityType
<1>3. Cardinality(Fenced) < Stride
  BY <1>1, <1>2, ConnectionConstants
<1>4. row.gen \in Nat /\ \A r \in Fenced : refresh[r].gen \in Nat
  BY DEF TypeOK, Row, Refresh, Fenced
<1> QED
  BY <1>2, <1>3, <1>4 DEF FewFences

(* A refresh admitted under an older authorization cannot put over what a    *)
(* newer one stored; nor can a callback of an older one.                     *)
LEMMA OlderStandBack ==
  ASSUME TypeOK, FewFences, NEW s \in Secret, NEW b \in Nat, WriteGeneration(b, 0) <= s.gen
  PROVE  /\ \A r \in Fenced : refresh[r].auth < b => ~Puttable(s, RefreshGeneration(r))
         /\ \A c \in Flows : c < b => ~Puttable(s, WriteGeneration(c, 0))
<1>0. s.gen \in Nat /\ WriteGeneration(b, 0) \in Nat
  BY Written DEF Secret
<1>1. ASSUME NEW a \in Nat, NEW g \in Nat, g < Stride, a < b PROVE ~Puttable(s, WriteGeneration(a, g))
  <2>1. WriteGeneration(a, g) < WriteGeneration(b, 0) /\ WriteGeneration(a, g) \in Nat
    BY <1>1, Ordered, Written
  <2> QED
    BY <1>0, <2>1 DEF Puttable
<1>2. Stride > 0 /\ Stride \in Nat
  <2>1. Cardinality(Refreshers) \in Nat
    BY ConnectionConstants, FS_CardinalityType
  <2> QED
    BY <2>1, ConnectionConstants
<1>3. ASSUME NEW r \in Fenced, refresh[r].auth < b PROVE ~Puttable(s, RefreshGeneration(r))
  <2>1. refresh[r].auth \in Nat /\ refresh[r].gen \in Nat /\ refresh[r].gen < Stride
    BY BelowStride DEF TypeOK, Refresh, Fenced
  <2> QED
    BY <1>1, <1>3, <2>1 DEF RefreshGeneration
<1>4. ASSUME NEW c \in Flows, c < b PROVE ~Puttable(s, WriteGeneration(c, 0))
  BY <1>1, <1>2, <1>4, Sorts
<1> QED
  BY <1>3, <1>4
-------------------------------------------------------------------------------
(* Steps that leave the pair as it is.                                       *)

PairRests ==
  /\ UNCHANGED secrets
  /\ row'.cred = row.cred /\ row'.gen = row.gen /\ row.auth <= row'.auth
  /\ row'.status = "connected" => row.status = "connected"
  /\ row'.auth = row.auth /\ row.status = "error" => row'.status = "error"
  /\ \A c \in Flows : flow'[c].pc \in Puttings => flow'[c].pc = flow[c].pc
  /\ \A r \in Refreshers :
       /\ refresh'[r].auth = refresh[r].auth /\ refresh'[r].gen = refresh[r].gen
       /\ refresh'[r].pc = "idle" <=> refresh[r].pc = "idle"
       /\ refresh'[r].pc = "half" <=> refresh[r].pc = "half"
  /\ row'.status = "connected" =>
       \A d \in Removers : /\ removal'[d].auth = removal[d].auth
                           /\ removal'[d].pc # "idle" => removal[d].pc # "idle"

LEMMA PairRestsKeeps ==
  ASSUME Paired, TypeOK', PairRests
  PROVE  FewFences' /\ Stores' /\ Admitted' /\ OnePair'
<1>0. /\ row.auth \in Nat /\ row'.auth \in Nat /\ row.auth <= row'.auth /\ Flows \subseteq Nat
      /\ UNCHANGED secrets
  BY Sorts DEF Paired, Quiet, TypeOK, Row, PairRests
<1>1. Fenced' = Fenced
  BY DEF PairRests, Fenced
<1>2. FewFences'
  BY <1>1 DEF Paired, FewFences, PairRests, Fenced
<1>3. Stores'
  <2> SUFFICES ASSUME NEW c \in Flows, row'.auth = c, flow'[c].pc \in Puttings
               PROVE  /\ row'.status = "error"
                      /\ flow'[c].pc # "writing" => secrets'.access.gen = WriteGeneration(c, 0)
                      /\ flow'[c].pc = "stored" => /\ secrets'.refresh.gen = WriteGeneration(c, 0)
                                                   /\ secrets'.refresh.token = Issued(c)
    BY DEF Stores
  <2>1. flow'[c].pc = flow[c].pc /\ flow[c].pc \in Puttings
    BY DEF PairRests
  <2>2. ~(c > row.auth)
    BY <2>1 DEF Paired, Quiet, Generations, Begins, Puttings
  <2>3. c = row.auth
    BY <1>0, <2>2
  <2> QED
    BY <1>0, <2>1, <2>3 DEF Paired, Stores, PairRests
<1>4. Admitted'
  BY <1>1 DEF Paired, Admitted, PairRests, Fenced
<1>5. \A r \in Refreshers : RefreshGeneration(r)' = RefreshGeneration(r)
  BY DEF RefreshGeneration, PairRests
<1>6. OnePair'
  BY <1>0, <1>5 DEF Paired, OnePair, OfCredential, HalfDone, PairRests
<1> QED
  BY <1>2, <1>3, <1>4, <1>6

LEMMA PairUntouched ==
  ASSUME TypeOK
  PROVE  /\ UNCHANGED flow => \A c \in Flows : flow'[c].pc \in Puttings => flow'[c].pc = flow[c].pc
         /\ row \in Row /\ flow \in [Flows -> Flow] /\ refresh \in [Refreshers -> Refresh]
         /\ removal \in [Removers -> Removal]
         /\ row.auth \in Nat /\ row.auth <= row.auth /\ row.auth <= row.auth + 1
BY DEF TypeOK, Row

LEMMA CallbackPairRests ==
  ASSUME Paired, NEW c \in Flows,
         \/ Consume(c) \/ Exchange(c) \/ Withdraw(c) \/ PutFails(c) \/ Settle(c) \/ GiveUp(c)
         \/ (Retire(c) /\ ~Retirable(c)) \/ (Publish(c) /\ ~Publishable(c))
         \/ (PutAccess(c) /\ ~Puttable(secrets.access, WriteGeneration(c, 0)))
         \/ (PutRefresh(c) /\ ~Puttable(secrets.refresh, WriteGeneration(c, 0)))
  PROVE  PairRests
<1>0. TypeOK
  BY DEF Paired, Quiet
<1>1. UNCHANGED <<secrets, refresh, removal>>
  BY DEF Consume, Exchange, Withdraw, PutFails, Settle, GiveUp, Retire, Publish, PutAccess, PutRefresh
<1>2. /\ row'.cred = row.cred /\ row'.gen = row.gen /\ row'.auth = row.auth
      /\ row'.status = row.status
  <2>1. \/ UNCHANGED row \/ row' = [row EXCEPT !.pending = None]
        \/ row' = [row EXCEPT !.lease = flow[c].inherited]
    BY DEF Consume, Exchange, Withdraw, PutFails, Settle, GiveUp, Retire, Publish, PutAccess,
           PutRefresh, Released
  <2> QED
    BY <1>0, <2>1, PairUntouched DEF Row
<1>3. \A k \in Flows : flow'[k].pc \in Puttings => flow'[k].pc = flow[k].pc
  <2>1. CASE Consume(c)
    BY <1>0, <2>1, PairUntouched DEF Consume, NoFlow, Puttings
  <2>2. CASE ~Consume(c)
    <3>1. PICK p \in FlowSteps : flow' = [flow EXCEPT ![c].pc = p] /\ p \notin Puttings
      BY <2>2 DEF Exchange, Withdraw, PutFails, Settle, GiveUp, Retire, Publish, PutAccess, PutRefresh,
                  FlowSteps, Puttings
    <3> QED
      BY <1>0, <3>1, FlowMoves
  <2> QED
    BY <2>1, <2>2
<1> QED
  BY <1>0, <1>1, <1>2, <1>3, PairUntouched DEF PairRests

LEMMA RefreshPairRests ==
  ASSUME Paired, NEW r \in Refreshers,
         \/ ReadToken(r) \/ Refreshed(r) \/ Refused(r) \/ Unreachable(r) \/ Commit(r)
         \/ (PutAccessAgain(r) /\ ~Puttable(secrets.access, RefreshGeneration(r)))
  PROVE  PairRests
<1>0. TypeOK
  BY DEF Paired, Quiet
<1>1. UNCHANGED <<secrets, flow, removal>>
  BY DEF ReadToken, Refreshed, Refused, Unreachable, Commit, PutAccessAgain
<1>2. /\ row'.cred = row.cred /\ row'.gen = row.gen /\ row'.auth = row.auth
      /\ row'.status \in {row.status, "error"}
  <2>1. CASE Refused(r)
    BY <1>0, <2>1, PairUntouched DEF Refused, Row
  <2>2. CASE Commit(r)
    BY <1>0, <2>2, PairUntouched DEF Commit, Row
  <2>3. CASE UNCHANGED row
    BY <2>3
  <2> QED
    BY <2>1, <2>2, <2>3 DEF ReadToken, Refreshed, Unreachable, PutAccessAgain
<1>3. \A q \in Refreshers :
        /\ refresh'[q].auth = refresh[q].auth /\ refresh'[q].gen = refresh[q].gen
        /\ refresh'[q].pc = "idle" <=> refresh[q].pc = "idle"
        /\ refresh'[q].pc = "half" <=> refresh[q].pc = "half"
  <2>1. ASSUME NEW v, refresh' = [refresh EXCEPT ![r] = v], v.pc \notin {"idle", "half"},
               v.auth = refresh[r].auth, v.gen = refresh[r].gen, refresh[r].pc \notin {"idle", "half"}
        PROVE  <1>3!:
    BY <1>0, <2>1, PairUntouched
  <2>2. refresh[r] \in Refresh
    BY <1>0, PairUntouched
  <2>3. CASE Refreshed(r)
    <3>1. PICK t : refresh' = [refresh EXCEPT ![r] = [refresh[r] EXCEPT !.pc = "got", !.token = t]]
      BY <2>3 DEF Refreshed
    <3> DEFINE v == [refresh[r] EXCEPT !.pc = "got", !.token = t]
    <3>2. v.pc = "got" /\ v.auth = refresh[r].auth /\ v.gen = refresh[r].gen
      BY <2>2 DEF Refresh
    <3>3. refresh' = [refresh EXCEPT ![r] = v] /\ refresh[r].pc = "asking"
      BY <2>3, <3>1 DEF Refreshed
    <3> HIDE DEF v
    <3> QED
      BY <2>1, <3>2, <3>3
  <2>4. CASE ReadToken(r) /\ Behind(secrets.refresh, refresh[r].ref)
    <3> DEFINE v == [refresh[r] EXCEPT !.pc = "asking", !.token = secrets.refresh.token]
    <3>2. v.pc = "asking" /\ v.auth = refresh[r].auth /\ v.gen = refresh[r].gen
      BY <2>2 DEF Refresh
    <3>3. refresh' = [refresh EXCEPT ![r] = v] /\ refresh[r].pc = "fenced"
      BY <2>4 DEF ReadToken
    <3> HIDE DEF v
    <3> QED
      BY <2>1, <3>2, <3>3
  <2>5. CASE ~Refreshed(r) /\ ~(ReadToken(r) /\ Behind(secrets.refresh, refresh[r].ref))
    <3> DEFINE v == [refresh[r] EXCEPT !.pc = "done"]
    <3>2. v.pc = "done" /\ v.auth = refresh[r].auth /\ v.gen = refresh[r].gen
      BY <2>2 DEF Refresh
    <3>3. refresh' = [refresh EXCEPT ![r] = v] /\ refresh[r].pc \notin {"idle", "half"}
      BY <2>5 DEF ReadToken, Refused, Unreachable, Commit, PutAccessAgain
    <3> HIDE DEF v
    <3> QED
      BY <2>1, <3>2, <3>3
  <2> QED
    BY <2>3, <2>4, <2>5
<1> QED
  BY <1>0, <1>1, <1>2, <1>3, PairUntouched DEF PairRests

LEMMA RemovalPairRests ==
  ASSUME Paired, NEW d \in Removers,
         \/ Disconnect(d) \/ TakeHold(d) \/ Look(d) \/ Send(d) \/ SendFails(d) \/ SendAccess(d)
         \/ Renew(d) \/ Mark(d) \/ Delete(d) \/ SweepFails(d)
  PROVE  PairRests
<1>0. TypeOK /\ d # NoRemover
  BY Sorts DEF Paired, Quiet
<1>1. UNCHANGED <<secrets, flow, refresh>>
  BY DEF Disconnect, TakeHold, Look, Send, SendFails, SendAccess, Renew, Mark, Delete, SweepFails
<1>2. CASE Disconnect(d)
  <2>1. /\ row'.status = "disconnected" /\ row'.auth = row.auth + 1
        /\ row'.cred = row.cred /\ row'.gen = row.gen
    BY <1>0, <1>2, PairUntouched DEF Disconnect, Disconnected, Row
  <2>2. row.auth \in Nat /\ row'.auth # row.auth
    BY <1>0, <2>1, PairUntouched
  <2> QED
    BY <1>0, <1>1, <2>1, <2>2, PairUntouched DEF PairRests
<1>3. CASE ~Disconnect(d)
  <2>1. /\ row'.cred = row.cred /\ row'.gen = row.gen /\ row'.auth = row.auth
        /\ row'.status = row.status \/ (Delete(d) /\ row'.status = "gone")
    <3>1. \/ UNCHANGED row \/ (\E h : row' = [row EXCEPT !.hold = h]) \/ row' = [row EXCEPT !.mark = TRUE]
          \/ (Delete(d) /\ row' = [row EXCEPT !.status = "gone", !.hold = NoHold])
      BY <1>3 DEF TakeHold, Look, Send, SendFails, SendAccess, Renew, Mark, Delete, SweepFails, Freed
    <3> QED
      BY <1>0, <3>1, PairUntouched DEF Row
  <2>2. row.status = "error" => row'.status = "error"
    <3>1. CASE Delete(d)
      <4>1. row.hold.by = d
        BY <3>1, Sorts DEF Delete, Runs, Paired, WorkersHold, Working
      <4> QED
        BY <1>0, <4>1 DEF Paired, Quiet, HoldIsQuiet
    <3> QED
      BY <2>1, <3>1
  <2>3. \A e \in Removers : /\ removal'[e].auth = removal[e].auth
                            /\ removal'[e].pc # "idle" => removal[e].pc # "idle"
    <3>1. ASSUME NEW v, removal' = [removal EXCEPT ![d] = v], v.auth = removal[d].auth
          PROVE  <2>3!:
      <4>1. removal[d].pc # "idle"
        BY <1>3 DEF TakeHold, Look, Send, SendFails, SendAccess, Renew, Mark, Delete, SweepFails
      <4> QED
        BY <1>0, <3>1, <4>1, PairUntouched
    <3>2. removal[d] \in Removal
      BY <1>0, PairUntouched
    <3>3. CASE Look(d)
      <4> DEFINE v == IF removal[d].mark THEN [removal[d] EXCEPT !.pc = "renewing", !.claim = TRUE]
                      ELSE IF ~Behind(secrets.refresh, removal[d].refs.refresh)
                           THEN [removal[d] EXCEPT !.pc = "renewing"]
                      ELSE [removal[d] EXCEPT !.pc = "sending", !.mixed = Mixed(d),
                              !.token = secrets.refresh.token,
                              !.access = IF Mixed(d) THEN secrets.access.token ELSE NoToken]
      <4>1. v.auth = removal[d].auth
        BY <3>2 DEF Removal
      <4>2. removal' = [removal EXCEPT ![d] = v]
        BY <3>3 DEF Look
      <4> HIDE DEF v
      <4> QED
        BY <4>1, <4>2, <3>1
    <3>4. CASE Send(d)
      <4> DEFINE v == [removal[d] EXCEPT !.pc = IF removal[d].mixed THEN "sending access" ELSE "renewing",
                                         !.claim = ~removal[d].mixed]
      <4>1. v.auth = removal[d].auth
        BY <3>2 DEF Removal
      <4>2. removal' = [removal EXCEPT ![d] = v]
        BY <3>4 DEF Send
      <4> HIDE DEF v
      <4> QED
        BY <4>1, <4>2, <3>1
    <3>5. CASE ~Look(d) /\ ~Send(d)
      <4>1. PICK p : removal' = [removal EXCEPT ![d].pc = p]
        BY <1>3, <3>5 DEF TakeHold, SendFails, SendAccess, Renew, Mark, Delete, SweepFails
      <4> DEFINE v == [removal[d] EXCEPT !.pc = p]
      <4>2. v.auth = removal[d].auth
        BY <3>2 DEF Removal
      <4>3. removal' = [removal EXCEPT ![d] = v]
        BY <4>1
      <4> HIDE DEF v
      <4> QED
        BY <4>2, <4>3, <3>1
    <3> QED
      BY <3>3, <3>4, <3>5
  <2> QED
    BY <1>0, <1>1, <2>1, <2>2, <2>3, PairUntouched DEF PairRests
<1> QED
  BY <1>2, <1>3

LEMMA OutsidePairRests ==
  ASSUME Paired,
         \/ Start \/ LeaseLapses \/ LeaseIsOver \/ HoldLapses \/ UNCHANGED vars
         \/ \E x \in Flows \cup Refreshers \cup Removers : BreaksOff(x)
  PROVE  PairRests
<1>0. TypeOK
  BY DEF Paired, Quiet
<1>1. UNCHANGED <<secrets, refresh, removal>>
  BY DEF Start, LeaseLapses, LeaseIsOver, HoldLapses, BreaksOff, vars
<1>2. CASE Start
  <2>1. /\ row'.auth = row.auth + 1 /\ row'.cred = row.cred /\ row'.gen = row.gen
        /\ row'.status = row.status
    BY <1>0, <1>2, PairUntouched DEF Start, Row
  <2>2. \A c \in Flows : flow'[c].pc \in Puttings => flow'[c].pc = flow[c].pc
    <3>1. flow' = [flow EXCEPT ![row.auth + 1].pc = "pending"]
      BY <1>2 DEF Start
    <3>2. \A c \in Flows : flow'[c].pc \in {flow[c].pc, "pending"}
      BY <1>0, <3>1, PairUntouched DEF Flow
    <3> QED
      BY <3>2 DEF Puttings
  <2> QED
    BY <1>0, <1>1, <2>1, <2>2, PairUntouched DEF PairRests
<1>3. CASE ~Start
  <2>1. UNCHANGED flow
    BY <1>3 DEF LeaseLapses, LeaseIsOver, HoldLapses, BreaksOff, vars
  <2>2. UNCHANGED row \/ row' = [row EXCEPT !.hold = [row.hold EXCEPT !.lapsed = TRUE]]
    BY <1>3 DEF LeaseLapses, LeaseIsOver, HoldLapses, BreaksOff, vars
  <2>3. /\ row'.cred = row.cred /\ row'.gen = row.gen /\ row'.auth = row.auth
        /\ row'.status = row.status
    BY <1>0, <2>2, PairUntouched DEF Row
  <2> QED
    BY <1>0, <1>1, <2>1, <2>3, PairUntouched DEF PairRests
<1> QED
  BY <1>2, <1>3

-------------------------------------------------------------------------------
(* Whoever works on a removal keeps its hold.                                *)

(* No removal is at work on a row that is not held, or whose hold lapsed.    *)
LEMMA FreeForAll ==
  ASSUME WorkersHold, row.hold.by = NoRemover \/ row.hold.lapsed
  PROVE  \A d \in Removers : removal[d].pc \in Working => d \in dead
BY Sorts DEF WorkersHold

LEMMA WorkersKeepHold ==
  ASSUME Paired, TypeOK', [Next]_vars
  PROVE  WorkersHold'
<1>0. /\ TypeOK /\ WorkersHold /\ row \in Row /\ removal \in [Removers -> Removal]
      /\ dead \subseteq dead'
  <2>1. dead \subseteq dead'
    BY DEF Next, FlowNext, RefreshNext, RemovalNext, vars, Start, LeaseLapses, LeaseIsOver, HoldLapses, BreaksOff,
           Consume, Exchange, Withdraw, Retire, PutAccess, PutRefresh, PutFails, Publish, Settle, GiveUp,
           Fence, ReadToken, Refreshed, Refused, Unreachable, PutAccessAgain, PutRefreshAgain, Commit,
           Disconnect, TakeHold, Look, Send, SendFails, SendAccess, Renew, Mark, SweepRefresh,
           SweepAccess, Delete, SweepFails
  <2> QED
    BY <2>1, PairUntouched DEF Paired, Quiet
<1>1. ASSUME row'.hold = row.hold,
             \A d \in Removers : removal'[d].pc \in Working => removal[d].pc \in Working
      PROVE  WorkersHold'
  BY <1>0, <1>1 DEF WorkersHold
<1>2. ASSUME NEW c \in Flows, FlowNext(c) PROVE WorkersHold'
  <2>1. UNCHANGED removal
    BY <1>2 DEF FlowNext, Consume, Exchange, Withdraw, Retire, PutAccess, PutRefresh, PutFails, Publish,
                Settle, GiveUp
  <2>2. CASE Retire(c) /\ Retirable(c)
    BY <1>0, <2>1, <2>2, FreeForAll DEF Retirable, WorkersHold
  <2>3. CASE ~(Retire(c) /\ Retirable(c))
    <3>1. row'.hold = row.hold
      BY <1>0, <1>2, <2>3 DEF FlowNext, Consume, Exchange, Withdraw, Retire, PutAccess, PutRefresh,
           PutFails, Publish, Published, Settle, GiveUp, Released, Row
    <3> QED
      BY <1>1, <2>1, <3>1
  <2> QED
    BY <2>2, <2>3
<1>3. ASSUME NEW r \in Refreshers, RefreshNext(r) PROVE WorkersHold'
  <2>1. UNCHANGED removal /\ row'.hold = row.hold
    BY <1>0, <1>3 DEF RefreshNext, Fence, ReadToken, Refreshed, Refused, Unreachable, PutAccessAgain,
                      PutRefreshAgain, Commit, Row
  <2> QED
    BY <1>1, <2>1
<1>4. ASSUME NEW d \in Removers, RemovalNext(d) PROVE WorkersHold'
  <2>1. \A e \in Removers \ {d} : removal'[e] = removal[e]
    BY <1>0, <1>4 DEF RemovalNext, Disconnect, TakeHold, Look, Send, SendFails, SendAccess, Renew, Mark,
                SweepRefresh, SweepAccess, Delete, SweepFails
  <2>2. CASE Disconnect(d)
    <3>1. row'.hold = row.hold /\ removal'[d].pc = "marked"
      BY <1>0, <2>2 DEF Disconnect, Disconnected, Waiting, Row
    <3> QED
      BY <1>1, <2>1, <3>1 DEF Working
  <2>3. CASE TakeHold(d)
    <3>1. CASE Holdable(d)
      <4>1. row'.hold = [by |-> d, term |-> 1, lapsed |-> FALSE]
        BY <1>0, <2>3, <3>1 DEF TakeHold, Row
      <4>2. \A e \in Removers : removal[e].pc \in Working => e \in dead
        BY <1>0, <3>1, FreeForAll DEF Holdable
      <4> QED
        BY <1>0, <2>1, <4>1, <4>2 DEF WorkersHold
    <3>2. CASE ~Holdable(d)
      <4>1. removal'[d].pc = "done" /\ UNCHANGED row
        BY <1>0, <2>3, <3>2 DEF TakeHold, Removal
      <4> QED
        BY <1>1, <2>1, <4>1 DEF Working
    <3> QED
      BY <3>1, <3>2
  <2>4. CASE Look(d)
    <3>1. UNCHANGED row /\ removal'[d].pc \in {"renewing", "sending"}
      BY <1>0, <2>4 DEF Look, Removal
    <3> QED
      BY <1>1, <2>1, <3>1 DEF Working
  <2>5. CASE Send(d)
    <3>1. UNCHANGED row /\ removal'[d].pc \in {"renewing", "sending access"}
      BY <1>0, <2>5 DEF Send, Removal
    <3> QED
      BY <1>1, <2>1, <3>1 DEF Working
  <2>6. CASE SendAccess(d)
    <3>1. UNCHANGED row /\ removal'[d].pc = "renewing"
      BY <1>0, <2>6 DEF SendAccess, Removal
    <3> QED
      BY <1>1, <2>1, <3>1 DEF Working
  (* The others keep theirs: the row held by d is held by no other.          *)
  <2>7. CASE SendFails(d) \/ SweepFails(d) \/ Delete(d)
    <3>1. removal'[d].pc \in {"done", "removed"}
      <4>1. PICK p : removal' = [removal EXCEPT ![d].pc = p] /\ p \in {"done", "removed"}
        BY <2>7 DEF SendFails, SweepFails, Delete
      <4> QED
        BY <1>0, <4>1 DEF Removal
    <3>2. row'.hold = row.hold \/ row.hold.by = d
      <4>1. CASE Delete(d)
        BY <1>0, <4>1, Sorts DEF Delete, WorkersHold, Working, Runs
      <4>2. CASE SendFails(d) \/ SweepFails(d)
        BY <4>2 DEF SendFails, SweepFails, Freed
      <4> QED
        BY <2>7, <4>1, <4>2
    <3> QED
      BY <1>0, <2>1, <3>1, <3>2 DEF WorkersHold, Working
  <2>8. CASE Renew(d)
    <3>1. CASE Renewable(d)
      <4>1. row'.hold = [by |-> d, term |-> 2, lapsed |-> FALSE] /\ row.hold.by = d
        BY <1>0, <2>8, <3>1 DEF Renew, Renewable, Row
      <4> QED
        BY <1>0, <2>1, <4>1 DEF WorkersHold
    <3>2. CASE ~Renewable(d)
      <4>1. removal'[d].pc = "done" /\ UNCHANGED row
        BY <1>0, <2>8, <3>2 DEF Renew, Removal
      <4> QED
        BY <1>1, <2>1, <4>1 DEF Working
    <3> QED
      BY <3>1, <3>2
  <2>9. CASE Mark(d) \/ SweepRefresh(d) \/ SweepAccess(d)
    <3>1. row'.hold = row.hold /\ removal[d].pc \in Working
      BY <1>0, <2>9 DEF Mark, SweepRefresh, SweepAccess, Working, Row
    <3> QED
      BY <1>1, <2>1, <3>1
  <2> QED
    BY <1>4, <2>2, <2>3, <2>4, <2>5, <2>6, <2>7, <2>8, <2>9 DEF RemovalNext
<1>5. CASE HoldLapses
  <2>1. UNCHANGED <<removal, dead>> /\ row.hold.by # NoRemover
    BY <1>5 DEF HoldLapses
  <2>2. row'.hold.by = row.hold.by
    <3>1. row' = [row EXCEPT !.hold = [row.hold EXCEPT !.lapsed = TRUE]] /\ row.hold \in Hold
      BY <1>0, <1>5 DEF HoldLapses, Row
    <3> QED
      BY <1>0, <3>1 DEF Row, Hold, NoHold
  <2>3. removal[row.hold.by].pc \notin Working \/ row.hold.by \in dead
    BY <1>5 DEF HoldLapses, Working
  <2> QED
    BY <1>0, <2>1, <2>2, <2>3 DEF WorkersHold
<1>6. CASE Start \/ LeaseLapses \/ LeaseIsOver \/ UNCHANGED vars
           \/ \E x \in Flows \cup Refreshers \cup Removers : BreaksOff(x)
  <2>1. row'.hold = row.hold /\ UNCHANGED removal
    BY <1>0, <1>6 DEF Start, LeaseLapses, LeaseIsOver, BreaksOff, vars, Row
  <2> QED
    BY <1>1, <2>1
<1> QED
  BY <1>2, <1>3, <1>4, <1>5, <1>6 DEF Next
-------------------------------------------------------------------------------
(* The steps that write the pair, publish it or count a generation.          *)

PairKept == FewFences' /\ Stores' /\ Admitted' /\ OnePair'

(* Whatever is put or admitted belongs to an authorization begun.            *)
LEMMA AllBegun ==
  ASSUME Paired
  PROVE  /\ \A c \in Flows : flow[c].pc # "none" => c <= row.auth
         /\ \A r \in Fenced : /\ refresh[r].auth \in Flows /\ refresh[r].auth <= row.auth
                              /\ flow[refresh[r].auth].pc = "done"
<1>1. row.auth \in Nat /\ Flows \subseteq Nat
  BY Sorts DEF Paired, Quiet, TypeOK, Row
<1> QED
  BY <1>1 DEF Paired, Quiet, Generations, Begins, RefreshesKnow, Fenced

LEMMA Counters ==
  ASSUME TypeOK
  PROVE  /\ row.auth \in Nat /\ row.cred \in Nat /\ row.gen \in Nat /\ Flows \subseteq Nat
         /\ row.cred # None => row.cred \in Flows
<1>1. row \in Row
  BY DEF TypeOK
<1>2. Flows \subseteq Nat
  BY Sorts
<1>3. row.auth \in Nat /\ row.cred \in Flows \cup {None} /\ row.gen \in Nat
  BY <1>1 DEF Row
<1>4. row.cred \in Nat
  <2>1. None \in Nat
    BY DEF None
  <2> QED
    BY <1>2, <1>3, <2>1
<1> QED
  BY <1>2, <1>3, <1>4

LEMMA PutSets ==
  ASSUME NEW s, NEW g, NEW t
  PROVE  Put(s, g, t).gen = g /\ Put(s, g, t).token = t
BY DEF Put

LEMMA RetirePair ==
  ASSUME Paired, NEW c \in Flows, Retire(c), Retirable(c)
  PROVE  PairKept
<1>0. TypeOK /\ row \in Row /\ flow \in [Flows -> Flow]
  BY PairUntouched DEF Paired, Quiet
<1>1. UNCHANGED <<secrets, refresh, removal>>
  BY DEF Retire
<1>2. row'.status = "error" /\ row'.auth = row.auth /\ row'.gen = row.gen /\ row.auth = c
  BY <1>0 DEF Retire, Retirable, Retired, Row
<1>3. \A k \in Flows : flow'[k].pc = IF k = c THEN "writing" ELSE flow[k].pc
  <2> DEFINE v == [flow[c] EXCEPT !.pc = "writing", !.lease = clock.taken + 1,
                                  !.inherited = row.lease]
  <2>1. v.pc = "writing"
    BY <1>0 DEF Flow
  <2>2. flow' = [flow EXCEPT ![c] = v]
    BY DEF Retire
  <2> HIDE DEF v
  <2> QED
    BY <1>0, <2>1, <2>2
<1>4. FewFences'
  BY <1>1, <1>2 DEF Paired, FewFences, Fenced
<1>5. Stores'
  BY <1>1, <1>2, <1>3 DEF Stores
<1>6. Admitted' /\ OnePair'
  BY <1>2 DEF Admitted, OnePair
<1> QED
  BY <1>4, <1>5, <1>6 DEF PairKept

LEMMA CallbackPutPair ==
  ASSUME Paired, NEW c \in Flows,
         \/ PutAccess(c) /\ Puttable(secrets.access, WriteGeneration(c, 0))
         \/ PutRefresh(c) /\ Puttable(secrets.refresh, WriteGeneration(c, 0))
  PROVE  PairKept
<1>0. /\ TypeOK /\ flow \in [Flows -> Flow] /\ FewFences
      /\ secrets \in [access : Secret, refresh : Secret] /\ row.auth \in Nat /\ row.cred \in Nat
      /\ Flows \subseteq Nat
  <2>1. TypeOK /\ FewFences
    BY DEF Paired, Quiet
  <2>2. secrets \in [access : Secret, refresh : Secret] /\ flow \in [Flows -> Flow]
    BY <2>1 DEF TypeOK
  <2> QED
    BY <2>1, <2>2, Counters
<1>1. UNCHANGED <<row, refresh, removal>>
  BY DEF PutAccess, PutRefresh
<1>2. FewFences'
  BY <1>1 DEF Paired, FewFences, Fenced
<1>3. \A k \in Flows : flow'[k].pc = IF k = c THEN (IF PutAccess(c) THEN "half" ELSE "stored")
                                     ELSE flow[k].pc
  <2>1. CASE PutAccess(c) /\ Puttable(secrets.access, WriteGeneration(c, 0))
    BY <1>0, <2>1, FlowMoves DEF PutAccess, FlowSteps
  <2>2. CASE PutRefresh(c) /\ Puttable(secrets.refresh, WriteGeneration(c, 0))
    <3>1. ~PutAccess(c)
      BY <2>2 DEF PutAccess, PutRefresh
    <3> QED
      BY <1>0, <2>2, <3>1, FlowMoves DEF PutRefresh, FlowSteps
  <2> QED
    BY <2>1, <2>2
<1>4. flow[c].pc \in Puttings /\ c <= row.auth
  BY AllBegun DEF PutAccess, PutRefresh, Puttings
(* Nothing of a connected row, or of a newer callback, gives way.            *)
<1>5. ASSUME NEW s \in Secret, NEW b \in Nat, WriteGeneration(b, 0) <= s.gen, c < b
      PROVE  ~Puttable(s, WriteGeneration(c, 0))
  BY <1>0, <1>5, OlderStandBack
<1>6. row.status # "connected"
  <2> SUFFICES ASSUME row.status = "connected" PROVE FALSE
    OBVIOUS
  <2>1. c < row.cred /\ OfCredential(secrets.access) /\ OfCredential(secrets.refresh)
    BY <1>4 DEF Paired, Admitted, OnePair
  <2>2. secrets.access \in Secret /\ secrets.refresh \in Secret
    BY <1>0
  <2> QED
    BY <1>0, <1>5, <2>1, <2>2 DEF OfCredential
<1>7. Admitted' /\ OnePair'
  BY <1>1, <1>6 DEF Admitted, OnePair
<1>8. WriteGeneration(c, 0) \in Nat /\ \A k \in Flows : WriteGeneration(k, 0) \in Nat
  BY <1>0, Written
<1>9. CASE PutAccess(c) /\ Puttable(secrets.access, WriteGeneration(c, 0))
  <2>1. secrets'.access.gen = WriteGeneration(c, 0) /\ secrets'.refresh = secrets.refresh
    BY <1>0, <1>9, PutSets DEF PutAccess
  <2> SUFFICES ASSUME NEW k \in Flows, row.auth = k, flow'[k].pc \in Puttings
               PROVE  /\ row.status = "error"
                      /\ flow'[k].pc # "writing" => secrets'.access.gen = WriteGeneration(k, 0)
                      /\ flow'[k].pc = "stored" => /\ secrets'.refresh.gen = WriteGeneration(k, 0)
                                                   /\ secrets'.refresh.token = Issued(k)
    BY <1>1, <1>2, <1>7 DEF PairKept, Stores
  <2>2. CASE k = c
    BY <1>3, <1>4, <1>9, <2>1, <2>2 DEF Paired, Stores
  <2>3. CASE k # c
    <3>1. c < k /\ flow[k].pc = flow'[k].pc
      BY <1>0, <1>3, <1>4, <2>3
    <3>2. flow[k].pc # "writing" => secrets.access.gen = WriteGeneration(k, 0)
      BY <3>1 DEF Paired, Stores
    <3>3. flow[k].pc = "writing"
      <4>1. secrets.access \in Secret /\ k \in Nat
        BY <1>0
      <4>2. ASSUME secrets.access.gen = WriteGeneration(k, 0) PROVE FALSE
        BY <1>5, <1>8, <1>9, <3>1, <4>1, <4>2
      <4> QED
        BY <3>2, <4>2
    <3> QED
      BY <3>1, <3>3 DEF Paired, Stores
  <2> QED
    BY <2>2, <2>3
<1>10. CASE PutRefresh(c) /\ Puttable(secrets.refresh, WriteGeneration(c, 0))
  <2>1. /\ secrets'.refresh.gen = WriteGeneration(c, 0) /\ secrets'.refresh.token = Issued(c)
        /\ secrets'.access = secrets.access /\ flow[c].pc = "half"
    BY <1>0, <1>10, PutSets DEF PutRefresh
  <2> SUFFICES ASSUME NEW k \in Flows, row.auth = k, flow'[k].pc \in Puttings
               PROVE  /\ row.status = "error"
                      /\ flow'[k].pc # "writing" => secrets'.access.gen = WriteGeneration(k, 0)
                      /\ flow'[k].pc = "stored" => /\ secrets'.refresh.gen = WriteGeneration(k, 0)
                                                   /\ secrets'.refresh.token = Issued(k)
    BY <1>1, <1>2, <1>7 DEF PairKept, Stores
  <2>2. CASE k = c
    BY <1>3, <1>4, <2>1, <2>2 DEF Paired, Stores
  <2>3. CASE k # c
    <3>1. c < k /\ flow[k].pc = flow'[k].pc
      BY <1>0, <1>3, <1>4, <2>3
    <3>2. /\ flow[k].pc # "writing" => secrets.access.gen = WriteGeneration(k, 0)
          /\ flow[k].pc = "stored" => secrets.refresh.gen = WriteGeneration(k, 0)
          /\ row.status = "error"
      BY <3>1 DEF Paired, Stores
    <3>3. flow[k].pc # "stored"
      <4>1. secrets.refresh \in Secret /\ k \in Nat
        BY <1>0
      <4>2. ASSUME secrets.refresh.gen = WriteGeneration(k, 0) PROVE FALSE
        BY <1>5, <1>8, <1>10, <3>1, <4>1, <4>2
      <4> QED
        BY <3>2, <4>2
    <3> QED
      BY <2>1, <3>1, <3>2, <3>3
  <2> QED
    BY <2>2, <2>3
<1> QED
  BY <1>9, <1>10

LEMMA PublishPair ==
  ASSUME Paired, NEW c \in Flows, Publish(c), Publishable(c)
  PROVE  PairKept
<1>0. /\ TypeOK /\ row \in Row /\ flow \in [Flows -> Flow] /\ c \in Nat /\ c # None
      /\ \A k \in Flows : k \in Nat
  BY PairUntouched, Sorts DEF Paired, Quiet, None
<1>1. UNCHANGED <<secrets, refresh, removal>> /\ row.auth = c /\ flow[c].pc = "stored"
  BY DEF Publish, Publishable
<1>2. row'.status = "connected" /\ row'.auth = c /\ row'.cred = c /\ row'.gen = 0
  BY <1>0, <1>1 DEF Publish, Published, Row
<1>3. \A k \in Flows : flow'[k].pc = IF k = c THEN "done" ELSE flow[k].pc
  BY <1>0, FlowMoves DEF Publish, FlowSteps
<1>4. \A r \in Fenced : refresh[r].auth \in Nat /\ refresh[r].auth < c
  <2> SUFFICES ASSUME NEW r \in Fenced PROVE refresh[r].auth \in Nat /\ refresh[r].auth < c
    OBVIOUS
  <2>1. refresh[r].auth \in Flows /\ refresh[r].auth <= c /\ flow[refresh[r].auth].pc = "done"
    BY <1>1, AllBegun
  <2>2. refresh[r].auth # c
    BY <1>1, <2>1
  <2>3. refresh[r].auth \in Nat /\ c \in Nat
    BY <1>0, <2>1
  <2> QED
    BY <2>1, <2>2, <2>3
<1>5. FewFences'
  <2>1. Cardinality(Fenced) \in Nat
    BY ConnectionConstants, FS_Subset, FS_CardinalityType DEF Fenced
  <2> QED
    BY <1>1, <1>2, <2>1 DEF Paired, FewFences, Fenced
<1>6. Stores'
  BY <1>2, <1>3 DEF Stores, Puttings
<1>7. Admitted'
  <2>1. \A k \in Flows : flow'[k].pc \in Puttings => k < c
    <3> SUFFICES ASSUME NEW k \in Flows, flow'[k].pc \in Puttings PROVE k < c
      OBVIOUS
    <3>1. k # c /\ flow[k].pc # "none"
      BY <1>3 DEF Puttings
    <3>2. k <= c
      BY <1>1, <3>1, AllBegun
    <3> QED
      BY <1>0, <3>1, <3>2
  <2>2. \A r \in Fenced' : refresh'[r].auth \in Nat /\ refresh'[r].auth < c
    BY <1>1, <1>4 DEF Fenced
  <2>3. \A d \in Removers : removal'[d].pc # "idle" => removal'[d].auth <= c
    BY <1>1 DEF Paired, Quiet, Generations, RemovalsKnow
  <2>4. \A r \in Fenced' : refresh'[r].auth <= c /\ refresh'[r].auth # c
    BY <1>0, <2>2
  <2> QED
    BY <1>0, <1>2, <2>1, <2>3, <2>4 DEF Admitted
<1>8. OnePair'
  <2>1. secrets.access.gen = WriteGeneration(c, 0) /\ secrets.refresh.gen = WriteGeneration(c, 0)
    BY <1>1 DEF Paired, Stores, Puttings
  <2>2. \A r \in Refreshers : ~HalfDone(r)'
    BY <1>0, <1>1, <1>2, <1>4 DEF HalfDone, Fenced
  <2>3. WriteGeneration(c, 0) \in Nat
    BY <1>0, Written
  <2> QED
    BY <1>1, <1>2, <2>1, <2>2, <2>3 DEF OnePair, OfCredential
<1> QED
  BY <1>5, <1>6, <1>7, <1>8 DEF PairKept

LEMMA FencePair ==
  ASSUME Paired, TypeOK', NEW r \in Refreshers, Fence(r)
  PROVE  PairKept
<1>0. /\ TypeOK /\ row \in Row /\ refresh \in [Refreshers -> Refresh] /\ row.gen \in Nat
      /\ row.cred \in Nat /\ row.auth \in Nat
  <2>1. TypeOK
    BY DEF Paired, Quiet
  <2> QED
    BY <2>1, PairUntouched, Counters
<1>1. UNCHANGED <<secrets, flow, removal>> /\ row.status = "connected" /\ row.cred = row.auth
      /\ refresh[r].pc = "idle"
  BY DEF Fence, Fenceable, Calm
<1>2. /\ row'.gen = row.gen + 1 /\ row'.auth = row.auth /\ row'.cred = row.cred
      /\ row'.status = row.status
  BY <1>0 DEF Fence, Row
<1>3. /\ refresh'[r].pc = "fenced" /\ refresh'[r].auth = row.auth /\ refresh'[r].gen = row.gen + 1
      /\ \A q \in Refreshers \ {r} : refresh'[q] = refresh[q]
  <2> DEFINE v == [Calm EXCEPT !.pc = "fenced", !.auth = row.auth, !.gen = row.gen + 1,
                               !.ref = row.refs.refresh, !.lease = clock.taken + 1]
  <2>1. v.pc = "fenced" /\ v.auth = row.auth /\ v.gen = row.gen + 1
    BY DEF Calm
  <2>2. refresh' = [refresh EXCEPT ![r] = v]
    BY DEF Fence
  <2> HIDE DEF v
  <2> QED
    BY <1>0, <2>1, <2>2
<1>4. Fenced' = Fenced \cup {r} /\ r \notin Fenced
  BY <1>1, <1>3 DEF Fenced
<1>5. FewFences'
  <2>1. IsFiniteSet(Fenced)
    BY ConnectionConstants, FS_Subset DEF Fenced
  <2>2. Cardinality(Fenced) \in Nat /\ Cardinality(Fenced \cup {r}) = Cardinality(Fenced) + 1
    BY <1>4, <2>1, FS_CardinalityType, FS_AddElement
  <2>3. PICK n \in Nat : n = Cardinality(Fenced) /\ Cardinality(Fenced') = n + 1
    BY <1>4, <2>2
  <2>4. row.gen <= n /\ \A q \in Fenced : refresh[q].gen \in Nat /\ refresh[q].gen <= n
    BY <1>0, <2>3 DEF Paired, FewFences, Fenced, Refresh
  <2>5. ASSUME NEW q \in Fenced' PROVE refresh'[q].gen <= n + 1
    <3>1. CASE q = r
      BY <1>0, <1>3, <2>4, <3>1
    <3>2. CASE q # r
      <4>1. q \in Fenced /\ refresh'[q] = refresh[q]
        BY <1>3, <1>4, <3>2 DEF Fenced
      <4>2. refresh[q].gen \in Nat /\ refresh[q].gen <= n
        BY <2>4, <4>1
      <4> QED
        BY <4>1, <4>2
    <3> QED
      BY <3>1, <3>2
  <2>6. row'.gen <= n + 1
    BY <1>0, <1>2, <2>4
  <2> QED
    BY <2>3, <2>5, <2>6 DEF FewFences
<1>6. Stores'
  <2>1. \A c \in Flows : ~(row.auth = c /\ flow[c].pc \in Puttings)
    BY <1>1 DEF Paired, Stores
  <2> QED
    BY <1>1, <1>2, <2>1 DEF Stores
<1>7. Admitted'
  <2>1. ASSUME NEW q \in Fenced'
        PROVE  /\ refresh'[q].auth <= row.cred
               /\ refresh'[q].auth = row.cred => refresh'[q].gen <= row.gen + 1
    <3>1. CASE q = r
      BY <1>0, <1>1, <1>3, <3>1
    <3>2. CASE q # r
      <4>1. q \in Fenced /\ refresh'[q] = refresh[q]
        BY <1>3, <1>4, <3>2 DEF Fenced
      <4>2. refresh[q].gen \in Nat
        BY <1>0, <4>1 DEF Fenced, Refresh
      <4>3. /\ refresh[q].auth <= row.cred
            /\ refresh[q].auth = row.cred => refresh[q].gen <= row.gen
        BY <1>1, <4>1 DEF Paired, Admitted
      <4> QED
        BY <1>0, <4>1, <4>2, <4>3
    <3> QED
      BY <3>1, <3>2
  <2> QED
    BY <1>1, <1>2, <2>1 DEF Paired, Admitted
<1>8. OnePair'
  <2>1. /\ WriteGeneration(row.cred, row.gen) <= WriteGeneration(row.cred, row.gen + 1)
        /\ WriteGeneration(row.cred, row.gen) \in Nat /\ WriteGeneration(row.cred, row.gen + 1) \in Nat
    <3>1. row.gen + 1 \in Nat /\ row.gen <= row.gen + 1
      BY <1>0
    <3> QED
      BY <1>0, <3>1, Counted, Written
  <2>2. secrets.access.gen \in Nat /\ secrets.refresh.gen \in Nat
    BY <1>0 DEF TypeOK, Secret
  <2>3. OfCredential(secrets.access) /\ OfCredential(secrets.refresh)
    BY <1>1 DEF Paired, OnePair
  <2>4. /\ WriteGeneration(row.cred, 0) <= secrets.access.gen
        /\ WriteGeneration(row.cred, 0) <= secrets.refresh.gen
        /\ secrets.access.gen <= WriteGeneration(row.cred, row.gen)
        /\ secrets.refresh.gen <= WriteGeneration(row.cred, row.gen)
    BY <2>3 DEF OfCredential
  <2>5. /\ secrets.access.gen <= WriteGeneration(row.cred, row.gen + 1)
        /\ secrets.refresh.gen <= WriteGeneration(row.cred, row.gen + 1)
    BY <2>1, <2>2, <2>4
  <2>6. OfCredential(secrets.access)' /\ OfCredential(secrets.refresh)'
    BY <1>1, <1>2, <2>4, <2>5 DEF OfCredential
  <2>7. \A q \in Refreshers : /\ HalfDone(q)' <=> HalfDone(q)
                              /\ HalfDone(q) => RefreshGeneration(q)' = RefreshGeneration(q)
    BY <1>1, <1>2, <1>3 DEF HalfDone, RefreshGeneration
  <2> QED
    BY <1>1, <2>6, <2>7 DEF Paired, OnePair
<1> QED
  BY <1>5, <1>6, <1>7, <1>8 DEF PairKept

(* A refresh that puts its access token, or its refresh token, beside a      *)
(* connected row was admitted under the row's authorization.                 *)
LEMMA OwnPut ==
  ASSUME Paired, NEW r \in Fenced, NEW s \in {secrets.access, secrets.refresh},
         Puttable(s, RefreshGeneration(r)), row.status = "connected"
  PROVE  /\ refresh[r].auth = row.cred
         /\ WriteGeneration(row.cred, 0) <= RefreshGeneration(r)
         /\ RefreshGeneration(r) <= WriteGeneration(row.cred, row.gen)
<1>0. TypeOK /\ FewFences /\ s \in Secret /\ row.cred \in Nat /\ row.gen \in Nat
  BY Counters DEF Paired, Quiet, TypeOK
<1>1. refresh[r].auth <= row.cred /\ (refresh[r].auth = row.cred => refresh[r].gen <= row.gen)
  BY DEF Paired, Admitted
<1>2. refresh[r].auth \in Nat /\ refresh[r].gen \in Nat
  BY <1>0 DEF Fenced, TypeOK, Refresh
<1>3. WriteGeneration(row.cred, 0) <= s.gen
  BY DEF Paired, OnePair, OfCredential
<1>4. ~(refresh[r].auth < row.cred)
  BY <1>0, <1>3, OlderStandBack
<1>5. refresh[r].auth = row.cred
  BY <1>0, <1>1, <1>2, <1>4
<1>6. refresh[r].gen <= row.gen /\ 0 <= refresh[r].gen
  BY <1>1, <1>2, <1>5
<1>7. /\ WriteGeneration(row.cred, 0) <= WriteGeneration(row.cred, refresh[r].gen)
      /\ WriteGeneration(row.cred, refresh[r].gen) <= WriteGeneration(row.cred, row.gen)
  BY <1>0, <1>2, <1>6, Counted
<1> QED
  BY <1>5, <1>7 DEF RefreshGeneration

(* A refresh does not put over what the newest authorization's callback is   *)
(* storing.                                                                  *)
LEMMA StoresKept ==
  ASSUME Paired, NEW r \in Fenced, NEW c \in Flows, row.auth = c, flow[c].pc \in Puttings,
         NEW s \in {secrets.access, secrets.refresh}, s.gen = WriteGeneration(c, 0)
  PROVE  ~Puttable(s, RefreshGeneration(r))
<1>0. TypeOK /\ FewFences /\ s \in Secret /\ c \in Nat /\ WriteGeneration(c, 0) \in Nat
  <2>1. TypeOK /\ FewFences /\ c \in Nat
    BY Counters DEF Paired, Quiet
  <2> QED
    BY <2>1, Written DEF TypeOK
<1>1. /\ refresh[r].auth \in Flows /\ refresh[r].auth <= c /\ flow[refresh[r].auth].pc = "done"
  BY AllBegun
<1>2. refresh[r].auth \in Nat /\ refresh[r].auth # c
  BY <1>0, <1>1, Counters DEF Puttings
<1>3. refresh[r].auth < c
  BY <1>0, <1>1, <1>2
<1>4. WriteGeneration(c, 0) <= s.gen
  BY <1>0
<1> QED
  BY <1>0, <1>3, <1>4, OlderStandBack

LEMMA AgainRests ==
  ASSUME TypeOK, NEW r \in Refreshers, PutAccessAgain(r) \/ PutRefreshAgain(r)
  PROVE  /\ UNCHANGED <<row, flow, removal>> /\ Fenced' = Fenced /\ r \in Fenced
         /\ \A q \in Refreshers : /\ refresh'[q].auth = refresh[q].auth /\ refresh'[q].gen = refresh[q].gen
                                  /\ q # r => refresh'[q] = refresh[q]
                                  /\ RefreshGeneration(q)' = RefreshGeneration(q)
         /\ PutAccessAgain(r) /\ Puttable(secrets.access, RefreshGeneration(r)) => refresh'[r].pc = "half"
         /\ refresh[r].pc = IF PutAccessAgain(r) THEN "got" ELSE "half"
         /\ PutRefreshAgain(r) => refresh'[r].pc \in {"stored", "done"}
<1>0. refresh \in [Refreshers -> Refresh]
  BY DEF TypeOK
<1>1. PICK p \in {"half", "stored", "done"} : refresh' = [refresh EXCEPT ![r].pc = p]
  BY DEF PutAccessAgain, PutRefreshAgain
<1>2. \A q \in Refreshers : /\ refresh'[q].auth = refresh[q].auth /\ refresh'[q].gen = refresh[q].gen
                            /\ q # r => refresh'[q] = refresh[q]
                            /\ refresh'[q].pc = IF q = r THEN p ELSE refresh[q].pc
  BY <1>0, <1>1 DEF Refresh
<1>3. \A q \in Refreshers : RefreshGeneration(q)' = RefreshGeneration(q)
  BY <1>2 DEF RefreshGeneration
<1>4. refresh[r].pc = (IF PutAccessAgain(r) THEN "got" ELSE "half") /\ UNCHANGED <<row, flow, removal>>
  BY DEF PutAccessAgain, PutRefreshAgain
<1>5. Fenced' = Fenced /\ r \in Fenced
  BY <1>2, <1>4 DEF Fenced
<1>6. PutAccessAgain(r) /\ Puttable(secrets.access, RefreshGeneration(r)) => refresh'[r].pc = "half"
  BY <1>0 DEF PutAccessAgain, Refresh
<1>7. PutRefreshAgain(r) => refresh'[r].pc \in {"stored", "done"}
  <2> SUFFICES ASSUME PutRefreshAgain(r) PROVE refresh'[r].pc \in {"stored", "done"}
    OBVIOUS
  <2>1. PICK x \in {"stored", "done"} : refresh' = [refresh EXCEPT ![r].pc = x]
    BY DEF PutRefreshAgain
  <2> QED
    BY <1>0, <2>1 DEF Refresh
<1> QED
  BY <1>2, <1>3, <1>4, <1>5, <1>6, <1>7

LEMMA AccessAgainPair ==
  ASSUME Paired, NEW r \in Refreshers, PutAccessAgain(r), Puttable(secrets.access, RefreshGeneration(r))
  PROVE  PairKept
<1>0. /\ TypeOK /\ secrets \in [access : Secret, refresh : Secret] /\ r \in Fenced
      /\ UNCHANGED <<row, flow, removal>> /\ Fenced' = Fenced
  <2>1. TypeOK
    BY DEF Paired, Quiet
  <2> QED
    BY <2>1, AgainRests DEF TypeOK
<1>1. secrets'.access.gen = RefreshGeneration(r) /\ secrets'.refresh = secrets.refresh
  BY <1>0, PutSets DEF PutAccessAgain
<1>2. FewFences' /\ Admitted'
  BY <1>0, AgainRests DEF Paired, FewFences, Admitted, Fenced
<1>3. Stores'
  <2>1. \A c \in Flows : row.auth = c /\ flow[c].pc \in Puttings => flow[c].pc = "writing"
    BY <1>0, StoresKept DEF Paired, Stores
  <2> QED
    BY <1>0, <2>1 DEF Paired, Stores
<1>4. OnePair'
  <2> SUFFICES ASSUME row.status = "connected" PROVE OnePair'
    BY <1>0 DEF OnePair
  <2>1. /\ refresh[r].auth = row.cred
        /\ WriteGeneration(row.cred, 0) <= RefreshGeneration(r)
        /\ RefreshGeneration(r) <= WriteGeneration(row.cred, row.gen)
    BY <1>0, OwnPut
  <2>2. /\ RefreshGeneration(r) \in Nat /\ secrets.access.gen \in Nat /\ secrets.refresh.gen \in Nat
        /\ \A q \in Refreshers : RefreshGeneration(q) \in Nat
    <3>1. \A q \in Refreshers : refresh[q].auth \in Nat /\ refresh[q].gen \in Nat
      BY <1>0 DEF TypeOK, Refresh
    <3> QED
      BY <1>0, <3>1, Written DEF RefreshGeneration, Secret
  <2>3. secrets.access.gen <= RefreshGeneration(r) /\ secrets.refresh.gen <= secrets.access.gen
    BY DEF Puttable, Paired, OnePair
  <2>4. OfCredential(secrets.access)' /\ OfCredential(secrets.refresh)'
    BY <1>0, <1>1, <2>1 DEF Paired, OnePair, OfCredential
  <2>5. secrets'.refresh.gen <= secrets'.access.gen
    BY <1>1, <2>2, <2>3
  <2>6. HalfDone(r)' /\ secrets'.access.gen = RefreshGeneration(r)'
    BY <1>0, <1>1, <2>1, AgainRests DEF HalfDone
  <2>7. ASSUME NEW q \in Refreshers, HalfDone(q)' PROVE RefreshGeneration(q)' <= secrets'.access.gen
    <3>1. CASE q = r
      BY <1>1, <2>2, <2>6, <3>1
    <3>2. CASE q # r
      <4>1. HalfDone(q) /\ RefreshGeneration(q)' = RefreshGeneration(q)
        BY <1>0, <2>7, <3>2, AgainRests DEF HalfDone
      <4>2. RefreshGeneration(q) <= secrets.access.gen
        BY <4>1 DEF Paired, OnePair
      <4> QED
        BY <1>1, <2>2, <2>3, <4>1, <4>2
    <3> QED
      BY <3>1, <3>2
  <2> QED
    BY <2>4, <2>5, <2>6, <2>7 DEF OnePair
<1> QED
  BY <1>2, <1>3, <1>4 DEF PairKept

LEMMA RefreshAgainPair ==
  ASSUME Paired, NEW r \in Refreshers, PutRefreshAgain(r)
  PROVE  PairKept
<1>0. /\ TypeOK /\ secrets \in [access : Secret, refresh : Secret] /\ r \in Fenced
      /\ UNCHANGED <<row, flow, removal>> /\ Fenced' = Fenced
  <2>1. TypeOK
    BY DEF Paired, Quiet
  <2> QED
    BY <2>1, AgainRests DEF TypeOK
<1>1. /\ secrets'.access = secrets.access
      /\ \/ Puttable(secrets.refresh, RefreshGeneration(r)) /\ secrets'.refresh.gen = RefreshGeneration(r)
         \/ ~Puttable(secrets.refresh, RefreshGeneration(r)) /\ UNCHANGED secrets
  BY <1>0, PutSets DEF PutRefreshAgain
<1>2. FewFences' /\ Admitted'
  BY <1>0, AgainRests DEF Paired, FewFences, Admitted, Fenced
<1>3. Stores'
  <2>1. CASE Puttable(secrets.refresh, RefreshGeneration(r))
    <3>1. \A c \in Flows : row.auth = c /\ flow[c].pc \in Puttings => flow[c].pc # "stored"
      BY <1>0, <2>1, StoresKept DEF Paired, Stores
    <3> QED
      BY <1>0, <1>1, <3>1 DEF Paired, Stores
  <2>2. CASE ~Puttable(secrets.refresh, RefreshGeneration(r))
    BY <1>0, <1>1, <2>2 DEF Paired, Stores
  <2> QED
    BY <2>1, <2>2
<1>4. OnePair'
  <2> SUFFICES ASSUME row.status = "connected" PROVE OnePair'
    BY <1>0 DEF OnePair
  <2>1. /\ RefreshGeneration(r) \in Nat /\ secrets.access.gen \in Nat /\ secrets.refresh.gen \in Nat
        /\ \A q \in Refreshers : RefreshGeneration(q) \in Nat
    <3>1. \A q \in Refreshers : refresh[q].auth \in Nat /\ refresh[q].gen \in Nat
      BY <1>0 DEF TypeOK, Refresh
    <3> QED
      BY <1>0, <3>1, Written DEF RefreshGeneration, Secret
  <2>2. \A q \in Refreshers : /\ HalfDone(q)' <=> (HalfDone(q) /\ q # r)
                              /\ RefreshGeneration(q)' = RefreshGeneration(q)
    BY <1>0, AgainRests DEF HalfDone
  <2>3. refresh[r].pc = "half"
    BY DEF PutRefreshAgain
  <2>4. \A q \in Refreshers : HalfDone(q)' => RefreshGeneration(q)' <= secrets'.access.gen
    BY <1>1, <2>2 DEF Paired, OnePair
  <2>5. CASE Puttable(secrets.refresh, RefreshGeneration(r))
    <3>1. /\ refresh[r].auth = row.cred
          /\ WriteGeneration(row.cred, 0) <= RefreshGeneration(r)
          /\ RefreshGeneration(r) <= WriteGeneration(row.cred, row.gen)
      BY <1>0, <2>5, OwnPut
    <3>2. RefreshGeneration(r) <= secrets.access.gen /\ secrets.refresh.gen <= RefreshGeneration(r)
      BY <2>3, <2>5, <3>1 DEF Paired, OnePair, HalfDone, Puttable
    <3>3. OfCredential(secrets.access)' /\ OfCredential(secrets.refresh)'
      BY <1>0, <1>1, <2>5, <3>1 DEF Paired, OnePair, OfCredential
    <3>4. secrets'.refresh.gen = RefreshGeneration(r)
      BY <1>1, <2>5
    <3>5. secrets'.access.gen # secrets'.refresh.gen =>
            \E q \in Refreshers : HalfDone(q)' /\ secrets'.access.gen = RefreshGeneration(q)'
      <4> SUFFICES ASSUME secrets.access.gen # RefreshGeneration(r)
                   PROVE  \E q \in Refreshers : HalfDone(q)' /\ secrets'.access.gen = RefreshGeneration(q)'
        BY <1>1, <3>4
      <4>1. secrets.access.gen # secrets.refresh.gen
        BY <2>1, <3>2
      <4>2. PICK q \in Refreshers : HalfDone(q) /\ secrets.access.gen = RefreshGeneration(q)
        BY <4>1 DEF Paired, OnePair
      <4>3. q # r
        BY <4>2
      <4> QED
        BY <1>1, <2>2, <4>2, <4>3
    <3> QED
      BY <1>1, <2>4, <3>2, <3>3, <3>4, <3>5 DEF OnePair
  <2>6. CASE ~Puttable(secrets.refresh, RefreshGeneration(r))
    <3>1. UNCHANGED secrets /\ RefreshGeneration(r) < secrets.refresh.gen
      BY <1>1, <2>1, <2>6 DEF Puttable
    <3>2. secrets.refresh.gen <= secrets.access.gen
      BY DEF Paired, OnePair
    <3>3. secrets.access.gen # secrets.refresh.gen =>
            \E q \in Refreshers : HalfDone(q)' /\ secrets.access.gen = RefreshGeneration(q)'
      <4> SUFFICES ASSUME secrets.access.gen # secrets.refresh.gen
                   PROVE  \E q \in Refreshers : HalfDone(q)' /\ secrets.access.gen = RefreshGeneration(q)'
        OBVIOUS
      <4>1. PICK q \in Refreshers : HalfDone(q) /\ secrets.access.gen = RefreshGeneration(q)
        BY DEF Paired, OnePair
      <4>2. q # r
        BY <2>1, <3>1, <3>2, <4>1
      <4> QED
        BY <2>2, <4>1, <4>2
    <3> QED
      BY <1>0, <2>4, <3>1, <3>3 DEF Paired, OnePair, OfCredential
  <2> QED
    BY <2>5, <2>6
<1> QED
  BY <1>2, <1>3, <1>4 DEF PairKept

(* A sweep is at work on a row it holds, which is disconnected.              *)
LEMMA SweepPair ==
  ASSUME Paired, NEW d \in Removers, SweepRefresh(d) \/ SweepAccess(d)
  PROVE  PairKept
<1>1. UNCHANGED <<row, flow, refresh>> /\ removal[d].pc \in Working /\ d \notin dead
  BY Sorts DEF SweepRefresh, SweepAccess, Working, Runs
<1>2. row.hold.by = d /\ d # NoRemover
  BY <1>1, Sorts DEF Paired, WorkersHold
<1>3. row.status = "disconnected"
  BY <1>2 DEF Paired, Quiet, HoldIsQuiet
<1>4. FewFences'
  BY <1>1 DEF Paired, FewFences, Fenced
<1>5. \A c \in Flows : ~(row.auth = c /\ flow[c].pc \in Puttings)
  BY <1>3 DEF Paired, Stores
<1>6. Stores' /\ Admitted' /\ OnePair'
  BY <1>1, <1>3, <1>5 DEF Stores, Admitted, OnePair
<1> QED
  BY <1>4, <1>6 DEF PairKept

LEMMA StepPaired == Paired /\ [Next]_vars => Paired'
<1> SUFFICES ASSUME Paired, [Next]_vars PROVE Paired'
  OBVIOUS
<1>0. Quiet' /\ TypeOK' /\ WorkersHold'
  <2>1. Quiet'
    BY StepQuiet DEF Paired
  <2>2. TypeOK'
    BY <2>1 DEF Quiet
  <2> QED
    BY <2>1, <2>2, WorkersKeepHold
<1> SUFFICES PairKept
  BY <1>0 DEF Paired, PairKept
<1>1. ASSUME PairRests PROVE PairKept
  BY <1>0, <1>1, PairRestsKeeps DEF PairKept
<1>2. ASSUME NEW c \in Flows, FlowNext(c) PROVE PairKept
  <2>1. CASE Retire(c)
    BY <1>1, <2>1, RetirePair, CallbackPairRests
  <2>2. CASE PutAccess(c)
    BY <1>1, <2>2, CallbackPutPair, CallbackPairRests
  <2>3. CASE PutRefresh(c)
    BY <1>1, <2>3, CallbackPutPair, CallbackPairRests
  <2>4. CASE Publish(c)
    BY <1>1, <2>4, PublishPair, CallbackPairRests
  <2>5. CASE Consume(c) \/ Exchange(c) \/ Withdraw(c) \/ PutFails(c) \/ Settle(c) \/ GiveUp(c)
    BY <1>1, <2>5, CallbackPairRests
  <2> QED
    BY <1>2, <2>1, <2>2, <2>3, <2>4, <2>5 DEF FlowNext
<1>3. ASSUME NEW r \in Refreshers, RefreshNext(r) PROVE PairKept
  <2>1. CASE Fence(r)
    BY <1>0, <2>1, FencePair
  <2>2. CASE PutAccessAgain(r)
    BY <1>1, <2>2, AccessAgainPair, RefreshPairRests
  <2>3. CASE PutRefreshAgain(r)
    BY <2>3, RefreshAgainPair
  <2>4. CASE ReadToken(r) \/ Refreshed(r) \/ Refused(r) \/ Unreachable(r) \/ Commit(r)
    BY <1>1, <2>4, RefreshPairRests
  <2> QED
    BY <1>3, <2>1, <2>2, <2>3, <2>4 DEF RefreshNext
<1>4. ASSUME NEW d \in Removers, RemovalNext(d) PROVE PairKept
  <2>1. CASE SweepRefresh(d) \/ SweepAccess(d)
    BY <2>1, SweepPair
  <2>2. CASE ~(SweepRefresh(d) \/ SweepAccess(d))
    BY <1>1, <1>4, <2>2, RemovalPairRests DEF RemovalNext
  <2> QED
    BY <2>1, <2>2
<1>5. CASE Start \/ LeaseLapses \/ LeaseIsOver \/ HoldLapses \/ UNCHANGED vars
           \/ \E x \in Flows \cup Refreshers \cup Removers : BreaksOff(x)
  BY <1>1, <1>5, OutsidePairRests
<1> QED
  BY <1>2, <1>3, <1>4, <1>5 DEF Next

LEMMA InitPaired == Init => Paired
<1> SUFFICES ASSUME Init PROVE Paired
  OBVIOUS
<1>0. Quiet /\ TypeOK /\ Flows \subseteq Nat \ {0} /\ 1 \in Flows
  BY InitQuiet, Sorts DEF Quiet
<1>1. /\ row.status \in {"connected", "pending"} /\ row.gen = 0 /\ row.hold = NoHold
      /\ row.status = "connected" =>
           /\ row.cred = 1
           /\ secrets.access.gen = Stride /\ secrets.refresh.gen = Stride
  BY DEF Init
<1>2. /\ \A r \in Refreshers : refresh[r].pc = "idle"
      /\ \A d \in Removers : removal[d].pc = "idle"
      /\ \A c \in Flows : flow[c].pc \in {"none", "pending", "done"}
  BY DEF Init, Calm, Waiting, NoFlow
<1>3. WorkersHold
  BY <1>2 DEF WorkersHold, Working
<1>4. FewFences
  <2>1. Fenced = {}
    BY <1>2 DEF Fenced
  <2>2. Cardinality(Fenced) = 0
    BY <2>1, FS_EmptySet
  <2> QED
    BY <1>1, <2>1, <2>2 DEF FewFences
<1>5. Stores
  BY <1>2 DEF Stores, Puttings
<1>6. Admitted
  BY <1>1, <1>2 DEF Admitted, Puttings, Fenced, None
<1>7. OnePair
  <2>1. Stride \in Nat /\ WriteGeneration(1, 0) = Stride
    BY ConnectionConstants DEF WriteGeneration
  <2> QED
    BY <1>1, <1>2, <2>1 DEF OnePair, OfCredential, HalfDone
<1> QED
  BY <1>0, <1>3, <1>4, <1>5, <1>6, <1>7 DEF Paired

(* The access and the refresh token of a connected row were stored by one    *)
(* write, unless a refresh is, or died, between its two puts: whatever       *)
(* refreshes overtake each other and whatever older callbacks are late.      *)
THEOREM PairAlwaysWhole == Spec => []PairIsWhole
<1>1. Init => Paired
  BY InitPaired
<1>2. Paired /\ [Next]_vars => Paired'
  BY StepPaired
<1>3. Paired => PairIsWhole
  BY DEF Paired, OnePair, PairIsWhole, HalfDone
<1> QED
  BY <1>1, <1>2, <1>3, PTL DEF Spec
-------------------------------------------------------------------------------
(* Where tokens are.  A grant has a token in a secret, in a refresh or in a  *)
(* removal only once its callback has it from the vendor.                    *)

Unissued == {"none", "pending", "consumed"}

Reading == {"asking", "got", "half", "stored"}

OutThere(g) == g # None => flow[g].pc \notin Unissued

RealTokens ==
  /\ Present(secrets.access) => secrets.access.token.grant # None
  /\ Present(secrets.refresh) => secrets.refresh.token.grant # None
  /\ \A r \in Refreshers : /\ refresh[r].pc \in {"idle", "fenced"} => refresh[r].token = NoToken
                           /\ refresh[r].pc \in Reading => refresh[r].token.grant # None

KnownGrants ==
  /\ OutThere(secrets.access.token.grant) /\ OutThere(secrets.refresh.token.grant)
  /\ \A r \in Refreshers : OutThere(refresh[r].token.grant)

(* Only a refresh rotates a token, and it keeps the new one.                 *)
Rotated ==
  \A g \in Flows : vendor.seq[g] # 0 => \E r \in Refreshers : refresh[r].token.grant = g

Known == RealTokens /\ KnownGrants /\ Rotated

(* What may be put: a callback's own grant, and what a refresh has.          *)
MayBePut == {c \in Flows : flow[c].pc \in Puttings} \cup {refresh[r].token.grant : r \in Refreshers}

LEMMA TokensTyped ==
  ASSUME TypeOK
  PROVE  /\ secrets \in [access : Secret, refresh : Secret]
         /\ secrets.access \in Secret /\ secrets.refresh \in Secret
         /\ secrets.access.token \in Token /\ secrets.refresh.token \in Token
         /\ secrets.access.token.grant \in Flows \cup {None}
         /\ secrets.refresh.token.grant \in Flows \cup {None}
         /\ \A r \in Refreshers : /\ refresh[r] \in Refresh /\ refresh[r].token \in Token
                                  /\ refresh[r].token.grant \in Flows \cup {None}
         /\ NoToken.grant = None /\ None \notin Flows /\ None \in Nat
<1>1. /\ secrets \in [access : Secret, refresh : Secret]
      /\ \A r \in Refreshers : refresh[r] \in Refresh
  BY DEF TypeOK
<1>2. /\ secrets.access \in Secret /\ secrets.refresh \in Secret
      /\ secrets.access.token \in Token /\ secrets.refresh.token \in Token
  BY <1>1 DEF Secret
<1>3. \A r \in Refreshers : refresh[r].token \in Token
  BY <1>1 DEF Refresh
<1>4. \A t \in Token : t.grant \in Flows \cup {None}
  BY DEF Token
<1>5. NoToken.grant = None /\ None \notin Flows /\ None \in Nat
  BY Sorts DEF NoToken, None
<1> QED
  BY <1>1, <1>2, <1>3, <1>4, <1>5

(* The secrets change by a put or a sweep.                                   *)
SecretsGoOn ==
  /\ \/ secrets'.access = secrets.access
     \/ ~Present(secrets.access)' /\ secrets'.access.token = NoToken
     \/ secrets'.access.token.grant \in MayBePut \ {None}
  /\ \/ secrets'.refresh = secrets.refresh
     \/ ~Present(secrets.refresh)' /\ secrets'.refresh.token = NoToken
     \/ secrets'.refresh.token.grant \in MayBePut \ {None}

(* A refresh's token changes when it reads it; after that, its rotation.     *)
TokenGoesOn(r) ==
  /\ \/ refresh'[r].token.grant = refresh[r].token.grant
     \/ /\ ReadToken(r) /\ refresh[r].token = NoToken
        /\ refresh'[r].token = secrets.refresh.token
  /\ refresh'[r].pc \in {"idle", "fenced"} => refresh'[r].token = NoToken
  /\ refresh'[r].pc \in Reading => refresh'[r].token.grant # None

LEMMA SecretsMove ==
  ASSUME TypeOK, RealTokens, [Next]_vars
  PROVE  SecretsGoOn
<1>0. secrets \in [access : Secret, refresh : Secret] /\ None \notin Flows
  BY TokensTyped
<1>1. ASSUME NEW c \in Flows, FlowNext(c) PROVE SecretsGoOn
  <2>1. CASE PutAccess(c)
    <3>1. c \in MayBePut \ {None} /\ Issued(c).grant = c
      BY <1>0, <2>1 DEF PutAccess, MayBePut, Puttings, Issued
    <3> QED
      BY <1>0, <2>1, <3>1, PutSets DEF SecretsGoOn, PutAccess
  <2>2. CASE PutRefresh(c)
    <3>1. c \in MayBePut \ {None} /\ Issued(c).grant = c
      BY <1>0, <2>2 DEF PutRefresh, MayBePut, Puttings, Issued
    <3> QED
      BY <1>0, <2>2, <3>1, PutSets DEF SecretsGoOn, PutRefresh
  <2>3. CASE ~PutAccess(c) /\ ~PutRefresh(c)
    BY <1>1, <2>3 DEF SecretsGoOn, FlowNext, Consume, Exchange, Withdraw, Retire, PutFails, Publish,
                      Settle, GiveUp
  <2> QED
    BY <2>1, <2>2, <2>3
<1>2. ASSUME NEW r \in Refreshers, RefreshNext(r) PROVE SecretsGoOn
  <2>1. CASE PutAccessAgain(r)
    <3>1. refresh[r].token.grant \in MayBePut \ {None}
      BY <2>1 DEF PutAccessAgain, MayBePut, RealTokens, Reading
    <3> QED
      BY <1>0, <2>1, <3>1, PutSets DEF SecretsGoOn, PutAccessAgain
  <2>2. CASE PutRefreshAgain(r)
    <3>1. refresh[r].token.grant \in MayBePut \ {None}
      BY <2>2 DEF PutRefreshAgain, MayBePut, RealTokens, Reading
    <3> QED
      BY <1>0, <2>2, <3>1, PutSets DEF SecretsGoOn, PutRefreshAgain
  <2>3. CASE ~PutAccessAgain(r) /\ ~PutRefreshAgain(r)
    BY <1>2, <2>3 DEF SecretsGoOn, RefreshNext, Fence, ReadToken, Refreshed, Refused, Unreachable, Commit
  <2> QED
    BY <2>1, <2>2, <2>3
<1>3. ASSUME NEW d \in Removers, RemovalNext(d) PROVE SecretsGoOn
  <2>1. CASE SweepRefresh(d) \/ SweepAccess(d)
    <3>1. \A s, ref : Swept(s, ref) = s \/ (Swept(s, ref).gen = None /\ Swept(s, ref).token = NoToken)
      BY DEF Swept, Empty
    <3>2. \/ /\ secrets'.access = secrets.access
             /\ secrets'.refresh = Swept(secrets.refresh, removal[d].refs.refresh)
          \/ /\ secrets'.refresh = secrets.refresh
             /\ secrets'.access = Swept(secrets.access, removal[d].refs.access)
      BY <1>0, <2>1 DEF SweepRefresh, SweepAccess
    <3> QED
      BY <3>1, <3>2 DEF SecretsGoOn, Present
  <2>2. CASE ~(SweepRefresh(d) \/ SweepAccess(d))
    BY <1>3, <2>2 DEF SecretsGoOn, RemovalNext, Disconnect, TakeHold, Look, Send, SendFails,
                      SendAccess, Renew, Mark, Delete, SweepFails
  <2> QED
    BY <2>1, <2>2
<1>4. CASE \/ Start \/ LeaseLapses \/ LeaseIsOver \/ HoldLapses \/ UNCHANGED vars
           \/ \E x \in Flows \cup Refreshers \cup Removers : BreaksOff(x)
  BY <1>4 DEF SecretsGoOn, Start, LeaseLapses, LeaseIsOver, HoldLapses, BreaksOff, vars
<1> QED
  BY <1>1, <1>2, <1>3, <1>4 DEF Next

LEMMA RefreshTokensMove ==
  ASSUME TypeOK, RealTokens, [Next]_vars, NEW r \in Refreshers
  PROVE  TokenGoesOn(r)
<1>0. refresh \in [Refreshers -> Refresh]
  BY DEF TypeOK
<1>a. ASSUME refresh'[r] = refresh[r] PROVE TokenGoesOn(r)
  BY <1>a DEF RealTokens, TokenGoesOn
<1>1. ASSUME NEW q \in Refreshers, RefreshNext(q) PROVE TokenGoesOn(r)
  <2>1. CASE q # r
    <3>1. refresh'[r] = refresh[r]
      BY <1>0, <1>1, <2>1 DEF RefreshNext, Fence, ReadToken, Refreshed, Refused, Unreachable,
                              PutAccessAgain, PutRefreshAgain, Commit
    <3> QED
      BY <1>a, <3>1
  <2>2. CASE q = r
    <3>1. CASE Fence(r)
      <4>1. refresh'[r].pc = "fenced" /\ refresh'[r].token = NoToken /\ refresh[r].token = NoToken
        BY <1>0, <3>1 DEF Fence, Calm
      <4> QED
        BY <4>1 DEF TokenGoesOn, Reading
    <3>2. CASE ReadToken(r) /\ Behind(secrets.refresh, refresh[r].ref)
      <4>1. refresh'[r].pc = "asking" /\ refresh'[r].token = secrets.refresh.token
        BY <1>0, <3>2 DEF ReadToken, Refresh
      <4>2. refresh[r].token = NoToken /\ secrets.refresh.token.grant # None
        BY <3>2 DEF ReadToken, RealTokens, Behind
      <4> QED
        BY <3>2, <4>1, <4>2 DEF TokenGoesOn
    <3>3. CASE Refreshed(r)
      <4>1. PICK n : refresh' = [refresh EXCEPT ![r] =
                [refresh[r] EXCEPT !.pc = "got", !.token = [grant |-> refresh[r].token.grant, seq |-> n]]]
        BY <3>3 DEF Refreshed
      <4>2. refresh'[r].pc = "got" /\ refresh'[r].token.grant = refresh[r].token.grant
        BY <1>0, <4>1 DEF Refresh
      <4>3. refresh[r].pc = "asking"
        BY <3>3 DEF Refreshed
      <4> QED
        BY <4>2, <4>3 DEF TokenGoesOn, RealTokens, Reading
    <3>4. CASE PutAccessAgain(r) \/ PutRefreshAgain(r)
      <4>1. refresh'[r].token = refresh[r].token /\ refresh'[r].pc \in {"half", "stored", "done"}
        <5>1. PICK p \in {"half", "stored", "done"} : refresh' = [refresh EXCEPT ![r].pc = p]
          BY <3>4 DEF PutAccessAgain, PutRefreshAgain
        <5> QED
          BY <1>0, <5>1 DEF Refresh
      <4>2. refresh[r].pc \in Reading
        BY <3>4 DEF PutAccessAgain, PutRefreshAgain, Reading
      <4> QED
        BY <4>1, <4>2 DEF TokenGoesOn, RealTokens, Reading
    <3>5. CASE Refused(r) \/ Unreachable(r) \/ Commit(r)
               \/ (ReadToken(r) /\ ~Behind(secrets.refresh, refresh[r].ref))
      <4>1. refresh'[r].token = refresh[r].token /\ refresh'[r].pc = "done"
        <5>1. refresh' = [refresh EXCEPT ![r].pc = "done"]
          BY <3>5 DEF Refused, Unreachable, Commit, ReadToken
        <5> QED
          BY <1>0, <5>1 DEF Refresh
      <4> QED
        BY <4>1 DEF TokenGoesOn, Reading
    <3> QED
      BY <1>1, <2>2, <3>1, <3>2, <3>3, <3>4, <3>5 DEF RefreshNext
  <2> QED
    BY <2>1, <2>2
<1>2. CASE UNCHANGED refresh
  BY <1>a, <1>2
<1>3. CASE ~(\E q \in Refreshers : RefreshNext(q))
  BY <1>2, <1>3 DEF Next, FlowNext, RemovalNext, vars, Start, LeaseLapses, LeaseIsOver, HoldLapses, BreaksOff,
         Consume, Exchange, Withdraw, Retire, PutAccess, PutRefresh, PutFails, Publish, Settle, GiveUp,
         Disconnect, TakeHold, Look, Send, SendFails, SendAccess, Renew, Mark, SweepRefresh,
         SweepAccess, Delete, SweepFails
<1> QED
  BY <1>1, <1>3

(* A callback that has its grant never goes back to before it.               *)
LEMMA FlowsMove ==
  ASSUME TypeOK, Quiet, [Next]_vars, NEW c \in Flows, flow[c].pc \notin Unissued
  PROVE  flow'[c].pc \notin Unissued
<1>0. flow \in [Flows -> Flow]
  BY DEF TypeOK
<1>1. ASSUME NEW k \in Flows, FlowNext(k) PROVE flow'[c].pc \notin Unissued
  <2>1. CASE k = c
    <3>0. ~Consume(c)
      BY DEF Consume, Unissued
    <3>1. CASE Retire(c) /\ Retirable(c)
      <4> DEFINE v == [flow[c] EXCEPT !.pc = "writing", !.lease = clock.taken + 1,
                                      !.inherited = row.lease]
      <4>1. v.pc = "writing"
        BY <1>0 DEF Flow
      <4>2. flow' = [flow EXCEPT ![c] = v]
        BY <3>1 DEF Retire
      <4> HIDE DEF v
      <4> QED
        BY <1>0, <4>1, <4>2 DEF Unissued
    <3>2. CASE ~(Retire(c) /\ Retirable(c))
      <4>1. PICK p : flow' = [flow EXCEPT ![c].pc = p] /\ p \notin Unissued
        BY <1>1, <2>1, <3>0, <3>2 DEF FlowNext, Exchange, Withdraw, Retire, PutAccess, PutRefresh,
             PutFails, Publish, Settle, GiveUp, Unissued
      <4> QED
        BY <1>0, <4>1 DEF Flow
    <3> QED
      BY <3>1, <3>2
  <2>2. CASE k # c
    <3>1. flow'[c] = flow[c]
      BY <1>0, <1>1, <2>2 DEF FlowNext, Consume, Exchange, Withdraw, Retire, PutAccess, PutRefresh,
           PutFails, Publish, Settle, GiveUp
    <3> QED
      BY <3>1
  <2> QED
    BY <2>1, <2>2
<1>2. CASE Start
  <2>1. flow[row.auth + 1].pc = "none" \/ row.auth + 1 \notin Flows
    BY Counters DEF Quiet, Generations, Begins
  <2>2. c # row.auth + 1
    BY <2>1 DEF Unissued
  <2>3. flow' = [flow EXCEPT ![row.auth + 1].pc = "pending"]
    BY <1>2 DEF Start
  <2> QED
    BY <1>0, <2>2, <2>3
<1>3. CASE ~Start /\ ~(\E k \in Flows : FlowNext(k))
  <2>1. UNCHANGED flow
    BY <1>3 DEF Next, RefreshNext, RemovalNext, vars, LeaseLapses, LeaseIsOver, HoldLapses, BreaksOff,
           Fence, ReadToken, Refreshed, Refused, Unreachable, PutAccessAgain, PutRefreshAgain, Commit,
           Disconnect, TakeHold, Look, Send, SendFails, SendAccess, Renew, Mark, SweepRefresh,
           SweepAccess, Delete, SweepFails
  <2> QED
    BY <2>1
<1> QED
  BY <1>1, <1>2, <1>3

(* The vendor's rotations change by a refresh.                               *)
LEMMA VendorMoves ==
  ASSUME TypeOK, [Next]_vars
  PROVE  /\ vendor'.rotates = vendor.rotates
         /\ \/ vendor'.seq = vendor.seq
            \/ \E r \in Refreshers : Refreshed(r)
         /\ \A c \in Flows : c \in vendor'.live => c \in vendor.live \/ Exchange(c)
<1>0. vendor \in [live : SUBSET Flows, seq : [Flows -> Nat], rotates : BOOLEAN]
  BY DEF TypeOK
<1> DEFINE Vendors == /\ vendor'.rotates = vendor.rotates /\ vendor'.seq = vendor.seq
                      /\ \A c \in Flows : c \in vendor'.live => c \in vendor.live \/ Exchange(c)
<1>1. ASSUME NEW k \in Flows, FlowNext(k) PROVE Vendors
  BY <1>0, <1>1 DEF FlowNext, Consume, Exchange, Withdraw, Retire, PutAccess, PutRefresh,
       PutFails, Publish, Settle, GiveUp, AfterRevoking
<1>2. ASSUME NEW d \in Removers, RemovalNext(d) PROVE Vendors
  <2>1. UNCHANGED vendor \/ (\E g : vendor' = [vendor EXCEPT !.live = vendor.live \ {g}])
    BY <1>2 DEF RemovalNext, Disconnect, TakeHold, Look, Send, SendFails, SendAccess, Renew, Mark,
             SweepRefresh, SweepAccess, Delete, SweepFails, AfterRevoking
  <2> QED
    BY <1>0, <2>1
<1>3. ASSUME NEW r \in Refreshers, RefreshNext(r)
      PROVE  /\ vendor'.rotates = vendor.rotates
             /\ vendor'.seq = vendor.seq \/ Refreshed(r)
             /\ vendor'.live = vendor.live
  BY <1>0, <1>3 DEF RefreshNext, Fence, ReadToken, Refreshed, Refused, Unreachable, PutAccessAgain,
       PutRefreshAgain, Commit
<1>4. CASE \/ Start \/ LeaseLapses \/ LeaseIsOver \/ HoldLapses \/ UNCHANGED vars
           \/ \E x \in Flows \cup Refreshers \cup Removers : BreaksOff(x)
  BY <1>4 DEF Start, LeaseLapses, LeaseIsOver, HoldLapses, BreaksOff, vars
<1> QED
  BY <1>1, <1>2, <1>3, <1>4 DEF Next

LEMMA StepKnown ==
  ASSUME Quiet, TypeOK', Known, [Next]_vars
  PROVE  Known'
<1>0. TypeOK /\ RealTokens /\ SecretsGoOn /\ \A r \in Refreshers : TokenGoesOn(r)
  BY SecretsMove, RefreshTokensMove DEF Quiet, Known
<1>1. RealTokens'
  <2>1. /\ Present(secrets.access)' => secrets'.access.token.grant # None
        /\ Present(secrets.refresh)' => secrets'.refresh.token.grant # None
    BY <1>0 DEF SecretsGoOn, RealTokens, Present
  <2> QED
    BY <1>0, <2>1 DEF RealTokens, TokenGoesOn
<1>2. \A g \in Flows : flow[g].pc \notin Unissued => flow'[g].pc \notin Unissued
  BY <1>0, FlowsMove
<1>3. ASSUME NEW g \in Flows \cup {None}, OutThere(g) PROVE OutThere(g)'
  BY <1>2, <1>3 DEF OutThere
<1>4. \A g \in MayBePut : g \in Flows \cup {None} /\ OutThere(g)
  BY <1>0, TokensTyped DEF MayBePut, Puttings, Unissued, OutThere, Known, KnownGrants
<1>5. OutThere(None)' /\ NoToken.grant = None
  BY TokensTyped, <1>0 DEF OutThere
<1>6. OutThere(secrets.access.token.grant)' /\ OutThere(secrets.refresh.token.grant)'
  <2>1. OutThere(secrets.access.token.grant)'
    <3>1. CASE secrets'.access.token.grant \in {secrets.access.token.grant} \cup MayBePut
      <4>1. PICK g \in {secrets.access.token.grant} \cup MayBePut : secrets'.access.token.grant = g
        BY <3>1
      <4>2. OutThere(g) /\ g \in Flows \cup {None}
        BY <1>0, <1>4, TokensTyped DEF Known, KnownGrants
      <4>3. OutThere(g)'
        BY <1>3, <4>2
      <4> QED
        BY <4>1, <4>3 DEF OutThere
    <3>2. CASE secrets'.access.token = NoToken
      BY <1>5, <3>2 DEF OutThere
    <3> QED
      BY <1>0, <3>1, <3>2 DEF SecretsGoOn
  <2>2. OutThere(secrets.refresh.token.grant)'
    <3>1. CASE secrets'.refresh.token.grant \in {secrets.refresh.token.grant} \cup MayBePut
      <4>1. PICK g \in {secrets.refresh.token.grant} \cup MayBePut : secrets'.refresh.token.grant = g
        BY <3>1
      <4>2. OutThere(g) /\ g \in Flows \cup {None}
        BY <1>0, <1>4, TokensTyped DEF Known, KnownGrants
      <4>3. OutThere(g)'
        BY <1>3, <4>2
      <4> QED
        BY <4>1, <4>3 DEF OutThere
    <3>2. CASE secrets'.refresh.token = NoToken
      BY <1>5, <3>2 DEF OutThere
    <3> QED
      BY <1>0, <3>1, <3>2 DEF SecretsGoOn
  <2> QED
    BY <2>1, <2>2
<1>7. ASSUME NEW r \in Refreshers PROVE OutThere(refresh[r].token.grant)'
  <2>1. PICK g \in {refresh[r].token.grant, secrets.refresh.token.grant} : refresh'[r].token.grant = g
    BY <1>0 DEF TokenGoesOn
  <2>2. OutThere(g) /\ g \in Flows \cup {None}
    BY <1>0, TokensTyped DEF Known, KnownGrants
  <2>3. OutThere(g)'
    BY <1>3, <2>2
  <2> QED
    BY <2>1, <2>3 DEF OutThere
<1>8. Rotated'
  <2> SUFFICES ASSUME NEW g \in Flows, vendor'.seq[g] # 0
               PROVE  \E r \in Refreshers : refresh'[r].token.grant = g
    BY DEF Rotated
  <2>0. g # None
    BY <1>0, TokensTyped
  <2>1. ASSUME NEW r \in Refreshers, refresh[r].token.grant = g PROVE refresh'[r].token.grant = g
    BY <1>0, <2>0, <2>1, TokensTyped DEF TokenGoesOn
  <2>2. CASE vendor.seq[g] # 0
    BY <2>1, <2>2 DEF Known, Rotated
  <2>3. CASE vendor.seq[g] = 0
    <3>1. PICK r \in Refreshers : Refreshed(r)
      BY <1>0, <2>3, VendorMoves
    <3>2. PICK n : vendor' = [vendor EXCEPT !.seq[refresh[r].token.grant] = n]
      BY <3>1 DEF Refreshed
    <3>3. vendor \in [live : SUBSET Flows, seq : [Flows -> Nat], rotates : BOOLEAN]
      BY <1>0 DEF TypeOK
    <3>4. refresh[r].token.grant = g
      BY <2>3, <3>2, <3>3
    <3> QED
      BY <2>1, <3>4
  <2> QED
    BY <2>2, <2>3
<1> QED
  BY <1>1, <1>6, <1>7, <1>8 DEF Known, KnownGrants
-------------------------------------------------------------------------------
(* What a removal sends back is older than the generation it gave the row.   *)

SentBefore ==
  \A d \in Removers : removal[d].pc # "idle" =>
    removal[d].token.grant < removal[d].auth /\ removal[d].access.grant < removal[d].auth

(* So is all that may still be behind the refs of a row it holds.            *)
HeldBefore ==
  row.hold.by # NoRemover =>
    /\ row.hold.by \in Removers /\ removal[row.hold.by].pc # "idle"
    /\ secrets.access.token.grant < removal[row.hold.by].auth
    /\ secrets.refresh.token.grant < removal[row.hold.by].auth
    /\ \A g \in MayBePut : g < removal[row.hold.by].auth

(* A removal's tokens are the secrets' when it looked.                       *)
RemovalGoesOn(d) ==
  \/ /\ removal'[d].auth = removal[d].auth /\ (removal'[d].pc = "idle" <=> removal[d].pc = "idle")
     /\ removal'[d].token = removal[d].token /\ removal'[d].access = removal[d].access
  \/ /\ Disconnect(d) /\ removal[d].pc = "idle" /\ removal'[d].pc = "marked"
     /\ removal'[d].auth = row.auth + 1
     /\ removal'[d].token = NoToken /\ removal'[d].access = NoToken
  \/ /\ Look(d) /\ removal[d].pc = "held" /\ removal'[d].auth = removal[d].auth
     /\ removal'[d].pc # "idle" /\ removal'[d].token = secrets.refresh.token
     /\ removal'[d].access \in {secrets.access.token, NoToken}

LEMMA RemovalsMove ==
  ASSUME TypeOK, [Next]_vars, NEW d \in Removers
  PROVE  RemovalGoesOn(d)
<1>0. removal \in [Removers -> Removal] /\ removal[d] \in Removal
  BY DEF TypeOK
<1>a. ASSUME removal'[d] = removal[d] PROVE RemovalGoesOn(d)
  BY <1>a DEF RemovalGoesOn
<1>1. ASSUME NEW e \in Removers, RemovalNext(e) PROVE RemovalGoesOn(d)
  <2>1. CASE e # d
    <3>1. removal'[d] = removal[d]
      BY <1>0, <1>1, <2>1 DEF RemovalNext, Disconnect, TakeHold, Look, Send, SendFails, SendAccess,
           Renew, Mark, SweepRefresh, SweepAccess, Delete, SweepFails
    <3> QED
      BY <1>a, <3>1
  <2>2. CASE e = d
    <3>1. CASE Disconnect(d)
      <4> DEFINE v == [Waiting EXCEPT !.pc = "marked", !.auth = row.auth + 1, !.refs = row.refs,
                                      !.mark = row.mark]
      <4>1. v.pc = "marked" /\ v.auth = row.auth + 1 /\ v.token = NoToken /\ v.access = NoToken
        BY DEF Waiting
      <4>2. removal' = [removal EXCEPT ![d] = v] /\ removal[d].pc = "idle"
        BY <3>1 DEF Disconnect, Waiting
      <4> HIDE DEF v
      <4> QED
        BY <1>0, <3>1, <4>1, <4>2 DEF RemovalGoesOn
    <3>2. CASE Look(d) /\ ~removal[d].mark /\ Behind(secrets.refresh, removal[d].refs.refresh)
      <4> DEFINE u == IF Mixed(d) THEN secrets.access.token ELSE NoToken
                 v == [removal[d] EXCEPT !.pc = "sending", !.mixed = Mixed(d),
                              !.token = secrets.refresh.token, !.access = u]
      <4>1. u \in {secrets.access.token, NoToken}
        OBVIOUS
      <4>2. removal' = [removal EXCEPT ![d] = v] /\ removal[d].pc = "held"
        BY <3>2 DEF Look
      <4> HIDE DEF u
      <4>3. v.pc = "sending" /\ v.auth = removal[d].auth /\ v.token = secrets.refresh.token /\ v.access = u
        BY <1>0 DEF Removal
      <4> HIDE DEF v
      <4> QED
        BY <1>0, <3>2, <4>1, <4>2, <4>3 DEF RemovalGoesOn
    <3>3. CASE Look(d) /\ (removal[d].mark \/ ~Behind(secrets.refresh, removal[d].refs.refresh))
      <4> DEFINE v == IF removal[d].mark THEN [removal[d] EXCEPT !.pc = "renewing", !.claim = TRUE]
                      ELSE [removal[d] EXCEPT !.pc = "renewing"]
      <4>1. v.pc # "idle" /\ v.auth = removal[d].auth /\ v.token = removal[d].token
            /\ v.access = removal[d].access
        BY <1>0 DEF Removal
      <4>2. removal' = [removal EXCEPT ![d] = v] /\ removal[d].pc # "idle"
        BY <3>3 DEF Look
      <4> HIDE DEF v
      <4> QED
        BY <1>0, <4>1, <4>2 DEF RemovalGoesOn
    <3>4. CASE Send(d)
      <4> DEFINE v == [removal[d] EXCEPT !.pc = IF removal[d].mixed THEN "sending access" ELSE "renewing",
                                         !.claim = ~removal[d].mixed]
      <4>1. v.pc # "idle" /\ v.auth = removal[d].auth /\ v.token = removal[d].token
            /\ v.access = removal[d].access
        BY <1>0 DEF Removal
      <4>2. removal' = [removal EXCEPT ![d] = v] /\ removal[d].pc # "idle"
        BY <3>4 DEF Send
      <4> HIDE DEF v
      <4> QED
        BY <1>0, <4>1, <4>2 DEF RemovalGoesOn
    <3>5. CASE ~(Disconnect(d) \/ Look(d) \/ Send(d))
      <4>1. PICK p : removal' = [removal EXCEPT ![d].pc = p] /\ p # "idle" /\ removal[d].pc # "idle"
        BY <1>1, <2>2, <3>5 DEF RemovalNext, TakeHold, SendFails, SendAccess, Renew, Mark, SweepRefresh,
             SweepAccess, Delete, SweepFails
      <4> DEFINE v == [removal[d] EXCEPT !.pc = p]
      <4>2. v.pc # "idle" /\ v.auth = removal[d].auth /\ v.token = removal[d].token
            /\ v.access = removal[d].access
        BY <1>0, <4>1 DEF Removal
      <4>3. removal' = [removal EXCEPT ![d] = v]
        BY <4>1
      <4> HIDE DEF v
      <4> QED
        BY <1>0, <4>1, <4>2, <4>3 DEF RemovalGoesOn
    <3> QED
      BY <3>1, <3>2, <3>3, <3>4, <3>5
  <2> QED
    BY <2>1, <2>2
<1>2. CASE ~(\E e \in Removers : RemovalNext(e))
  <2>1. UNCHANGED removal
    BY <1>2 DEF Next, FlowNext, RefreshNext, vars, Start, LeaseLapses, LeaseIsOver, HoldLapses, BreaksOff,
         Consume, Exchange, Withdraw, Retire, PutAccess, PutRefresh, PutFails, Publish, Settle, GiveUp,
         Fence, ReadToken, Refreshed, Refused, Unreachable, PutAccessAgain, PutRefreshAgain, Commit
  <2> QED
    BY <1>a, <2>1
<1> QED
  BY <1>1, <1>2

LEMMA StepSentBefore ==
  ASSUME Paired, TypeOK', SentBefore, HeldBefore, [Next]_vars
  PROVE  SentBefore'
<1>0. TypeOK /\ WorkersHold
  BY DEF Paired, Quiet
<1> SUFFICES ASSUME NEW d \in Removers, removal'[d].pc # "idle"
             PROVE  removal'[d].token.grant < removal'[d].auth /\ removal'[d].access.grant < removal'[d].auth
  BY DEF SentBefore
<1>1. CASE /\ removal'[d].auth = removal[d].auth /\ (removal'[d].pc = "idle" <=> removal[d].pc = "idle")
           /\ removal'[d].token = removal[d].token /\ removal'[d].access = removal[d].access
  BY <1>1 DEF SentBefore
<1>2. CASE /\ Disconnect(d) /\ removal'[d].auth = row.auth + 1
           /\ removal'[d].token = NoToken /\ removal'[d].access = NoToken
  BY <1>0, <1>2, Counters DEF NoToken, None
<1>3. CASE /\ Look(d) /\ removal[d].pc = "held" /\ removal'[d].auth = removal[d].auth
           /\ removal'[d].token = secrets.refresh.token
           /\ removal'[d].access \in {secrets.access.token, NoToken}
  <2>1. row.hold.by = d /\ d # NoRemover
    BY <1>0, <1>3, Sorts DEF Look, Runs, WorkersHold, Working
  <2>2. /\ secrets.access.token.grant < removal[d].auth /\ secrets.refresh.token.grant < removal[d].auth
    BY <2>1 DEF HeldBefore
  <2>3. removal[d].auth \in Nat /\ secrets.refresh.token.grant \in Nat
    <3>1. Flows \cup {None} \subseteq Nat
      BY Sorts DEF None
    <3> QED
      BY <1>0, <3>1, TokensTyped DEF TypeOK, Removal
  <2>4. NoToken.grant < removal[d].auth
    BY <2>2, <2>3 DEF NoToken, None
  <2> QED
    BY <1>3, <2>2, <2>4
<1> QED
  BY <1>0, <1>1, <1>2, <1>3, RemovalsMove DEF RemovalGoesOn

LEMMA HoldMoves ==
  ASSUME TypeOK, [Next]_vars
  PROVE  \/ row'.hold.by \in {row.hold.by, NoRemover}
         \/ \E d \in Removers : TakeHold(d) /\ Holdable(d) /\ row'.hold.by = d
<1>0. row \in Row
  BY DEF TypeOK
<1>1. ASSUME NEW c \in Flows, FlowNext(c) PROVE row'.hold.by \in {row.hold.by, NoRemover}
  <2>1. CASE Retire(c) /\ Retirable(c)
    <3>1. row'.hold = NoHold
      BY <1>0, <2>1 DEF Retire, Retired, Row
    <3> QED
      BY <3>1 DEF NoHold
  <2>2. CASE ~(Retire(c) /\ Retirable(c))
    <3>1. row'.hold = row.hold
      BY <1>0, <1>1, <2>2 DEF FlowNext, Consume, Exchange, Withdraw, Retire, PutAccess, PutRefresh,
           PutFails, Publish, Published, Settle, GiveUp, Released, Row
    <3> QED
      BY <3>1
  <2> QED
    BY <2>1, <2>2
<1>2. ASSUME NEW r \in Refreshers, RefreshNext(r) PROVE row'.hold = row.hold
  BY <1>0, <1>2 DEF RefreshNext, Fence, ReadToken, Refreshed, Refused, Unreachable, PutAccessAgain,
       PutRefreshAgain, Commit, Row
<1>3. ASSUME NEW d \in Removers, RemovalNext(d), ~(TakeHold(d) /\ Holdable(d))
      PROVE  row'.hold.by \in {row.hold.by, NoRemover}
  <2>1. CASE Disconnect(d)
    BY <1>0, <2>1 DEF Disconnect, Disconnected, Row
  <2>2. CASE Renew(d) /\ Renewable(d)
    <3>1. row' = [row EXCEPT !.hold = [by |-> d, term |-> 2, lapsed |-> FALSE]] /\ row.hold.by = d
      BY <2>2 DEF Renew, Renewable
    <3> QED
      BY <1>0, <3>1 DEF Row
  <2>3. CASE ~Disconnect(d) /\ ~(Renew(d) /\ Renewable(d))
    <3>1. row'.hold \in {row.hold, NoHold}
      BY <1>0, <1>3, <2>3 DEF RemovalNext, TakeHold, Look, Send, SendFails, SendAccess, Renew, Mark,
           SweepRefresh, SweepAccess, Delete, SweepFails, Freed, Row
    <3> QED
      BY <3>1 DEF NoHold
  <2> QED
    BY <2>1, <2>2, <2>3
<1>4. ASSUME NEW d \in Removers, TakeHold(d), Holdable(d) PROVE row'.hold.by = d
  BY <1>0, <1>4 DEF TakeHold, Row
<1>5. CASE HoldLapses
  <2>1. row' = [row EXCEPT !.hold = [row.hold EXCEPT !.lapsed = TRUE]] /\ row.hold \in Hold
    BY <1>0, <1>5 DEF HoldLapses, Row
  <2> QED
    BY <1>0, <2>1 DEF Row, Hold, NoHold
<1>6. CASE Start \/ LeaseLapses \/ LeaseIsOver \/ UNCHANGED vars
           \/ \E x \in Flows \cup Refreshers \cup Removers : BreaksOff(x)
  BY <1>0, <1>6 DEF Start, LeaseLapses, LeaseIsOver, BreaksOff, vars, Row
<1> QED
  BY <1>1, <1>2, <1>3, <1>4, <1>5, <1>6 DEF Next

LEMMA PuttingsMove ==
  ASSUME TypeOK, [Next]_vars, NEW c \in Flows, flow'[c].pc \in Puttings
  PROVE  \/ flow[c].pc \in Puttings
         \/ Retire(c) /\ Retirable(c) /\ row'.hold = NoHold
<1>0. row \in Row /\ flow \in [Flows -> Flow]
  BY DEF TypeOK
<1>1. ASSUME NEW k \in Flows, FlowNext(k)
      PROVE  flow[c].pc \in Puttings \/ (Retire(c) /\ Retirable(c) /\ row'.hold = NoHold)
  <2>1. CASE k = c
    <3>1. CASE Retire(c) /\ Retirable(c)
      BY <1>0, <3>1 DEF Retire, Retired, Row
    <3>2. CASE ~(Retire(c) /\ Retirable(c)) /\ ~Consume(c)
      <4>1. PICK p : flow' = [flow EXCEPT ![c].pc = p] /\ (p \in Puttings => flow[c].pc \in Puttings)
        BY <1>1, <2>1, <3>2 DEF FlowNext, Exchange, Withdraw, Retire, PutAccess, PutRefresh,
             PutFails, Publish, Settle, GiveUp, Puttings
      <4> QED
        BY <1>0, <4>1 DEF Flow
    <3>3. CASE Consume(c)
      <4>1. flow'[c].pc = "consumed"
        BY <1>0, <3>3 DEF Consume, NoFlow
      <4> QED
        BY <4>1 DEF Puttings
    <3> QED
      BY <3>1, <3>2, <3>3
  <2>2. CASE k # c
    <3>1. flow'[c] = flow[c]
      BY <1>0, <1>1, <2>2 DEF FlowNext, Consume, Exchange, Withdraw, Retire, PutAccess, PutRefresh,
           PutFails, Publish, Settle, GiveUp
    <3> QED
      BY <3>1
  <2> QED
    BY <2>1, <2>2
<1>2. CASE Start
  <2>1. flow' = [flow EXCEPT ![row.auth + 1].pc = "pending"]
    BY <1>2 DEF Start
  <2>2. flow'[c].pc \in {flow[c].pc, "pending"}
    BY <1>0, <2>1 DEF Flow
  <2> QED
    BY <2>2 DEF Puttings
<1>3. CASE ~Start /\ ~(\E k \in Flows : FlowNext(k))
  <2>1. UNCHANGED flow
    BY <1>3 DEF Next, RefreshNext, RemovalNext, vars, LeaseLapses, LeaseIsOver, HoldLapses, BreaksOff,
           Fence, ReadToken, Refreshed, Refused, Unreachable, PutAccessAgain, PutRefreshAgain, Commit,
           Disconnect, TakeHold, Look, Send, SendFails, SendAccess, Renew, Mark, SweepRefresh,
           SweepAccess, Delete, SweepFails
  <2> QED
    BY <2>1
<1> QED
  BY <1>1, <1>2, <1>3

(* Every grant that is out there was begun before the newest authorization   *)
(* that a removal took.                                                      *)
LEMMA OutBefore ==
  ASSUME Quiet, NEW d \in Removers, removal[d].pc # "idle", removal[d].auth = row.auth,
         NEW g \in Flows \cup {None}, OutThere(g)
  PROVE  g < removal[d].auth
<1>0. /\ row.auth \in Nat \ {0} /\ Flows \subseteq Nat /\ \A c \in Flows : c > row.auth => flow[c].pc = "none"
      /\ removal[d].auth \in Flows => flow[removal[d].auth].pc = "none"
  BY Counters DEF Quiet, TypeOK, Row, Generations, Begins, RemovalsKnow
<1>1. CASE g = None
  BY <1>0, <1>1 DEF None
<1>2. CASE g \in Flows /\ g # None
  <2>1. flow[g].pc # "none"
    BY <1>2 DEF OutThere, Unissued
  <2>2. ~(g > row.auth) /\ g # row.auth
    BY <1>0, <1>2, <2>1
  <2> QED
    BY <1>0, <1>2, <2>2
<1> QED
  BY <1>1, <1>2

LEMMA StepHeldBefore ==
  ASSUME Paired, TypeOK', Known, HeldBefore, [Next]_vars
  PROVE  HeldBefore'
<1>0. TypeOK /\ Quiet /\ RealTokens /\ SecretsGoOn /\ \A r \in Refreshers : TokenGoesOn(r)
  BY SecretsMove, RefreshTokensMove DEF Paired, Quiet, Known
<1>1. CASE row'.hold.by = NoRemover
  BY <1>1 DEF HeldBefore
<1>2. CASE row'.hold.by = row.hold.by /\ row.hold.by # NoRemover
  <2>1. PICK d \in Removers : row.hold.by = d
    BY <1>2 DEF HeldBefore
  <2>2. /\ removal[d].pc # "idle"
        /\ secrets.access.token.grant < removal[d].auth /\ secrets.refresh.token.grant < removal[d].auth
        /\ \A g \in MayBePut : g < removal[d].auth
    BY <1>2, <2>1 DEF HeldBefore
  <2>3. removal'[d].auth = removal[d].auth /\ removal'[d].pc # "idle"
    BY <1>0, <2>2, RemovalsMove DEF RemovalGoesOn
  <2>4. NoToken.grant < removal[d].auth
    <3>1. removal[d].auth \in Nat /\ secrets.refresh.token.grant \in Nat
      <4>1. Flows \cup {None} \subseteq Nat
        BY Sorts DEF None
      <4> QED
        BY <1>0, <4>1, TokensTyped DEF TypeOK, Removal
    <3> QED
      BY <2>2, <3>1 DEF NoToken, None
  <2>5. secrets'.access.token.grant < removal[d].auth /\ secrets'.refresh.token.grant < removal[d].auth
    BY <1>0, <2>2, <2>4 DEF SecretsGoOn
  <2>6. ASSUME NEW c \in Flows, flow'[c].pc \in Puttings PROVE c < removal[d].auth
    <3>1. flow[c].pc \in Puttings
      BY <1>0, <1>2, <2>6, PuttingsMove DEF NoHold
    <3> QED
      BY <2>2, <3>1 DEF MayBePut
  <2>7. ASSUME NEW r \in Refreshers PROVE refresh'[r].token.grant < removal[d].auth
    <3>1. refresh[r].token.grant < removal[d].auth
      BY <2>2 DEF MayBePut
    <3> QED
      BY <1>0, <2>2, <3>1 DEF TokenGoesOn
  <2>8. \A g \in MayBePut' : g < removal[d].auth
    BY <2>6, <2>7 DEF MayBePut
  <2> QED
    BY <1>2, <2>1, <2>3, <2>5, <2>8 DEF HeldBefore
<1>3. ASSUME NEW d \in Removers, TakeHold(d), Holdable(d), row'.hold.by = d PROVE HeldBefore'
  <2>1. UNCHANGED <<secrets, flow, refresh>> /\ removal[d].pc # "idle" /\ removal[d].auth = row.auth
    BY <1>3 DEF TakeHold, Holdable
  <2>2. removal'[d].auth = removal[d].auth /\ removal'[d].pc # "idle"
    BY <1>0, <2>1, RemovalsMove DEF RemovalGoesOn
  <2>3. \A g \in Flows \cup {None} : OutThere(g) => g < removal[d].auth
    BY <1>0, <2>1, OutBefore
  <2>4. /\ secrets.access.token.grant < removal[d].auth /\ secrets.refresh.token.grant < removal[d].auth
        /\ \A r \in Refreshers : refresh[r].token.grant < removal[d].auth
    BY <1>0, <2>3, TokensTyped DEF Known, KnownGrants
  <2>5. \A c \in Flows : flow[c].pc \in Puttings => c < removal[d].auth
    BY <2>3 DEF OutThere, Puttings, Unissued
  <2>6. \A g \in MayBePut : g < removal[d].auth
    BY <2>4, <2>5 DEF MayBePut
  <2>7. MayBePut' = MayBePut
    BY <2>1 DEF MayBePut
  <2> QED
    BY <1>3, <2>1, <2>2, <2>4, <2>6, <2>7 DEF HeldBefore
<1> QED
  BY <1>0, <1>1, <1>2, <1>3, HoldMoves
-------------------------------------------------------------------------------
(* A grant stays live until it is withdrawn for another account, sent back   *)
(* by a removal that read it, or settled by its own callback.                *)

OnItsWay ==
  \A c \in Flows : row.auth = c /\ flow[c].pc \in {"moving", "issued"} \cup Puttings =>
    c \in vendor.live \/ c \in left

LEMMA LeftGrows ==
  ASSUME [Next]_vars
  PROVE  left \subseteq left'
<1>1. ASSUME NEW c \in Flows, FlowNext(c) PROVE left \subseteq left'
  BY <1>1 DEF FlowNext, Consume, Exchange, Withdraw, Retire, PutAccess, PutRefresh, PutFails, Publish,
       Settle, GiveUp
<1>2. ASSUME NEW r \in Refreshers, RefreshNext(r) PROVE left \subseteq left'
  BY <1>2 DEF RefreshNext, Fence, ReadToken, Refreshed, Refused, Unreachable, PutAccessAgain,
       PutRefreshAgain, Commit
<1>3. ASSUME NEW d \in Removers, RemovalNext(d) PROVE left \subseteq left'
  BY <1>3 DEF RemovalNext, Disconnect, TakeHold, Look, Send, SendFails, SendAccess, Renew, Mark,
       SweepRefresh, SweepAccess, Delete, SweepFails
<1>4. CASE \/ Start \/ LeaseLapses \/ LeaseIsOver \/ HoldLapses \/ UNCHANGED vars
           \/ \E x \in Flows \cup Refreshers \cup Removers : BreaksOff(x)
  BY <1>4 DEF Start, LeaseLapses, LeaseIsOver, HoldLapses, BreaksOff, vars
<1> QED
  BY <1>1, <1>2, <1>3, <1>4 DEF Next

Ends(c) ==
  \/ c \in left'
  \/ flow[c].pc \in {"refused", "unpublished"} /\ flow'[c].pc = "done"
  \/ \E d \in Removers : /\ removal[d].pc \in {"sending", "sending access"}
                         /\ c \in {removal[d].token.grant, removal[d].access.grant}

LEMMA LiveMoves ==
  ASSUME TypeOK, [Next]_vars, NEW c \in Flows, c \in vendor.live, c \notin vendor'.live
  PROVE  Ends(c)
<1>0. /\ vendor \in [live : SUBSET Flows, seq : [Flows -> Nat], rotates : BOOLEAN]
      /\ flow \in [Flows -> Flow]
  BY DEF TypeOK
<1>a. \A t : AfterRevoking(t).live = vendor.live \/ AfterRevoking(t).live = vendor.live \ {t.grant}
  BY <1>0 DEF AfterRevoking
<1>1. ASSUME NEW k \in Flows, FlowNext(k) PROVE Ends(c)
  <2>1. CASE Withdraw(k)
    <3>1. vendor' = AfterRevoking(secrets.refresh.token) /\ left' = left \cup {secrets.refresh.token.grant}
      BY <2>1 DEF Withdraw
    <3> QED
      BY <1>a, <3>1 DEF Ends
  <2>2. CASE Settle(k)
    <3>1. vendor' = [vendor EXCEPT !.live = vendor.live \ {k}] \/ UNCHANGED vendor
      BY <2>2 DEF Settle
    <3>2. k = c
      BY <1>0, <3>1
    <3>3. flow[k].pc \in {"refused", "unpublished"} /\ flow' = [flow EXCEPT ![k].pc = "done"]
      BY <2>2 DEF Settle
    <3> QED
      BY <1>0, <3>2, <3>3 DEF Ends, Flow
  <2>3. CASE ~Withdraw(k) /\ ~Settle(k)
    <3>1. UNCHANGED vendor \/ vendor' = [vendor EXCEPT !.live = vendor.live \cup {k}]
      BY <1>1, <2>3 DEF FlowNext, Consume, Exchange, Retire, PutAccess, PutRefresh, PutFails, Publish, GiveUp
    <3> QED
      BY <1>0, <3>1
  <2> QED
    BY <2>1, <2>2, <2>3
<1>2. ASSUME NEW r \in Refreshers, RefreshNext(r) PROVE FALSE
  <2>1. UNCHANGED vendor \/ (\E g, n : vendor' = [vendor EXCEPT !.seq[g] = n])
    BY <1>2 DEF RefreshNext, Fence, ReadToken, Refreshed, Refused, Unreachable, PutAccessAgain,
         PutRefreshAgain, Commit
  <2> QED
    BY <1>0, <2>1
<1>3. ASSUME NEW d \in Removers, RemovalNext(d) PROVE Ends(c)
  <2>1. CASE Send(d)
    <3>1. vendor' = AfterRevoking(removal[d].token) /\ removal[d].pc = "sending"
      BY <2>1 DEF Send
    <3> QED
      BY <1>a, <3>1 DEF Ends
  <2>2. CASE SendAccess(d)
    <3>1. /\ vendor' = vendor \/ vendor' = [vendor EXCEPT !.live = vendor.live \ {removal[d].access.grant}]
          /\ removal[d].pc = "sending access"
      BY <2>2 DEF SendAccess
    <3>2. c = removal[d].access.grant
      BY <1>0, <3>1
    <3> QED
      BY <3>1, <3>2 DEF Ends
  <2>3. CASE ~Send(d) /\ ~SendAccess(d)
    BY <1>3, <2>3 DEF RemovalNext, Disconnect, TakeHold, Look, SendFails, Renew, Mark, SweepRefresh,
         SweepAccess, Delete, SweepFails
  <2> QED
    BY <2>1, <2>2, <2>3
<1>4. CASE \/ Start \/ LeaseLapses \/ LeaseIsOver \/ HoldLapses \/ UNCHANGED vars
           \/ \E x \in Flows \cup Refreshers \cup Removers : BreaksOff(x)
  BY <1>4 DEF Start, LeaseLapses, LeaseIsOver, HoldLapses, BreaksOff, vars
<1> QED
  BY <1>1, <1>2, <1>3, <1>4 DEF Next

(* A generation begins with a /start or with a removal.                      *)
LEMMA GenerationMoves ==
  ASSUME TypeOK, [Next]_vars
  PROVE  \/ row'.auth = row.auth
         \/ /\ row'.auth = row.auth + 1
            /\ \A c \in Flows : flow'[c].pc \in {flow[c].pc, "pending"}
<1>0. row \in Row /\ flow \in [Flows -> Flow]
  BY DEF TypeOK
<1>1. ASSUME NEW c \in Flows, FlowNext(c) PROVE row'.auth = row.auth
  BY <1>0, <1>1 DEF FlowNext, Consume, Exchange, Withdraw, Retire, Retired, PutAccess, PutRefresh,
       PutFails, Publish, Published, Settle, GiveUp, Released, Row
<1>2. ASSUME NEW r \in Refreshers, RefreshNext(r) PROVE row'.auth = row.auth
  BY <1>0, <1>2 DEF RefreshNext, Fence, ReadToken, Refreshed, Refused, Unreachable, PutAccessAgain,
       PutRefreshAgain, Commit, Row
<1>3. ASSUME NEW d \in Removers, RemovalNext(d), ~Disconnect(d) PROVE row'.auth = row.auth
  BY <1>0, <1>3 DEF RemovalNext, TakeHold, Look, Send, SendFails, SendAccess, Renew, Mark,
       SweepRefresh, SweepAccess, Delete, SweepFails, Freed, Row
<1>4. ASSUME NEW d \in Removers, Disconnect(d) PROVE row'.auth = row.auth + 1 /\ UNCHANGED flow
  BY <1>0, <1>4 DEF Disconnect, Disconnected, Row
<1>5. CASE Start
  <2>1. flow' = [flow EXCEPT ![row.auth + 1].pc = "pending"] /\ row'.auth = row.auth + 1
    BY <1>0, <1>5 DEF Start, Row
  <2> QED
    BY <1>0, <2>1 DEF Flow
<1>6. CASE LeaseLapses \/ LeaseIsOver \/ HoldLapses \/ UNCHANGED vars
           \/ \E x \in Flows \cup Refreshers \cup Removers : BreaksOff(x)
  BY <1>0, <1>6 DEF LeaseLapses, LeaseIsOver, HoldLapses, BreaksOff, vars, Row
<1> QED
  BY <1>1, <1>2, <1>3, <1>4, <1>5, <1>6 DEF Next

LEMMA WayMoves ==
  ASSUME TypeOK, [Next]_vars, NEW c \in Flows, flow'[c].pc \in {"moving", "issued"} \cup Puttings
  PROVE  \/ flow[c].pc \in {"moving", "issued"} \cup Puttings
         \/ Exchange(c)
<1>0. flow \in [Flows -> Flow]
  BY DEF TypeOK
<1>1. CASE flow'[c].pc \in Puttings
  BY <1>1, PuttingsMove DEF Retire
<1>2. CASE flow'[c].pc \in {"moving", "issued"} /\ flow[c].pc \notin {"moving", "issued"} /\ ~Exchange(c)
  <2>1. ASSUME NEW k \in Flows, FlowNext(k) PROVE FALSE
    <3>1. CASE k = c
      <4>1. CASE Retire(c) \/ Withdraw(c)
        <5>1. flow[c].pc \in {"moving", "issued"}
          BY <4>1 DEF Retire, Withdraw
        <5> QED
          BY <1>2, <5>1
      <4>2. CASE Consume(c)
        BY <1>0, <1>2, <4>2 DEF Consume, NoFlow
      <4>3. CASE ~(Retire(c) \/ Withdraw(c) \/ Consume(c))
        <5>1. PICK p : flow' = [flow EXCEPT ![c].pc = p] /\ p \notin {"moving", "issued"}
          BY <1>2, <2>1, <3>1, <4>3 DEF FlowNext, PutAccess, PutRefresh, PutFails, Publish, Settle, GiveUp
        <5> QED
          BY <1>0, <1>2, <5>1 DEF Flow
      <4> QED
        BY <4>1, <4>2, <4>3
    <3>2. CASE k # c
      <4>1. flow'[c] = flow[c]
        BY <1>0, <2>1, <3>2 DEF FlowNext, Consume, Exchange, Withdraw, Retire, PutAccess, PutRefresh,
             PutFails, Publish, Settle, GiveUp
      <4> QED
        BY <1>2, <4>1
    <3> QED
      BY <3>1, <3>2
  <2>2. CASE Start
    <3>1. flow' = [flow EXCEPT ![row.auth + 1].pc = "pending"]
      BY <2>2 DEF Start
    <3>2. flow'[c].pc \in {flow[c].pc, "pending"}
      BY <1>0, <3>1 DEF Flow
    <3> QED
      BY <1>2, <3>2
  <2>3. CASE ~Start /\ ~(\E k \in Flows : FlowNext(k))
    <3>1. UNCHANGED flow
      BY <2>3 DEF Next, RefreshNext, RemovalNext, vars, LeaseLapses, LeaseIsOver, HoldLapses, BreaksOff,
             Fence, ReadToken, Refreshed, Refused, Unreachable, PutAccessAgain, PutRefreshAgain, Commit,
             Disconnect, TakeHold, Look, Send, SendFails, SendAccess, Renew, Mark, SweepRefresh,
             SweepAccess, Delete, SweepFails
    <3> QED
      BY <1>2, <3>1
  <2> QED
    BY <2>1, <2>2, <2>3
<1> QED
  BY <1>1, <1>2

(* What a removal sends back is not the grant of the newest authorization.   *)
LEMMA NotSentBack ==
  ASSUME Quiet, SentBefore, NEW d \in Removers, removal[d].pc # "idle", NEW c \in Nat,
         c \in {removal[d].token.grant, removal[d].access.grant}
  PROVE  c < removal[d].auth /\ removal[d].auth <= row.auth /\ removal[d].auth \in Nat
<1>1. removal[d].auth \in Nat /\ removal[d].auth <= row.auth
  BY DEF Quiet, TypeOK, Removal, Generations, RemovalsKnow
<1> QED
  BY <1>1 DEF SentBefore

LEMMA StepOnItsWay ==
  ASSUME Paired, TypeOK', SentBefore, OnItsWay, [Next]_vars
  PROVE  OnItsWay'
<1>0. TypeOK /\ Quiet /\ row.auth \in Nat /\ Flows \subseteq Nat
  BY Counters DEF Paired, Quiet
<1> SUFFICES ASSUME NEW c \in Flows, row'.auth = c, flow'[c].pc \in {"moving", "issued"} \cup Puttings
             PROVE  c \in vendor'.live \/ c \in left'
  BY DEF OnItsWay
<1>1. CASE Exchange(c)
  BY <1>0, <1>1 DEF Exchange, TypeOK
<1>2. CASE ~Exchange(c)
  <2>1. flow[c].pc \in {"moving", "issued"} \cup Puttings
    BY <1>0, <1>2, WayMoves
  <2>2. row.auth = c
    <3>1. ~(c > row.auth)
      BY <1>0, <2>1 DEF Quiet, Generations, Begins, Puttings
    <3> QED
      BY <1>0, <3>1, GenerationMoves
  <2>3. c \in vendor.live \/ c \in left
    BY <2>1, <2>2 DEF OnItsWay
  <2>4. CASE c \in left
    BY <2>4, LeftGrows
  <2>5. CASE c \in vendor.live /\ c \notin vendor'.live
    <3>1. Ends(c)
      BY <1>0, <2>5, LiveMoves
    <3>2. ~(flow[c].pc \in {"refused", "unpublished"})
      BY <2>1 DEF Puttings
    <3>3. ASSUME NEW d \in Removers, removal[d].pc \in {"sending", "sending access"},
                 c \in {removal[d].token.grant, removal[d].access.grant}
          PROVE  FALSE
      <4>1. c < removal[d].auth /\ removal[d].auth <= row.auth /\ removal[d].auth \in Nat
        BY <1>0, <3>3, NotSentBack
      <4> QED
        BY <1>0, <2>2, <4>1
    <3> QED
      BY <3>1, <3>2, <3>3 DEF Ends
  <2> QED
    BY <2>3, <2>4, <2>5
<1> QED
  BY <1>1, <1>2
-------------------------------------------------------------------------------
(* A refresh that is to read its token has the newest generation: its lease  *)
(* has not lapsed, so no other was admitted since.                           *)

FencedInTime ==
  \A r \in Refreshers : refresh[r].pc = "fenced" /\ r \notin dead =>
    /\ refresh[r].lease > clock.lapsed
    /\ row.status = "connected" /\ refresh[r].auth = row.cred => refresh[r].gen = row.gen

(* A vendor that does not rotate hands out the same token again.             *)
Still ==
  ~vendor.rotates =>
    /\ \A g \in Flows : vendor.seq[g] = 0
    /\ secrets.access.token.seq = 0 /\ secrets.refresh.token.seq = 0
    /\ \A r \in Refreshers : refresh[r].token.seq = 0

(* A row is connected as before, or by a publish; a fence counts on.         *)
LEMMA ConnectMoves ==
  ASSUME TypeOK, [Next]_vars, row'.status = "connected"
  PROVE  \/ row.status = "connected" /\ row'.cred = row.cred /\ row'.gen = row.gen
         \/ \E r \in Refreshers : Fence(r)
         \/ \E c \in Flows : Publish(c) /\ Publishable(c)
<1>0. row \in Row
  BY DEF TypeOK
<1>1. ASSUME NEW c \in Flows, FlowNext(c), ~(Publish(c) /\ Publishable(c))
      PROVE  row.status = "connected" /\ row'.cred = row.cred /\ row'.gen = row.gen
  <2>1. CASE Retire(c) /\ Retirable(c)
    <3>1. row'.status = "error"
      BY <1>0, <2>1 DEF Retire, Retired, Row
    <3> QED
      BY <3>1
  <2>2. CASE ~(Retire(c) /\ Retirable(c))
    BY <1>0, <1>1, <2>2 DEF FlowNext, Consume, Exchange, Withdraw, Retire, PutAccess, PutRefresh,
       PutFails, Publish, Settle, GiveUp, Released, Row
  <2> QED
    BY <2>1, <2>2
<1>2. ASSUME NEW r \in Refreshers, RefreshNext(r), ~Fence(r)
      PROVE  row.status = "connected" /\ row'.cred = row.cred /\ row'.gen = row.gen
  <2>1. CASE Refused(r) /\ StillFenced(r)
    <3>1. row'.status = "error"
      BY <1>0, <2>1 DEF Refused, Row
    <3> QED
      BY <3>1
  <2>2. CASE ~(Refused(r) /\ StillFenced(r))
    BY <1>0, <1>2, <2>2 DEF RefreshNext, ReadToken, Refreshed, Refused, Unreachable, PutAccessAgain,
       PutRefreshAgain, Commit, Row
  <2> QED
    BY <2>1, <2>2
<1>3. ASSUME NEW d \in Removers, RemovalNext(d)
      PROVE  row.status = "connected" /\ row'.cred = row.cred /\ row'.gen = row.gen
  <2>1. CASE Disconnect(d)
    <3>1. row'.status = "disconnected"
      BY <1>0, <2>1 DEF Disconnect, Disconnected, Row
    <3> QED
      BY <3>1
  <2>2. CASE Delete(d)
    <3>1. row'.status = "gone"
      BY <1>0, <2>2 DEF Delete, Row
    <3> QED
      BY <3>1
  <2>3. CASE ~Disconnect(d) /\ ~Delete(d)
    BY <1>0, <1>3, <2>3 DEF RemovalNext, TakeHold, Look, Send, SendFails, SendAccess, Renew, Mark,
       SweepRefresh, SweepAccess, SweepFails, Freed, Row
  <2> QED
    BY <2>1, <2>2, <2>3
<1>4. CASE Start \/ LeaseLapses \/ LeaseIsOver \/ HoldLapses \/ UNCHANGED vars
           \/ \E x \in Flows \cup Refreshers \cup Removers : BreaksOff(x)
  BY <1>0, <1>4 DEF Start, LeaseLapses, LeaseIsOver, HoldLapses, BreaksOff, vars, Row
<1> QED
  BY <1>1, <1>2, <1>3, <1>4 DEF Next

(* How a refresh goes on once it is admitted.                                *)
RefreshGoesOn(r) ==
  \/ refresh'[r] = refresh[r]
  \/ /\ refresh'[r].auth = refresh[r].auth /\ refresh'[r].gen = refresh[r].gen
     /\ refresh'[r].lease = refresh[r].lease
     /\ \/ /\ ReadToken(r) /\ refresh[r].pc = "fenced"
           /\ refresh'[r].pc = "asking" /\ refresh'[r].token = secrets.refresh.token
        \/ /\ Refreshed(r) /\ refresh[r].pc = "asking" /\ refresh'[r].pc = "got"
        \/ /\ PutAccessAgain(r) /\ Puttable(secrets.access, RefreshGeneration(r))
           /\ refresh[r].pc = "got" /\ refresh'[r].pc = "half" /\ refresh'[r].token = refresh[r].token
        \/ /\ PutRefreshAgain(r) /\ Puttable(secrets.refresh, RefreshGeneration(r))
           /\ refresh[r].pc = "half" /\ refresh'[r].pc = "stored" /\ refresh'[r].token = refresh[r].token
        \/ /\ \/ refresh[r].pc \in {"fenced", "asking", "stored"}
              \/ PutAccessAgain(r) /\ ~Puttable(secrets.access, RefreshGeneration(r))
              \/ PutRefreshAgain(r) /\ ~Puttable(secrets.refresh, RefreshGeneration(r))
           /\ refresh[r].pc # "idle" /\ refresh'[r].pc = "done" /\ refresh'[r].token = refresh[r].token

LEMMA RefreshesMove ==
  ASSUME TypeOK, [Next]_vars, NEW r \in Refreshers, ~Fence(r)
  PROVE  RefreshGoesOn(r)
<1>0. refresh \in [Refreshers -> Refresh] /\ refresh[r] \in Refresh
  BY DEF TypeOK
<1>a. ASSUME refresh'[r] = refresh[r] PROVE RefreshGoesOn(r)
  BY <1>a DEF RefreshGoesOn
<1>b. ASSUME NEW p, refresh' = [refresh EXCEPT ![r].pc = p]
      PROVE  /\ refresh'[r].auth = refresh[r].auth /\ refresh'[r].gen = refresh[r].gen
             /\ refresh'[r].lease = refresh[r].lease /\ refresh'[r].token = refresh[r].token
             /\ refresh'[r].pc = p
  BY <1>0, <1>b DEF Refresh
<1>c. ASSUME NEW p, NEW t, refresh' = [refresh EXCEPT ![r] = [refresh[r] EXCEPT !.pc = p, !.token = t]]
      PROVE  /\ refresh'[r].auth = refresh[r].auth /\ refresh'[r].gen = refresh[r].gen
             /\ refresh'[r].lease = refresh[r].lease /\ refresh'[r].token = t /\ refresh'[r].pc = p
  <2> DEFINE v == [refresh[r] EXCEPT !.pc = p, !.token = t]
  <2>1. /\ v.auth = refresh[r].auth /\ v.gen = refresh[r].gen /\ v.lease = refresh[r].lease
        /\ v.token = t /\ v.pc = p
    BY <1>0 DEF Refresh
  <2>2. refresh' = [refresh EXCEPT ![r] = v]
    BY <1>c
  <2> HIDE DEF v
  <2>3. refresh'[r] = v
    BY <1>0, <2>2
  <2> QED
    BY <2>1, <2>3
<1>1. ASSUME NEW q \in Refreshers, RefreshNext(q) PROVE RefreshGoesOn(r)
  <2>1. CASE q # r
    <3>1. refresh'[r] = refresh[r]
      BY <1>0, <1>1, <2>1 DEF RefreshNext, Fence, ReadToken, Refreshed, Refused, Unreachable,
                              PutAccessAgain, PutRefreshAgain, Commit
    <3> QED
      BY <1>a, <3>1
  <2>2. CASE q = r
    <3>2. CASE ReadToken(r) /\ Behind(secrets.refresh, refresh[r].ref)
      <4>1. /\ refresh' = [refresh EXCEPT ![r] =
                           [refresh[r] EXCEPT !.pc = "asking", !.token = secrets.refresh.token]]
            /\ refresh[r].pc = "fenced"
        BY <3>2 DEF ReadToken
      <4> QED
        BY <1>c, <3>2, <4>1 DEF RefreshGoesOn
    <3>3. CASE Refreshed(r)
      <4>1. /\ \E t : refresh' = [refresh EXCEPT ![r] = [refresh[r] EXCEPT !.pc = "got", !.token = t]]
            /\ refresh[r].pc = "asking"
        BY <3>3 DEF Refreshed
      <4> QED
        BY <1>c, <3>3, <4>1 DEF RefreshGoesOn
    <3>4. CASE PutAccessAgain(r) /\ Puttable(secrets.access, RefreshGeneration(r))
      <4>1. refresh' = [refresh EXCEPT ![r].pc = "half"] /\ refresh[r].pc = "got"
        BY <3>4 DEF PutAccessAgain
      <4> QED
        BY <1>b, <3>4, <4>1 DEF RefreshGoesOn
    <3>5. CASE PutRefreshAgain(r) /\ Puttable(secrets.refresh, RefreshGeneration(r))
      <4>1. refresh' = [refresh EXCEPT ![r].pc = "stored"] /\ refresh[r].pc = "half"
        BY <3>5 DEF PutRefreshAgain
      <4> QED
        BY <1>b, <3>5, <4>1 DEF RefreshGoesOn
    <3>6. CASE \/ Refused(r) \/ Unreachable(r) \/ Commit(r)
               \/ (ReadToken(r) /\ ~Behind(secrets.refresh, refresh[r].ref))
      <4>1. refresh' = [refresh EXCEPT ![r].pc = "done"] /\ refresh[r].pc \in {"fenced", "asking", "stored"}
        BY <3>6 DEF Refused, Unreachable, Commit, ReadToken
      <4> QED
        BY <1>b, <4>1 DEF RefreshGoesOn
    <3>7. CASE PutAccessAgain(r) /\ ~Puttable(secrets.access, RefreshGeneration(r))
      <4>1. refresh' = [refresh EXCEPT ![r].pc = "done"] /\ refresh[r].pc = "got"
        BY <3>7 DEF PutAccessAgain
      <4> QED
        BY <1>b, <3>7, <4>1 DEF RefreshGoesOn
    <3>8. CASE PutRefreshAgain(r) /\ ~Puttable(secrets.refresh, RefreshGeneration(r))
      <4>1. refresh' = [refresh EXCEPT ![r].pc = "done"] /\ refresh[r].pc = "half"
        BY <3>8 DEF PutRefreshAgain
      <4> QED
        BY <1>b, <3>8, <4>1 DEF RefreshGoesOn
    <3> QED
      BY <1>1, <2>2, <3>2, <3>3, <3>4, <3>5, <3>6, <3>7, <3>8 DEF RefreshNext
  <2> QED
    BY <2>1, <2>2
<1>2. CASE ~(\E q \in Refreshers : RefreshNext(q))
  <2>1. UNCHANGED refresh
    BY <1>2 DEF Next, FlowNext, RemovalNext, vars, Start, LeaseLapses, LeaseIsOver, HoldLapses, BreaksOff,
         Consume, Exchange, Withdraw, Retire, PutAccess, PutRefresh, PutFails, Publish, Settle, GiveUp,
         Disconnect, TakeHold, Look, Send, SendFails, SendAccess, Renew, Mark, SweepRefresh,
         SweepAccess, Delete, SweepFails
  <2> QED
    BY <1>a, <2>1
<1> QED
  BY <1>1, <1>2

(* A fence, as the refresh that takes it sees it.                            *)
LEMMA FenceAdmits ==
  ASSUME TypeOK, NEW r \in Refreshers, Fence(r)
  PROVE  /\ refresh[r].pc = "idle"
         /\ refresh'[r].pc = "fenced" /\ refresh'[r].auth = row.auth /\ refresh'[r].gen = row.gen + 1
         /\ refresh'[r].lease = clock.taken + 1 /\ refresh'[r].token = NoToken
         /\ row'.gen = row.gen + 1 /\ row'.cred = row.cred /\ row.cred = row.auth
         /\ row'.status = "connected" /\ row.status = "connected" /\ row'.refs = row.refs
         /\ \A q \in Refreshers \ {r} : refresh'[q] = refresh[q]
         /\ UNCHANGED <<secrets, vendor, flow, removal, dead, left>> /\ clock'.lapsed = clock.lapsed
<1>0. /\ row \in Row /\ refresh \in [Refreshers -> Refresh]
      /\ clock \in [taken : Nat, lapsed : Nat, over : Nat]
  BY DEF TypeOK
<1>1. /\ UNCHANGED <<secrets, vendor, flow, removal, dead, left>> /\ row.status = "connected"
      /\ row.cred = row.auth /\ refresh[r].pc = "idle" /\ clock'.lapsed = clock.lapsed
  BY <1>0 DEF Fence, Fenceable, Calm
<1>2. /\ row'.gen = row.gen + 1 /\ row'.cred = row.cred /\ row'.status = row.status /\ row'.refs = row.refs
  BY <1>0 DEF Fence, Row
<1>3. /\ refresh'[r].pc = "fenced" /\ refresh'[r].auth = row.auth /\ refresh'[r].gen = row.gen + 1
      /\ refresh'[r].lease = clock.taken + 1 /\ refresh'[r].token = NoToken
      /\ \A q \in Refreshers \ {r} : refresh'[q] = refresh[q]
  <2> DEFINE v == [Calm EXCEPT !.pc = "fenced", !.auth = row.auth, !.gen = row.gen + 1,
                               !.ref = row.refs.refresh, !.lease = clock.taken + 1]
  <2>1. /\ v.pc = "fenced" /\ v.auth = row.auth /\ v.gen = row.gen + 1 /\ v.token = NoToken
        /\ v.lease = clock.taken + 1
    BY DEF Calm
  <2>2. refresh' = [refresh EXCEPT ![r] = v]
    BY DEF Fence
  <2> HIDE DEF v
  <2> QED
    BY <1>0, <2>1, <2>2
<1> QED
  BY <1>1, <1>2, <1>3

(* Time goes on, and the dead stay dead.                                     *)
LEMMA LapsesMove ==
  ASSUME TypeOK, [Next]_vars
  PROVE  /\ dead \subseteq dead'
         /\ clock'.lapsed = clock.lapsed \/ (LeaseLapses /\ clock'.lapsed = clock.lapsed + 1)
<1>0. clock \in [taken : Nat, lapsed : Nat, over : Nat]
  BY DEF TypeOK
<1> DEFINE Later == dead \subseteq dead' /\ clock'.lapsed = clock.lapsed
<1>1. ASSUME NEW c \in Flows, FlowNext(c) PROVE Later
  BY <1>0, <1>1 DEF FlowNext, Consume, Exchange, Withdraw, Retire, PutAccess, PutRefresh, PutFails, Publish,
       Settle, GiveUp
<1>2. ASSUME NEW r \in Refreshers, RefreshNext(r) PROVE Later
  BY <1>0, <1>2 DEF RefreshNext, Fence, ReadToken, Refreshed, Refused, Unreachable, PutAccessAgain,
       PutRefreshAgain, Commit
<1>3. ASSUME NEW d \in Removers, RemovalNext(d) PROVE Later
  BY <1>3 DEF RemovalNext, Disconnect, TakeHold, Look, Send, SendFails, SendAccess, Renew, Mark,
       SweepRefresh, SweepAccess, Delete, SweepFails
<1>4. CASE \/ Start \/ HoldLapses \/ UNCHANGED vars
           \/ \E x \in Flows \cup Refreshers \cup Removers : BreaksOff(x)
  BY <1>4 DEF Start, HoldLapses, BreaksOff, vars
<1>6. CASE LeaseIsOver
  BY <1>0, <1>6 DEF LeaseIsOver
<1>5. CASE LeaseLapses
  BY <1>0, <1>5 DEF LeaseLapses
<1> QED
  BY <1>1, <1>2, <1>3, <1>4, <1>5, <1>6 DEF Next

(* The lease of a refresh that is to read its token does not lapse: the one  *)
(* call it has made yet is the fence.                                        *)
LEMMA LapsesLater ==
  ASSUME Quiet, NEW r \in Refreshers, refresh[r].pc = "fenced", r \notin dead, LeaseLapses
  PROVE  refresh[r].lease # clock.lapsed + 1
<1>0. TypeOK /\ clock.lapsed \in Nat /\ r \in Writers /\ r \notin Flows
  BY Sorts DEF Quiet, TypeOK, Writers
<1> SUFFICES ASSUME refresh[r].lease = clock.lapsed + 1 PROVE FALSE
  OBVIOUS
<1>1. LeaseOf(r) = clock.lapsed + 1
  BY <1>0 DEF LeaseOf
<1> DEFINE w == Writer(clock.lapsed + 1)
<1>2. w \in Writers /\ LeaseOf(w) = clock.lapsed + 1
  BY <1>0, <1>1 DEF Writer, Writers
<1>3. w = r
  BY <1>0, <1>1, <1>2 DEF Quiet, Leases, LeasesDiffer
<1>4. Finished(w) \/ w \in dead \/ (w \in Refreshers /\ refresh[w].pc # "fenced")
  BY DEF LeaseLapses
<1>5. ~Finished(r)
  BY <1>0, Sorts DEF Finished
<1> QED
  BY <1>3, <1>4, <1>5

LEMMA StepFencedInTime ==
  ASSUME Paired, TypeOK', FencedInTime, [Next]_vars
  PROVE  FencedInTime'
<1>0. /\ TypeOK /\ Quiet /\ row.auth \in Nat /\ row.gen \in Nat
      /\ clock.lapsed \in Nat /\ clock.taken \in Nat /\ clock.lapsed <= clock.taken
      /\ \A r \in Refreshers : refresh[r].lease \in Nat
  <2>1. TypeOK /\ Quiet
    BY DEF Paired, Quiet
  <2> QED
    BY <2>1, Counters DEF TypeOK, Refresh
<1> SUFFICES ASSUME NEW r \in Refreshers, refresh'[r].pc = "fenced", r \notin dead'
             PROVE  /\ refresh'[r].lease > clock'.lapsed
                    /\ row'.status = "connected" /\ refresh'[r].auth = row'.cred =>
                         refresh'[r].gen = row'.gen
  BY DEF FencedInTime
<1>1. CASE Fence(r)
  BY <1>0, <1>1, FenceAdmits
<1>2. CASE ~Fence(r)
  <2>1. refresh'[r] = refresh[r] /\ refresh[r].pc = "fenced" /\ r \notin dead
    BY <1>0, <1>2, RefreshesMove, LapsesMove DEF RefreshGoesOn
  <2>2. /\ refresh[r].lease > clock.lapsed
        /\ row.status = "connected" /\ refresh[r].auth = row.cred => refresh[r].gen = row.gen
    BY <2>1 DEF FencedInTime
  <2>3. refresh'[r].lease > clock'.lapsed
    <3>1. CASE LeaseLapses /\ clock'.lapsed = clock.lapsed + 1
      <4>1. refresh[r].lease # clock.lapsed + 1
        BY <1>0, <2>1, <3>1, LapsesLater
      <4> QED
        BY <1>0, <2>1, <2>2, <3>1, <4>1
    <3>2. CASE clock'.lapsed = clock.lapsed
      BY <2>1, <2>2, <3>2
    <3> QED
      BY <1>0, <3>1, <3>2, LapsesMove
  <2>4. ASSUME row'.status = "connected", refresh[r].auth = row'.cred PROVE refresh[r].gen = row'.gen
    <3>1. CASE row.status = "connected" /\ row'.cred = row.cred /\ row'.gen = row.gen
      BY <2>2, <2>4, <3>1
    <3>2. ASSUME NEW q \in Refreshers, Fence(q) PROVE FALSE
      <4>1. /\ row'.cred = row.cred /\ row.cred = row.auth /\ row.status = "connected"
            /\ row.lease <= clock.lapsed
        BY <1>0, <3>2, FenceAdmits DEF Fence, Fenceable
      <4>2. Active(r) /\ StillFenced(r)
        BY <2>1, <2>2, <2>4, <4>1 DEF Active, StillFenced, Exists
      <4>3. row.lease = refresh[r].lease
        BY <4>2 DEF Paired, Quiet, Leases, Alone
      <4> QED
        BY <1>0, <2>2, <4>1, <4>3
    <3>3. ASSUME NEW c \in Flows, Publish(c), Publishable(c) PROVE FALSE
      <4>1. row'.cred = c /\ flow[c].pc = "stored"
        BY <1>0, <3>3 DEF Publish, Published, Publishable, TypeOK, Row
      <4>2. flow[refresh[r].auth].pc = "done"
        BY <2>1, AllBegun DEF Fenced
      <4> QED
        BY <2>4, <4>1, <4>2
    <3> QED
      BY <1>0, <2>4, <3>1, <3>2, <3>3, ConnectMoves
  <2> QED
    BY <2>1, <2>3, <2>4
<1> QED
  BY <1>1, <1>2

(* The secrets and the refreshes of a vendor that does not rotate.           *)
LEMMA StepStill ==
  ASSUME TypeOK, Still, [Next]_vars
  PROVE  Still'
<1>0. /\ secrets \in [access : Secret, refresh : Secret]
      /\ vendor \in [live : SUBSET Flows, seq : [Flows -> Nat], rotates : BOOLEAN]
  BY DEF TypeOK
<1> SUFFICES ASSUME ~vendor.rotates PROVE Still'
  BY <1>0, VendorMoves DEF Still
<1>1. /\ \A g \in Flows : vendor.seq[g] = 0
      /\ secrets.access.token.seq = 0 /\ secrets.refresh.token.seq = 0
      /\ \A r \in Refreshers : refresh[r].token.seq = 0
  BY DEF Still
<1>2. ASSUME NEW r \in Refreshers, Refreshed(r)
      PROVE  /\ vendor' = [vendor EXCEPT !.seq[refresh[r].token.grant] = 0]
             /\ refresh' = [refresh EXCEPT ![r] =
                              [refresh[r] EXCEPT !.pc = "got",
                                                 !.token = [grant |-> refresh[r].token.grant, seq |-> 0]]]
  <2>1. 0 + (IF vendor.rotates THEN 1 ELSE 0) = 0 /\ refresh[r].token.seq = 0
    BY <1>1
  <2> QED
    BY <1>2, <2>1 DEF Refreshed
<1>3. \A g \in Flows : vendor'.seq[g] = 0
  BY <1>0, <1>1, <1>2, VendorMoves
<1>4. ASSUME NEW r \in Refreshers PROVE refresh'[r].token.seq = 0
  <2>1. CASE Fence(r)
    BY <2>1, FenceAdmits DEF NoToken
  <2>2. CASE Refreshed(r)
    <3> DEFINE v == [refresh[r] EXCEPT !.pc = "got", !.token = [grant |-> refresh[r].token.grant, seq |-> 0]]
    <3>1. refresh \in [Refreshers -> Refresh] /\ refresh' = [refresh EXCEPT ![r] = v]
      BY <1>2, <2>2 DEF TypeOK
    <3>2. v.token.seq = 0
      BY <3>1 DEF Refresh
    <3> HIDE DEF v
    <3> QED
      BY <3>1, <3>2
  <2>3. CASE ~Fence(r) /\ ~Refreshed(r)
    BY <1>1, <2>3, RefreshesMove DEF RefreshGoesOn
  <2> QED
    BY <2>1, <2>2, <2>3
<1>5. secrets'.access.token.seq = 0 /\ secrets'.refresh.token.seq = 0
  <2> DEFINE Goal == secrets'.access.token.seq = 0 /\ secrets'.refresh.token.seq = 0
  <2>a. \A c : Issued(c).seq = 0
    BY DEF Issued
  <2>1. ASSUME NEW c \in Flows, FlowNext(c) PROVE Goal
    <3>1. CASE PutAccess(c) \/ PutRefresh(c)
      BY <1>0, <1>1, <2>a, <3>1, PutSets DEF PutAccess, PutRefresh
    <3>2. CASE ~PutAccess(c) /\ ~PutRefresh(c)
      BY <1>1, <2>1, <3>2 DEF FlowNext, Consume, Exchange, Withdraw, Retire, PutFails, Publish, Settle, GiveUp
    <3> QED
      BY <3>1, <3>2
  <2>2. ASSUME NEW r \in Refreshers, RefreshNext(r) PROVE Goal
    <3>1. CASE PutAccessAgain(r) \/ PutRefreshAgain(r)
      BY <1>0, <1>1, <3>1, PutSets DEF PutAccessAgain, PutRefreshAgain
    <3>2. CASE ~PutAccessAgain(r) /\ ~PutRefreshAgain(r)
      BY <1>1, <2>2, <3>2 DEF RefreshNext, Fence, ReadToken, Refreshed, Refused, Unreachable, Commit
    <3> QED
      BY <3>1, <3>2
  <2>3. ASSUME NEW d \in Removers, RemovalNext(d) PROVE Goal
    <3>1. CASE SweepRefresh(d) \/ SweepAccess(d)
      <4>1. \A s, ref : s.token.seq = 0 => Swept(s, ref).token.seq = 0
        BY DEF Swept, Empty, NoToken
      <4>2. \/ /\ secrets'.access = secrets.access
               /\ secrets'.refresh = Swept(secrets.refresh, removal[d].refs.refresh)
            \/ /\ secrets'.refresh = secrets.refresh
               /\ secrets'.access = Swept(secrets.access, removal[d].refs.access)
        BY <1>0, <3>1 DEF SweepRefresh, SweepAccess
      <4> QED
        BY <1>1, <4>1, <4>2
    <3>2. CASE ~(SweepRefresh(d) \/ SweepAccess(d))
      BY <1>1, <2>3, <3>2 DEF RemovalNext, Disconnect, TakeHold, Look, Send, SendFails, SendAccess, Renew, Mark,
                              Delete, SweepFails
    <3> QED
      BY <3>1, <3>2
  <2>4. CASE \/ Start \/ LeaseLapses \/ LeaseIsOver \/ HoldLapses \/ UNCHANGED vars
             \/ \E x \in Flows \cup Refreshers \cup Removers : BreaksOff(x)
    BY <1>1, <2>4 DEF Start, LeaseLapses, LeaseIsOver, HoldLapses, BreaksOff, vars
  <2> QED
    BY <2>1, <2>2, <2>3, <2>4 DEF Next
<1> QED
  BY <1>3, <1>4, <1>5 DEF Still
-------------------------------------------------------------------------------
(* The refresh token of a connected row is one of its own authorization's    *)
(* grant, and what the row's refs name; so is what its refreshes read.       *)
OneToken ==
  row.status = "connected" =>
    /\ row.refs.refresh = secrets.refresh.id
    /\ secrets.refresh.token.grant = row.cred
    /\ \A r \in Fenced : refresh[r].auth = row.cred => refresh[r].token.grant \in {None, row.cred}

(* Beside a connected row the secrets change only by its own refreshes.      *)
OwnPutsOnly ==
  /\ \/ secrets'.access = secrets.access
     \/ \E r \in Refreshers :
          /\ PutAccessAgain(r) /\ Puttable(secrets.access, RefreshGeneration(r))
          /\ secrets'.access = Put(secrets.access, RefreshGeneration(r), refresh[r].token)
          /\ refresh[r].auth = row.cred /\ UNCHANGED row
  /\ \/ secrets'.refresh = secrets.refresh
     \/ \E r \in Refreshers :
          /\ PutRefreshAgain(r) /\ Puttable(secrets.refresh, RefreshGeneration(r))
          /\ secrets'.refresh = Put(secrets.refresh, RefreshGeneration(r), refresh[r].token)
          /\ refresh[r].auth = row.cred /\ UNCHANGED row

LEMMA ConnectedSecrets ==
  ASSUME Paired, [Next]_vars, row.status = "connected"
  PROVE  OwnPutsOnly
<1>0. TypeOK /\ FewFences /\ secrets \in [access : Secret, refresh : Secret]
  <2>1. TypeOK /\ FewFences
    BY DEF Paired, Quiet
  <2> QED
    BY <2>1 DEF TypeOK
<1>1. ASSUME NEW c \in Flows, FlowNext(c) PROVE UNCHANGED secrets
  <2>1. CASE PutAccess(c) \/ PutRefresh(c)
    <3>1. c < row.cred /\ OfCredential(secrets.access) /\ OfCredential(secrets.refresh)
      BY <2>1 DEF Paired, Admitted, OnePair, PutAccess, PutRefresh, Puttings
    <3>2. /\ secrets.access \in Secret /\ secrets.refresh \in Secret /\ row.cred \in Nat
      BY <1>0, Counters
    <3>3. \A s \in {secrets.access, secrets.refresh} : ~Puttable(s, WriteGeneration(c, 0))
      BY <1>0, <3>1, <3>2, OlderStandBack DEF OfCredential
    <3> QED
      BY <2>1, <3>3 DEF PutAccess, PutRefresh
  <2>2. CASE ~PutAccess(c) /\ ~PutRefresh(c)
    BY <1>1, <2>2 DEF FlowNext, Consume, Exchange, Withdraw, Retire, PutFails, Publish, Settle, GiveUp
  <2> QED
    BY <2>1, <2>2
<1>2. ASSUME NEW r \in Refreshers, RefreshNext(r) PROVE OwnPutsOnly
  <2>1. CASE PutAccessAgain(r) /\ Puttable(secrets.access, RefreshGeneration(r))
    <3>1. r \in Fenced /\ UNCHANGED row /\ secrets'.refresh = secrets.refresh
          /\ secrets'.access = Put(secrets.access, RefreshGeneration(r), refresh[r].token)
      BY <1>0, <2>1 DEF PutAccessAgain, Fenced
    <3>2. refresh[r].auth = row.cred
      BY <2>1, <3>1, OwnPut
    <3> QED
      BY <2>1, <3>1, <3>2 DEF OwnPutsOnly
  <2>2. CASE PutRefreshAgain(r) /\ Puttable(secrets.refresh, RefreshGeneration(r))
    <3>1. r \in Fenced /\ UNCHANGED row /\ secrets'.access = secrets.access
          /\ secrets'.refresh = Put(secrets.refresh, RefreshGeneration(r), refresh[r].token)
      BY <1>0, <2>2 DEF PutRefreshAgain, Fenced
    <3>2. refresh[r].auth = row.cred
      BY <2>2, <3>1, OwnPut
    <3> QED
      BY <2>2, <3>1, <3>2 DEF OwnPutsOnly
  <2>3. CASE ~(PutAccessAgain(r) /\ Puttable(secrets.access, RefreshGeneration(r)))
             /\ ~(PutRefreshAgain(r) /\ Puttable(secrets.refresh, RefreshGeneration(r)))
    <3>1. UNCHANGED secrets
      BY <1>2, <2>3 DEF RefreshNext, Fence, ReadToken, Refreshed, Refused, Unreachable, Commit,
                        PutAccessAgain, PutRefreshAgain
    <3> QED
      BY <3>1 DEF OwnPutsOnly
  <2> QED
    BY <2>1, <2>2, <2>3
<1>3. ASSUME NEW d \in Removers, RemovalNext(d) PROVE UNCHANGED secrets
  <2>1. CASE SweepRefresh(d) \/ SweepAccess(d)
    <3>1. removal[d].pc \in Working /\ d \notin dead
      BY <2>1, Sorts DEF SweepRefresh, SweepAccess, Working, Runs
    <3>2. row.hold.by = d /\ d # NoRemover
      BY <3>1, Sorts DEF Paired, WorkersHold
    <3> QED
      BY <3>2 DEF Paired, Quiet, HoldIsQuiet
  <2>2. CASE ~(SweepRefresh(d) \/ SweepAccess(d))
    BY <1>3, <2>2 DEF RemovalNext, Disconnect, TakeHold, Look, Send, SendFails, SendAccess, Renew, Mark,
                      Delete, SweepFails
  <2> QED
    BY <2>1, <2>2
<1>4. CASE \/ Start \/ LeaseLapses \/ LeaseIsOver \/ HoldLapses \/ UNCHANGED vars
           \/ \E x \in Flows \cup Refreshers \cup Removers : BreaksOff(x)
  BY <1>4 DEF OwnPutsOnly, Start, LeaseLapses, LeaseIsOver, HoldLapses, BreaksOff, vars
<1> QED
  BY <1>1, <1>2, <1>3, <1>4 DEF Next, OwnPutsOnly

(* The refs of a row that stays connected change by a commit, to what the    *)
(* secrets are.                                                              *)
LEMMA RefsMove ==
  ASSUME TypeOK, [Next]_vars
  PROVE  \/ row'.refs = row.refs
         \/ row'.refs.refresh = secrets.refresh.id /\ UNCHANGED secrets
<1>0. row \in Row
  BY DEF TypeOK
<1>1. ASSUME NEW c \in Flows, FlowNext(c), ~(Publish(c) /\ Publishable(c)) PROVE row'.refs = row.refs
  BY <1>0, <1>1 DEF FlowNext, Consume, Exchange, Withdraw, Retire, Retired, PutAccess, PutRefresh,
     PutFails, Publish, Settle, GiveUp, Released, Row
<1>2. ASSUME NEW c \in Flows, Publish(c), Publishable(c)
      PROVE  row'.refs.refresh = secrets.refresh.id /\ UNCHANGED secrets
  <2>1. row'.refs = [access |-> secrets.access.id, refresh |-> secrets.refresh.id] /\ UNCHANGED secrets
    BY <1>0, <1>2 DEF Publish, Published, Row
  <2> QED
    BY <2>1
<1>3. ASSUME NEW r \in Refreshers, RefreshNext(r), ~Commit(r) PROVE row'.refs = row.refs
  BY <1>0, <1>3 DEF RefreshNext, Fence, ReadToken, Refreshed, Refused, Unreachable, PutAccessAgain,
     PutRefreshAgain, Row
<1>4. ASSUME NEW r \in Refreshers, Commit(r)
      PROVE  row'.refs = row.refs \/ (row'.refs.refresh = secrets.refresh.id /\ UNCHANGED secrets)
  BY <1>0, <1>4 DEF Commit, Row
<1>5. ASSUME NEW d \in Removers, RemovalNext(d) PROVE row'.refs = row.refs
  BY <1>0, <1>5 DEF RemovalNext, Disconnect, Disconnected, TakeHold, Look, Send, SendFails, SendAccess,
     Renew, Mark, SweepRefresh, SweepAccess, Delete, SweepFails, Freed, Row
<1>6. CASE \/ Start \/ LeaseLapses \/ LeaseIsOver \/ HoldLapses \/ UNCHANGED vars
           \/ \E x \in Flows \cup Refreshers \cup Removers : BreaksOff(x)
  BY <1>0, <1>6 DEF Start, LeaseLapses, LeaseIsOver, HoldLapses, BreaksOff, vars, Row
<1> QED
  BY <1>1, <1>2, <1>3, <1>4, <1>5, <1>6 DEF Next

(* Nobody was admitted under the authorization that is published.            *)
LEMMA PublishAlone ==
  ASSUME Paired, NEW c \in Flows, Publish(c), Publishable(c)
  PROVE  /\ row'.status = "connected" /\ row'.cred = c
         /\ row'.refs.refresh = secrets.refresh.id /\ secrets.refresh.token = Issued(c)
         /\ UNCHANGED <<secrets, vendor, refresh, left>>
         /\ \A r \in Fenced : refresh[r].auth # c
         /\ row.auth = c /\ flow[c].pc = "stored"
<1>0. TypeOK /\ row \in Row
  BY DEF Paired, Quiet, TypeOK
<1>1. /\ UNCHANGED <<secrets, vendor, refresh, left>> /\ row.auth = c /\ flow[c].pc = "stored"
  BY DEF Publish, Publishable
<1>2. row'.status = "connected" /\ row'.cred = c /\ row'.refs.refresh = secrets.refresh.id
  <2>1. /\ row'.refs = [access |-> secrets.access.id, refresh |-> secrets.refresh.id]
        /\ row'.status = "connected" /\ row'.cred = c
    BY <1>0 DEF Publish, Published, Row
  <2> QED
    BY <2>1
<1>3. secrets.refresh.token = Issued(c)
  BY <1>1 DEF Paired, Stores, Puttings
<1>4. \A r \in Fenced : refresh[r].auth # c
  BY <1>1, AllBegun
<1> QED
  BY <1>1, <1>2, <1>3, <1>4

LEMMA StepOneToken ==
  ASSUME Paired, TypeOK', Known, OneToken, [Next]_vars
  PROVE  OneToken'
<1>0. TypeOK /\ RealTokens /\ row.cred \in Nat /\ secrets \in [access : Secret, refresh : Secret]
  <2>1. TypeOK /\ RealTokens
    BY DEF Paired, Quiet, Known
  <2> QED
    BY <2>1, Counters DEF TypeOK
<1> SUFFICES ASSUME row'.status = "connected" PROVE OneToken'
  BY DEF OneToken
<1>1. CASE /\ row.status = "connected" /\ row'.cred = row.cred /\ row'.gen = row.gen
           /\ ~\E r \in Refreshers : Fence(r)
  <2>1. /\ row.refs.refresh = secrets.refresh.id /\ secrets.refresh.token.grant = row.cred
        /\ \A r \in Fenced : refresh[r].auth = row.cred => refresh[r].token.grant \in {None, row.cred}
    BY <1>1 DEF OneToken
  <2>2. row'.refs.refresh = secrets'.refresh.id /\ secrets'.refresh.token.grant = row.cred
    <3>1. CASE secrets'.refresh = secrets.refresh
      BY <1>0, <2>1, <3>1, RefsMove
    <3>2. CASE secrets'.refresh # secrets.refresh
      <4>1. PICK r \in Refreshers :
              /\ PutRefreshAgain(r) /\ refresh[r].auth = row.cred /\ UNCHANGED row
              /\ secrets'.refresh = Put(secrets.refresh, RefreshGeneration(r), refresh[r].token)
        BY <1>1, <3>2, ConnectedSecrets DEF OwnPutsOnly
      <4>2. r \in Fenced /\ refresh[r].token.grant # None
        BY <1>0, <4>1 DEF PutRefreshAgain, Fenced, RealTokens, Reading
      <4>3. Present(secrets.refresh)
        <5>1. OfCredential(secrets.refresh) /\ row.cred # None /\ row.cred \in Nat
          BY <1>0, <1>1 DEF Paired, OnePair, Admitted
        <5>2. WriteGeneration(row.cred, 0) > 0 /\ WriteGeneration(row.cred, 0) \in Nat
          <6>1. row.cred > 0 /\ 0 \in Nat
            BY <5>1 DEF None
          <6> QED
            BY <5>1, <6>1, Counted, Written
        <5> QED
          BY <1>0, <5>1, <5>2 DEF OfCredential, Present, None, Secret
      <4> QED
        BY <2>1, <4>1, <4>2, <4>3 DEF Put
    <3> QED
      BY <3>1, <3>2
  <2>3. ASSUME NEW r \in Fenced', refresh'[r].auth = row.cred
        PROVE  refresh'[r].token.grant \in {None, row.cred}
    <3>0. r \in Refreshers /\ refresh'[r].pc # "idle"
      BY DEF Fenced
    <3>1. refresh[r].auth = row.cred /\ r \in Fenced
      BY <1>0, <1>1, <2>3, <3>0, RefreshesMove DEF RefreshGoesOn, Fenced
    <3> QED
      BY <1>0, <2>1, <3>0, <3>1, RefreshTokensMove DEF TokenGoesOn
  <2> QED
    BY <1>1, <2>2, <2>3 DEF OneToken
<1>2. ASSUME NEW q \in Refreshers, Fence(q) PROVE OneToken'
  <2>1. /\ row.status = "connected" /\ row'.cred = row.cred /\ row'.refs = row.refs /\ UNCHANGED secrets
        /\ refresh'[q].token = NoToken /\ \A r \in Refreshers \ {q} : refresh'[r] = refresh[r]
    BY <1>0, <1>2, FenceAdmits
  <2>2. \A r \in Fenced' : r = q \/ (r \in Fenced /\ refresh'[r] = refresh[r])
    BY <2>1 DEF Fenced
  <2> QED
    BY <2>1, <2>2 DEF OneToken, NoToken
<1>3. ASSUME NEW c \in Flows, Publish(c), Publishable(c) PROVE OneToken'
  <2>1. Fenced' = Fenced
    BY <1>3, PublishAlone DEF Fenced
  <2>2. /\ row'.cred = c /\ row'.refs.refresh = secrets'.refresh.id
        /\ secrets'.refresh.token.grant = c /\ \A r \in Fenced' : refresh'[r].auth # c
    <3>1. /\ row'.cred = c /\ row'.refs.refresh = secrets.refresh.id
          /\ secrets.refresh.token = Issued(c) /\ secrets' = secrets /\ refresh' = refresh
          /\ \A r \in Fenced : refresh[r].auth # c
      BY <1>3, PublishAlone
    <3>2. Issued(c).grant = c
      BY DEF Issued
    <3> QED
      BY <2>1, <3>1, <3>2
  <2> QED
    BY <2>2 DEF OneToken
<1> QED
  BY <1>0, <1>1, <1>2, <1>3, ConnectMoves
-------------------------------------------------------------------------------
Refreshable ==
  /\ Paired /\ Known /\ SentBefore /\ HeldBefore /\ OnItsWay /\ FencedInTime /\ Still
  /\ OneToken

LEMMA StepRefreshable == Refreshable /\ [Next]_vars => Refreshable'
<1> SUFFICES ASSUME Refreshable, [Next]_vars PROVE Refreshable'
  OBVIOUS
<1>0. Paired /\ Quiet /\ TypeOK
  BY DEF Refreshable, Paired, Quiet
<1>1. Paired' /\ TypeOK'
  <2>1. Paired'
    BY <1>0, StepPaired
  <2> QED
    BY <2>1 DEF Paired, Quiet
<1>2. Known' /\ SentBefore' /\ HeldBefore' /\ OnItsWay'
  BY <1>0, <1>1, StepKnown, StepSentBefore, StepHeldBefore, StepOnItsWay DEF Refreshable
<1>3. FencedInTime' /\ Still' /\ OneToken'
  BY <1>0, <1>1, StepFencedInTime, StepStill, StepOneToken DEF Refreshable
<1> QED
  BY <1>1, <1>2, <1>3 DEF Refreshable

LEMMA InitRefreshable == Init => Refreshable
<1> SUFFICES ASSUME Init PROVE Refreshable
  OBVIOUS
<1>0. Paired /\ TypeOK /\ Flows \subseteq Nat \ {0} /\ 1 \in Flows
  BY InitPaired, InitTyped, Sorts
<1>1. /\ \A r \in Refreshers : refresh[r] = Calm
      /\ \A d \in Removers : removal[d] = Waiting
      /\ \A c \in Flows : flow[c].pc \in {"none", "pending", "done"}
      /\ row.hold = NoHold /\ left = {} /\ vendor.seq = [g \in Flows |-> 0]
  BY DEF Init, NoFlow
<1>2. /\ row.status \in {"connected", "pending"}
      /\ row.status = "connected" =>
           /\ row.cred = 1 /\ row.refs.refresh = 1 /\ vendor.live = {1} /\ flow[1].pc = "done"
           /\ secrets.access = [id |-> 1, gen |-> Stride, token |-> [grant |-> 1, seq |-> 0]]
           /\ secrets.refresh = [id |-> 1, gen |-> Stride, token |-> [grant |-> 1, seq |-> 0]]
      /\ row.status = "pending" => secrets.access = Empty(0) /\ secrets.refresh = Empty(0)
  <2>1. /\ row.status \in {"connected", "pending"}
        /\ row.status = "connected" => row.cred = 1 /\ row.refs.refresh = 1
    BY DEF Init
  <2>2. row.status = "connected" => vendor.live = {1}
    BY DEF Init
  <2>3. row.status = "connected" => flow[1].pc = "done"
    BY <1>0 DEF Init, NoFlow
  <2>4. /\ row.status = "connected" =>
             /\ secrets.access = [id |-> 1, gen |-> Stride, token |-> [grant |-> 1, seq |-> 0]]
             /\ secrets.refresh = [id |-> 1, gen |-> Stride, token |-> [grant |-> 1, seq |-> 0]]
        /\ row.status = "pending" => secrets.access = Empty(0) /\ secrets.refresh = Empty(0)
    BY DEF Init
  <2> QED
    BY <2>1, <2>2, <2>3, <2>4
<1>3. /\ \A r \in Refreshers : refresh[r].pc = "idle" /\ refresh[r].token = NoToken
      /\ \A d \in Removers : removal[d].pc = "idle"
      /\ NoToken.grant = None /\ NoToken.seq = 0 /\ NoHold.by = NoRemover
  BY <1>1 DEF Calm, Waiting, NoToken, NoHold
<1>4. Known
  <2>1. OutThere(None) /\ (row.status = "connected" => OutThere(1))
    BY <1>0, <1>2 DEF OutThere, Unissued
  <2>2. /\ secrets.access.token.grant = IF row.status = "connected" THEN 1 ELSE None
        /\ secrets.refresh.token.grant = IF row.status = "connected" THEN 1 ELSE None
        /\ row.status # "connected" => ~Present(secrets.access) /\ ~Present(secrets.refresh)
    BY <1>2, <1>3 DEF Empty, Present
  <2>3. RealTokens
    BY <1>3, <2>2 DEF RealTokens, Reading, None
  <2>4. KnownGrants
    BY <1>3, <2>1, <2>2 DEF KnownGrants
  <2> QED
    BY <1>1, <2>3, <2>4 DEF Known, Rotated
<1>5. SentBefore /\ HeldBefore /\ OnItsWay /\ FencedInTime
  BY <1>1, <1>3 DEF SentBefore, HeldBefore, OnItsWay, Puttings, FencedInTime
<1>6. Still
  BY <1>1, <1>2, <1>3 DEF Still, Empty
<1>7. OneToken
  BY <1>2, <1>3 DEF OneToken, Fenced
<1> QED
  BY <1>0, <1>4, <1>5, <1>6, <1>7 DEF Refreshable

-------------------------------------------------------------------------------
(* The leading refresh.  Only a refresh can be overtaken, and of those that  *)
(* are not, one is on its way at most.                                       *)

Leader(r) == refresh[r].pc # "idle" /\ Leading(r)

(* A callback that goes on is done before its lease lapses.                  *)
FlowsInTime ==
  /\ \A c \in Flows : Writing(c) /\ flow[c].lease > 0 => flow[c].lease > clock.lapsed
  /\ \A r \in Refreshers : refresh[r].pc = "idle" => refresh[r].lease = 0
  /\ overtaken \subseteq Fenced

(* A refresh that was overtaken is behind the row's generation.              *)
OvertakenBehind ==
  \A r \in Fenced \cap overtaken : refresh[r].auth = row.auth => refresh[r].gen < row.gen

GensDiffer ==
  \A r, q \in Fenced : r # q /\ refresh[r].auth = refresh[q].auth => refresh[r].gen # refresh[q].gen

LeaderTop ==
  \A r \in Refreshers, q \in Fenced : Leader(r) /\ q # r =>
    /\ ~Leader(q)
    /\ refresh[q].auth <= refresh[r].auth
    /\ refresh[q].auth = refresh[r].auth => refresh[q].gen < refresh[r].gen

Led == FlowsInTime /\ OvertakenBehind /\ GensDiffer /\ LeaderTop

LEMMA FlowLeasesMove ==
  ASSUME Quiet, [Next]_vars, NEW c \in Flows, flow'[c].lease > 0
  PROVE  \/ Retire(c) /\ Retirable(c) /\ flow'[c].lease = clock.taken + 1
         \/ flow'[c].lease = flow[c].lease /\ (flow[c].pc = "done" => flow'[c].pc = "done")
<1> DEFINE Same == flow'[c].lease = flow[c].lease /\ (flow[c].pc = "done" => flow'[c].pc = "done")
<1>0. /\ TypeOK /\ flow \in [Flows -> Flow] /\ row \in Row /\ row.auth \in Nat
  BY DEF Quiet, TypeOK, Row
<1>1. ASSUME NEW k \in Flows, NEW p \in FlowSteps, flow[k].pc # "done", flow' = [flow EXCEPT ![k].pc = p]
      PROVE  Same
  BY <1>0, <1>1, FlowMoves
<1>2. CASE Start
  <2>1. CASE c = row.auth + 1
    <3>1. flow'[c].lease = flow[c].lease
      BY <1>0, <1>2 DEF Start, Flow
    <3>2. flow[c].pc = "none"
      BY <1>0, <2>1 DEF Quiet, Generations, Begins
    <3> QED
      BY <3>1, <3>2 DEF Quiet, Leases, LeasesTaken
  <2>2. CASE c # row.auth + 1
    BY <1>0, <1>2, <2>2 DEF Start, Flow
  <2> QED
    BY <2>1, <2>2
<1>3. ASSUME NEW k \in Flows, Consume(k) PROVE Same
  <2> DEFINE v == [NoFlow EXCEPT !.pc = "consumed", !.refs = row.refs, !.revokedAt = row.revokedAt]
  <2>1. v.lease = 0
    BY DEF NoFlow, None
  <2>2. flow' = [flow EXCEPT ![k] = v] /\ flow[k].pc = "pending"
    BY <1>3 DEF Consume
  <2> HIDE DEF v
  <2>3. CASE k = c
    BY <1>0, <2>1, <2>2, <2>3
  <2>4. CASE k # c
    BY <1>0, <2>2, <2>4
  <2> QED
    BY <2>3, <2>4
<1>4. ASSUME NEW k \in Flows, Retire(k), Retirable(k)
      PROVE  Same \/ (k = c /\ flow'[c].lease = clock.taken + 1)
  <2> DEFINE v == [flow[k] EXCEPT !.pc = "writing", !.lease = clock.taken + 1, !.inherited = row.lease]
  <2>1. v.lease = clock.taken + 1
    BY <1>0 DEF Flow
  <2>2. flow' = [flow EXCEPT ![k] = v]
    BY <1>4 DEF Retire
  <2> HIDE DEF v
  <2> QED
    BY <1>0, <2>1, <2>2
<1>5. ASSUME NEW k \in Flows, FlowNext(k), ~Consume(k), ~(Retire(k) /\ Retirable(k)) PROVE Same
  <2>1. flow[k].pc # "done" /\ \E p \in FlowSteps : flow' = [flow EXCEPT ![k].pc = p]
    BY <1>5 DEF FlowNext, Exchange, Withdraw, Retire, PutAccess, PutRefresh, PutFails, Publish, Settle,
       GiveUp, FlowSteps
  <2> QED
    BY <1>1, <2>1
<1>6. CASE UNCHANGED flow
  BY <1>6
<1>7. CASE ~Start /\ ~(\E k \in Flows : FlowNext(k))
  <2>1. UNCHANGED flow
    BY <1>7 DEF Next, RefreshNext, RemovalNext, vars, LeaseLapses, LeaseIsOver, HoldLapses, BreaksOff,
         Fence, ReadToken, Refreshed, Refused, Unreachable, PutAccessAgain, PutRefreshAgain, Commit,
         Disconnect, TakeHold, Look, Send, SendFails, SendAccess, Renew, Mark, SweepRefresh,
         SweepAccess, Delete, SweepFails
  <2> QED
    BY <1>6, <2>1
<1> QED
  BY <1>2, <1>3, <1>4, <1>5, <1>7

LEMMA OvertakenMove ==
  ASSUME [Next]_vars
  PROVE  /\ overtaken \subseteq overtaken'
         /\ overtaken' = overtaken \/ \E r \in Refreshers : Fence(r)
<1>1. ASSUME NEW c \in Flows, FlowNext(c) PROVE overtaken' = overtaken
  BY <1>1 DEF FlowNext, Consume, Exchange, Withdraw, Retire, PutAccess, PutRefresh, PutFails, Publish,
       Settle, GiveUp
<1>2. ASSUME NEW r \in Refreshers, RefreshNext(r), ~Fence(r) PROVE overtaken' = overtaken
  BY <1>2 DEF RefreshNext, ReadToken, Refreshed, Refused, Unreachable, PutAccessAgain,
       PutRefreshAgain, Commit
<1>3. ASSUME NEW d \in Removers, RemovalNext(d) PROVE overtaken' = overtaken
  BY <1>3 DEF RemovalNext, Disconnect, TakeHold, Look, Send, SendFails, SendAccess, Renew, Mark,
       SweepRefresh, SweepAccess, Delete, SweepFails
<1>4. CASE \/ Start \/ LeaseLapses \/ LeaseIsOver \/ HoldLapses \/ UNCHANGED vars
           \/ \E x \in Flows \cup Refreshers \cup Removers : BreaksOff(x)
  BY <1>4 DEF Start, LeaseLapses, LeaseIsOver, HoldLapses, BreaksOff, vars
<1>5. ASSUME NEW r \in Refreshers, Fence(r) PROVE overtaken \subseteq overtaken'
  BY <1>5 DEF Fence
<1> QED
  BY <1>1, <1>2, <1>3, <1>4, <1>5 DEF Next

(* Whoever leads after a step has just been admitted, or led before it and   *)
(* nobody was admitted.                                                      *)
LEMMA LeadersMove ==
  ASSUME Quiet, [Next]_vars, NEW r \in Refreshers, Leader(r)', ~Fence(r)
  PROVE  /\ Leader(r) /\ refresh'[r].auth = refresh[r].auth /\ refresh'[r].gen = refresh[r].gen
         /\ \A q \in Refreshers : ~Fence(q)
<1>0. /\ TypeOK /\ r \in Writers /\ LeaseOf(r) = refresh[r].lease /\ refresh[r].lease \in Nat
      /\ row.lease \in Nat
  <2>1. TypeOK
    BY DEF Quiet
  <2> QED
    BY <2>1, Kinds DEF Writers, TypeOK, Refresh, Row
<1>1. RefreshGoesOn(r)
  BY <1>0, RefreshesMove
<1>2. /\ refresh'[r].pc # "idle" /\ refresh'[r].pc # "done" /\ r \notin dead' /\ r \notin overtaken'
  BY KindsNext DEF Leader, Leading
<1>3. /\ refresh[r].pc # "idle" /\ refresh[r].pc # "done"
      /\ refresh'[r].auth = refresh[r].auth /\ refresh'[r].gen = refresh[r].gen
  BY <1>1, <1>2 DEF RefreshGoesOn
<1>4. r \notin dead /\ r \notin overtaken
  BY <1>0, <1>2, LapsesMove, OvertakenMove
<1>5. Leader(r)
  BY <1>3, <1>4, Kinds DEF Leader, Leading
<1>6. ASSUME NEW q \in Refreshers, Fence(q) PROVE FALSE
  <2>1. LeaseOf(r) <= row.lease /\ refresh[r].lease > 0 /\ Writing(r)
    BY <1>0, <1>3, <1>5 DEF Leader, Leading, Quiet, Leases, Lead, LeasesTaken
  <2>2. LeaseOf(r) \in 1 .. row.lease
    BY <1>0, <2>1
  <2>3. r \in overtaken'
    BY <1>0, <1>6, <2>1, <2>2 DEF Fence
  <2> QED
    BY <1>2, <2>3
<1> QED
  BY <1>3, <1>5, <1>6

LEMMA FlowsLapseLater ==
  ASSUME Quiet, NEW c \in Flows, Writing(c), LeaseLapses
  PROVE  flow[c].lease # clock.lapsed + 1
<1>0. TypeOK /\ clock.lapsed \in Nat /\ c \in Writers /\ c \notin Refreshers /\ LeaseOf(c) = flow[c].lease
  BY Sorts, Kinds DEF Quiet, TypeOK, Writers
<1> SUFFICES ASSUME flow[c].lease = clock.lapsed + 1 PROVE FALSE
  OBVIOUS
<1> DEFINE w == Writer(clock.lapsed + 1)
<1>2. w \in Writers /\ LeaseOf(w) = clock.lapsed + 1
  BY <1>0 DEF Writer, Writers
<1>3. w = c
  BY <1>0, <1>2 DEF Quiet, Leases, LeasesDiffer
<1>4. Finished(w) \/ w \in dead \/ (w \in Refreshers /\ refresh[w].pc # "fenced")
  BY DEF LeaseLapses
<1> QED
  BY <1>0, <1>3, <1>4 DEF Writing, Runs

LEMMA StepFlowsInTime ==
  ASSUME Quiet, TypeOK', FlowsInTime, [Next]_vars
  PROVE  FlowsInTime'
<1>0. /\ TypeOK /\ clock.lapsed \in Nat /\ clock.taken \in Nat /\ clock.lapsed <= clock.taken
      /\ row.lease \in Nat /\ \A c \in Flows : flow[c].lease \in Nat
  <2>1. TypeOK
    BY DEF Quiet
  <2> QED
    BY <2>1 DEF TypeOK, Flow, Row
<1>1. ASSUME NEW c \in Flows, Writing(c)', flow'[c].lease > 0 PROVE flow'[c].lease > clock'.lapsed
  <2>1. flow'[c].pc # "done" /\ c \notin dead' /\ c \notin dead
    BY <1>0, <1>1, KindsNext, LapsesMove
  <2>2. CASE Retire(c) /\ Retirable(c) /\ flow'[c].lease = clock.taken + 1
    <3>1. clock'.lapsed = clock.lapsed
      BY <2>2 DEF Retire, Quiet, TypeOK
    <3> QED
      BY <1>0, <2>2, <3>1
  <2>3. CASE flow'[c].lease = flow[c].lease /\ (flow[c].pc = "done" => flow'[c].pc = "done")
    <3>1. Writing(c)
      BY <2>1, <2>3, Kinds
    <3>2. flow[c].lease > clock.lapsed
      BY <1>1, <2>3, <3>1 DEF FlowsInTime
    <3>3. CASE clock'.lapsed = clock.lapsed
      BY <2>3, <3>2, <3>3
    <3>4. CASE LeaseLapses /\ clock'.lapsed = clock.lapsed + 1
      <4>1. flow[c].lease # clock.lapsed + 1
        BY <3>1, <3>4, FlowsLapseLater
      <4> QED
        BY <1>0, <2>3, <3>2, <3>4, <4>1
    <3> QED
      BY <1>0, <3>3, <3>4, LapsesMove
  <2> QED
    BY <1>1, <2>2, <2>3, FlowLeasesMove
<1>3. ASSUME NEW r \in Refreshers, refresh'[r].pc = "idle" PROVE refresh'[r].lease = 0
  BY <1>0, <1>3, FenceAdmits, RefreshesMove DEF RefreshGoesOn, FlowsInTime
<1>4. Fenced \subseteq Fenced'
  BY <1>0, FenceAdmits, RefreshesMove DEF RefreshGoesOn, Fenced
<1>2. overtaken' \subseteq Fenced'
  <2>1. ASSUME NEW r \in Refreshers, Fence(r), NEW x \in overtaken' PROVE x \in Fenced
    <3>1. CASE x \in overtaken
      BY <3>1 DEF FlowsInTime
    <3>3. CASE x \in Refreshers /\ LeaseOf(x) \in 1 .. row.lease
      <4>1. refresh[x].lease > 0
        BY <1>0, <3>3, Kinds
      <4> QED
        BY <3>3, <4>1 DEF FlowsInTime, Fenced
    <3>2. CASE x \in Flows /\ LeaseOf(x) \in 1 .. row.lease /\ Writing(x)
      <4>1. flow[x].lease > clock.lapsed /\ flow[x].lease <= row.lease /\ row.lease <= clock.lapsed
        BY <1>0, <2>1, <3>2, Kinds DEF FlowsInTime, Fence, Fenceable
      <4> QED
        BY <1>0, <3>2, <4>1
    <3> QED
      BY <2>1, <3>1, <3>2, <3>3 DEF Fence
  <2> QED
    BY <1>4, <2>1, OvertakenMove DEF FlowsInTime
<1> QED
  BY <1>1, <1>2, <1>3 DEF FlowsInTime

(* The row's generations: a new authorization, a new refresh, a publish.     *)
LEMMA CountsMove ==
  ASSUME TypeOK, [Next]_vars
  PROVE  \/ row'.auth \in {row.auth, row.auth + 1} /\ row'.gen = row.gen /\ row'.cred = row.cred
         \/ \E r \in Refreshers : Fence(r)
         \/ \E c \in Flows : Publish(c) /\ Publishable(c)
<1>0. row \in Row
  BY DEF TypeOK
<1> DEFINE Kept0 == row'.auth \in {row.auth, row.auth + 1} /\ row'.gen = row.gen /\ row'.cred = row.cred
<1>1. ASSUME NEW c \in Flows, FlowNext(c), ~(Publish(c) /\ Publishable(c)) PROVE Kept0
  BY <1>0, <1>1 DEF FlowNext, Consume, Exchange, Withdraw, Retire, Retired, PutAccess, PutRefresh,
     PutFails, Publish, Settle, GiveUp, Released, Row
<1>2. ASSUME NEW r \in Refreshers, RefreshNext(r), ~Fence(r) PROVE Kept0
  BY <1>0, <1>2 DEF RefreshNext, ReadToken, Refreshed, Refused, Unreachable, PutAccessAgain,
     PutRefreshAgain, Commit, Row
<1>3. ASSUME NEW d \in Removers, RemovalNext(d) PROVE Kept0
  BY <1>0, <1>3 DEF RemovalNext, Disconnect, Disconnected, TakeHold, Look, Send, SendFails, SendAccess,
     Renew, Mark, SweepRefresh, SweepAccess, Delete, SweepFails, Freed, Row
<1>4. CASE Start \/ LeaseLapses \/ LeaseIsOver \/ HoldLapses \/ UNCHANGED vars
           \/ \E x \in Flows \cup Refreshers \cup Removers : BreaksOff(x)
  BY <1>0, <1>4 DEF Start, LeaseLapses, LeaseIsOver, HoldLapses, BreaksOff, vars, Row
<1> QED
  BY <1>1, <1>2, <1>3, <1>4 DEF Next

LEMMA AdmittedOnce ==
  ASSUME TypeOK, [Next]_vars, NEW r \in Fenced
  PROVE  /\ ~Fence(r) /\ r \in Fenced'
         /\ refresh'[r].auth = refresh[r].auth /\ refresh'[r].gen = refresh[r].gen
<1>1. ~Fence(r)
  BY FenceAdmits DEF Fenced
<1> QED
  BY <1>1, RefreshesMove DEF RefreshGoesOn, Fenced

LEMMA AdmittedNow ==
  ASSUME TypeOK, [Next]_vars, NEW r \in Fenced', r \notin Fenced
  PROVE  Fence(r)
BY RefreshesMove DEF RefreshGoesOn, Fenced

LEMMA StepLed ==
  ASSUME Quiet, TypeOK', Led, [Next]_vars
  PROVE  Led'
<1>0. /\ TypeOK /\ row.auth \in Nat /\ row.gen \in Nat
      /\ \A r \in Fenced : /\ refresh[r].auth \in Nat /\ refresh[r].gen \in Nat /\ refresh[r].auth <= row.auth
                           /\ refresh[r].auth = row.auth => refresh[r].gen <= row.gen
                           /\ refresh[r].auth \in Flows /\ flow[refresh[r].auth].pc = "done"
  <2>1. TypeOK
    BY DEF Quiet
  <2> QED
    BY <2>1, Counters DEF Quiet, Generations, RefreshesKnow, Fenced, TypeOK, Refresh
<1>1. FlowsInTime'
  BY StepFlowsInTime DEF Led
<1>2. OvertakenBehind'
  <2> SUFFICES ASSUME NEW r \in Fenced', r \in overtaken', refresh'[r].auth = row'.auth
               PROVE  refresh'[r].gen < row'.gen
    BY DEF OvertakenBehind
  <2>1. ASSUME NEW q \in Refreshers, Fence(q) PROVE refresh'[r].gen < row'.gen
    <3>1. q \notin overtaken'
      <4>1. refresh[q].pc = "idle" /\ q \notin overtaken /\ LeaseOf(q) = 0 /\ q \notin Flows
        BY <1>0, <2>1, FenceAdmits, Kinds, Sorts DEF Led, FlowsInTime, Fenced
      <4> QED
        BY <2>1, <4>1 DEF Fence
    <3>2. refresh'[r] = refresh[r] /\ row'.gen = row.gen + 1 /\ row'.auth = row.auth /\ r \in Fenced
      BY <1>0, <2>1, <3>1, FenceAdmits DEF Fenced, Fence, TypeOK, Row
    <3> QED
      BY <1>0, <3>2
  <2>2. CASE overtaken' = overtaken /\ \A q \in Refreshers : ~Fence(q)
    <3>1. /\ r \in Fenced /\ r \in overtaken
          /\ refresh'[r].auth = refresh[r].auth /\ refresh'[r].gen = refresh[r].gen
      BY <1>0, <2>2, AdmittedOnce DEF Led, FlowsInTime
    <3>2. CASE row'.auth \in {row.auth, row.auth + 1} /\ row'.gen = row.gen
      BY <1>0, <3>1, <3>2 DEF Led, OvertakenBehind
    <3>3. ASSUME NEW c \in Flows, Publish(c), Publishable(c) PROVE FALSE
      <4>0. row \in Row
        BY <1>0 DEF TypeOK
      <4>1. row'.auth = c /\ flow[c].pc = "stored"
        BY <3>3, <4>0 DEF Publish, Published, Publishable, Row
      <4> QED
        BY <1>0, <3>1, <4>1
    <3> QED
      BY <1>0, <2>2, <3>2, <3>3, CountsMove
  <2> QED
    BY <2>1, <2>2, OvertakenMove
<1>3. GensDiffer'
  <2> SUFFICES ASSUME NEW r \in Fenced', NEW q \in Fenced', r # q, refresh'[r].auth = refresh'[q].auth
               PROVE  refresh'[r].gen # refresh'[q].gen
    BY DEF GensDiffer
  <2>1. ASSUME NEW a \in Fenced', NEW b \in Fenced', a # b, refresh'[a].auth = refresh'[b].auth, Fence(a)
        PROVE  refresh'[a].gen # refresh'[b].gen
    <3>1. /\ refresh'[b] = refresh[b] /\ refresh'[a].auth = row.auth /\ refresh'[a].gen = row.gen + 1
          /\ b \in Fenced
      BY <1>0, <2>1, FenceAdmits DEF Fenced
    <3> QED
      BY <1>0, <2>1, <3>1
  <2>2. CASE ~Fence(r) /\ ~Fence(q)
    BY <1>0, <2>2, AdmittedNow, AdmittedOnce DEF Led, GensDiffer
  <2> QED
    BY <2>1, <2>2
<1>4. LeaderTop'
  <2> SUFFICES ASSUME NEW r \in Refreshers, NEW q \in Fenced', Leader(r)', q # r
               PROVE  /\ ~Leader(q)'
                      /\ refresh'[q].auth <= refresh'[r].auth
                      /\ refresh'[q].auth = refresh'[r].auth => refresh'[q].gen < refresh'[r].gen
    BY DEF LeaderTop
  <2>1. CASE Fence(r)
    <3>1. /\ refresh'[q] = refresh[q] /\ refresh'[r].auth = row.auth /\ refresh'[r].gen = row.gen + 1
          /\ q \in Fenced /\ q \in Refreshers
      BY <1>0, <2>1, FenceAdmits DEF Fenced
    <3>2. ~Fence(q)
      BY <1>0, <3>1, AdmittedOnce
    <3> QED
      BY <1>0, <2>1, <3>1, <3>2, LeadersMove
  <2>2. CASE ~Fence(r)
    <3>1. /\ Leader(r) /\ refresh'[r].auth = refresh[r].auth /\ refresh'[r].gen = refresh[r].gen
          /\ q \in Refreshers /\ ~Fence(q)
      BY <2>2, LeadersMove DEF Fenced
    <3>2. q \in Fenced /\ refresh'[q].auth = refresh[q].auth /\ refresh'[q].gen = refresh[q].gen
      BY <1>0, <3>1, AdmittedNow, AdmittedOnce
    <3> QED
      BY <3>1, <3>2, LeadersMove DEF Led, LeaderTop
  <2> QED
    BY <2>1, <2>2
<1> QED
  BY <1>1, <1>2, <1>3, <1>4 DEF Led
-------------------------------------------------------------------------------
(* The six steps that change a secret.                                       *)

StoresAccess(c) == PutAccess(c) /\ Puttable(secrets.access, WriteGeneration(c, 0))
StoresRefresh(c) == PutRefresh(c) /\ Puttable(secrets.refresh, WriteGeneration(c, 0))
RestoresAccess(r) == PutAccessAgain(r) /\ Puttable(secrets.access, RefreshGeneration(r))
RestoresRefresh(r) == PutRefreshAgain(r) /\ Puttable(secrets.refresh, RefreshGeneration(r))

LEMMA AccessMoves ==
  ASSUME TypeOK, [Next]_vars
  PROVE  \/ secrets'.access = secrets.access
         \/ \E c \in Flows : StoresAccess(c)
         \/ \E r \in Refreshers : RestoresAccess(r)
         \/ \E d \in Removers : SweepAccess(d)
<1>0. secrets \in [access : Secret, refresh : Secret]
  BY DEF TypeOK
<1>1. ASSUME NEW c \in Flows, FlowNext(c), ~StoresAccess(c) PROVE secrets'.access = secrets.access
  BY <1>0, <1>1 DEF FlowNext, Consume, Exchange, Withdraw, Retire, PutAccess, PutRefresh, PutFails,
     Publish, Settle, GiveUp, StoresAccess
<1>2. ASSUME NEW r \in Refreshers, RefreshNext(r), ~RestoresAccess(r) PROVE secrets'.access = secrets.access
  BY <1>0, <1>2 DEF RefreshNext, Fence, ReadToken, Refreshed, Refused, Unreachable, PutAccessAgain,
     PutRefreshAgain, Commit, RestoresAccess
<1>3. ASSUME NEW d \in Removers, RemovalNext(d), ~SweepAccess(d) PROVE secrets'.access = secrets.access
  BY <1>0, <1>3 DEF RemovalNext, Disconnect, TakeHold, Look, Send, SendFails, SendAccess, Renew, Mark,
       SweepRefresh, Delete, SweepFails
<1>4. CASE \/ Start \/ LeaseLapses \/ LeaseIsOver \/ HoldLapses \/ UNCHANGED vars
           \/ \E x \in Flows \cup Refreshers \cup Removers : BreaksOff(x)
  BY <1>4 DEF Start, LeaseLapses, LeaseIsOver, HoldLapses, BreaksOff, vars
<1> QED
  BY <1>1, <1>2, <1>3, <1>4 DEF Next

LEMMA RefreshMovesOn ==
  ASSUME TypeOK, [Next]_vars
  PROVE  \/ secrets'.refresh = secrets.refresh
         \/ \E c \in Flows : StoresRefresh(c)
         \/ \E r \in Refreshers : RestoresRefresh(r)
         \/ \E d \in Removers : SweepRefresh(d)
<1>0. secrets \in [access : Secret, refresh : Secret]
  BY DEF TypeOK
<1>1. ASSUME NEW c \in Flows, FlowNext(c), ~StoresRefresh(c) PROVE secrets'.refresh = secrets.refresh
  BY <1>0, <1>1 DEF FlowNext, Consume, Exchange, Withdraw, Retire, PutAccess, PutRefresh, PutFails,
     Publish, Settle, GiveUp, StoresRefresh
<1>2. ASSUME NEW r \in Refreshers, RefreshNext(r), ~RestoresRefresh(r)
      PROVE  secrets'.refresh = secrets.refresh
  BY <1>0, <1>2 DEF RefreshNext, Fence, ReadToken, Refreshed, Refused, Unreachable, PutAccessAgain,
     PutRefreshAgain, Commit, RestoresRefresh
<1>3. ASSUME NEW d \in Removers, RemovalNext(d), ~SweepRefresh(d) PROVE secrets'.refresh = secrets.refresh
  BY <1>0, <1>3 DEF RemovalNext, Disconnect, TakeHold, Look, Send, SendFails, SendAccess, Renew, Mark,
       SweepAccess, Delete, SweepFails
<1>4. CASE \/ Start \/ LeaseLapses \/ LeaseIsOver \/ HoldLapses \/ UNCHANGED vars
           \/ \E x \in Flows \cup Refreshers \cup Removers : BreaksOff(x)
  BY <1>4 DEF Start, LeaseLapses, LeaseIsOver, HoldLapses, BreaksOff, vars
<1> QED
  BY <1>1, <1>2, <1>3, <1>4 DEF Next

(* What a put leaves in a secret.                                            *)
IsPut(s, new, gen, token) ==
  /\ s.gen <= gen /\ new.gen = gen /\ new.token = token
  /\ new.id = IF Present(s) THEN s.id ELSE s.id + 1

LEMMA StoringAccess ==
  ASSUME TypeOK, NEW c \in Flows, StoresAccess(c)
  PROVE  /\ c \notin dead /\ flow[c].pc = "writing" /\ flow'[c].pc = "half"
         /\ IsPut(secrets.access, secrets'.access, WriteGeneration(c, 0), Issued(c))
         /\ secrets'.refresh = secrets.refresh /\ left' = left \cup {secrets.access.token.grant}
         /\ \A k \in Flows : k # c => flow'[k] = flow[k]
         /\ UNCHANGED <<row, vendor, refresh, removal, clock, dead, overtaken>>
<1>0. secrets \in [access : Secret, refresh : Secret] /\ flow \in [Flows -> Flow]
  BY DEF TypeOK
<1>1. /\ c \notin dead /\ flow[c].pc = "writing" /\ left' = left \cup {secrets.access.token.grant}
      /\ UNCHANGED <<row, vendor, refresh, removal, clock, dead, overtaken>>
      /\ flow' = [flow EXCEPT ![c].pc = "half"]
      /\ secrets.access.gen <= WriteGeneration(c, 0)
      /\ secrets' = [secrets EXCEPT !.access = Put(secrets.access, WriteGeneration(c, 0), Issued(c))]
  BY DEF StoresAccess, PutAccess, Runs, Puttable
<1>2. secrets'.refresh = secrets.refresh
      /\ secrets'.access = Put(secrets.access, WriteGeneration(c, 0), Issued(c))
  BY <1>0, <1>1
<1>3. flow'[c].pc = "half" /\ \A k \in Flows : k # c => flow'[k] = flow[k]
  BY <1>0, <1>1 DEF Flow
<1>4. IsPut(secrets.access, secrets'.access, WriteGeneration(c, 0), Issued(c))
  BY <1>1, <1>2 DEF Put, IsPut
<1> QED
  BY <1>1, <1>2, <1>3, <1>4

LEMMA StoringRefresh ==
  ASSUME TypeOK, NEW c \in Flows, StoresRefresh(c)
  PROVE  /\ c \notin dead /\ flow[c].pc = "half" /\ flow'[c].pc = "stored"
         /\ IsPut(secrets.refresh, secrets'.refresh, WriteGeneration(c, 0), Issued(c))
         /\ secrets'.access = secrets.access /\ left' = left \cup {secrets.refresh.token.grant}
         /\ \A k \in Flows : k # c => flow'[k] = flow[k]
         /\ UNCHANGED <<row, vendor, refresh, removal, clock, dead, overtaken>>
<1>0. secrets \in [access : Secret, refresh : Secret] /\ flow \in [Flows -> Flow]
  BY DEF TypeOK
<1>1. /\ c \notin dead /\ flow[c].pc = "half" /\ left' = left \cup {secrets.refresh.token.grant}
      /\ UNCHANGED <<row, vendor, refresh, removal, clock, dead, overtaken>>
      /\ flow' = [flow EXCEPT ![c].pc = "stored"]
      /\ secrets.refresh.gen <= WriteGeneration(c, 0)
      /\ secrets' = [secrets EXCEPT !.refresh = Put(secrets.refresh, WriteGeneration(c, 0), Issued(c))]
  BY DEF StoresRefresh, PutRefresh, Runs, Puttable
<1>2. secrets'.access = secrets.access
      /\ secrets'.refresh = Put(secrets.refresh, WriteGeneration(c, 0), Issued(c))
  BY <1>0, <1>1
<1>3. flow'[c].pc = "stored" /\ \A k \in Flows : k # c => flow'[k] = flow[k]
  BY <1>0, <1>1 DEF Flow
<1>4. IsPut(secrets.refresh, secrets'.refresh, WriteGeneration(c, 0), Issued(c))
  BY <1>1, <1>2 DEF Put, IsPut
<1> QED
  BY <1>1, <1>2, <1>3, <1>4

LEMMA RestoringAccess ==
  ASSUME TypeOK, NEW r \in Refreshers, RestoresAccess(r)
  PROVE  /\ r \notin dead /\ refresh[r].pc = "got" /\ refresh'[r].pc = "half"
         /\ refresh'[r].token = refresh[r].token
         /\ IsPut(secrets.access, secrets'.access, RefreshGeneration(r), refresh[r].token)
         /\ secrets'.refresh = secrets.refresh
         /\ \A q \in Refreshers : /\ q # r => refresh'[q] = refresh[q]
                                  /\ refresh'[q].auth = refresh[q].auth /\ refresh'[q].gen = refresh[q].gen
                                  /\ refresh'[q].lease = refresh[q].lease
         /\ UNCHANGED <<row, vendor, flow, removal, clock, dead, overtaken, left>>
<1>0. secrets \in [access : Secret, refresh : Secret] /\ refresh \in [Refreshers -> Refresh]
  BY DEF TypeOK
<1>1. /\ r \notin dead /\ refresh[r].pc = "got"
      /\ UNCHANGED <<row, vendor, flow, removal, clock, dead, overtaken, left>>
      /\ refresh' = [refresh EXCEPT ![r].pc = "half"]
      /\ secrets.access.gen <= RefreshGeneration(r)
      /\ secrets' = [secrets EXCEPT !.access = Put(secrets.access, RefreshGeneration(r), refresh[r].token)]
  BY DEF RestoresAccess, PutAccessAgain, Runs, Puttable
<1>2. secrets'.refresh = secrets.refresh
      /\ secrets'.access = Put(secrets.access, RefreshGeneration(r), refresh[r].token)
  BY <1>0, <1>1
<1>3. /\ refresh'[r].pc = "half" /\ refresh'[r].token = refresh[r].token
      /\ \A q \in Refreshers : /\ q # r => refresh'[q] = refresh[q]
                               /\ refresh'[q].auth = refresh[q].auth /\ refresh'[q].gen = refresh[q].gen
                               /\ refresh'[q].lease = refresh[q].lease
  BY <1>0, <1>1 DEF Refresh
<1>4. IsPut(secrets.access, secrets'.access, RefreshGeneration(r), refresh[r].token)
  BY <1>1, <1>2 DEF Put, IsPut
<1> QED
  BY <1>1, <1>2, <1>3, <1>4

LEMMA RestoringRefresh ==
  ASSUME TypeOK, NEW r \in Refreshers, RestoresRefresh(r)
  PROVE  /\ r \notin dead /\ refresh[r].pc = "half" /\ refresh'[r].pc = "stored"
         /\ refresh'[r].token = refresh[r].token
         /\ IsPut(secrets.refresh, secrets'.refresh, RefreshGeneration(r), refresh[r].token)
         /\ secrets'.access = secrets.access
         /\ \A q \in Refreshers : /\ q # r => refresh'[q] = refresh[q]
                                  /\ refresh'[q].auth = refresh[q].auth /\ refresh'[q].gen = refresh[q].gen
                                  /\ refresh'[q].lease = refresh[q].lease
         /\ UNCHANGED <<row, vendor, flow, removal, clock, dead, overtaken, left>>
<1>0. secrets \in [access : Secret, refresh : Secret] /\ refresh \in [Refreshers -> Refresh]
  BY DEF TypeOK
<1>1. /\ r \notin dead /\ refresh[r].pc = "half"
      /\ UNCHANGED <<row, vendor, flow, removal, clock, dead, overtaken, left>>
      /\ refresh' = [refresh EXCEPT ![r].pc = "stored"]
      /\ secrets.refresh.gen <= RefreshGeneration(r)
      /\ secrets' = [secrets EXCEPT !.refresh = Put(secrets.refresh, RefreshGeneration(r), refresh[r].token)]
  BY DEF RestoresRefresh, PutRefreshAgain, Runs, Puttable
<1>2. secrets'.access = secrets.access
      /\ secrets'.refresh = Put(secrets.refresh, RefreshGeneration(r), refresh[r].token)
  BY <1>0, <1>1
<1>3. /\ refresh'[r].pc = "stored" /\ refresh'[r].token = refresh[r].token
      /\ \A q \in Refreshers : /\ q # r => refresh'[q] = refresh[q]
                               /\ refresh'[q].auth = refresh[q].auth /\ refresh'[q].gen = refresh[q].gen
                               /\ refresh'[q].lease = refresh[q].lease
  BY <1>0, <1>1 DEF Refresh
<1>4. IsPut(secrets.refresh, secrets'.refresh, RefreshGeneration(r), refresh[r].token)
  BY <1>1, <1>2 DEF Put, IsPut
<1> QED
  BY <1>1, <1>2, <1>3, <1>4

(* A removal sweeps with nobody but the overtaken beside it.                 *)
LEMMA Sweeping ==
  ASSUME Quiet, WorkersHold, FlowsInTime, NEW d \in Removers, SweepRefresh(d) \/ SweepAccess(d)
  PROVE  /\ row.hold.by = d /\ row.status = "disconnected" /\ d \notin dead
         /\ \A r \in Refreshers : ~Leader(r)
         /\ \A c \in Flows : flow[c].pc \in Leased => c \in dead
         /\ UNCHANGED <<row, vendor, flow, refresh, clock, dead, overtaken>>
         /\ left' = left \cup IF SweepRefresh(d)
                              THEN Abandoned(d, secrets.refresh, removal[d].refs.refresh)
                              ELSE Abandoned(d, secrets.access, removal[d].refs.access)
         /\ SweepRefresh(d) => /\ secrets'.access = secrets.access
                               /\ secrets'.refresh = Swept(secrets.refresh, removal[d].refs.refresh)
         /\ SweepAccess(d) => /\ secrets'.refresh = secrets.refresh
                              /\ secrets'.access = Swept(secrets.access, removal[d].refs.access)
<1>0. TypeOK /\ secrets \in [access : Secret, refresh : Secret] /\ d # NoRemover
  BY Sorts DEF Quiet, TypeOK
<1>1. removal[d].pc \in Working /\ d \notin dead
  BY DEF SweepRefresh, SweepAccess, Working, Runs
<1>2. row.hold.by = d /\ row.status = "disconnected"
      /\ \A x \in Writers : Writing(x) /\ LeaseOf(x) > 0 => x \in overtaken
  BY <1>0, <1>1 DEF WorkersHold, Quiet, HoldIsQuiet
<1>3. ASSUME NEW r \in Refreshers PROVE ~Leader(r)
  <2>1. refresh[r].pc # "idle" => LeaseOf(r) > 0
    BY Kinds DEF Quiet, Leases, LeasesTaken
  <2> QED
    BY <1>2, <2>1 DEF Leader, Leading, Writers
<1>4. ASSUME NEW c \in Flows, flow[c].pc \in Leased PROVE c \in dead
  <2>1. LeaseOf(c) > 0 /\ flow[c].pc # "done" /\ c \notin overtaken
    BY <1>4, Kinds, Sorts DEF Quiet, Leases, LeasesTaken, Leased, Puttings, FlowsInTime, Fenced
  <2> QED
    BY <1>2, <2>1, Kinds DEF Writers
<1>5. ~(SweepRefresh(d) /\ SweepAccess(d))
  BY DEF SweepRefresh, SweepAccess
<1> QED
  BY <1>0, <1>1, <1>2, <1>3, <1>4, <1>5 DEF SweepRefresh, SweepAccess
-------------------------------------------------------------------------------
(* Who wrote what is in a secret, and for which grant.                       *)

(* A refresh that is to read its token leads.                                *)
FencedLead == \A r \in Refreshers : refresh[r].pc = "fenced" /\ r \notin dead => r \notin overtaken

(* The secrets beside the leading refresh are as new as its authorization.   *)
Floor ==
  \A r \in Refreshers : Leader(r) =>
    /\ WriteGeneration(refresh[r].auth, 0) <= secrets.access.gen
    /\ WriteGeneration(refresh[r].auth, 0) <= secrets.refresh.gen

(* A refresh never reads the token of an older authorization.                *)
ReadsForward ==
  \A r \in Refreshers : refresh[r].token.grant # None => refresh[r].auth <= refresh[r].token.grant

WrittenBy(s, steps) ==
  Present(s) =>
    \/ \E c \in Flows : s.gen = WriteGeneration(c, 0) /\ s.token = Issued(c)
    \/ \E r \in Fenced : /\ s.gen = RefreshGeneration(r) /\ s.token = refresh[r].token
                         /\ refresh[r].pc \in steps

Authors ==
  /\ WrittenBy(secrets.access, {"half", "stored", "done"})
  /\ WrittenBy(secrets.refresh, {"stored", "done"})

(* A refresh has a token of the grant that it may not store.                 *)
Astray(g) ==
  \E r \in Refreshers : /\ refresh[r].token.grant = g
                        /\ Misread(r) \/ r \in overtaken \/ (r \in dead /\ refresh[r].pc = "got")

(* Nobody is to revoke the grant for the code: it told the person, or the    *)
(* grant is astray.                                                          *)
Given(g) == g \in left \/ Astray(g)

(* Whose tokens the stored ones and the read ones are.                       *)
Provenance == FencedLead /\ Floor /\ ReadsForward /\ Authors

LEMMA AstrayStays ==
  ASSUME TypeOK, RealTokens, [Next]_vars, NEW g \in Flows
  PROVE  (Astray(g) => Astray(g)') /\ (Given(g) => Given(g)')
<1>0. refresh \in [Refreshers -> Refresh] /\ None \notin Flows
  BY TokensTyped DEF TypeOK
<1>1. ASSUME NEW r \in Refreshers, refresh[r].token.grant = g
      PROVE  /\ refresh'[r].token.grant = g /\ refresh'[r].auth = refresh[r].auth
             /\ r \in dead => refresh'[r] = refresh[r] \/ refresh[r].pc # "got"
  <2>1. r \in Fenced
    <3>1. refresh[r].token # NoToken
      BY <1>0, <1>1, TokensTyped
    <3> QED
      BY <3>1 DEF RealTokens, Fenced
  <2>2. refresh'[r].token.grant = g
    BY <1>0, <1>1, RefreshTokensMove, TokensTyped DEF TokenGoesOn
  <2>3. r \in dead /\ refresh[r].pc = "got" => refresh'[r] = refresh[r]
    <3>1. ~Fence(r)
      BY <2>1, AdmittedOnce
    <3>2. r \in dead => ~PutAccessAgain(r) /\ ~PutRefreshAgain(r)
      BY DEF PutAccessAgain, PutRefreshAgain, Runs
    <3> QED
      BY <3>1, <3>2, RefreshesMove DEF RefreshGoesOn
  <2> QED
    BY <2>1, <2>2, <2>3, AdmittedOnce
<1>2. ASSUME Astray(g) PROVE Astray(g)'
  <2>1. PICK r \in Refreshers :
          /\ refresh[r].token.grant = g
          /\ Misread(r) \/ r \in overtaken \/ (r \in dead /\ refresh[r].pc = "got")
    BY <1>2 DEF Astray
  <2>2. Misread(r) => Misread(r)'
    BY <1>1, <2>1 DEF Misread
  <2>3. r \in overtaken => r \in overtaken'
    BY OvertakenMove
  <2>4. r \in dead /\ refresh[r].pc = "got" => r \in dead' /\ refresh'[r].pc = "got"
    BY <1>1, <2>1, LapsesMove
  <2> QED
    BY <1>1, <2>1, <2>2, <2>3, <2>4 DEF Astray
<1> QED
  BY <1>2, LeftGrows DEF Given

(* Whose token a secret holds is told by the generation it was written at.   *)
LEMMA Authored ==
  ASSUME TypeOK, Quiet, FewFences, RealTokens, ReadsForward, Authors,
         NEW s \in {secrets.access, secrets.refresh}, Present(s)
  PROVE  /\ s.token.grant \in Flows
         /\ \A k \in Nat : WriteGeneration(k, 0) <= s.gen => k <= s.token.grant
         /\ \A k \in Nat, n \in Nat :
              s.gen <= WriteGeneration(k, n) /\ n < Stride => s.token.grant <= k \/ Astray(s.token.grant)
         /\ \/ Astray(s.token.grant)
            \/ \E c \in Flows : s.gen = WriteGeneration(c, 0) /\ s.token = Issued(c)
            \/ \E r \in Fenced : s.gen = RefreshGeneration(r) /\ refresh[r].auth = s.token.grant
<1>0. /\ None \notin Flows /\ Flows \subseteq Nat /\ s.gen \in Nat /\ s.token.grant \in Flows
      /\ Stride \in Nat /\ 0 < Stride /\ 0 \in Nat
  <2>1. s \in Secret /\ s.token.grant \in Flows \cup {None} /\ s.token.grant # None
    BY TokensTyped DEF RealTokens
  <2>2. Cardinality(Refreshers) \in Nat
    BY ConnectionConstants, FS_CardinalityType
  <2> QED
    BY <2>1, <2>2, Sorts, ConnectionConstants, TokensTyped DEF Secret
<1>1. \/ \E c \in Flows : s.gen = WriteGeneration(c, 0) /\ s.token = Issued(c)
      \/ \E r \in Fenced : s.gen = RefreshGeneration(r) /\ s.token = refresh[r].token
  BY DEF Authors, WrittenBy
<1>2. CASE \E c \in Flows : s.gen = WriteGeneration(c, 0) /\ s.token = Issued(c)
  <2>1. PICK c \in Flows : s.gen = WriteGeneration(c, 0) /\ s.token = Issued(c)
    BY <1>2
  <2>2. s.token.grant = c /\ c \in Nat
    BY <1>0, <2>1 DEF Issued
  <2>3. ASSUME NEW k \in Nat, WriteGeneration(k, 0) <= s.gen PROVE k <= c
    <3>1. c < k => WriteGeneration(c, 0) < WriteGeneration(k, 0)
      BY <1>0, <2>2, Ordered
    <3>2. WriteGeneration(c, 0) \in Nat /\ WriteGeneration(k, 0) \in Nat
      BY <1>0, <2>2, Written
    <3> QED
      BY <2>1, <2>2, <2>3, <3>1, <3>2
  <2>4. ASSUME NEW k \in Nat, NEW n \in Nat, n < Stride, s.gen <= WriteGeneration(k, n) PROVE c <= k
    <3>1. k < c => WriteGeneration(k, n) < WriteGeneration(c, 0)
      BY <1>0, <2>2, <2>4, Ordered
    <3>2. WriteGeneration(c, 0) \in Nat /\ WriteGeneration(k, n) \in Nat
      BY <1>0, <2>2, Written
    <3> QED
      BY <2>1, <2>2, <2>4, <3>1, <3>2
  <2> QED
    BY <1>0, <1>2, <2>2, <2>3, <2>4
<1>3. CASE \E r \in Fenced : s.gen = RefreshGeneration(r) /\ s.token = refresh[r].token
  <2>1. PICK r \in Fenced : s.gen = RefreshGeneration(r) /\ s.token = refresh[r].token
    BY <1>3
  <2>2. /\ refresh[r].gen \in Nat /\ refresh[r].gen < Stride /\ refresh[r].auth \in Nat
        /\ refresh[r].auth <= s.token.grant /\ r \in Refreshers /\ s.token.grant = refresh[r].token.grant
        /\ s.gen = WriteGeneration(refresh[r].auth, refresh[r].gen)
    BY <1>0, <2>1, BelowStride DEF ReadsForward, Fenced, TypeOK, Refresh, RefreshGeneration
  <2>3. refresh[r].auth = s.token.grant \/ Astray(s.token.grant)
    BY <1>0, <2>2 DEF Astray, Misread
  <2>4. ASSUME NEW k \in Nat, WriteGeneration(k, 0) <= s.gen PROVE k <= s.token.grant
    <3>1. refresh[r].auth < k => s.gen < WriteGeneration(k, 0)
      BY <1>0, <2>2, Ordered
    <3>2. WriteGeneration(k, 0) \in Nat /\ s.token.grant \in Nat
      BY <1>0, Written
    <3>3. ~(refresh[r].auth < k)
      BY <1>0, <2>4, <3>1, <3>2
    <3> QED
      BY <2>2, <3>2, <3>3
  <2>5. ASSUME NEW k \in Nat, NEW n \in Nat, n < Stride, s.gen <= WriteGeneration(k, n),
               refresh[r].auth = s.token.grant
        PROVE  s.token.grant <= k
    <3>1. k < refresh[r].auth => WriteGeneration(k, n) < s.gen
      BY <1>0, <2>2, <2>5, Ordered
    <3>2. WriteGeneration(k, n) \in Nat
      BY <1>0, Written
    <3> QED
      BY <1>0, <2>2, <2>5, <3>1, <3>2
  <2> QED
    BY <1>0, <2>1, <2>2, <2>3, <2>4, <2>5
<1> QED
  BY <1>1, <1>2, <1>3

LEMMA StepFloor ==
  ASSUME Paired, Led, TypeOK', Floor, [Next]_vars
  PROVE  Floor'
<1>0. /\ TypeOK /\ Quiet /\ WorkersHold /\ FlowsInTime
      /\ secrets.access.gen \in Nat /\ secrets.refresh.gen \in Nat
      /\ secrets'.access.gen \in Nat /\ secrets'.refresh.gen \in Nat
      /\ \A r \in Refreshers : refresh[r].auth \in Nat
  <2>1. TypeOK /\ Quiet /\ WorkersHold /\ FlowsInTime
    BY DEF Paired, Quiet, Led
  <2> QED
    BY <2>1 DEF TypeOK, Secret, Refresh
<1> SUFFICES ASSUME NEW r \in Refreshers, Leader(r)'
             PROVE  /\ WriteGeneration(refresh'[r].auth, 0) <= secrets'.access.gen
                    /\ WriteGeneration(refresh'[r].auth, 0) <= secrets'.refresh.gen
  BY DEF Floor, WriteGeneration
<1>1. CASE Fence(r)
  <2>1. /\ refresh'[r].auth = row.cred /\ row.status = "connected" /\ secrets' = secrets
    BY <1>0, <1>1, FenceAdmits
  <2> QED
    BY <2>1 DEF Paired, OnePair, OfCredential
<1>2. CASE ~Fence(r)
  <2>1. Leader(r) /\ refresh'[r].auth = refresh[r].auth
    BY <1>0, <1>2, LeadersMove
  <2>2. /\ WriteGeneration(refresh[r].auth, 0) <= secrets.access.gen
        /\ WriteGeneration(refresh[r].auth, 0) <= secrets.refresh.gen
        /\ WriteGeneration(refresh[r].auth, 0) \in Nat
    BY <1>0, <2>1, Written DEF Floor
  <2>3. secrets.access.gen <= secrets'.access.gen
    BY <1>0, <2>1, AccessMoves, StoringAccess, RestoringAccess, Sweeping DEF IsPut
  <2>4. secrets.refresh.gen <= secrets'.refresh.gen
    BY <1>0, <2>1, RefreshMovesOn, StoringRefresh, RestoringRefresh, Sweeping DEF IsPut
  <2> QED
    BY <1>0, <2>1, <2>2, <2>3, <2>4
<1> QED
  BY <1>1, <1>2

LEMMA StepFencedLead ==
  ASSUME Paired, Led, FencedInTime, FencedLead, [Next]_vars
  PROVE  FencedLead'
<1>0. TypeOK /\ Quiet /\ clock.lapsed \in Nat /\ row.lease \in Nat
      /\ \A r \in Refreshers : refresh[r].lease \in Nat
  BY DEF Paired, Quiet, TypeOK, Row, Refresh
<1> SUFFICES ASSUME NEW r \in Refreshers, refresh'[r].pc = "fenced", r \notin dead', r \in overtaken'
             PROVE  FALSE
  BY DEF FencedLead
<1>1. CASE Fence(r)
  <2>1. refresh[r].pc = "idle" /\ r \notin overtaken /\ LeaseOf(r) = 0
    BY <1>0, <1>1, FenceAdmits, Kinds DEF Led, FlowsInTime, Fenced
  <2> QED
    BY <1>1, <2>1 DEF Fence
<1>2. CASE ~Fence(r)
  <2>1. refresh[r].pc = "fenced" /\ r \notin dead
    BY <1>0, <1>2, RefreshesMove, LapsesMove DEF RefreshGoesOn
  <2>2. r \notin overtaken /\ LeaseOf(r) > clock.lapsed
    BY <2>1, Kinds DEF FencedLead, FencedInTime
  <2>3. PICK q \in Refreshers : Fence(q)
    BY <2>2, OvertakenMove
  <2>4. row.lease <= clock.lapsed /\ LeaseOf(r) \in 1 .. row.lease
    BY <2>2, <2>3 DEF Fence, Fenceable
  <2> QED
    BY <1>0, <2>2, <2>4, Kinds
<1> QED
  BY <1>1, <1>2

LEMMA StepReadsForward ==
  ASSUME Paired, RealTokens, FencedLead, Floor, ReadsForward, Authors, TypeOK', [Next]_vars
  PROVE  ReadsForward'
<1>0. /\ TypeOK /\ Quiet /\ FewFences /\ None \notin Flows /\ NoToken.grant = None
      /\ \A r \in Refreshers : refresh[r].auth \in Nat
  <2>1. TypeOK /\ Quiet /\ FewFences
    BY DEF Paired, Quiet
  <2> QED
    BY <2>1, TokensTyped DEF TypeOK, Refresh
<1> SUFFICES ASSUME NEW r \in Refreshers, refresh'[r].token.grant # None
             PROVE  refresh'[r].auth <= refresh'[r].token.grant
  BY DEF ReadsForward
<1>1. CASE refresh'[r].token.grant = refresh[r].token.grant
  <2>1. r \in Fenced
    BY <1>0, <1>1 DEF RealTokens, Fenced
  <2> QED
    BY <1>0, <1>1, <2>1, AdmittedOnce DEF ReadsForward
<1>2. CASE ReadToken(r) /\ refresh'[r].token = secrets.refresh.token
  <2>1. /\ refresh[r].pc = "fenced" /\ r \notin dead /\ r \in Fenced
        /\ r \notin overtaken
    BY <1>2 DEF ReadToken, Runs, Fenced, FencedLead
  <2>2. Leader(r)
    BY <2>1, Kinds DEF Leader, Leading
  <2>3. WriteGeneration(refresh[r].auth, 0) <= secrets.refresh.gen
    BY <2>2 DEF Floor
  <2>4. Present(secrets.refresh)
    <3>1. refresh[r].auth \in Nat /\ refresh[r].auth > 0
      <4>1. refresh[r].auth \in Flows
        BY <1>0, <2>1, AllBegun
      <4>2. refresh[r].auth \in Nat \ {0}
        BY <4>1, Sorts
      <4> QED
        BY <4>2
    <3>2. WriteGeneration(refresh[r].auth, 0) > 0 /\ WriteGeneration(refresh[r].auth, 0) \in Nat
      BY <3>1, Counted, Written
    <3>3. secrets.refresh.gen \in Nat
      BY <1>0 DEF TypeOK, Secret
    <3> QED
      BY <2>3, <3>2, <3>3 DEF Present, None
  <2>5. refresh[r].auth <= secrets.refresh.token.grant
    BY <1>0, <2>3, <2>4, Authored
  <2> QED
    BY <1>0, <1>2, <2>1, <2>5, AdmittedOnce
<1> QED
  BY <1>0, <1>1, <1>2, RefreshTokensMove DEF TokenGoesOn

LEMMA StepAuthors ==
  ASSUME Paired, Led, RealTokens, Authors, TypeOK', [Next]_vars
  PROVE  Authors'
<1>0. TypeOK /\ Quiet /\ WorkersHold /\ FlowsInTime
  BY DEF Paired, Quiet, Led
<1>1. ASSUME NEW r \in Fenced, refresh[r].pc \in {"half", "stored", "done"}
      PROVE  /\ r \in Fenced' /\ refresh'[r].token = refresh[r].token
             /\ RefreshGeneration(r)' = RefreshGeneration(r)
             /\ refresh'[r].pc \in {"half", "stored", "done"}
             /\ refresh[r].pc # "half" => refresh'[r].pc # "half"
  <2>1. /\ ~Fence(r) /\ r \in Fenced' /\ r \in Refreshers
        /\ refresh'[r].auth = refresh[r].auth /\ refresh'[r].gen = refresh[r].gen
    BY <1>0, AdmittedOnce DEF Fenced
  <2> QED
    BY <1>0, <1>1, <2>1, RefreshesMove DEF RefreshGoesOn, RefreshGeneration, WriteGeneration
<1>2. ASSUME NEW s, NEW s2, s2 = s,
             WrittenBy(s, {"half", "stored", "done"})
      PROVE  Present(s2) =>
               \/ \E c \in Flows : s2.gen = WriteGeneration(c, 0) /\ s2.token = Issued(c)
               \/ \E r \in Fenced' : /\ s2.gen = RefreshGeneration(r)' /\ s2.token = refresh'[r].token
                                     /\ refresh'[r].pc \in {"half", "stored", "done"}
  BY <1>1, <1>2 DEF WrittenBy
<1>3. ASSUME NEW s, NEW s2, s2 = s,
             WrittenBy(s, {"stored", "done"})
      PROVE  Present(s2) =>
               \/ \E c \in Flows : s2.gen = WriteGeneration(c, 0) /\ s2.token = Issued(c)
               \/ \E r \in Fenced' : /\ s2.gen = RefreshGeneration(r)' /\ s2.token = refresh'[r].token
                                     /\ refresh'[r].pc \in {"stored", "done"}
  BY <1>1, <1>3 DEF WrittenBy
<1>4. ASSUME NEW s, NEW n PROVE ~Present(Swept(s, n)) \/ Swept(s, n) = s
  BY DEF Swept, Empty, Present
<1>5. Present(secrets'.access) =>
        \/ \E c \in Flows : secrets'.access.gen = WriteGeneration(c, 0) /\ secrets'.access.token = Issued(c)
        \/ \E r \in Fenced' : /\ secrets'.access.gen = RefreshGeneration(r)'
                              /\ secrets'.access.token = refresh'[r].token
                              /\ refresh'[r].pc \in {"half", "stored", "done"}
  <2>1. CASE secrets'.access = secrets.access
    BY <1>2, <2>1 DEF Authors
  <2>2. ASSUME NEW c \in Flows, StoresAccess(c)
        PROVE  secrets'.access.gen = WriteGeneration(c, 0) /\ secrets'.access.token = Issued(c)
    BY <1>0, <2>2, StoringAccess DEF IsPut
  <2>3. ASSUME NEW r \in Refreshers, RestoresAccess(r)
        PROVE  /\ r \in Fenced' /\ secrets'.access.gen = RefreshGeneration(r)'
               /\ secrets'.access.token = refresh'[r].token /\ refresh'[r].pc = "half"
    BY <1>0, <2>3, RestoringAccess DEF IsPut, Fenced, RefreshGeneration, WriteGeneration
  <2>4. ASSUME NEW d \in Removers, SweepAccess(d)
        PROVE  ~Present(secrets'.access) \/ secrets'.access = secrets.access
    BY <1>0, <1>4, <2>4, Sweeping
  <2> QED
    BY <1>0, <2>1, <2>2, <2>3, <2>4, AccessMoves
<1>6. Present(secrets'.refresh) =>
        \/ \E c \in Flows : secrets'.refresh.gen = WriteGeneration(c, 0) /\ secrets'.refresh.token = Issued(c)
        \/ \E r \in Fenced' : /\ secrets'.refresh.gen = RefreshGeneration(r)'
                              /\ secrets'.refresh.token = refresh'[r].token
                              /\ refresh'[r].pc \in {"stored", "done"}
  <2>1. CASE secrets'.refresh = secrets.refresh
    BY <1>3, <2>1 DEF Authors
  <2>2. ASSUME NEW c \in Flows, StoresRefresh(c)
        PROVE  secrets'.refresh.gen = WriteGeneration(c, 0) /\ secrets'.refresh.token = Issued(c)
    BY <1>0, <2>2, StoringRefresh DEF IsPut
  <2>3. ASSUME NEW r \in Refreshers, RestoresRefresh(r)
        PROVE  /\ r \in Fenced' /\ secrets'.refresh.gen = RefreshGeneration(r)'
               /\ secrets'.refresh.token = refresh'[r].token /\ refresh'[r].pc = "stored"
    BY <1>0, <2>3, RestoringRefresh DEF IsPut, Fenced, RefreshGeneration, WriteGeneration
  <2>4. ASSUME NEW d \in Removers, SweepRefresh(d)
        PROVE  ~Present(secrets'.refresh) \/ secrets'.refresh = secrets.refresh
    BY <1>0, <1>4, <2>4, Sweeping
  <2> QED
    BY <1>0, <2>1, <2>2, <2>3, <2>4, RefreshMovesOn
<1> QED
  BY <1>5, <1>6 DEF Authors, WrittenBy, Present, Issued, WriteGeneration
-------------------------------------------------------------------------------
(* The leading refresh finds its own authorization's tokens in the secrets,  *)
(* or those of a grant that is the person's or astray.                       *)
LeaderPair ==
  \A r \in Refreshers : Leader(r) /\ ~Given(refresh[r].auth) =>
    /\ secrets.access.token.grant = refresh[r].auth
    /\ secrets.refresh.token.grant = refresh[r].auth
    /\ \A q \in Fenced : refresh[q].auth = refresh[r].auth =>
                            refresh[q].token.grant \in {None, refresh[r].auth}

(* A refresh that may put beside the leading one is of its authorization.    *)
LEMMA PutByPeer ==
  ASSUME Paired, Led, Floor, NEW r \in Refreshers, Leader(r), NEW q \in Fenced,
         NEW s \in {secrets.access, secrets.refresh}, s.gen <= RefreshGeneration(q)
  PROVE  refresh[q].auth = refresh[r].auth
<1>0. /\ TypeOK /\ FewFences /\ r \in Fenced /\ q \in Refreshers
      /\ refresh[r].auth \in Nat /\ refresh[q].auth \in Nat /\ s.gen \in Nat /\ s \in Secret
      /\ WriteGeneration(refresh[r].auth, 0) <= s.gen
  <2>1. TypeOK /\ FewFences
    BY DEF Paired, Quiet
  <2> QED
    BY <2>1 DEF Leader, Fenced, TypeOK, Refresh, Secret, Floor
<1>1. ~(refresh[q].auth < refresh[r].auth)
  BY <1>0, OlderStandBack DEF Puttable
<1>2. refresh[q].auth <= refresh[r].auth
  BY <1>0 DEF Led, LeaderTop
<1> QED
  BY <1>0, <1>1, <1>2

LEMMA AdmittedPair ==
  ASSUME Paired, RealTokens, OneToken, Authors, row.status = "connected"
  PROVE  secrets.access.token.grant = row.cred /\ secrets.refresh.token.grant = row.cred
<1>0. /\ TypeOK /\ Quiet /\ FewFences /\ None \notin Flows /\ row.cred \in Flows /\ row.cred \in Nat
      /\ Flows \subseteq Nat
  <2>1. TypeOK /\ Quiet /\ FewFences /\ row.cred # None
    BY DEF Paired, Quiet, Admitted
  <2> QED
    BY <2>1, Counters, TokensTyped
<1>1. row.gen \in Nat /\ row.gen < Stride
  BY <1>0, BelowStride
<1>2. OfCredential(secrets.access) /\ secrets.access.gen \in Nat
  BY <1>0 DEF Paired, OnePair, TypeOK, Secret
<1>3. Present(secrets.access) /\ secrets.access.token.grant # None
  <2>1. WriteGeneration(row.cred, 0) \in Nat /\ WriteGeneration(row.cred, 0) > 0
    <3>1. row.cred \in Nat \ {0}
      BY <1>0, Sorts
    <3> QED
      BY <3>1, Counted, Written
  <2>2. Present(secrets.access)
    BY <1>2, <2>1 DEF OfCredential, Present, None
  <2> QED
    BY <2>2 DEF RealTokens
<1>4. ASSUME NEW a \in Nat, NEW g \in Nat, g < Stride, secrets.access.gen = WriteGeneration(a, g)
      PROVE  a = row.cred
  <2>1. a < row.cred => WriteGeneration(a, g) < WriteGeneration(row.cred, 0)
    BY <1>0, <1>4, Ordered
  <2>2. row.cred < a => WriteGeneration(row.cred, row.gen) < WriteGeneration(a, g)
    BY <1>0, <1>1, Ordered
  <2>3. /\ WriteGeneration(a, g) \in Nat /\ WriteGeneration(row.cred, 0) \in Nat
        /\ WriteGeneration(row.cred, row.gen) \in Nat
    BY <1>0, <1>1, Written
  <2>4. ~(a < row.cred) /\ ~(row.cred < a)
    BY <1>2, <1>4, <2>1, <2>2, <2>3 DEF OfCredential
  <2> QED
    BY <1>0, <2>4
<1>5. ASSUME NEW c \in Flows, secrets.access.gen = WriteGeneration(c, 0), secrets.access.token = Issued(c)
      PROVE  secrets.access.token.grant = row.cred
  <2>1. 0 < Stride /\ c \in Nat /\ 0 \in Nat
    BY <1>0, <1>1, ConnectionConstants
  <2>2. c = row.cred
    BY <1>4, <1>5, <2>1
  <2> QED
    BY <1>5, <2>2 DEF Issued
<1>6. ASSUME NEW r \in Fenced, secrets.access.gen = RefreshGeneration(r),
             secrets.access.token = refresh[r].token
      PROVE  secrets.access.token.grant = row.cred
  <2>1. refresh[r].auth \in Nat /\ refresh[r].gen \in Nat /\ refresh[r].gen < Stride
    BY <1>0, BelowStride DEF Fenced, TypeOK, Refresh
  <2>2. refresh[r].auth = row.cred
    BY <1>4, <1>6, <2>1 DEF RefreshGeneration
  <2> QED
    BY <1>3, <1>6, <2>2 DEF OneToken
<1> QED
  BY <1>3, <1>5, <1>6 DEF Authors, WrittenBy, OneToken

LEMMA StepLeaderPair ==
  ASSUME Paired, Led, RealTokens, OneToken, Provenance, LeaderPair, TypeOK', [Next]_vars
  PROVE  LeaderPair'
<1>0. /\ TypeOK /\ Quiet /\ WorkersHold /\ FlowsInTime /\ None \notin Flows
      /\ \A q \in Fenced : refresh[q].auth \in Flows
  <2>1. TypeOK /\ Quiet /\ WorkersHold /\ FlowsInTime
    BY DEF Paired, Quiet, Led
  <2> QED
    BY <2>1, TokensTyped, AllBegun
<1> SUFFICES ASSUME NEW r \in Refreshers, Leader(r)', ~Given(refresh[r].auth)'
             PROVE  /\ secrets'.access.token.grant = refresh'[r].auth
                    /\ secrets'.refresh.token.grant = refresh'[r].auth
                    /\ \A q \in Fenced' : refresh'[q].auth = refresh'[r].auth =>
                                            refresh'[q].token.grant \in {None, refresh'[r].auth}
  BY DEF LeaderPair
<1>1. CASE Fence(r)
  <2>1. /\ refresh'[r].auth = row.cred /\ row.status = "connected" /\ secrets' = secrets
        /\ refresh'[r].token.grant = None
        /\ \A q \in Refreshers \ {r} : refresh'[q] = refresh[q]
    BY <1>0, <1>1, FenceAdmits, TokensTyped
  <2>2. ASSUME NEW q \in Fenced', refresh'[q].auth = refresh'[r].auth, q # r
        PROVE  refresh'[q].token.grant \in {None, refresh'[r].auth}
    <3>1. q \in Fenced /\ refresh'[q] = refresh[q]
      BY <2>1, <2>2 DEF Fenced
    <3> QED
      BY <2>1, <2>2, <3>1 DEF OneToken
  <2> QED
    BY <2>1, <2>2, AdmittedPair DEF Provenance
<1>2. CASE ~Fence(r)
  <2> DEFINE g == refresh[r].auth
  <2>1. /\ Leader(r) /\ refresh'[r].auth = g /\ \A q \in Refreshers : ~Fence(q)
        /\ r \in Fenced /\ g \in Flows
    BY <1>0, <1>2, LeadersMove DEF Leader, Fenced
  <2>2. ~Given(g) /\ g \notin left'
    <3>1. ~Given(g)'
      BY <2>1 DEF Given, Astray, Misread
    <3> QED
      BY <1>0, <2>1, <3>1, AstrayStays DEF Given
  <2>3. /\ secrets.access.token.grant = g /\ secrets.refresh.token.grant = g
        /\ \A q \in Fenced : refresh[q].auth = g => refresh[q].token.grant \in {None, g}
    BY <2>1, <2>2 DEF LeaderPair
  <2>4. ASSUME NEW q \in Refreshers, refresh[q].pc \in Reading,
               NEW s \in {secrets.access, secrets.refresh}, s.gen <= RefreshGeneration(q)
        PROVE  refresh[q].token.grant = g
    <3>1. q \in Fenced /\ refresh[q].token.grant # None
      BY <2>4 DEF Fenced, RealTokens, Reading
    <3>2. refresh[q].auth = g
      BY <2>1, <2>4, <3>1, PutByPeer DEF Provenance
    <3> QED
      BY <2>3, <3>1, <3>2
  <2>5. secrets'.access.token.grant = g
    <3>1. ASSUME NEW c \in Flows, StoresAccess(c) PROVE FALSE
      BY <1>0, <2>2, <2>3, <3>1, StoringAccess
    <3>2. ASSUME NEW q \in Refreshers, RestoresAccess(q) PROVE secrets'.access.token.grant = g
      BY <1>0, <2>4, <3>2, RestoringAccess DEF IsPut, Reading
    <3>3. ASSUME NEW d \in Removers, SweepAccess(d) PROVE FALSE
      BY <1>0, <2>1, <3>3, Sweeping
    <3> QED
      BY <1>0, <2>3, <3>1, <3>2, <3>3, AccessMoves
  <2>6. secrets'.refresh.token.grant = g
    <3>1. ASSUME NEW c \in Flows, StoresRefresh(c) PROVE FALSE
      BY <1>0, <2>2, <2>3, <3>1, StoringRefresh
    <3>2. ASSUME NEW q \in Refreshers, RestoresRefresh(q) PROVE secrets'.refresh.token.grant = g
      BY <1>0, <2>4, <3>2, RestoringRefresh DEF IsPut, Reading
    <3>3. ASSUME NEW d \in Removers, SweepRefresh(d) PROVE FALSE
      BY <1>0, <2>1, <3>3, Sweeping
    <3> QED
      BY <1>0, <2>3, <3>1, <3>2, <3>3, RefreshMovesOn
  <2>7. ASSUME NEW q \in Fenced', refresh'[q].auth = g PROVE refresh'[q].token.grant \in {None, g}
    <3>1. q \in Fenced /\ q \in Refreshers /\ refresh[q].auth = g
      BY <1>0, <2>1, <2>7, AdmittedNow, AdmittedOnce DEF Fenced
    <3> QED
      BY <1>0, <2>3, <3>1, RefreshTokensMove DEF TokenGoesOn
  <2> QED
    BY <2>1, <2>5, <2>6, <2>7
<1> QED
  BY <1>1, <1>2
-------------------------------------------------------------------------------
(* How a callback goes on.                                                   *)
CallbackGoesOn(c) ==
  \/ flow'[c].pc = flow[c].pc
  \/ Start /\ flow[c].pc = "none" /\ flow'[c].pc = "pending"
  \/ Consume(c) /\ flow[c].pc = "pending" /\ flow'[c].pc = "consumed"
  \/ Exchange(c) /\ flow[c].pc = "consumed" /\ flow'[c].pc \in {"moving", "issued"}
  \/ Withdraw(c) /\ flow[c].pc = "moving" /\ flow'[c].pc = "issued"
  \/ Retire(c) /\ Retirable(c) /\ flow[c].pc = "issued" /\ flow'[c].pc = "writing"
  \/ Retire(c) /\ ~Retirable(c) /\ flow[c].pc = "issued" /\ flow'[c].pc = "refused"
  \/ StoresAccess(c) /\ flow[c].pc = "writing" /\ flow'[c].pc = "half"
  \/ StoresRefresh(c) /\ flow[c].pc = "half" /\ flow'[c].pc = "stored"
  \/ flow[c].pc \in {"writing", "half"} /\ flow'[c].pc = "failed"
  \/ Publish(c) /\ Publishable(c) /\ flow[c].pc = "stored" /\ flow'[c].pc = "done"
  \/ Publish(c) /\ ~Publishable(c) /\ flow[c].pc = "stored" /\ flow'[c].pc = "unpublished"
  \/ Settle(c) /\ flow[c].pc \in {"refused", "unpublished"} /\ flow'[c].pc = "done"
  \/ GiveUp(c) /\ flow[c].pc = "failed" /\ flow'[c].pc = "done"

LEMMA CallbacksMove ==
  ASSUME Quiet, [Next]_vars, NEW c \in Flows
  PROVE  CallbackGoesOn(c)
<1>0. /\ TypeOK /\ flow \in [Flows -> Flow] /\ row.auth \in Nat
  BY DEF Quiet, TypeOK, Row
<1>1. ASSUME NEW k \in Flows, NEW p, k # c, flow' = [flow EXCEPT ![k] = p] PROVE flow'[c] = flow[c]
  BY <1>0, <1>1
<1>2. ASSUME NEW p, flow' = [flow EXCEPT ![c].pc = p] PROVE flow'[c].pc = p
  BY <1>0, <1>2 DEF Flow
<1>3. CASE Start
  <2>1. CASE c = row.auth + 1
    <3>1. flow'[c].pc = "pending"
      BY <1>2, <1>3, <2>1 DEF Start
    <3>2. flow[c].pc = "none"
      BY <1>0, <2>1 DEF Quiet, Generations, Begins
    <3> QED
      BY <1>3, <3>1, <3>2 DEF CallbackGoesOn
  <2>2. CASE c # row.auth + 1
    <3>1. flow'[c] = flow[c]
      BY <1>0, <1>3, <2>2 DEF Start
    <3> QED
      BY <3>1 DEF CallbackGoesOn
  <2> QED
    BY <2>1, <2>2
<1>4. CASE Consume(c)
  <2>1. flow'[c].pc = "consumed"
    BY <1>0, <1>4 DEF Consume, NoFlow
  <2> QED
    BY <1>4, <2>1 DEF CallbackGoesOn, Consume
<1>5. CASE Exchange(c)
  <2>1. PICK p \in {"moving", "issued"} : flow' = [flow EXCEPT ![c].pc = p]
    BY <1>5 DEF Exchange
  <2>2. flow'[c].pc = p
    BY <1>2, <2>1
  <2> QED
    BY <1>5, <2>2 DEF CallbackGoesOn, Exchange
<1>6. CASE Withdraw(c)
  BY <1>2, <1>6 DEF CallbackGoesOn, Withdraw
<1>7. CASE Retire(c)
  <2>1. CASE Retirable(c)
    <3> DEFINE v == [flow[c] EXCEPT !.pc = "writing", !.lease = clock.taken + 1, !.inherited = row.lease]
    <3>1. v.pc = "writing"
      BY <1>0 DEF Flow
    <3>2. flow' = [flow EXCEPT ![c] = v] /\ flow[c].pc = "issued"
      BY <1>7, <2>1 DEF Retire
    <3> HIDE DEF v
    <3>3. flow'[c].pc = "writing"
      BY <1>0, <3>1, <3>2
    <3> QED
      BY <1>7, <2>1, <3>2, <3>3 DEF CallbackGoesOn
  <2>2. CASE ~Retirable(c)
    BY <1>2, <1>7, <2>2 DEF CallbackGoesOn, Retire
  <2> QED
    BY <2>1, <2>2
<1>8. CASE PutAccess(c)
  BY <1>2, <1>8 DEF CallbackGoesOn, PutAccess, StoresAccess
<1>9. CASE PutRefresh(c)
  BY <1>2, <1>9 DEF CallbackGoesOn, PutRefresh, StoresRefresh
<1>10. CASE PutFails(c)
  BY <1>2, <1>10 DEF CallbackGoesOn, PutFails
<1>11. CASE Publish(c)
  BY <1>2, <1>11 DEF CallbackGoesOn, Publish
<1>12. CASE Settle(c) \/ GiveUp(c)
  BY <1>2, <1>12 DEF CallbackGoesOn, Settle, GiveUp
<1>13. ASSUME NEW k \in Flows, k # c, FlowNext(k) PROVE CallbackGoesOn(c)
  <2>1. flow'[c] = flow[c]
    BY <1>0, <1>13 DEF FlowNext, Consume, Exchange, Withdraw, Retire, PutAccess, PutRefresh, PutFails,
         Publish, Settle, GiveUp
  <2> QED
    BY <2>1 DEF CallbackGoesOn
<1>14. CASE UNCHANGED flow
  BY <1>14 DEF CallbackGoesOn
<1>15. CASE ~Start /\ ~(\E k \in Flows : FlowNext(k))
  <2>1. UNCHANGED flow
    BY <1>15 DEF Next, RefreshNext, RemovalNext, vars, LeaseLapses, LeaseIsOver, HoldLapses, BreaksOff,
         Fence, ReadToken, Refreshed, Refused, Unreachable, PutAccessAgain, PutRefreshAgain, Commit,
         Disconnect, TakeHold, Look, Send, SendFails, SendAccess, Renew, Mark, SweepRefresh,
         SweepAccess, Delete, SweepFails
  <2> QED
    BY <1>14, <2>1
<1> QED
  BY <1>3, <1>4, <1>5, <1>6, <1>7, <1>8, <1>9, <1>10, <1>11, <1>12, <1>13, <1>15 DEF FlowNext

-------------------------------------------------------------------------------
(* The authorizations that are known to have stored an access token, or      *)
(* their pair, and those whose callback or refresh may still store.          *)

HaveStored(steps) ==
  {None, row.cred, secrets.refresh.token.grant} \cup {c \in Flows : flow[c].pc \in steps}
    \cup {refresh[r].auth : r \in Fenced} \cup {refresh[r].token.grant : r \in Refreshers}

AccessStored == HaveStored({"half", "stored"})
PairStored == HaveStored({"stored"})

Storing == {c \in Flows : c \notin dead /\ flow[c].pc \in Puttings}
             \cup {refresh[r].auth : r \in {q \in Refreshers : Leader(q)}}

(* One of them stands back behind a newer one that has stored.               *)
StandBack ==
  \A a \in Storing :
    /\ \A k \in AccessStored : a < k => WriteGeneration(k, 0) <= secrets.access.gen
    /\ \A k \in PairStored : a < k => WriteGeneration(k, 0) <= secrets.refresh.gen

(* So what a secret holds is of the newest that stored it, unless it is of a *)
(* grant that is the person's or astray.                                     *)
NewestKept ==
  /\ secrets.access.token.grant # None =>
       \A k \in AccessStored : secrets.access.token.grant < k => Given(secrets.access.token.grant)
  /\ secrets.refresh.token.grant # None =>
       \A k \in PairStored : secrets.refresh.token.grant < k => Given(secrets.refresh.token.grant)

LEMMA StoredBegun ==
  ASSUME Paired, Known
  PROVE  /\ PairStored \subseteq AccessStored /\ AccessStored \subseteq Nat
         /\ \A k \in AccessStored : k <= row.auth
<1>0. TypeOK /\ Flows \subseteq Nat /\ row.auth \in Nat /\ row.cred \in Nat
  <2>1. TypeOK
    BY DEF Paired, Quiet
  <2> QED
    BY <2>1, Counters
<1>1. /\ PairStored \subseteq AccessStored
  BY DEF PairStored, AccessStored, HaveStored
<1>2. \A c \in Flows : flow[c].pc \in {"half", "stored"} => c \in Nat /\ c <= row.auth
  BY <1>0, AllBegun
<1>3. \A r \in Fenced : refresh[r].auth \in Nat /\ refresh[r].auth <= row.auth
  BY <1>0, AllBegun
<1>4. ASSUME NEW g \in Flows \cup {None}, OutThere(g) PROVE g \in Nat /\ g <= row.auth
  <2>1. CASE g = None
    BY <1>0, <2>1 DEF None
  <2>2. CASE g # None
    <3>1. g \in Flows /\ flow[g].pc # "none"
      BY <1>4, <2>2 DEF OutThere, Unissued
    <3> QED
      BY <1>0, <3>1, AllBegun
  <2> QED
    BY <2>1, <2>2
<1>5. /\ secrets.refresh.token.grant \in Nat /\ secrets.refresh.token.grant <= row.auth
      /\ \A r \in Refreshers : refresh[r].token.grant \in Nat /\ refresh[r].token.grant <= row.auth
  BY <1>0, <1>4, TokensTyped DEF Known, KnownGrants
<1>6. row.cred <= row.auth /\ None \in Nat /\ None <= row.auth
  BY <1>0 DEF Paired, Quiet, Generations, Begins, None
<1>7. \A k \in AccessStored : k \in Nat /\ k <= row.auth
  BY <1>0, <1>2, <1>3, <1>5, <1>6 DEF AccessStored, HaveStored
<1> QED
  BY <1>1, <1>7

(* Only a put of its callback makes an authorization one that has stored.    *)
LEMMA StoredMoves ==
  ASSUME Paired, RealTokens, [Next]_vars
  PROVE  /\ \A k \in AccessStored' : k \in AccessStored \/ (k \in Flows /\ StoresAccess(k))
         /\ \A k \in PairStored' : k \in PairStored \/ (k \in Flows /\ StoresRefresh(k))
<1>0. /\ TypeOK /\ Quiet /\ NoToken.grant = None /\ None \notin Flows
  <2>1. TypeOK /\ Quiet
    BY DEF Paired, Quiet
  <2> QED
    BY <2>1, TokensTyped
<1> DEFINE A == {"half", "stored"}
           P == {"stored"}
<1>1. ASSUME NEW c \in Flows
      PROVE  /\ flow'[c].pc \in A => flow[c].pc \in A \/ StoresAccess(c)
             /\ flow'[c].pc \in P => flow[c].pc \in P \/ StoresRefresh(c)
  BY <1>0, CallbacksMove DEF CallbackGoesOn
<1>2. row'.cred \in {row.cred} \cup {c \in Flows : flow[c].pc = "stored"}
  <2>1. row'.cred = row.cred \/ (\E r \in Refreshers : Fence(r)) \/ \E c \in Flows : Publish(c) /\ Publishable(c)
    BY <1>0, CountsMove
  <2>2. ASSUME NEW r \in Refreshers, Fence(r) PROVE row'.cred = row.cred
    BY <1>0, <2>2, FenceAdmits
  <2>3. ASSUME NEW c \in Flows, Publish(c), Publishable(c) PROVE row'.cred = c /\ flow[c].pc = "stored"
    BY <2>3, PublishAlone
  <2> QED
    BY <2>1, <2>2, <2>3
<1>3. secrets'.refresh.token.grant \in
        {None, secrets.refresh.token.grant} \cup {c \in Flows : StoresRefresh(c) /\ flow[c].pc = "half"}
          \cup {refresh[r].token.grant : r \in Refreshers}
  <2>1. ASSUME NEW c \in Flows, StoresRefresh(c)
        PROVE  secrets'.refresh.token.grant = c /\ flow[c].pc = "half"
    <3>1. flow[c].pc = "half" /\ secrets'.refresh.token = Issued(c)
      BY <1>0, <2>1, StoringRefresh DEF IsPut
    <3> QED
      BY <3>1 DEF Issued
  <2>2. ASSUME NEW r \in Refreshers, RestoresRefresh(r)
        PROVE  secrets'.refresh.token.grant = refresh[r].token.grant
    BY <1>0, <2>2, RestoringRefresh DEF IsPut
  <2>3. ASSUME NEW d \in Removers, SweepRefresh(d)
        PROVE  secrets'.refresh.token.grant \in {None, secrets.refresh.token.grant}
    <3>1. secrets'.refresh = Swept(secrets.refresh, removal[d].refs.refresh)
      BY <1>0, <2>3 DEF SweepRefresh, TypeOK
    <3> QED
      BY <1>0, <3>1 DEF Swept, Empty
  <2> QED
    BY <1>0, <2>1, <2>2, <2>3, RefreshMovesOn
<1>4. ASSUME NEW r \in Fenced'
      PROVE  \/ r \in Fenced /\ refresh'[r].auth = refresh[r].auth
             \/ refresh'[r].auth = row.cred
  <2>1. CASE r \in Fenced
    BY <1>0, <2>1, AdmittedOnce
  <2>2. CASE r \notin Fenced
    <3>1. Fence(r) /\ r \in Refreshers
      BY <1>0, <2>2, AdmittedNow DEF Fenced
    <3> QED
      BY <1>0, <3>1, FenceAdmits
  <2> QED
    BY <2>1, <2>2
<1>5. ASSUME NEW r \in Refreshers
      PROVE  refresh'[r].token.grant \in {refresh[r].token.grant, secrets.refresh.token.grant}
  BY <1>0, RefreshTokensMove DEF TokenGoesOn
<1>6. ASSUME NEW k \in HaveStored(A)' PROVE k \in HaveStored(A) \/ (k \in Flows /\ StoresAccess(k))
  BY <1>1, <1>2, <1>3, <1>4, <1>5, <1>6 DEF HaveStored
<1>7. ASSUME NEW k \in HaveStored(P)' PROVE k \in HaveStored(P) \/ (k \in Flows /\ StoresRefresh(k))
  BY <1>1, <1>2, <1>3, <1>4, <1>5, <1>7 DEF HaveStored
<1> QED
  BY <1>6, <1>7 DEF AccessStored, PairStored

(* Who stores after a step did before it, or is of the row's authorization.  *)
LEMMA StoringMoves ==
  ASSUME Paired, Led, [Next]_vars, NEW a \in Storing'
  PROVE  a \in Storing \/ (a = row.auth /\ secrets' = secrets)
<1>0. TypeOK /\ Quiet
  BY DEF Paired, Quiet
<1>1. ASSUME a \in Flows, a \notin dead', flow'[a].pc \in Puttings
      PROVE  a \in Storing \/ (a = row.auth /\ secrets' = secrets)
  <2>1. a \notin dead
    BY <1>0, <1>1, LapsesMove
  <2>2. flow[a].pc \in Puttings \/ (Retire(a) /\ Retirable(a))
    BY <1>0, <1>1, PuttingsMove
  <2>3. Retire(a) /\ Retirable(a) => a = row.auth /\ secrets' = secrets
    BY DEF Retire, Retirable
  <2> QED
    BY <1>1, <2>1, <2>2, <2>3 DEF Storing
<1>2. ASSUME NEW r \in Refreshers, Leader(r)', a = refresh'[r].auth
      PROVE  a \in Storing \/ (a = row.auth /\ secrets' = secrets)
  <2>1. CASE Fence(r)
    BY <1>0, <1>2, <2>1, FenceAdmits
  <2>2. CASE ~Fence(r)
    BY <1>0, <1>2, <2>2, LeadersMove DEF Storing
  <2> QED
    BY <2>1, <2>2
<1> QED
  BY <1>1, <1>2 DEF Storing

LEMMA StoringTyped ==
  ASSUME Paired, NEW a \in Storing
  PROVE  a \in Nat
<1>0. TypeOK /\ Flows \subseteq Nat
  <2>1. TypeOK
    BY DEF Paired, Quiet
  <2> QED
    BY <2>1, Counters
<1>1. \A r \in Refreshers : refresh[r].auth \in Nat
  BY <1>0 DEF TypeOK, Refresh
<1> QED
  BY <1>0, <1>1 DEF Storing

LEMMA StoringIs ==
  /\ \A c \in Flows : c \notin dead /\ flow[c].pc \in Puttings => c \in Storing
  /\ \A r \in Refreshers : Leader(r) => refresh[r].auth \in Storing
BY DEF Storing

(* Beside one that may still store, the secrets are not swept, so they only  *)
(* get newer.                                                                *)
LEMMA StoringKeeps ==
  ASSUME Paired, FlowsInTime, [Next]_vars, NEW a \in Storing
  PROVE  \A d \in Removers : ~SweepRefresh(d) /\ ~SweepAccess(d)
<1> SUFFICES ASSUME NEW d \in Removers, SweepRefresh(d) \/ SweepAccess(d) PROVE FALSE
  OBVIOUS
<1>1. /\ \A r \in Refreshers : ~Leader(r)
      /\ \A c \in Flows : flow[c].pc \in Leased => c \in dead
  BY Sweeping DEF Paired
<1> QED
  BY <1>1 DEF Storing, Leased

LEMMA SecretsAge ==
  ASSUME Paired, FlowsInTime, TypeOK', [Next]_vars, NEW a \in Storing
  PROVE  secrets.access.gen <= secrets'.access.gen /\ secrets.refresh.gen <= secrets'.refresh.gen
<1>0. /\ TypeOK /\ Quiet
      /\ secrets.access.gen \in Nat /\ secrets.refresh.gen \in Nat
      /\ secrets'.access.gen \in Nat /\ secrets'.refresh.gen \in Nat
  <2>1. TypeOK /\ Quiet
    BY DEF Paired, Quiet
  <2> QED
    BY <2>1 DEF TypeOK, Secret
<1>1. \A d \in Removers : ~SweepRefresh(d) /\ ~SweepAccess(d)
  BY StoringKeeps
<1>2. secrets.access.gen <= secrets'.access.gen
  BY <1>0, <1>1, AccessMoves, StoringAccess, RestoringAccess DEF IsPut
<1>3. secrets.refresh.gen <= secrets'.refresh.gen
  BY <1>0, <1>1, RefreshMovesOn, StoringRefresh, RestoringRefresh DEF IsPut
<1> QED
  BY <1>2, <1>3

LEMMA StepStandBack ==
  ASSUME Paired, Led, Known, StandBack, TypeOK', [Next]_vars
  PROVE  StandBack'
<1>0. /\ TypeOK /\ Quiet /\ FlowsInTime /\ RealTokens
      /\ secrets.access.gen \in Nat /\ secrets.refresh.gen \in Nat
      /\ secrets'.access.gen \in Nat /\ secrets'.refresh.gen \in Nat
  <2>1. TypeOK /\ Quiet /\ FlowsInTime /\ RealTokens
    BY DEF Paired, Quiet, Led, Known
  <2> QED
    BY <2>1 DEF TypeOK, Secret
<1> SUFFICES ASSUME NEW a \in Storing'
             PROVE  /\ \A k \in AccessStored' : a < k => WriteGeneration(k, 0) <= secrets'.access.gen
                    /\ \A k \in PairStored' : a < k => WriteGeneration(k, 0) <= secrets'.refresh.gen
  BY DEF StandBack, WriteGeneration
<1>1. CASE a \in Storing
  <2>0. a \in Nat /\ PairStored \subseteq AccessStored /\ AccessStored \subseteq Nat
        /\ secrets.access.gen <= secrets'.access.gen /\ secrets.refresh.gen <= secrets'.refresh.gen
    BY <1>0, <1>1, StoringTyped, StoredBegun, SecretsAge
  <2>1. ASSUME NEW k \in AccessStored', a < k PROVE WriteGeneration(k, 0) <= secrets'.access.gen
    <3>1. CASE k \in AccessStored
      <4>1. WriteGeneration(k, 0) <= secrets.access.gen /\ WriteGeneration(k, 0) \in Nat
        BY <1>1, <2>0, <2>1, <3>1, Written DEF StandBack
      <4> QED
        BY <1>0, <2>0, <4>1
    <3>2. CASE k \in Flows /\ StoresAccess(k)
      <4>1. secrets'.access.gen = WriteGeneration(k, 0)
        BY <1>0, <3>2, StoringAccess DEF IsPut
      <4> QED
        BY <1>0, <4>1
    <3> QED
      BY <1>0, <3>1, <3>2, StoredMoves
  <2>2. ASSUME NEW k \in PairStored', a < k PROVE WriteGeneration(k, 0) <= secrets'.refresh.gen
    <3>1. CASE k \in PairStored
      <4>1. WriteGeneration(k, 0) <= secrets.refresh.gen /\ WriteGeneration(k, 0) \in Nat
        BY <1>1, <2>0, <2>2, <3>1, Written DEF StandBack
      <4> QED
        BY <1>0, <2>0, <4>1
    <3>2. CASE k \in Flows /\ StoresRefresh(k)
      <4>1. secrets'.refresh.gen = WriteGeneration(k, 0)
        BY <1>0, <3>2, StoringRefresh DEF IsPut
      <4> QED
        BY <1>0, <4>1
    <3> QED
      BY <1>0, <3>1, <3>2, StoredMoves
  <2> QED
    BY <2>1, <2>2
<1>2. CASE a = row.auth /\ secrets' = secrets
  <2>1. AccessStored' \subseteq AccessStored \cup {k \in Flows : StoresAccess(k)}
        /\ PairStored' \subseteq PairStored \cup {k \in Flows : StoresRefresh(k)}
    BY <1>0, StoredMoves
  <2>2. /\ \A k \in AccessStored : ~(a < k)
        /\ \A k \in PairStored : ~(a < k)
    <3>1. row.auth \in Nat
      BY <1>0, Counters
    <3> QED
      BY <1>2, <3>1, StoredBegun
  <2>3. \A k \in Flows : StoresAccess(k) => WriteGeneration(k, 0) <= secrets'.access.gen
    BY <1>0, StoringAccess DEF IsPut
  <2>4. \A k \in Flows : StoresRefresh(k) => WriteGeneration(k, 0) <= secrets'.refresh.gen
    BY <1>0, StoringRefresh DEF IsPut
  <2> QED
    BY <2>1, <2>2, <2>3, <2>4
<1> QED
  BY <1>1, <1>2, StoringMoves

(* Who puts over what the newest stored is as new.                           *)
LEMMA NewestPuts ==
  ASSUME Paired, Known, StandBack, ReadsForward, NEW s, NEW stored, NEW k \in stored,
         \/ s = secrets.access /\ stored = AccessStored
         \/ s = secrets.refresh /\ stored = PairStored
  PROVE  /\ \A c \in Flows :
              c \notin dead /\ flow[c].pc \in Puttings /\ s.gen <= WriteGeneration(c, 0) => k <= c
         /\ \A r \in Refreshers :
              Leader(r) /\ refresh[r].token.grant # None /\ s.gen <= RefreshGeneration(r) =>
                k <= refresh[r].token.grant
<1>0. TypeOK /\ FewFences /\ s.gen \in Nat /\ k \in Nat /\ Flows \subseteq Nat /\ 0 \in Nat /\ 0 < Stride
  <2>1. TypeOK /\ FewFences
    BY DEF Paired, Quiet
  <2>2. Cardinality(Refreshers) \in Nat
    BY ConnectionConstants, FS_CardinalityType
  <2>3. k \in Nat
    BY StoredBegun
  <2> QED
    BY <2>1, <2>2, <2>3, TokensTyped, Counters, ConnectionConstants DEF Secret
<1>1. ASSUME NEW a \in Storing, NEW n \in Nat, n < Stride, s.gen <= WriteGeneration(a, n) PROVE k <= a
  <2>1. a \in Nat
    BY StoringTyped
  <2>2. a < k => WriteGeneration(k, 0) <= s.gen
    BY DEF StandBack
  <2>3. a < k => WriteGeneration(a, n) < WriteGeneration(k, 0)
    BY <1>0, <1>1, <2>1, Ordered
  <2>4. WriteGeneration(a, n) \in Nat /\ WriteGeneration(k, 0) \in Nat
    BY <1>0, <2>1, Written
  <2> QED
    BY <1>0, <1>1, <2>1, <2>2, <2>3, <2>4
<1>2. ASSUME NEW r \in Refreshers, Leader(r), refresh[r].token.grant # None, s.gen <= RefreshGeneration(r)
      PROVE  k <= refresh[r].token.grant
  <2>1. refresh[r].auth \in Storing /\ refresh[r].auth \in Nat /\ refresh[r].gen \in Nat /\ refresh[r].gen < Stride
    BY <1>0, <1>2, StoringIs, StoringTyped, BelowStride DEF Leader, Fenced
  <2>2. k <= refresh[r].auth
    BY <1>1, <1>2, <2>1 DEF RefreshGeneration
  <2>3. refresh[r].auth <= refresh[r].token.grant /\ refresh[r].token.grant \in Nat
    BY <1>0, <1>2, TokensTyped DEF ReadsForward
  <2> QED
    BY <1>0, <2>1, <2>2, <2>3
<1> QED
  BY <1>0, <1>1, <1>2, StoringIs

LEMMA KeptAccess ==
  ASSUME Paired, Led, Known, StandBack, NewestKept, ReadsForward, TypeOK', [Next]_vars,
         secrets'.access.token.grant # None, NEW k \in AccessStored', secrets'.access.token.grant < k
  PROVE  Given(secrets.access.token.grant)'
<1>0. /\ TypeOK /\ Quiet /\ RealTokens /\ secrets.access.token.grant \in Flows \cup {None}
      /\ Flows \subseteq Nat /\ AccessStored \subseteq Nat
      /\ k \in AccessStored \/ (k \in Flows /\ StoresAccess(k))
      /\ k \in Nat
  <2>1. TypeOK /\ Quiet /\ RealTokens
    BY DEF Paired, Quiet, Known
  <2>2. /\ Flows \subseteq Nat /\ AccessStored \subseteq Nat
        /\ k \in AccessStored \/ (k \in Flows /\ StoresAccess(k))
    BY <2>1, StoredBegun, TokensTyped, StoredMoves, Counters
  <2>3. k \in Nat
    BY <2>2
  <2> QED
    BY <2>1, <2>2, <2>3, TokensTyped
<1>1. CASE secrets'.access = secrets.access /\ k \in AccessStored
  <2>1. PICK g \in Flows : g = secrets.access.token.grant /\ Given(g)
    BY <1>0, <1>1 DEF NewestKept
  <2>2. Given(g)'
    BY <1>0, <2>1, AstrayStays
  <2> QED
    BY <1>1, <2>1, <2>2 DEF Given, Astray, Misread
<1>2. ASSUME NEW c \in Flows, StoresAccess(c) PROVE FALSE
  <2>1. /\ c \notin dead /\ flow[c].pc \in Puttings /\ secrets.access.gen <= WriteGeneration(c, 0)
        /\ secrets'.access.token = Issued(c) /\ flow'[c] # flow[c]
        /\ \A q \in Flows : q # c => flow'[q] = flow[q]
    BY <1>0, <1>2, StoringAccess DEF IsPut, Puttings
  <2>2. c < k
    <3>1. secrets'.access.token.grant = c
      BY <2>1 DEF Issued
    <3> QED
      BY <3>1
  <2>3. k \in Flows => ~StoresAccess(k)
    <3>1. k \in Flows /\ StoresAccess(k) => flow'[k] # flow[k]
      BY <1>0, StoringAccess
    <3> QED
      BY <1>0, <2>1, <2>2, <3>1
  <2>4. k <= c
    BY <1>0, <2>1, <2>3, NewestPuts
  <2> QED
    BY <1>0, <2>2, <2>4
<1>3. ASSUME NEW r \in Refreshers, RestoresAccess(r) PROVE Given(secrets.access.token.grant)'
  <2>1. /\ r \notin dead /\ refresh[r].pc \in Reading /\ secrets.access.gen <= RefreshGeneration(r)
        /\ secrets'.access.token.grant = refresh[r].token.grant
        /\ refresh'[r].token = refresh[r].token /\ flow' = flow /\ overtaken' = overtaken
    BY <1>0, <1>3, RestoringAccess DEF IsPut, Reading
  <2>2. k \in AccessStored
    <3>1. k \in Flows => ~StoresAccess(k)
      BY <1>0, <2>1, StoringAccess
    <3> QED
      BY <1>0, <3>1
  <2>3. ~Leader(r)
    <3>1. Leader(r) => k <= refresh[r].token.grant
      BY <2>1, <2>2, NewestPuts
    <3>2. refresh[r].token.grant \in Nat
      BY <1>0, TokensTyped
    <3> QED
      BY <1>0, <2>1, <2>2, <3>1, <3>2
  <2>4. r \in overtaken
    BY <2>1, <2>3, Kinds DEF Leader, Leading, Reading
  <2> QED
    BY <2>1, <2>4 DEF Given, Astray, Misread
<1>4. ASSUME NEW d \in Removers, SweepAccess(d) PROVE secrets'.access = secrets.access /\ k \in AccessStored
  <2>1. flow' = flow /\ secrets'.access = Swept(secrets.access, removal[d].refs.access)
    BY <1>0, <1>4 DEF SweepAccess, TypeOK
  <2>2. k \in Flows => ~StoresAccess(k)
    BY <1>0, <2>1, StoringAccess
  <2> QED
    BY <1>0, <2>1, <2>2 DEF Swept, Empty, NoToken
<1> QED
  BY <1>0, <1>1, <1>2, <1>3, <1>4, AccessMoves

LEMMA KeptRefresh ==
  ASSUME Paired, Led, Known, StandBack, NewestKept, ReadsForward, TypeOK', [Next]_vars,
         secrets'.refresh.token.grant # None, NEW k \in PairStored', secrets'.refresh.token.grant < k
  PROVE  Given(secrets.refresh.token.grant)'
<1>0. /\ TypeOK /\ Quiet /\ RealTokens /\ secrets.refresh.token.grant \in Flows \cup {None}
      /\ Flows \subseteq Nat /\ PairStored \subseteq Nat
      /\ k \in PairStored \/ (k \in Flows /\ StoresRefresh(k))
      /\ k \in Nat
  <2>1. TypeOK /\ Quiet /\ RealTokens
    BY DEF Paired, Quiet, Known
  <2>2. /\ Flows \subseteq Nat /\ PairStored \subseteq Nat
        /\ k \in PairStored \/ (k \in Flows /\ StoresRefresh(k))
    BY <2>1, StoredBegun, TokensTyped, StoredMoves, Counters
  <2>3. k \in Nat
    BY <2>2
  <2> QED
    BY <2>1, <2>2, <2>3, TokensTyped
<1>1. CASE secrets'.refresh = secrets.refresh /\ k \in PairStored
  <2>1. PICK g \in Flows : g = secrets.refresh.token.grant /\ Given(g)
    BY <1>0, <1>1 DEF NewestKept
  <2>2. Given(g)'
    BY <1>0, <2>1, AstrayStays
  <2> QED
    BY <1>1, <2>1, <2>2 DEF Given, Astray, Misread
<1>2. ASSUME NEW c \in Flows, StoresRefresh(c) PROVE FALSE
  <2>1. /\ c \notin dead /\ flow[c].pc \in Puttings /\ secrets.refresh.gen <= WriteGeneration(c, 0)
        /\ secrets'.refresh.token = Issued(c) /\ flow'[c] # flow[c]
        /\ \A q \in Flows : q # c => flow'[q] = flow[q]
    BY <1>0, <1>2, StoringRefresh DEF IsPut, Puttings
  <2>2. c < k
    <3>1. secrets'.refresh.token.grant = c
      BY <2>1 DEF Issued
    <3> QED
      BY <3>1
  <2>3. k \in Flows => ~StoresRefresh(k)
    <3>1. k \in Flows /\ StoresRefresh(k) => flow'[k] # flow[k]
      BY <1>0, StoringRefresh
    <3> QED
      BY <1>0, <2>1, <2>2, <3>1
  <2>4. k <= c
    BY <1>0, <2>1, <2>3, NewestPuts
  <2> QED
    BY <1>0, <2>2, <2>4
<1>3. ASSUME NEW r \in Refreshers, RestoresRefresh(r) PROVE Given(secrets.refresh.token.grant)'
  <2>1. /\ r \notin dead /\ refresh[r].pc \in Reading /\ secrets.refresh.gen <= RefreshGeneration(r)
        /\ secrets'.refresh.token.grant = refresh[r].token.grant
        /\ refresh'[r].token = refresh[r].token /\ flow' = flow /\ overtaken' = overtaken
    BY <1>0, <1>3, RestoringRefresh DEF IsPut, Reading
  <2>2. k \in PairStored
    <3>1. k \in Flows => ~StoresRefresh(k)
      BY <1>0, <2>1, StoringRefresh
    <3> QED
      BY <1>0, <3>1
  <2>3. ~Leader(r)
    <3>1. Leader(r) => k <= refresh[r].token.grant
      BY <2>1, <2>2, NewestPuts
    <3>2. refresh[r].token.grant \in Nat
      BY <1>0, TokensTyped
    <3> QED
      BY <1>0, <2>1, <2>2, <3>1, <3>2
  <2>4. r \in overtaken
    BY <2>1, <2>3, Kinds DEF Leader, Leading, Reading
  <2> QED
    BY <2>1, <2>4 DEF Given, Astray, Misread
<1>4. ASSUME NEW d \in Removers, SweepRefresh(d) PROVE secrets'.refresh = secrets.refresh /\ k \in PairStored
  <2>1. flow' = flow /\ secrets'.refresh = Swept(secrets.refresh, removal[d].refs.refresh)
    BY <1>0, <1>4 DEF SweepRefresh, TypeOK
  <2>2. k \in Flows => ~StoresRefresh(k)
    BY <1>0, <2>1, StoringRefresh
  <2> QED
    BY <1>0, <2>1, <2>2 DEF Swept, Empty, NoToken
<1> QED
  BY <1>0, <1>1, <1>2, <1>3, <1>4, RefreshMovesOn

LEMMA StepNewestKept ==
  ASSUME Paired, Led, Known, StandBack, NewestKept, ReadsForward, TypeOK', [Next]_vars
  PROVE  NewestKept'
BY KeptAccess, KeptRefresh DEF NewestKept, AccessStored, PairStored, HaveStored, Given, Astray, Misread
-------------------------------------------------------------------------------
(* Where the newest token of a live grant is.                                *)

Newest(t, g) == t.grant = g /\ t.seq = vendor.seq[g]

(* What a refresh has from the vendor and still holds.                       *)
AnsweredNewest ==
  \A r \in Refreshers : r \notin dead /\ refresh[r].pc \in {"got", "half"} =>
    Newest(refresh[r].token, refresh[r].token.grant) \/ Astray(refresh[r].token.grant)

LiveIssued == \A g \in vendor.live : OutThere(g)

(* The leading refresh has it and is about to store it.                      *)
Ready(g) ==
  \E r \in Refreshers : Leading(r) /\ refresh[r].pc = "got" /\ Newest(refresh[r].token, g)

(* It is in a secret or on its way there, or the grant is given.             *)
Kept(g) ==
  \/ Given(g)
  \/ Newest(secrets.refresh.token, g)
  \/ Newest(secrets.access.token, g)
  \/ Ready(g)

HasStored == {"half", "stored", "done"}

Placed == \A g \in vendor.live : flow[g].pc \in HasStored => Kept(g)

(* What a removal may report, and on which grounds.                          *)
Spared(g) == g \in left \/ Unstored(g)

Settled ==
  /\ \A g \in vendor.live : Spared(g)
  /\ secrets.refresh.token.grant \in vendor.live => Unstored(secrets.refresh.token.grant)

ClaimSettled == \A d \in Removers : row.hold.by = d /\ removal[d].claim => Settled

LEMMA LiveTyped ==
  ASSUME TypeOK
  PROVE  /\ vendor.live \subseteq Flows /\ vendor.seq \in [Flows -> Nat] /\ left \subseteq Flows \cup {None}
         /\ Flows \subseteq Nat /\ None \notin Flows
BY TokensTyped, Counters DEF TypeOK

LEMMA StepLiveIssued ==
  ASSUME TypeOK, Quiet, LiveIssued, TypeOK', [Next]_vars
  PROVE  LiveIssued'
<1> SUFFICES ASSUME NEW g \in vendor'.live, g # None PROVE flow'[g].pc \notin Unissued
  BY DEF LiveIssued, OutThere
<1>0. g \in Flows
  BY DEF TypeOK
<1>1. CASE g \in vendor.live
  BY <1>0, <1>1, FlowsMove DEF LiveIssued, OutThere
<1>2. CASE Exchange(g)
  <2>1. flow[g].pc = "consumed" /\ \E p \in {"issued", "moving"} : flow' = [flow EXCEPT ![g].pc = p]
    BY <1>2 DEF Exchange
  <2>2. flow'[g].pc \in {"issued", "moving"}
    BY <1>0, <2>1 DEF TypeOK, Flow
  <2> QED
    BY <2>2 DEF Unissued
<1> QED
  BY <1>0, <1>1, <1>2, VendorMoves

(* A vendor's answer.                                                        *)
LEMMA Answered ==
  ASSUME TypeOK, RealTokens, NEW r \in Refreshers, Refreshed(r)
  PROVE  /\ refresh[r].token.grant \in Flows /\ refresh[r].token.grant \in vendor.live
         /\ refresh[r].pc = "asking" /\ refresh'[r].pc = "got" /\ r \notin dead
         /\ refresh'[r].token.grant = refresh[r].token.grant
         /\ refresh'[r].token.seq = vendor'.seq[refresh[r].token.grant]
         /\ \A g \in Flows : g # refresh[r].token.grant => vendor'.seq[g] = vendor.seq[g]
         /\ vendor'.live = vendor.live /\ \A q \in Refreshers : q # r => refresh'[q] = refresh[q]
         /\ UNCHANGED <<row, secrets, flow, removal, clock, dead, overtaken, left>>
<1>0. /\ refresh \in [Refreshers -> Refresh] /\ refresh[r] \in Refresh
      /\ vendor \in [live : SUBSET Flows, seq : [Flows -> Nat], rotates : BOOLEAN]
  BY DEF TypeOK
<1> DEFINE g == refresh[r].token.grant
           n == refresh[r].token.seq + IF vendor.rotates THEN 1 ELSE 0
           v == [refresh[r] EXCEPT !.pc = "got", !.token = [grant |-> g, seq |-> n]]
<1>1. /\ refresh[r].pc = "asking" /\ r \notin dead /\ g \in vendor.live
      /\ vendor' = [vendor EXCEPT !.seq[g] = n] /\ refresh' = [refresh EXCEPT ![r] = v]
      /\ UNCHANGED <<row, secrets, flow, removal, clock, dead, overtaken, left>>
  BY DEF Refreshed, Current, Runs
<1>2. g \in Flows
  BY <1>0, <1>1
<1>3. v.pc = "got" /\ v.token = [grant |-> g, seq |-> n]
  BY <1>0 DEF Refresh
<1>4. vendor'.live = vendor.live /\ vendor'.seq[g] = n /\ \A h \in Flows : h # g => vendor'.seq[h] = vendor.seq[h]
  BY <1>0, <1>1, <1>2
<1> HIDE DEF v, n
<1>5. refresh'[r] = v /\ \A q \in Refreshers : q # r => refresh'[q] = refresh[q]
  BY <1>0, <1>1
<1>6. v.token.grant = g /\ v.token.seq = n
  BY <1>3
<1> QED
  BY <1>1, <1>2, <1>3, <1>4, <1>5, <1>6

(* Two refreshes that could store a token of one grant are one.              *)
LEMMA OneAsks ==
  ASSUME TypeOK, Led, RealTokens, NEW r \in Refreshers, NEW q \in Refreshers, r # q,
         refresh[r].pc \in Reading, refresh[q].pc \in Reading, r \notin dead, q \notin dead,
         refresh[r].token.grant = refresh[q].token.grant
  PROVE  Astray(refresh[r].token.grant)
<1>1. SUFFICES ASSUME ~Astray(refresh[r].token.grant) PROVE FALSE
  OBVIOUS
<1>2. r \notin overtaken /\ q \notin overtaken
  BY <1>1 DEF Astray
<1>3. Leader(r) /\ Leader(q) /\ q \in Fenced
  BY <1>2, Kinds DEF Leader, Leading, Reading, Fenced
<1> QED
  BY <1>3 DEF Led, LeaderTop

LEMMA StepAnsweredNewest ==
  ASSUME TypeOK, Quiet, Led, RealTokens, AnsweredNewest, TypeOK', [Next]_vars
  PROVE  AnsweredNewest'
<1> SUFFICES ASSUME NEW r \in Refreshers, r \notin dead', refresh'[r].pc \in {"got", "half"}
             PROVE  Newest(refresh[r].token, refresh[r].token.grant)' \/ Astray(refresh[r].token.grant)'
  BY DEF AnsweredNewest
<1>1. CASE Refreshed(r)
  BY <1>1, Answered DEF Newest
<1>2. CASE ~Refreshed(r)
  <2>1. /\ refresh[r].pc \in {"got", "half"} /\ refresh'[r].token = refresh[r].token /\ r \notin dead
        /\ refresh[r].pc \in Reading
    <3>1. ~Fence(r)
      BY FenceAdmits
    <3> QED
      BY <1>2, <3>1, RefreshesMove, LapsesMove DEF RefreshGoesOn, Reading
  <2>2. PICK g \in Flows : g = refresh[r].token.grant
    BY <2>1, TokensTyped DEF RealTokens
  <2>3. CASE Astray(g)
    <3>1. Astray(g)'
      BY <2>3, AstrayStays
    <3> QED
      BY <2>1, <2>2, <3>1 DEF Astray, Misread
  <2>4. CASE vendor'.seq[g] = vendor.seq[g] /\ ~Astray(g)
    BY <2>1, <2>2, <2>4 DEF AnsweredNewest, Newest
  <2>5. ASSUME NEW q \in Refreshers, Refreshed(q), vendor'.seq[g] # vendor.seq[g] PROVE Astray(g)
    <3>1. refresh[q].token.grant = g /\ refresh[q].pc \in Reading /\ q \notin dead /\ q # r
      BY <1>2, <2>2, <2>5, Answered DEF Reading
    <3> QED
      BY <2>1, <2>2, <3>1, OneAsks
  <2> QED
    BY <2>3, <2>4, <2>5, VendorMoves
<1> QED
  BY <1>1, <1>2

(* A secret that is absent holds nothing.                                    *)
AbsentEmpty ==
  /\ ~Present(secrets.access) => secrets.access.token.grant = None
  /\ ~Present(secrets.refresh) => secrets.refresh.token.grant = None

LEMMA StepAbsentEmpty ==
  ASSUME Paired, AbsentEmpty, TypeOK', [Next]_vars
  PROVE  AbsentEmpty'
<1>0. TypeOK /\ NoToken.grant = None
  <2>1. TypeOK
    BY DEF Paired, Quiet
  <2> QED
    BY <2>1, TokensTyped
<1>1. ASSUME NEW c \in Flows PROVE WriteGeneration(c, 0) # None
  <2>1. c \in Nat \ {0} /\ 0 \in Nat
    BY Sorts
  <2> QED
    BY <2>1, Counted, Written DEF None
<1>2. ASSUME NEW r \in Fenced PROVE RefreshGeneration(r) # None
  <2>1. refresh[r].auth \in Flows /\ refresh[r].gen \in Nat
    BY <1>0, AllBegun DEF Fenced, TypeOK, Refresh
  <2>2. refresh[r].auth \in Nat \ {0}
    BY <2>1, Sorts
  <2>3. WriteGeneration(refresh[r].auth, refresh[r].gen) > 0
    BY <2>1, <2>2, Counted
  <2> QED
    BY <2>3 DEF RefreshGeneration, None
<1>3. ~Present(secrets.access)' => secrets'.access.token.grant = None
  <2>1. ASSUME NEW c \in Flows, StoresAccess(c) PROVE Present(secrets.access)'
    BY <1>0, <1>1, <2>1, StoringAccess DEF IsPut, Present
  <2>2. ASSUME NEW r \in Refreshers, RestoresAccess(r) PROVE Present(secrets.access)'
    BY <1>0, <1>2, <2>2, RestoringAccess DEF IsPut, Present, Fenced
  <2>3. ASSUME NEW d \in Removers, SweepAccess(d)
        PROVE  secrets'.access = secrets.access \/ secrets'.access.token.grant = None
    <3>1. secrets'.access = Swept(secrets.access, removal[d].refs.access)
      BY <1>0, <2>3 DEF SweepAccess, TypeOK
    <3> QED
      BY <1>0, <3>1 DEF Swept, Empty
  <2> QED
    BY <1>0, <2>1, <2>2, <2>3, AccessMoves DEF AbsentEmpty, Present
<1>4. ~Present(secrets.refresh)' => secrets'.refresh.token.grant = None
  <2>1. ASSUME NEW c \in Flows, StoresRefresh(c) PROVE Present(secrets.refresh)'
    BY <1>0, <1>1, <2>1, StoringRefresh DEF IsPut, Present
  <2>2. ASSUME NEW r \in Refreshers, RestoresRefresh(r) PROVE Present(secrets.refresh)'
    BY <1>0, <1>2, <2>2, RestoringRefresh DEF IsPut, Present, Fenced
  <2>3. ASSUME NEW d \in Removers, SweepRefresh(d)
        PROVE  secrets'.refresh = secrets.refresh \/ secrets'.refresh.token.grant = None
    <3>1. secrets'.refresh = Swept(secrets.refresh, removal[d].refs.refresh)
      BY <1>0, <2>3 DEF SweepRefresh, TypeOK
    <3> QED
      BY <1>0, <3>1 DEF Swept, Empty
  <2> QED
    BY <1>0, <2>1, <2>2, <2>3, RefreshMovesOn DEF AbsentEmpty, Present
<1> QED
  BY <1>3, <1>4 DEF AbsentEmpty

(* What a refresh puts its token over is of its own grant, or given.         *)
LEMMA OverAccess ==
  ASSUME Paired, Known, NewestKept, ReadsForward, Authors, AbsentEmpty, NEW r \in Fenced,
         refresh[r].token.grant # None, secrets.access.token.grant # None,
         secrets.access.gen <= RefreshGeneration(r)
  PROVE  secrets.access.token.grant = refresh[r].token.grant \/ Given(secrets.access.token.grant)
<1>0. /\ TypeOK /\ Quiet /\ FewFences /\ RealTokens /\ r \in Refreshers /\ Flows \subseteq Nat
      /\ secrets.access.token.grant \in Flows /\ refresh[r].token.grant \in Flows
      /\ refresh[r].auth \in Nat /\ refresh[r].gen \in Nat /\ refresh[r].gen < Stride
  <2>1. TypeOK /\ Quiet /\ FewFences /\ RealTokens
    BY DEF Paired, Quiet, Known
  <2>2. r \in Refreshers
    BY DEF Fenced
  <2>3. refresh[r].auth \in Nat
    BY <2>1, <2>2 DEF TypeOK, Refresh
  <2> QED
    BY <2>1, <2>2, <2>3, TokensTyped, BelowStride, Counters
<1>1. Present(secrets.access)
  BY DEF AbsentEmpty
<1>2. secrets.access.token.grant <= refresh[r].auth \/ Astray(secrets.access.token.grant)
  BY <1>0, <1>1, Authored DEF RefreshGeneration
<1>3. refresh[r].auth <= refresh[r].token.grant
  BY <1>0 DEF ReadsForward
<1>4. refresh[r].token.grant \in AccessStored
  <2>1. refresh[r].token.grant \in {refresh[q].token.grant : q \in Refreshers}
    BY <1>0
  <2> QED
    BY <2>1 DEF AccessStored, HaveStored
<1>5. ASSUME secrets.access.token.grant < refresh[r].token.grant PROVE Given(secrets.access.token.grant)
  <2>1. \A k \in AccessStored : secrets.access.token.grant < k => Given(secrets.access.token.grant)
    BY DEF NewestKept
  <2> QED
    BY <1>4, <1>5, <2>1
<1>6. secrets.access.token.grant <= refresh[r].auth =>
        secrets.access.token.grant = refresh[r].token.grant \/ secrets.access.token.grant < refresh[r].token.grant
  <2>1. secrets.access.token.grant \in Nat /\ refresh[r].token.grant \in Nat
    BY <1>0
  <2> QED
    BY <1>0, <1>3, <2>1
<1> QED
  BY <1>2, <1>5, <1>6 DEF Given

LEMMA OverRefresh ==
  ASSUME Paired, Known, NewestKept, ReadsForward, Authors, AbsentEmpty, NEW r \in Fenced,
         refresh[r].token.grant # None, secrets.refresh.token.grant # None,
         secrets.refresh.gen <= RefreshGeneration(r)
  PROVE  secrets.refresh.token.grant = refresh[r].token.grant \/ Given(secrets.refresh.token.grant)
<1>0. /\ TypeOK /\ Quiet /\ FewFences /\ RealTokens /\ r \in Refreshers /\ Flows \subseteq Nat
      /\ secrets.refresh.token.grant \in Flows /\ refresh[r].token.grant \in Flows
      /\ refresh[r].auth \in Nat /\ refresh[r].gen \in Nat /\ refresh[r].gen < Stride
  <2>1. TypeOK /\ Quiet /\ FewFences /\ RealTokens
    BY DEF Paired, Quiet, Known
  <2>2. r \in Refreshers
    BY DEF Fenced
  <2>3. refresh[r].auth \in Nat
    BY <2>1, <2>2 DEF TypeOK, Refresh
  <2> QED
    BY <2>1, <2>2, <2>3, TokensTyped, BelowStride, Counters
<1>1. Present(secrets.refresh)
  BY DEF AbsentEmpty
<1>2. secrets.refresh.token.grant <= refresh[r].auth \/ Astray(secrets.refresh.token.grant)
  BY <1>0, <1>1, Authored DEF RefreshGeneration
<1>3. refresh[r].auth <= refresh[r].token.grant
  BY <1>0 DEF ReadsForward
<1>4. refresh[r].token.grant \in PairStored
  <2>1. refresh[r].token.grant \in {refresh[q].token.grant : q \in Refreshers}
    BY <1>0
  <2> QED
    BY <2>1 DEF PairStored, HaveStored
<1>5. ASSUME secrets.refresh.token.grant < refresh[r].token.grant PROVE Given(secrets.refresh.token.grant)
  <2>1. \A k \in PairStored : secrets.refresh.token.grant < k => Given(secrets.refresh.token.grant)
    BY DEF NewestKept
  <2> QED
    BY <1>4, <1>5, <2>1
<1>6. secrets.refresh.token.grant <= refresh[r].auth =>
        secrets.refresh.token.grant = refresh[r].token.grant \/ secrets.refresh.token.grant < refresh[r].token.grant
  <2>1. secrets.refresh.token.grant \in Nat /\ refresh[r].token.grant \in Nat
    BY <1>0
  <2> QED
    BY <1>0, <1>3, <2>1
<1> QED
  BY <1>2, <1>5, <1>6 DEF Given

LEMMA RotatedKept ==
  ASSUME TypeOK, RealTokens, NEW r \in Refreshers, Refreshed(r), NEW g \in Flows, refresh[r].token.grant = g
  PROVE  Astray(g)' \/ Ready(g)'
<1>1. /\ refresh'[r].pc = "got" /\ Newest(refresh[r].token, g)' /\ refresh'[r].token.grant = g
      /\ r \notin dead' /\ overtaken' = overtaken
  BY Answered DEF Newest
<1>2. r \in overtaken => Astray(g)'
  BY <1>1 DEF Astray
<1>3. r \notin overtaken => Leading(r)'
  BY <1>1, KindsNext DEF Leading
<1> QED
  BY <1>1, <1>2, <1>3 DEF Ready

(* A callback that is yet to store its pair knows the newest token of its    *)
(* grant, or a refresh that read it has misread it.                          *)
LEMMA IssuedNewest ==
  ASSUME TypeOK, Quiet, Known, NEW g \in Flows, flow[g].pc # "done"
  PROVE  Newest(Issued(g), g) \/ Astray(g)
<1>2. CASE vendor.seq[g] = 0
  BY <1>2 DEF Issued, Newest
<1>3. CASE vendor.seq[g] # 0
  <2>1. PICK r \in Refreshers : refresh[r].token.grant = g
    BY <1>3 DEF Known, Rotated
  <2>2. refresh[r].pc # "idle" /\ g # None
    BY <2>1, TokensTyped DEF Known, RealTokens
  <2>3. refresh[r].auth # g
    BY <2>2 DEF Quiet, Generations, RefreshesKnow
  <2> QED
    BY <2>1, <2>2, <2>3 DEF Astray, Misread
<1> QED
  BY <1>2, <1>3

LEMMA SparedGiven ==
  ASSUME NEW g \in Flows, flow[g].pc \in HasStored, flow[g].pc = "done" \/ g \in dead, Spared(g)
  PROVE  Given(g)
BY DEF HasStored, Spared, Unstored, Given, Astray

(* What is swept was given up, or is settled.                                *)
LEMMA SweptGiven ==
  ASSUME Paired, FlowsInTime, ClaimSettled, NEW d \in Removers, NEW g \in vendor.live, g \in Flows,
         flow[g].pc \in HasStored,
         NEW s \in {secrets.access, secrets.refresh}, s.token.grant = g, NEW ref,
         SweepRefresh(d) \/ SweepAccess(d),
         left' = left \cup Abandoned(d, s, ref), Behind(s, ref)
  PROVE  g \in left' \/ Given(g)
<1>0. Quiet /\ WorkersHold
  BY DEF Paired
<1>1. /\ row.hold.by = d
      /\ \A c \in Flows : flow[c].pc \in Leased => c \in dead
  BY <1>0, Sweeping
<1>2. CASE ~removal[d].claim
  BY <1>2 DEF Abandoned
<1>3. CASE removal[d].claim
  <2>1. Spared(g)
    BY <1>1, <1>3 DEF ClaimSettled, Settled
  <2>2. flow[g].pc = "done" \/ g \in dead
    BY <1>1 DEF HasStored, Leased, Puttings
  <2> QED
    BY <2>1, <2>2, SparedGiven
<1> QED
  BY <1>2, <1>3

(* The leading refresh can store the token of a grant that is not given.     *)
LEMMA LeaderPuts ==
  ASSUME Paired, Led, Known, Authors, ReadsForward, AbsentEmpty,
         NEW r \in Refreshers, Leader(r), refresh[r].pc \in Reading, ~Astray(refresh[r].token.grant),
         secrets.access.token.grant = refresh[r].token.grant
  PROVE  Puttable(secrets.access, RefreshGeneration(r))
<1> DEFINE g == refresh[r].token.grant
<1>0. /\ TypeOK /\ Quiet /\ FewFences /\ RealTokens /\ g \in Flows /\ g \in Nat /\ r \in Fenced
      /\ refresh[r].gen \in Nat
  <2>1. TypeOK /\ Quiet /\ FewFences /\ RealTokens
    BY DEF Paired, Quiet, Known
  <2>2. r \in Fenced /\ refresh[r].gen \in Nat
    BY <2>1 DEF Leader, Fenced, TypeOK, Refresh
  <2>3. g \in Flows
    BY <2>1, TokensTyped DEF RealTokens
  <2> QED
    BY <2>1, <2>2, <2>3, Counters
<1>1. refresh[r].auth = g /\ g # None
  BY <1>0 DEF Astray, Misread, RealTokens
<1>3. Present(secrets.access)
  BY <1>1 DEF AbsentEmpty
<1>4. \/ \E c \in Flows : secrets.access.gen = WriteGeneration(c, 0) /\ secrets.access.token = Issued(c)
      \/ \E q \in Fenced : secrets.access.gen = RefreshGeneration(q) /\ refresh[q].auth = g
  BY <1>0, <1>3, Authored
<1>5. ASSUME NEW n \in Nat, n <= refresh[r].gen, secrets.access.gen = WriteGeneration(g, n)
      PROVE  Puttable(secrets.access, RefreshGeneration(r))
  BY <1>0, <1>1, <1>5, Counted DEF Puttable, RefreshGeneration
<1>6. ASSUME NEW c \in Flows, secrets.access.gen = WriteGeneration(c, 0), secrets.access.token = Issued(c)
      PROVE  Puttable(secrets.access, RefreshGeneration(r))
  <2>1. c = g
    BY <1>6 DEF Issued
  <2>2. 0 \in Nat /\ 0 <= refresh[r].gen
    BY <1>0
  <2> QED
    BY <1>5, <1>6, <2>1, <2>2
<1>7. ASSUME NEW q \in Fenced, secrets.access.gen = RefreshGeneration(q), refresh[q].auth = g
      PROVE  Puttable(secrets.access, RefreshGeneration(r))
  <2>1. refresh[q].gen \in Nat
    BY <1>0 DEF Fenced, TypeOK, Refresh
  <2>2. refresh[q].gen <= refresh[r].gen
    <3>1. q # r => refresh[q].gen < refresh[r].gen
      BY <1>1, <1>7 DEF Led, LeaderTop
    <3> QED
      BY <1>0, <2>1, <3>1
  <2> QED
    BY <1>5, <1>7, <2>1, <2>2 DEF RefreshGeneration
<1> QED
  BY <1>4, <1>6, <1>7

(* The refresh that is to store the newest token of a grant stores it, or    *)
(* it ends astray.                                                           *)
LEMMA ReadyStays ==
  ASSUME Paired, Led, Known, Authors, ReadsForward, AbsentEmpty, TypeOK', [Next]_vars,
         NEW g \in Flows, Ready(g), secrets.access.token.grant = g,
         vendor'.seq[g] = vendor.seq[g]
  PROVE  \/ Ready(g)' \/ Astray(g)'
         \/ \E r \in Refreshers : RestoresAccess(r) /\ refresh[r].token.grant = g
<1>0. TypeOK /\ RealTokens
  BY DEF Paired, Quiet, Known
<1>1. PICK r \in Refreshers : Leading(r) /\ refresh[r].pc = "got" /\ Newest(refresh[r].token, g)
  BY DEF Ready
<1>2. Leader(r) /\ refresh[r].pc \in Reading /\ refresh[r].token.grant = g
  BY <1>1 DEF Leader, Reading, Newest
<1>3. CASE Astray(g)
  BY <1>0, <1>3, AstrayStays
<1>4. CASE RestoresAccess(r)
  BY <1>2, <1>4
<1>5. CASE ~Astray(g) /\ ~RestoresAccess(r)
  <2>1. Puttable(secrets.access, RefreshGeneration(r))
    BY <1>2, <1>5, LeaderPuts
  <2>2. ~Fence(r)
    BY <1>1 DEF Fence, Calm
  <2>3. ~Refreshed(r) /\ ~PutAccessAgain(r) /\ ~PutRefreshAgain(r)
    BY <1>1, <1>5, <2>1 DEF Refreshed, PutRefreshAgain, RestoresAccess
  <2>4. refresh'[r] = refresh[r]
    BY <1>0, <1>1, <2>2, <2>3, RefreshesMove DEF RefreshGoesOn
  <2>5. CASE r \in overtaken' \/ r \in dead'
    BY <1>1, <1>2, <2>4, <2>5 DEF Astray
  <2>6. CASE r \notin overtaken' /\ r \notin dead'
    <3>1. Leading(r)'
      BY <1>1, <2>4, <2>6, KindsNext DEF Leading
    <3> QED
      BY <1>1, <2>4, <3>1 DEF Ready, Newest
  <2> QED
    BY <2>5, <2>6
<1> QED
  BY <1>3, <1>4, <1>5

LEMMA StepPlaced ==
  ASSUME Paired, Led, Known, Provenance, LeaderPair, AbsentEmpty, NewestKept, AnsweredNewest, LiveIssued,
         ClaimSettled, Placed, TypeOK', [Next]_vars
  PROVE  Placed'
<1>0. /\ TypeOK /\ Quiet /\ FlowsInTime /\ RealTokens /\ ReadsForward /\ Authors
      /\ vendor'.live \subseteq Flows /\ vendor.live \subseteq Flows /\ None \notin Flows
  <2>1. /\ TypeOK /\ Quiet /\ FlowsInTime /\ RealTokens /\ ReadsForward /\ Authors
    BY DEF Paired, Quiet, Led, Known, Provenance
  <2> QED
    BY <2>1, LiveTyped DEF TypeOK
<1> SUFFICES ASSUME NEW g \in vendor'.live, flow'[g].pc \in HasStored PROVE Kept(g)'
  BY DEF Placed
<1>1. g \in Flows
  BY <1>0
<1>2. ASSUME Given(g) PROVE Kept(g)'
  BY <1>0, <1>1, <1>2, AstrayStays DEF Kept
<1>3. CASE g \in left'
  BY <1>3 DEF Kept, Given
<1>4. CASE StoresAccess(g)
  <2>1. flow[g].pc = "writing" /\ secrets'.access.token = Issued(g) /\ vendor' = vendor
    BY <1>0, <1>1, <1>4, StoringAccess DEF IsPut
  <2>2. Newest(Issued(g), g) \/ Given(g)
    BY <1>0, <1>1, <2>1, IssuedNewest DEF Given
  <2> QED
    BY <1>2, <2>1, <2>2 DEF Kept, Newest
<1>5. CASE \E r \in Refreshers : Refreshed(r) /\ refresh[r].token.grant = g
  BY <1>0, <1>1, <1>5, RotatedKept DEF Kept, Given
<1>6. ASSUME g \notin left', ~StoresAccess(g) PROVE g \in vendor.live /\ flow[g].pc \in HasStored
  <2>1. g \in vendor.live
    <3>1. ~Exchange(g)
      <4>1. SUFFICES ASSUME Exchange(g) PROVE FALSE
        OBVIOUS
      <4>2. flow'[g].pc \in {"issued", "moving"}
        BY <1>0, <1>1, <4>1 DEF Exchange, TypeOK, Flow
      <4> QED
        BY <4>2 DEF HasStored
    <3> QED
      BY <1>0, <1>1, <3>1, VendorMoves
  <2>2. ~Settle(g)
    BY <1>0, <1>6 DEF Settle, TypeOK
  <2>3. ~GiveUp(g)
    BY <1>6 DEF GiveUp
  <2>4. flow[g].pc \in HasStored
    BY <1>0, <1>1, <1>6, <2>2, <2>3, CallbacksMove DEF CallbackGoesOn, HasStored
  <2> QED
    BY <2>1, <2>4
<1>7. ASSUME g \notin left', ~StoresAccess(g), ~Given(g),
             ~(\E r \in Refreshers : Refreshed(r) /\ refresh[r].token.grant = g)
      PROVE  Kept(g)'
  <2>1. g \in vendor.live /\ flow[g].pc \in HasStored
    BY <1>6, <1>7
  <2>2. vendor'.seq[g] = vendor.seq[g]
    BY <1>0, <1>1, <1>7, Answered, VendorMoves
  <2>3. CASE Newest(secrets.refresh.token, g)
    <3>1. CASE secrets'.refresh = secrets.refresh
      BY <2>2, <2>3, <3>1 DEF Kept, Newest
    <3>2. ASSUME NEW c \in Flows, StoresRefresh(c) PROVE FALSE
      BY <1>0, <1>7, <2>3, <3>2, StoringRefresh DEF Newest
    <3>3. ASSUME NEW r \in Refreshers, RestoresRefresh(r) PROVE Kept(g)'
      <4>1. /\ r \notin dead /\ refresh[r].pc = "half" /\ secrets.refresh.gen <= RefreshGeneration(r)
            /\ secrets'.refresh.token = refresh[r].token /\ r \in Fenced
        BY <1>0, <3>3, RestoringRefresh DEF IsPut, Fenced
      <4>2. refresh[r].token.grant # None /\ secrets.refresh.token.grant = g
        BY <1>0, <2>3, <4>1 DEF RealTokens, Reading, Newest
      <4>3. refresh[r].token.grant = g
        BY <1>0, <1>1, <1>7, <4>1, <4>2, OverRefresh
      <4>4. Newest(refresh[r].token, g)
        BY <1>7, <4>1, <4>3 DEF AnsweredNewest, Given
      <4> QED
        BY <2>2, <4>1, <4>4 DEF Kept, Newest
    <3>4. ASSUME NEW d \in Removers, SweepRefresh(d) PROVE Kept(g)'
      <4>1. /\ secrets'.refresh = Swept(secrets.refresh, removal[d].refs.refresh)
            /\ left' = left \cup Abandoned(d, secrets.refresh, removal[d].refs.refresh)
        BY <1>0, <3>4, Sweeping DEF Paired
      <4>2. CASE Behind(secrets.refresh, removal[d].refs.refresh)
        BY <1>0, <1>1, <1>7, <2>1, <2>3, <3>4, <4>1, <4>2, SweptGiven DEF Newest
      <4>3. CASE ~Behind(secrets.refresh, removal[d].refs.refresh)
        BY <3>1, <4>1, <4>3 DEF Swept
      <4> QED
        BY <4>2, <4>3
    <3> QED
      BY <1>0, <3>1, <3>2, <3>3, <3>4, RefreshMovesOn
  <2>4. CASE Newest(secrets.access.token, g)
    <3>1. CASE secrets'.access = secrets.access
      BY <2>2, <2>4, <3>1 DEF Kept, Newest
    <3>2. ASSUME NEW c \in Flows, StoresAccess(c) PROVE FALSE
      BY <1>0, <1>7, <2>4, <3>2, StoringAccess DEF Newest
    <3>3. ASSUME NEW r \in Refreshers, RestoresAccess(r) PROVE Kept(g)'
      <4>1. /\ r \notin dead /\ refresh[r].pc = "got" /\ secrets.access.gen <= RefreshGeneration(r)
            /\ secrets'.access.token = refresh[r].token /\ r \in Fenced
        BY <1>0, <3>3, RestoringAccess DEF IsPut, Fenced
      <4>2. refresh[r].token.grant # None /\ secrets.access.token.grant = g
        BY <1>0, <2>4, <4>1 DEF RealTokens, Reading, Newest
      <4>3. refresh[r].token.grant = g
        BY <1>0, <1>1, <1>7, <4>1, <4>2, OverAccess
      <4>4. Newest(refresh[r].token, g)
        BY <1>7, <4>1, <4>3 DEF AnsweredNewest, Given
      <4> QED
        BY <2>2, <4>1, <4>4 DEF Kept, Newest
    <3>4. ASSUME NEW d \in Removers, SweepAccess(d) PROVE Kept(g)'
      <4>1. /\ secrets'.access = Swept(secrets.access, removal[d].refs.access)
            /\ left' = left \cup Abandoned(d, secrets.access, removal[d].refs.access)
        <5>1. ~SweepRefresh(d)
          BY <3>4 DEF SweepAccess, SweepRefresh
        <5> QED
          BY <1>0, <3>4, <5>1, Sweeping DEF Paired
      <4>2. CASE Behind(secrets.access, removal[d].refs.access)
        BY <1>0, <1>1, <1>7, <2>1, <2>4, <3>4, <4>1, <4>2, SweptGiven DEF Newest
      <4>3. CASE ~Behind(secrets.access, removal[d].refs.access)
        BY <3>1, <4>1, <4>3 DEF Swept
      <4> QED
        BY <4>2, <4>3
    <3> QED
      BY <1>0, <3>1, <3>2, <3>3, <3>4, AccessMoves
  <2>5. CASE Ready(g)
    <3>1. secrets.access.token.grant = g
      <4>1. PICK r \in Refreshers : Leading(r) /\ refresh[r].pc = "got" /\ Newest(refresh[r].token, g)
        BY <2>5 DEF Ready
      <4>2. Leader(r) /\ refresh[r].pc \in Reading /\ refresh[r].token.grant = g
        BY <4>1 DEF Leader, Reading, Newest
      <4>3. refresh[r].auth = g /\ g # None
        BY <1>0, <1>1, <1>7, <4>2 DEF Given, Astray, Misread
      <4> QED
        BY <1>7, <4>2, <4>3 DEF LeaderPair
    <3>2. CASE Ready(g)' \/ Astray(g)'
      BY <3>2 DEF Kept, Given
    <3>3. ASSUME NEW r \in Refreshers, RestoresAccess(r), refresh[r].token.grant = g PROVE Kept(g)'
      <4>1. r \notin dead /\ refresh[r].pc = "got" /\ secrets'.access.token = refresh[r].token
        BY <1>0, <3>3, RestoringAccess DEF IsPut
      <4>2. Newest(refresh[r].token, g)
        BY <1>7, <3>3, <4>1 DEF AnsweredNewest, Given
      <4> QED
        BY <2>2, <4>1, <4>2 DEF Kept, Newest
    <3> QED
      BY <1>0, <1>1, <2>2, <2>5, <3>1, <3>2, <3>3, ReadyStays
  <2> QED
    BY <1>7, <2>1, <2>3, <2>4, <2>5 DEF Placed, Kept, Ready
<1> QED
  BY <1>2, <1>3, <1>4, <1>5, <1>7
-------------------------------------------------------------------------------
(* A pair whose halves have one generation has one token.                    *)

Numbered == \A r \in Fenced : refresh[r].gen > 0

LEMMA StepNumbered ==
  ASSUME TypeOK, Numbered, TypeOK', [Next]_vars
  PROVE  Numbered'
<1> SUFFICES ASSUME NEW r \in Fenced' PROVE refresh'[r].gen > 0
  BY DEF Numbered
<1>1. CASE r \in Fenced
  BY <1>1, AdmittedOnce DEF Numbered
<1>2. CASE r \notin Fenced
  <2>1. Fence(r) /\ r \in Refreshers
    BY <1>2, AdmittedNow DEF Fenced
  <2>2. refresh'[r].gen = row.gen + 1 /\ row.gen \in Nat
    BY <2>1, FenceAdmits DEF TypeOK, Row
  <2> QED
    BY <2>2
<1> QED
  BY <1>1, <1>2

LEMMA OneGeneration ==
  ASSUME TypeOK, Quiet, FewFences, Numbered, GensDiffer
  PROVE  /\ \A c \in Flows, k \in Flows : WriteGeneration(c, 0) = WriteGeneration(k, 0) => c = k
         /\ \A c \in Flows, r \in Fenced : WriteGeneration(c, 0) # RefreshGeneration(r)
         /\ \A r \in Fenced, q \in Fenced : RefreshGeneration(r) = RefreshGeneration(q) => r = q
<1>0. Flows \subseteq Nat /\ 0 \in Nat /\ 0 < Stride /\ Stride \in Nat
  BY Counters, ConnectionConstants, BelowStride
<1>1. ASSUME NEW a \in Nat, NEW b \in Nat, NEW m \in Nat, NEW n \in Nat, m < Stride, n < Stride,
             WriteGeneration(a, m) = WriteGeneration(b, n)
      PROVE  a = b /\ m = n
  <2>1. WriteGeneration(a, m) \in Nat /\ WriteGeneration(b, n) \in Nat
    BY Written
  <2>2. ~(a < b)
    BY <1>1, <2>1, Ordered
  <2>3. ~(b < a)
    BY <1>1, <2>1, Ordered
  <2>4. a = b
    BY <2>2, <2>3
  <2> QED
    BY <1>1, <2>4, Counted
<1>2. ASSUME NEW r \in Fenced
      PROVE  refresh[r].auth \in Nat /\ refresh[r].gen \in Nat /\ refresh[r].gen < Stride /\ refresh[r].gen # 0
  BY <1>2, BelowStride DEF Fenced, TypeOK, Refresh, Numbered
<1>3. ASSUME NEW c \in Flows, NEW k \in Flows, WriteGeneration(c, 0) = WriteGeneration(k, 0) PROVE c = k
  BY <1>0, <1>1, <1>3
<1>4. ASSUME NEW c \in Flows, NEW r \in Fenced, WriteGeneration(c, 0) = RefreshGeneration(r) PROVE FALSE
  <2>1. refresh[r].gen = 0
    BY <1>0, <1>1, <1>2, <1>4 DEF RefreshGeneration
  <2> QED
    BY <1>2, <2>1
<1>5. ASSUME NEW r \in Fenced, NEW q \in Fenced, RefreshGeneration(r) = RefreshGeneration(q) PROVE r = q
  <2>1. refresh[r].auth = refresh[q].auth /\ refresh[r].gen = refresh[q].gen
    BY <1>1, <1>2, <1>5 DEF RefreshGeneration
  <2> QED
    BY <2>1 DEF GensDiffer
<1> QED
  BY <1>3, <1>4, <1>5

LEMMA SameToken ==
  ASSUME TypeOK, Quiet, FewFences, Numbered, GensDiffer, Authors,
         Present(secrets.refresh), secrets.access.gen = secrets.refresh.gen
  PROVE  secrets.access.token = secrets.refresh.token /\ Present(secrets.access)
<1>1. Present(secrets.access)
  BY DEF Present
<1>2. \/ \E c \in Flows : secrets.access.gen = WriteGeneration(c, 0) /\ secrets.access.token = Issued(c)
      \/ \E r \in Fenced : secrets.access.gen = RefreshGeneration(r) /\ secrets.access.token = refresh[r].token
  BY <1>1 DEF Authors, WrittenBy
<1>3. \/ \E c \in Flows : secrets.refresh.gen = WriteGeneration(c, 0) /\ secrets.refresh.token = Issued(c)
      \/ \E r \in Fenced : secrets.refresh.gen = RefreshGeneration(r) /\ secrets.refresh.token = refresh[r].token
  BY DEF Authors, WrittenBy
<1> QED
  BY <1>1, <1>2, <1>3, OneGeneration

(* The leading refresh can store over a token of its own grant.              *)
(* A whole pair holds the newest token of its grant, unless the leading      *)
(* refresh is about to store it.                                             *)
PlacedPair ==
  Present(secrets.refresh) /\ secrets.access.gen = secrets.refresh.gen =>
    LET g == secrets.refresh.token.grant IN
      g \in vendor.live => Astray(g) \/ Newest(secrets.refresh.token, g) \/ Ready(g)

LEMMA StepPlacedPair ==
  ASSUME Paired, Led, Known, Numbered, Authors, ReadsForward, AbsentEmpty, AnsweredNewest, PlacedPair,
         TypeOK', [Next]_vars
  PROVE  PlacedPair'
<1>0. /\ TypeOK /\ Quiet /\ FlowsInTime /\ RealTokens /\ FewFences /\ GensDiffer /\ WorkersHold
      /\ vendor.live \subseteq Flows /\ None \notin Flows
  <2>1. TypeOK /\ Quiet /\ FlowsInTime /\ RealTokens /\ FewFences /\ GensDiffer /\ WorkersHold
    BY DEF Paired, Quiet, Led, Known
  <2> QED
    BY <2>1, LiveTyped
<1> SUFFICES ASSUME Present(secrets.refresh)', secrets'.access.gen = secrets'.refresh.gen,
                    NEW g \in vendor'.live, secrets'.refresh.token.grant = g
             PROVE  Astray(g)' \/ Newest(secrets.refresh.token, g)' \/ Ready(g)'
  BY DEF PlacedPair
<1>1. g \in Flows
  BY DEF TypeOK
<1>2. ASSUME Astray(g) PROVE Astray(g)'
  BY <1>0, <1>1, <1>2, AstrayStays
(* The refresh token is stored.                                              *)
<1>3. ASSUME NEW c \in Flows, StoresRefresh(c) PROVE Newest(secrets.refresh.token, g)' \/ Astray(g)
  <2>1. flow[c].pc = "half" /\ secrets'.refresh.token = Issued(c) /\ vendor' = vendor /\ c = g
    BY <1>0, <1>3, StoringRefresh DEF IsPut, Issued
  <2> QED
    BY <1>0, <2>1, IssuedNewest DEF Newest
<1>4. ASSUME NEW r \in Refreshers, RestoresRefresh(r) PROVE Newest(secrets.refresh.token, g)' \/ Astray(g)
  <2>1. /\ refresh[r].pc = "half" /\ r \notin dead /\ secrets'.refresh.token = refresh[r].token
        /\ vendor' = vendor
    BY <1>0, <1>4, RestoringRefresh DEF IsPut
  <2> QED
    BY <2>1 DEF AnsweredNewest, Newest
<1>5. ASSUME NEW d \in Removers, SweepRefresh(d) PROVE secrets'.refresh = secrets.refresh
  <2>1. secrets'.refresh = Swept(secrets.refresh, removal[d].refs.refresh)
    BY <1>0, <1>5, Sweeping
  <2> QED
    BY <2>1 DEF Swept, Empty, Present
(* The access token is stored, last of the two.                              *)
<1>6. CASE secrets'.refresh = secrets.refresh
  <2>0. Present(secrets.refresh) /\ secrets.refresh.token.grant = g
    BY <1>6 DEF Present
  <2>1. ASSUME NEW c \in Flows, StoresAccess(c) PROVE Newest(secrets.refresh.token, g)' \/ Astray(g)
    <3>1. flow[c].pc = "writing" /\ secrets'.access.gen = WriteGeneration(c, 0) /\ vendor' = vendor
      BY <1>0, <2>1, StoringAccess DEF IsPut
    <3>2. secrets.refresh.gen = WriteGeneration(c, 0)
      BY <1>6, <3>1
    <3>3. secrets.refresh.token = Issued(c)
      <4>1. \/ \E k \in Flows : secrets.refresh.gen = WriteGeneration(k, 0) /\ secrets.refresh.token = Issued(k)
            \/ \E r \in Fenced : secrets.refresh.gen = RefreshGeneration(r)
        BY <2>0 DEF Authors, WrittenBy
      <4> QED
        BY <1>0, <3>2, <4>1, OneGeneration
    <3>4. c = g
      BY <2>0, <3>3 DEF Issued
    <3> QED
      BY <1>0, <1>6, <3>1, <3>3, <3>4, IssuedNewest DEF Newest
  <2>2. ASSUME NEW r \in Refreshers, RestoresAccess(r) PROVE FALSE
    <3>1. refresh[r].pc = "got" /\ secrets'.access.gen = RefreshGeneration(r) /\ r \in Fenced
      BY <1>0, <2>2, RestoringAccess DEF IsPut, Fenced
    <3>2. secrets.refresh.gen = RefreshGeneration(r)
      BY <1>6, <3>1
    <3>3. \/ \E k \in Flows : secrets.refresh.gen = WriteGeneration(k, 0)
          \/ \E q \in Fenced : /\ secrets.refresh.gen = RefreshGeneration(q)
                               /\ refresh[q].pc \in {"stored", "done"}
      BY <2>0 DEF Authors, WrittenBy
    <3> QED
      BY <1>0, <3>1, <3>2, <3>3, OneGeneration
  <2>3. ASSUME NEW d \in Removers, SweepAccess(d) PROVE secrets'.access = secrets.access
    <3>1. secrets'.access = Swept(secrets.access, removal[d].refs.access)
      BY <1>0, <2>3, Sweeping
    <3>2. secrets'.access.gen # None
      BY DEF Present
    <3> QED
      BY <3>1, <3>2 DEF Swept, Empty
  <2>4. CASE secrets'.access = secrets.access
    <3>1. secrets.access.gen = secrets.refresh.gen /\ secrets.access.token = secrets.refresh.token
      BY <1>0, <1>6, <2>0, <2>4, SameToken
    <3>2. g \in vendor.live
      <4>1. flow[g].pc \notin Unissued
        BY <1>0, <1>1, <2>0 DEF Known, KnownGrants, OutThere
      <4> QED
        BY <1>0, <1>1, <4>1, VendorMoves DEF Exchange, Unissued
    <3>3. Astray(g) \/ Newest(secrets.refresh.token, g) \/ Ready(g)
      BY <2>0, <3>1, <3>2 DEF PlacedPair
    <3>4. CASE \E r \in Refreshers : Refreshed(r) /\ refresh[r].token.grant = g
      BY <1>0, <1>1, <3>4, RotatedKept
    <3>5. CASE ~ \E r \in Refreshers : Refreshed(r) /\ refresh[r].token.grant = g
      <4>1. vendor'.seq[g] = vendor.seq[g]
        BY <1>0, <1>1, <3>5, Answered, VendorMoves
      <4>2. CASE Newest(secrets.refresh.token, g)
        BY <1>6, <4>1, <4>2 DEF Newest
      <4>3. CASE Ready(g)
        <5>1. ASSUME NEW r \in Refreshers, RestoresAccess(r), refresh[r].token.grant = g
              PROVE  FALSE
          BY <2>2, <5>1
        <5> QED
          BY <1>1, <2>0, <3>1, <4>1, <4>3, <5>1, ReadyStays
      <4> QED
        BY <1>2, <3>3, <4>2, <4>3
    <3> QED
      BY <3>4, <3>5
  <2> QED
    BY <1>0, <1>2, <2>1, <2>2, <2>3, <2>4, AccessMoves
<1> QED
  BY <1>0, <1>2, <1>3, <1>4, <1>5, <1>6, RefreshMovesOn
-------------------------------------------------------------------------------
(* A grant has a token in a secret or in a refresh only once its callback    *)
(* may put it.                                                               *)

Unwritten == Unissued \cup {"moving", "issued", "refused"}

WrittenGrants ==
  {secrets.access.token.grant, secrets.refresh.token.grant} \cup {refresh[r].token.grant : r \in Refreshers}

WrittenOnly == \A g \in WrittenGrants : g # None => flow[g].pc \notin Unwritten

LEMMA StepWrittenOnly ==
  ASSUME Quiet, RealTokens, WrittenOnly, TypeOK', [Next]_vars
  PROVE  WrittenOnly'
<1>0. TypeOK /\ \A g \in WrittenGrants' : g \in Flows \cup {None}
  <2>1. TypeOK
    BY DEF Quiet
  <2>2. /\ secrets'.access.token.grant \in Flows \cup {None}
        /\ secrets'.refresh.token.grant \in Flows \cup {None}
    BY DEF TypeOK, Secret, Token
  <2>3. \A r \in Refreshers : refresh'[r].token.grant \in Flows \cup {None}
    BY DEF TypeOK, Refresh, Token
  <2> QED
    BY <2>1, <2>2, <2>3 DEF WrittenGrants
<1>1. \A g \in WrittenGrants' : g \in WrittenGrants \/ g = None \/ (g \in Flows /\ flow[g].pc \in Puttings)
  <2>0. SecretsGoOn /\ (\A r \in Refreshers : TokenGoesOn(r)) /\ NoToken.grant = None
    BY <1>0, SecretsMove, RefreshTokensMove, TokensTyped
  <2>1. \A g \in MayBePut : g \in WrittenGrants \/ (g \in Flows /\ flow[g].pc \in Puttings)
    BY DEF MayBePut, WrittenGrants
  <2>2. \A g \in {secrets'.access.token.grant, secrets'.refresh.token.grant} :
          g \in WrittenGrants \/ g = None \/ g \in MayBePut
    BY <2>0 DEF SecretsGoOn, WrittenGrants
  <2>3. \A r \in Refreshers : refresh'[r].token.grant \in WrittenGrants
    <3> SUFFICES ASSUME NEW r \in Refreshers PROVE refresh'[r].token.grant \in WrittenGrants
      OBVIOUS
    <3>1. refresh[r].token.grant \in WrittenGrants /\ secrets.refresh.token.grant \in WrittenGrants
      BY DEF WrittenGrants
    <3> QED
      BY <2>0, <3>1 DEF TokenGoesOn
  <2> QED
    BY <2>1, <2>2, <2>3 DEF WrittenGrants
<1> SUFFICES ASSUME NEW g \in WrittenGrants', g # None PROVE flow'[g].pc \notin Unwritten
  BY DEF WrittenOnly
<1>2. g \in Flows /\ flow[g].pc \notin Unwritten
  BY <1>0, <1>1 DEF WrittenOnly, Puttings, Unwritten, Unissued
<1> QED
  BY <1>2, CallbacksMove DEF CallbackGoesOn, Unwritten, Unissued

-------------------------------------------------------------------------------
(* How a removal goes on.                                                    *)

RemovalAdvances(d) ==
  \/ removal'[d] = removal[d]
  \/ /\ Disconnect(d) /\ removal[d].pc = "idle" /\ removal'[d].pc = "marked" /\ ~removal'[d].claim
     /\ removal'[d].refs = row.refs /\ removal'[d].mark = row.mark
     /\ removal'[d].auth = row.auth + 1
  \/ /\ UNCHANGED <<removal[d].auth, removal[d].refs, removal[d].mark>>
     /\ removal[d].pc \notin {"idle", "done", "removed"}
     /\ \/ /\ UNCHANGED <<removal[d].claim, removal[d].mixed, removal[d].token>>
           /\ \/ removal'[d].pc = "done"
              \/ TakeHold(d) /\ removal[d].pc = "marked" /\ removal'[d].pc = "held"
              \/ SendAccess(d) /\ removal[d].pc = "sending access" /\ removal'[d].pc = "renewing"
              \/ /\ Renew(d) /\ removal[d].pc = "renewing"
                 /\ removal'[d].pc = IF removal[d].claim /\ ~removal[d].mark THEN "marking"
                                     ELSE "sweeping refresh"
              \/ Mark(d) /\ removal[d].pc = "marking" /\ removal'[d].pc = "sweeping refresh"
              \/ SweepRefresh(d) /\ removal[d].pc = "sweeping refresh" /\ removal'[d].pc = "sweeping access"
              \/ SweepAccess(d) /\ removal[d].pc = "sweeping access" /\ removal'[d].pc = "deleting"
              \/ Delete(d) /\ removal[d].pc = "deleting" /\ removal'[d].pc = "removed"
        \/ /\ Look(d) /\ removal[d].pc = "held"
           /\ \/ removal[d].mark /\ removal'[d].pc = "renewing" /\ removal'[d].claim
              \/ /\ ~removal[d].mark /\ removal'[d].pc = "renewing" /\ removal'[d].claim = removal[d].claim
              \/ /\ ~removal[d].mark /\ Behind(secrets.refresh, removal[d].refs.refresh)
                 /\ removal'[d].pc = "sending" /\ removal'[d].claim = removal[d].claim
                 /\ removal'[d].mixed = Mixed(d) /\ removal'[d].token = secrets.refresh.token
        \/ /\ Send(d) /\ removal[d].pc = "sending"
           /\ removal'[d].token = removal[d].token
           /\ removal'[d].pc = IF removal[d].mixed THEN "sending access" ELSE "renewing"
           /\ removal'[d].claim = ~removal[d].mixed

LEMMA RemovalsAdvance ==
  ASSUME TypeOK, [Next]_vars, NEW d \in Removers
  PROVE  RemovalAdvances(d)
<1>0. removal \in [Removers -> Removal] /\ removal[d] \in Removal
  BY DEF TypeOK
<1>1. CASE UNCHANGED removal
  BY <1>1 DEF RemovalAdvances
<1>2. ASSUME NEW e \in Removers, RemovalNext(e), e # d PROVE removal'[d] = removal[d]
  BY <1>0, <1>2 DEF RemovalNext, Disconnect, TakeHold, Look, Send, SendFails, SendAccess, Renew, Mark,
     SweepRefresh, SweepAccess, Delete, SweepFails
<1>3. CASE Disconnect(d)
  BY <1>0, <1>3 DEF Disconnect, Waiting, RemovalAdvances
<1>4. ASSUME NEW p \in RemovalSteps, removal' = [removal EXCEPT ![d].pc = p]
      PROVE  /\ removal'[d].pc = p
             /\ UNCHANGED <<removal[d].auth, removal[d].refs, removal[d].mark, removal[d].claim,
                            removal[d].mixed, removal[d].token>>
  BY <1>0, <1>4 DEF Removal
<1>5. CASE SendFails(d) \/ SweepFails(d)
  <2>1. removal[d].pc \notin {"idle", "done", "removed"} /\ removal' = [removal EXCEPT ![d].pc = "done"]
    BY <1>5 DEF SendFails, SweepFails
  <2> QED
    BY <1>4, <2>1 DEF RemovalAdvances, RemovalSteps
<1>6. CASE TakeHold(d)
  <2>1. removal[d].pc = "marked" /\ \E p \in {"held", "done"} : removal' = [removal EXCEPT ![d].pc = p]
    BY <1>6 DEF TakeHold
  <2> QED
    BY <1>4, <1>6, <2>1 DEF RemovalAdvances, RemovalSteps
<1>7. CASE SendAccess(d)
  <2>1. removal[d].pc = "sending access" /\ removal' = [removal EXCEPT ![d].pc = "renewing"]
    BY <1>7 DEF SendAccess
  <2> QED
    BY <1>4, <1>7, <2>1 DEF RemovalAdvances, RemovalSteps
<1>8. CASE Renew(d)
  <2>1. /\ removal[d].pc = "renewing"
        /\ \E p \in {IF removal[d].claim /\ ~removal[d].mark THEN "marking" ELSE "sweeping refresh", "done"} :
             removal' = [removal EXCEPT ![d].pc = p]
    BY <1>8 DEF Renew
  <2> QED
    BY <1>4, <1>8, <2>1 DEF RemovalAdvances, RemovalSteps
<1>9. CASE Mark(d)
  <2>1. removal[d].pc = "marking" /\ removal' = [removal EXCEPT ![d].pc = "sweeping refresh"]
    BY <1>9 DEF Mark
  <2> QED
    BY <1>4, <1>9, <2>1 DEF RemovalAdvances, RemovalSteps
<1>10. CASE SweepRefresh(d)
  <2>1. removal[d].pc = "sweeping refresh" /\ removal' = [removal EXCEPT ![d].pc = "sweeping access"]
    BY <1>10 DEF SweepRefresh
  <2> QED
    BY <1>4, <1>10, <2>1 DEF RemovalAdvances, RemovalSteps
<1>11. CASE SweepAccess(d)
  <2>1. removal[d].pc = "sweeping access" /\ removal' = [removal EXCEPT ![d].pc = "deleting"]
    BY <1>11 DEF SweepAccess
  <2> QED
    BY <1>4, <1>11, <2>1 DEF RemovalAdvances, RemovalSteps
<1>12. CASE Delete(d)
  <2>1. removal[d].pc = "deleting" /\ removal' = [removal EXCEPT ![d].pc = "removed"]
    BY <1>12 DEF Delete
  <2> QED
    BY <1>4, <1>12, <2>1 DEF RemovalAdvances, RemovalSteps
<1>13. CASE Look(d)
  <2> DEFINE v == IF removal[d].mark THEN [removal[d] EXCEPT !.pc = "renewing", !.claim = TRUE]
                  ELSE IF ~Behind(secrets.refresh, removal[d].refs.refresh)
                       THEN [removal[d] EXCEPT !.pc = "renewing"]
                  ELSE [removal[d] EXCEPT !.pc = "sending", !.mixed = Mixed(d),
                          !.token = secrets.refresh.token,
                          !.access = IF Mixed(d) THEN secrets.access.token ELSE NoToken]
  <2>1. removal[d].pc = "held" /\ removal' = [removal EXCEPT ![d] = v]
    BY <1>13 DEF Look
  <2>2. v.auth = removal[d].auth /\ v.refs = removal[d].refs /\ v.mark = removal[d].mark
    BY <1>0 DEF Removal
  <2>3. \/ removal[d].mark /\ v.pc = "renewing" /\ v.claim
        \/ ~removal[d].mark /\ v.pc = "renewing" /\ v.claim = removal[d].claim
        \/ /\ ~removal[d].mark /\ Behind(secrets.refresh, removal[d].refs.refresh)
           /\ v.pc = "sending" /\ v.claim = removal[d].claim
           /\ v.mixed = Mixed(d) /\ v.token = secrets.refresh.token
    BY <1>0 DEF Removal
  <2> HIDE DEF v
  <2>4. removal'[d] = v
    BY <1>0, <2>1
  <2> QED
    BY <1>13, <2>1, <2>2, <2>3, <2>4 DEF RemovalAdvances
<1>14. CASE Send(d)
  <2> DEFINE v == [removal[d] EXCEPT !.pc = IF removal[d].mixed THEN "sending access" ELSE "renewing",
                            !.claim = ~removal[d].mixed]
  <2>1. removal[d].pc = "sending" /\ removal' = [removal EXCEPT ![d] = v]
    BY <1>14 DEF Send
  <2>2. /\ v.auth = removal[d].auth /\ v.refs = removal[d].refs /\ v.mark = removal[d].mark
        /\ v.token = removal[d].token
        /\ v.pc = IF removal[d].mixed THEN "sending access" ELSE "renewing"
        /\ v.claim = ~removal[d].mixed
    BY <1>0 DEF Removal
  <2> HIDE DEF v
  <2>3. removal'[d] = v
    BY <1>0, <2>1
  <2> QED
    BY <1>14, <2>1, <2>2, <2>3 DEF RemovalAdvances
<1>15. ASSUME ~UNCHANGED removal PROVE \E e \in Removers : RemovalNext(e)
  BY <1>15 DEF Next, vars, Start, FlowNext, Consume, Exchange, Withdraw, Retire, PutAccess, PutRefresh,
     PutFails, Publish, Settle, GiveUp, RefreshNext, Fence, ReadToken, Refreshed, Refused, Unreachable,
     PutAccessAgain, PutRefreshAgain, Commit, LeaseLapses, LeaseIsOver, HoldLapses, BreaksOff
<1>16. CASE RemovalNext(d)
  BY <1>3, <1>5, <1>6, <1>7, <1>8, <1>9, <1>10, <1>11, <1>12, <1>13, <1>14, <1>16 DEF RemovalNext
<1>17. CASE removal'[d] = removal[d]
  BY <1>17 DEF RemovalAdvances
<1> QED
  BY <1>1, <1>2, <1>15, <1>16, <1>17

(* How the row goes on.                                                      *)
Regranted(c) == Retire(c) /\ Retirable(c)
Finishes(c) == Publish(c) /\ Publishable(c)
Recommits(r) == Commit(r) /\ StillFenced(r)
Breaks(r) == Refused(r) /\ StillFenced(r)

RowGoesOn ==
  \/ row'.status = row.status /\ row'.mark = row.mark /\ row'.refs = row.refs
  \/ /\ \E c \in Flows : Regranted(c)
     /\ row'.status = "error" /\ ~row'.mark /\ row'.refs = row.refs /\ row'.hold = NoHold
  \/ /\ row'.mark = row.mark
     /\ \/ /\ \E c \in Flows : Finishes(c)
           /\ row'.status = "connected" /\ UNCHANGED secrets
           /\ row'.refs = [access |-> secrets.access.id, refresh |-> secrets.refresh.id]
        \/ /\ \E r \in Refreshers : Recommits(r)
           /\ row'.status = row.status /\ UNCHANGED secrets
           /\ row'.refs = [access |-> secrets.access.id, refresh |-> secrets.refresh.id]
        \/ (\E r \in Refreshers : Breaks(r)) /\ row'.status = "error" /\ row'.refs = row.refs
        \/ /\ \E d \in Removers : Disconnect(d)
           /\ row'.status = "disconnected" /\ row'.refs = row.refs
        \/ /\ \E d \in Removers : Delete(d)
           /\ row'.status = "gone" /\ row'.refs = row.refs
  \/ /\ \E d \in Removers : Mark(d) /\ Exists
     /\ row'.status = row.status /\ row'.mark /\ row'.refs = row.refs

LEMMA RowMoves ==
  ASSUME TypeOK, [Next]_vars
  PROVE  RowGoesOn
<1>0. row \in Row
  BY DEF TypeOK
<1>1. ASSUME NEW c \in Flows, FlowNext(c), ~Regranted(c), ~Finishes(c)
      PROVE  row'.status = row.status /\ row'.mark = row.mark /\ row'.refs = row.refs
  BY <1>0, <1>1 DEF FlowNext, Consume, Exchange, Withdraw, Retire, Regranted, PutAccess, PutRefresh,
     PutFails, Publish, Finishes, Settle, GiveUp, Released, Row
<1>2. ASSUME NEW c \in Flows, Regranted(c) PROVE RowGoesOn
  <2>1. row'.status = "error" /\ ~row'.mark /\ row'.refs = row.refs /\ row'.hold = NoHold
    BY <1>0, <1>2 DEF Regranted, Retire, Retired, Row
  <2> QED
    BY <1>2, <2>1 DEF RowGoesOn
<1>3. ASSUME NEW c \in Flows, Finishes(c) PROVE RowGoesOn
  <2>1. /\ row'.status = "connected" /\ UNCHANGED secrets /\ row'.mark = row.mark
        /\ row'.refs = [access |-> secrets.access.id, refresh |-> secrets.refresh.id]
    BY <1>0, <1>3 DEF Finishes, Publish, Published, Row
  <2> QED
    BY <1>3, <2>1 DEF RowGoesOn
<1>4. ASSUME NEW r \in Refreshers, RefreshNext(r), ~Recommits(r), ~Breaks(r)
      PROVE  row'.status = row.status /\ row'.mark = row.mark /\ row'.refs = row.refs
  BY <1>0, <1>4 DEF RefreshNext, Fence, ReadToken, Refreshed, Refused, Breaks, Unreachable,
     PutAccessAgain, PutRefreshAgain, Commit, Recommits, Row
<1>5. ASSUME NEW r \in Refreshers, Recommits(r) PROVE RowGoesOn
  <2>1. /\ row'.status = row.status /\ UNCHANGED secrets /\ row'.mark = row.mark
        /\ row'.refs = [access |-> secrets.access.id, refresh |-> secrets.refresh.id]
    BY <1>0, <1>5 DEF Recommits, Commit, Row
  <2> QED
    BY <1>5, <2>1 DEF RowGoesOn
<1>6. ASSUME NEW r \in Refreshers, Breaks(r) PROVE RowGoesOn
  <2>1. row'.status = "error" /\ row'.mark = row.mark /\ row'.refs = row.refs
    BY <1>0, <1>6 DEF Breaks, Refused, Row
  <2> QED
    BY <1>6, <2>1 DEF RowGoesOn
<1>7. ASSUME NEW d \in Removers, RemovalNext(d), ~Disconnect(d), ~Mark(d), ~Delete(d)
      PROVE  row'.status = row.status /\ row'.mark = row.mark /\ row'.refs = row.refs
  BY <1>0, <1>7 DEF RemovalNext, TakeHold, Look, Send, SendFails, SendAccess, Renew, SweepRefresh,
     SweepAccess, SweepFails, Freed, Row
<1>8. ASSUME NEW d \in Removers, Disconnect(d) PROVE RowGoesOn
  <2>1. row'.status = "disconnected" /\ row'.mark = row.mark /\ row'.refs = row.refs
    BY <1>0, <1>8 DEF Disconnect, Disconnected, Row
  <2> QED
    BY <1>8, <2>1 DEF RowGoesOn
<1>9. ASSUME NEW d \in Removers, Mark(d) PROVE RowGoesOn
  <2>1. row'.status = row.status /\ row'.refs = row.refs /\ (Exists => row'.mark) /\ (~Exists => row' = row)
    BY <1>0, <1>9 DEF Mark, Row
  <2> QED
    BY <1>9, <2>1 DEF RowGoesOn
<1>10. ASSUME NEW d \in Removers, Delete(d) PROVE RowGoesOn
  <2>1. row'.status = "gone" /\ row'.mark = row.mark /\ row'.refs = row.refs
    BY <1>0, <1>10 DEF Delete, Row
  <2> QED
    BY <1>10, <2>1 DEF RowGoesOn
<1>11. CASE \/ Start \/ LeaseLapses \/ LeaseIsOver \/ HoldLapses \/ UNCHANGED vars
            \/ \E x \in Flows \cup Refreshers \cup Removers : BreaksOff(x)
  <2>1. row'.status = row.status /\ row'.mark = row.mark /\ row'.refs = row.refs
    BY <1>0, <1>11 DEF Start, LeaseLapses, LeaseIsOver, HoldLapses, BreaksOff, vars, Row
  <2> QED
    BY <2>1 DEF RowGoesOn
<1>12. ASSUME row'.status = row.status /\ row'.mark = row.mark /\ row'.refs = row.refs PROVE RowGoesOn
  BY <1>12 DEF RowGoesOn
<1> QED
  BY <1>1, <1>2, <1>3, <1>4, <1>5, <1>6, <1>7, <1>8, <1>9, <1>10, <1>11, <1>12 DEF Next

(* The row once it is gone stays gone.                                       *)
LEMMA GoneStays ==
  ASSUME TypeOK, [Next]_vars
  PROVE  /\ Exists' => Exists
         /\ ~Exists' => ~Exists \/ \E d \in Removers : Delete(d)
<1>1. ASSUME ~Exists PROVE ~Exists'
  <2>1. /\ \A c \in Flows : ~Regranted(c) /\ ~Finishes(c)
        /\ \A r \in Refreshers : ~Recommits(r) /\ ~Breaks(r)
        /\ \A d \in Removers : ~Disconnect(d)
    BY <1>1 DEF Exists, Regranted, Retirable, Finishes, Publishable, Recommits, Breaks, StillFenced,
       Disconnect
  <2> QED
    BY <1>1, <2>1, RowMoves DEF RowGoesOn, Exists
<1>2. ASSUME Exists, ~Exists' PROVE \E d \in Removers : Delete(d)
  BY <1>2, RowMoves DEF RowGoesOn, Exists
<1> QED
  BY <1>1, <1>2

-------------------------------------------------------------------------------
(* What a removal claims, it claims only after it has looked and sent.       *)
ClaimLate ==
  \A d \in Removers :
    /\ removal[d].claim => removal[d].pc \notin {"idle", "marked", "held", "sending"}
    /\ removal[d].pc = "marking" => removal[d].claim

LEMMA StepClaimLate ==
  ASSUME TypeOK, ClaimLate, [Next]_vars
  PROVE  ClaimLate'
<1> SUFFICES ASSUME NEW d \in Removers
             PROVE  /\ removal'[d].claim => removal'[d].pc \notin {"idle", "marked", "held", "sending"}
                    /\ removal'[d].pc = "marking" => removal'[d].claim
  BY DEF ClaimLate
<1>1. RemovalAdvances(d)
  BY RemovalsAdvance
<1>2. /\ removal[d].claim => removal[d].pc \notin {"idle", "marked", "held", "sending"}
      /\ removal[d].pc = "marking" => removal[d].claim
  BY DEF ClaimLate
<1> QED
  BY <1>1, <1>2 DEF RemovalAdvances

-------------------------------------------------------------------------------
(* A row that is held, marked or gone is disconnected, and no writer but an  *)
(* overtaken one goes on: a new authorization lifts both hold and mark.      *)
Shut == row.hold.by # NoRemover \/ row.mark \/ ~Exists

ShutIsQuiet ==
  Shut => /\ row.status \in {"disconnected", "gone"}
          /\ \A x \in Writers : Writing(x) /\ LeaseOf(x) > 0 => x \in overtaken

LEMMA StaysShut ==
  ASSUME TypeOK, WorkersHold, [Next]_vars, Shut'
  PROVE  /\ \A c \in Flows : ~Regranted(c)
         /\ Shut \/ row'.hold.by # NoRemover
<1>1. ASSUME NEW c \in Flows, Regranted(c) PROVE FALSE
  <2>1. row' = Retired(clock.taken + 1) /\ row \in Row
    BY <1>1 DEF Regranted, Retire, TypeOK
  <2>2. row'.status = "error" /\ row'.mark = FALSE /\ row'.hold = NoHold
    BY <2>1 DEF Retired, Row
  <2> QED
    BY <2>2 DEF Shut, Exists, NoHold
<1>2. ASSUME NEW d \in Removers, Mark(d) \/ Delete(d) PROVE Shut
  <2>1. row.hold.by = d
    BY <1>2 DEF WorkersHold, Working, Mark, Delete, Runs
  <2> QED
    BY <2>1, Sorts DEF Shut
<1>3. row'.mark => row.mark \/ \E d \in Removers : Mark(d)
  BY RowMoves DEF RowGoesOn
<1> QED
  BY <1>1, <1>2, <1>3, GoneStays DEF Shut

LEMMA StepShutIsQuiet ==
  ASSUME Paired, FlowsInTime, ShutIsQuiet, TypeOK', [Next]_vars
  PROVE  ShutIsQuiet'
<1>0. TypeOK /\ Quiet /\ WorkersHold /\ Quiet'
  BY StepQuiet DEF Paired, Quiet
<1> SUFFICES ASSUME Shut'
             PROVE  /\ row'.status \in {"disconnected", "gone"}
                    /\ \A x \in Writers : Writing(x)' /\ LeaseOf(x)' > 0 => x \in overtaken'
  BY DEF ShutIsQuiet
<1>1. CASE row'.hold.by # NoRemover
  BY <1>0, <1>1 DEF Quiet, HoldIsQuiet
<1>2. CASE Shut
  <2>0. /\ row.status \in {"disconnected", "gone"}
        /\ \A x \in Writers : Writing(x) /\ LeaseOf(x) > 0 => x \in overtaken
    BY <1>2 DEF ShutIsQuiet
  <2>1. \A c \in Flows : ~Regranted(c) /\ ~Finishes(c)
    BY <1>0, <2>0, StaysShut DEF Finishes, Publishable
  <2>2. \A r \in Refreshers : ~Breaks(r)
    BY <1>0, <2>0 DEF Breaks, Refused, StillFenced, Exists, Quiet, Generations, RefreshesKnow
  <2>3. row'.status \in {"disconnected", "gone"}
    BY <1>0, <2>0, <2>1, <2>2, RowMoves DEF RowGoesOn
  <2>4. ASSUME NEW c \in Flows, Writing(c)', LeaseOf(c)' > 0 PROVE c \in overtaken'
    <3>1. flow'[c].pc # "done" /\ c \notin dead' /\ flow'[c].lease > 0
      BY <2>4, KindsNext
    <3>2. flow'[c].lease = flow[c].lease /\ flow[c].pc # "done" /\ c \notin dead
      BY <1>0, <2>1, <3>1, FlowLeasesMove, LapsesMove DEF Regranted
    <3>3. Writing(c) /\ LeaseOf(c) > 0
      BY <3>1, <3>2, Kinds
    <3> QED
      BY <2>0, <3>3, OvertakenMove DEF Writers
  <2>5. ASSUME NEW r \in Refreshers, Writing(r)', LeaseOf(r)' > 0 PROVE r \in overtaken'
    <3>1. refresh'[r].pc # "done" /\ r \notin dead' /\ refresh'[r].lease > 0
      BY <2>5, KindsNext
    <3>2. ~Fence(r)
      BY <2>0 DEF Fence, Fenceable
    <3>3. refresh'[r].lease = refresh[r].lease /\ refresh[r].pc # "done" /\ r \notin dead
      BY <1>0, <3>1, <3>2, RefreshesMove, LapsesMove DEF RefreshGoesOn
    <3>4. Writing(r) /\ LeaseOf(r) > 0
      BY <3>1, <3>3, Kinds
    <3> QED
      BY <2>0, <3>4, OvertakenMove DEF Writers
  <2> QED
    BY <2>3, <2>4, <2>5 DEF Writers
<1> QED
  BY <1>0, <1>1, <1>2, StaysShut
-------------------------------------------------------------------------------
(* A removal that goes on has the row's own refs, and the row's own mark.    *)

AtWork(d) ==
  /\ removal[d].pc \notin {"idle", "done", "removed"} /\ Exists
  /\ row.auth = removal[d].auth \/ row.hold.by = d

RefsStay ==
  \A d \in Removers : AtWork(d) => removal[d].refs = row.refs /\ (removal[d].mark => row.mark)

(* Beside it, nothing changes the refs or takes back the mark.               *)
LEMMA WorkRests ==
  ASSUME Quiet, [Next]_vars, NEW d \in Removers, AtWork(d)
  PROVE  /\ row'.refs = row.refs
         /\ row.mark => row'.mark \/ ~AtWork(d)'
<1>0. TypeOK /\ row.status \in {"disconnected", "gone"} /\ Exists /\ d # NoRemover
  BY Sorts DEF Quiet, AtWork, Generations, RemovalsKnow, HoldIsQuiet
<1>1. \A c \in Flows : ~Finishes(c)
  BY <1>0 DEF Finishes, Publishable
<1>2. \A r \in Refreshers : ~Recommits(r) /\ ~Breaks(r)
  BY <1>0 DEF Recommits, Commit, Breaks, Refused, StillFenced, Exists, Quiet, Generations, RefreshesKnow
<1>3. ASSUME NEW c \in Flows, Regranted(c) PROVE ~AtWork(d)'
  <2>1. row.auth = c /\ flow[c].pc = "issued"
    BY <1>3 DEF Regranted, Retire, Retirable
  <2>2. removal[d].auth # row.auth
    BY <1>0, <2>1 DEF AtWork, Quiet, Generations, RemovalsKnow
  <2>3. row'.auth = row.auth /\ row'.hold = NoHold /\ removal' = removal
    <3>1. row' = Retired(clock.taken + 1) /\ row \in Row /\ removal' = removal
      BY <1>0, <1>3 DEF Regranted, Retire, TypeOK
    <3> QED
      BY <3>1 DEF Retired, Row
  <2> QED
    BY <1>0, <2>2, <2>3 DEF AtWork, NoHold
<1> QED
  BY <1>0, <1>1, <1>2, <1>3, RowMoves DEF RowGoesOn

LEMMA WorkGoesOn ==
  ASSUME Quiet, [Next]_vars, NEW d \in Removers, AtWork(d)'
  PROVE  AtWork(d) \/ Disconnect(d)
<1>0. TypeOK /\ RemovalAdvances(d) /\ Exists
  BY RemovalsAdvance, GoneStays DEF Quiet, AtWork
<1>1. CASE ~Disconnect(d)
  <2>1. /\ removal[d].pc \notin {"idle", "done", "removed"} /\ removal'[d].auth = removal[d].auth
    BY <1>0, <1>1 DEF RemovalAdvances, AtWork
  <2>2. CASE row'.hold.by = d /\ row.hold.by # d
    <3>1. TakeHold(d) /\ Holdable(d)
      BY <1>0, <2>2, HoldMoves, Sorts
    <3> QED
      BY <1>0, <2>1, <3>1 DEF Holdable, AtWork
  <2>3. CASE row'.auth = removal'[d].auth
    <3>1. removal[d].auth <= row.auth /\ removal[d].auth \in Nat /\ row.auth \in Nat
      BY <1>0, <2>1 DEF Quiet, Generations, RemovalsKnow, TypeOK, Removal, Row
    <3>2. row.auth = removal[d].auth
      BY <1>0, <2>1, <2>3, <3>1, GenerationMoves
    <3> QED
      BY <1>0, <2>1, <3>2 DEF AtWork
  <2> QED
    BY <1>0, <2>1, <2>2, <2>3 DEF AtWork
<1> QED
  BY <1>1

LEMMA StepRefsStay ==
  ASSUME Quiet, RefsStay, [Next]_vars
  PROVE  RefsStay'
<1> SUFFICES ASSUME NEW d \in Removers, AtWork(d)'
             PROVE  removal'[d].refs = row'.refs /\ (removal'[d].mark => row'.mark)
  BY DEF RefsStay
<1>0. TypeOK /\ RemovalAdvances(d)
  BY RemovalsAdvance DEF Quiet
<1>1. CASE Disconnect(d)
  <2>1. row' = Disconnected /\ row \in Row /\ removal[d].pc = "idle" /\ removal'[d].pc = "marked"
    BY <1>0, <1>1 DEF Disconnect, Waiting, TypeOK
  <2>2. row'.refs = row.refs /\ row'.mark = row.mark
    BY <2>1 DEF Disconnected, Row
  <2> QED
    BY <1>0, <2>1, <2>2 DEF RemovalAdvances
<1>2. CASE ~Disconnect(d)
  <2>1. AtWork(d)
    BY <1>2, WorkGoesOn
  <2>2. removal'[d].refs = removal[d].refs /\ removal'[d].mark = removal[d].mark
    BY <1>0, <1>2 DEF RemovalAdvances
  <2> QED
    BY <2>1, <2>2, WorkRests DEF RefsStay
<1> QED
  BY <1>1, <1>2

-------------------------------------------------------------------------------
(* What the refs name.  A secret keeps its name until it is swept; one put   *)
(* in its place has a newer name.                                            *)

RefsOld == row.refs.refresh <= secrets.refresh.id

LEMMA NamesMove ==
  ASSUME Paired, FlowsInTime, [Next]_vars
  PROVE  /\ secrets.refresh.id <= secrets'.refresh.id
         /\ \A n \in Nat : n <= secrets.refresh.id /\ Behind(secrets.refresh, n)' => Behind(secrets.refresh, n)
<1>0. TypeOK /\ Quiet /\ WorkersHold /\ secrets.refresh.id \in Nat
  BY TokensTyped DEF Paired, Quiet, Secret
<1>1. ASSUME NEW c \in Flows, StoresRefresh(c)
      PROVE  secrets'.refresh.id = IF Present(secrets.refresh) THEN secrets.refresh.id ELSE secrets.refresh.id + 1
  BY <1>0, <1>1, StoringRefresh DEF IsPut
<1>2. ASSUME NEW r \in Refreshers, RestoresRefresh(r)
      PROVE  secrets'.refresh.id = IF Present(secrets.refresh) THEN secrets.refresh.id ELSE secrets.refresh.id + 1
  BY <1>0, <1>2, RestoringRefresh DEF IsPut
<1>3. ASSUME NEW d \in Removers, SweepRefresh(d)
      PROVE  \/ secrets'.refresh = secrets.refresh
             \/ secrets'.refresh.id = secrets.refresh.id /\ ~Present(secrets.refresh)'
  <2>1. secrets'.refresh = Swept(secrets.refresh, removal[d].refs.refresh)
    BY <1>0, <1>3, Sweeping
  <2> QED
    BY <2>1 DEF Swept, Empty, Present
<1> QED
  BY <1>0, <1>1, <1>2, <1>3, RefreshMovesOn DEF Behind

LEMMA StepRefsOld ==
  ASSUME Paired, FlowsInTime, RefsOld, TypeOK', [Next]_vars
  PROVE  RefsOld'
<1>0. /\ TypeOK /\ secrets.refresh.id \in Nat /\ secrets'.refresh.id \in Nat
      /\ row.refs.refresh \in Nat /\ row'.refs.refresh \in Nat
  BY DEF Paired, Quiet, TypeOK, Secret, Row, Refs
<1> QED
  BY <1>0, NamesMove, RefsMove DEF RefsOld

LEMMA SweptAway ==
  ASSUME NEW s, NEW ref
  PROVE  ~Behind(Swept(s, ref), ref)
<1>1. CASE Behind(s, ref)
  <2>1. Swept(s, ref).gen = None
    BY <1>1 DEF Swept, Empty
  <2> QED
    BY <2>1 DEF Behind, Present
<1>2. CASE ~Behind(s, ref)
  BY <1>2 DEF Swept
<1> QED
  BY <1>1, <1>2

(* A removal that sweeps the access token has swept the refresh token.       *)
SweptFirst ==
  \A d \in Removers : removal[d].pc = "sweeping access" /\ d \notin dead =>
    ~Behind(secrets.refresh, row.refs.refresh)

LEMMA HoldersWork ==
  ASSUME Quiet, WorkersHold, NEW d \in Removers, removal[d].pc \in Working, d \notin dead
  PROVE  AtWork(d) /\ row.hold.by = d
BY Sorts DEF WorkersHold, Quiet, HoldIsQuiet, AtWork, Exists, Working

LEMMA StepSweptFirst ==
  ASSUME Paired, FlowsInTime, RefsStay, RefsOld, SweptFirst, TypeOK', [Next]_vars
  PROVE  SweptFirst'
<1> SUFFICES ASSUME NEW d \in Removers, removal'[d].pc = "sweeping access", d \notin dead'
             PROVE  ~Behind(secrets'.refresh, row'.refs.refresh)
  BY DEF SweptFirst
<1>0. TypeOK /\ Quiet /\ WorkersHold /\ row.refs.refresh \in Nat
  BY DEF Paired, Quiet, TypeOK, Row, Refs
<1>1. d \notin dead /\ RemovalAdvances(d)
  BY <1>0, LapsesMove, RemovalsAdvance
<1>2. removal[d].pc = "sweeping access" \/ SweepRefresh(d)
  BY <1>1 DEF RemovalAdvances
<1>3. AtWork(d) /\ row'.refs = row.refs
  BY <1>0, <1>1, <1>2, HoldersWork, WorkRests DEF SweepRefresh, Working
<1>4. CASE SweepRefresh(d)
  <2>1. secrets'.refresh = Swept(secrets.refresh, row.refs.refresh)
    BY <1>0, <1>3, <1>4, Sweeping DEF RefsStay
  <2> QED
    BY <1>3, <2>1, SweptAway
<1>5. CASE removal[d].pc = "sweeping access"
  <2>1. ~Behind(secrets.refresh, row.refs.refresh)
    BY <1>1, <1>5 DEF SweptFirst
  <2>2. ~Behind(secrets.refresh, row.refs.refresh)'
    <3>1. PICK n \in Nat : n = row.refs.refresh
      BY <1>0
    <3>2. ~Behind(secrets.refresh, n)'
      BY <2>1, <3>1, NamesMove DEF RefsOld
    <3> QED
      BY <1>3, <3>1, <3>2 DEF Behind
  <2> QED
    BY <2>2
<1> QED
  BY <1>2, <1>4, <1>5

(* Where the refs name a refresh token they name the access token beside it. *)
Aligned == Behind(secrets.refresh, row.refs.refresh) => Behind(secrets.access, row.refs.access)

LEMMA PutPresent ==
  ASSUME TypeOK, Quiet
  PROVE  /\ \A c \in Flows : WriteGeneration(c, 0) # None
         /\ \A r \in Fenced : WriteGeneration(refresh[r].auth, 0) > 0 /\ RefreshGeneration(r) # None
<1>1. \A c \in Flows : c \in Nat /\ c > 0
  BY Sorts
<1>2. ASSUME NEW a \in Nat, NEW n \in Nat, a > 0 PROVE WriteGeneration(a, n) > 0 /\ WriteGeneration(a, n) # None
  BY <1>2, Counted DEF None
<1>3. \A r \in Fenced : refresh[r].auth \in Flows /\ refresh[r].gen \in Nat
  BY DEF Quiet, Generations, RefreshesKnow, Fenced, TypeOK, Refresh
<1> QED
  BY <1>1, <1>2, <1>3 DEF RefreshGeneration

LEMMA StepAligned ==
  ASSUME Paired, Led, Floor, RefsOld, SweptFirst, Aligned, TypeOK', [Next]_vars
  PROVE  Aligned'
<1>0. /\ TypeOK /\ Quiet /\ FlowsInTime /\ WorkersHold /\ OvertakenBehind
      /\ row.refs.refresh \in Nat /\ secrets.access.gen \in Nat
  BY TokensTyped DEF Paired, Quiet, Led, TypeOK, Row, Refs, Secret
<1> SUFFICES ASSUME Behind(secrets'.refresh, row'.refs.refresh)
             PROVE  Behind(secrets'.access, row'.refs.access)
  BY DEF Aligned
<1>1. CASE row'.refs = row.refs
  <2>1. Behind(secrets.refresh, row.refs.refresh)
    <3>1. PICK n \in Nat : n = row.refs.refresh
      BY <1>0
    <3>2. Behind(secrets.refresh, n)'
      BY <1>1, <3>1 DEF Behind
    <3> QED
      BY <1>0, <3>1, <3>2, NamesMove DEF RefsOld
  <2>2. Behind(secrets.access, row.refs.access)
    BY <2>1 DEF Aligned
  <2>3. ASSUME NEW c \in Flows, StoresAccess(c) PROVE Behind(secrets'.access, row.refs.access)
    BY <1>0, <2>2, <2>3, StoringAccess, PutPresent DEF IsPut, Behind, Present
  <2>4. ASSUME NEW r \in Refreshers, RestoresAccess(r) PROVE Behind(secrets'.access, row.refs.access)
    BY <1>0, <2>2, <2>4, RestoringAccess, PutPresent DEF IsPut, Behind, Present, Fenced
  <2>5. ASSUME NEW d \in Removers, SweepAccess(d) PROVE FALSE
    BY <2>1, <2>5 DEF SweepAccess, SweptFirst, Runs
  <2> QED
    BY <1>0, <1>1, <2>2, <2>3, <2>4, <2>5, AccessMoves
<1>2. ASSUME NEW c \in Flows, Finishes(c) PROVE Present(secrets.access)
  <2>1. row.auth = c /\ flow[c].pc = "stored"
    BY <1>2 DEF Finishes, Publish, Publishable
  <2> QED
    BY <1>0, <2>1, PutPresent DEF Paired, Stores, Puttings, Present
<1>3. ASSUME NEW r \in Refreshers, Recommits(r) PROVE Present(secrets.access)
  <2>1. refresh[r].pc = "stored" /\ r \notin dead /\ refresh[r].gen = row.gen /\ refresh[r].auth = row.auth
    BY <1>3 DEF Recommits, Commit, StillFenced, Runs
  <2>2. r \notin overtaken /\ r \in Fenced
    <3>1. r \in Fenced /\ row.gen \in Nat
      BY <1>0, <2>1 DEF Fenced, TypeOK, Row
    <3> QED
      BY <2>1, <3>1, <1>0 DEF OvertakenBehind
  <2>3. Leader(r)
    BY <2>1, <2>2, Kinds DEF Leader, Leading
  <2>4. WriteGeneration(refresh[r].auth, 0) <= secrets.access.gen
    BY <2>3 DEF Floor
  <2>5. WriteGeneration(refresh[r].auth, 0) > 0 /\ WriteGeneration(refresh[r].auth, 0) \in Nat
    BY <1>0, <2>2, PutPresent, Written DEF Fenced, TypeOK, Refresh
  <2> QED
    BY <1>0, <2>4, <2>5 DEF Present, None
<1>4. ASSUME Present(secrets.access), UNCHANGED secrets,
             row'.refs = [access |-> secrets.access.id, refresh |-> secrets.refresh.id]
      PROVE  Behind(secrets'.access, row'.refs.access)
  BY <1>4 DEF Behind, Present
<1> QED
  BY <1>0, <1>1, <1>2, <1>3, <1>4, RowMoves DEF RowGoesOn
-------------------------------------------------------------------------------
(* Nothing is left to revoke, or nothing but what t can.                     *)

SettledBut(t) ==
  /\ \A g \in vendor.live : Spared(g) \/ Newest(t, g)
  /\ LET g == secrets.refresh.token.grant IN g \in vendor.live => Unstored(g) \/ Newest(t, g)

(* While the row is shut: what Paired and Known say of it, and no writer.    *)
Closed ==
  /\ Paired /\ FlowsInTime /\ Known /\ WrittenOnly /\ LiveIssued
  /\ ShutIsQuiet /\ Shut

LEMMA ClosedStops ==
  ASSUME Closed
  PROVE  /\ \A r \in Refreshers : refresh[r].pc \in Reading /\ r \notin dead => Astray(refresh[r].token.grant)
         /\ \A r \in Refreshers : ~Leading(r) \/ refresh[r].pc = "idle"
         /\ \A c \in Flows : flow[c].pc \in Leased => c \in dead
<1>0. /\ Quiet /\ FlowsInTime
      /\ \A x \in Writers : Writing(x) /\ LeaseOf(x) > 0 => x \in overtaken
  BY DEF Closed, Paired, ShutIsQuiet
<1>1. ASSUME NEW r \in Refreshers, refresh[r].pc # "idle", Writing(r) PROVE r \in overtaken
  <2>1. LeaseOf(r) > 0
    BY <1>0, <1>1, Kinds DEF Quiet, Leases, LeasesTaken
  <2> QED
    BY <1>0, <1>1, <2>1 DEF Writers
<1>2. ASSUME NEW r \in Refreshers, refresh[r].pc \in Reading, r \notin dead PROVE Astray(refresh[r].token.grant)
  <2>1. refresh[r].pc # "idle" /\ Writing(r)
    BY <1>2, Kinds DEF Reading
  <2> QED
    BY <1>1, <2>1 DEF Astray
<1>3. ASSUME NEW r \in Refreshers PROVE ~Leading(r) \/ refresh[r].pc = "idle"
  BY <1>1 DEF Leading
<1>4. ASSUME NEW c \in Flows, flow[c].pc \in Leased PROVE c \in dead
  <2>1. LeaseOf(c) > 0 /\ flow[c].pc # "done" /\ c \notin overtaken
    BY <1>0, <1>4, Kinds, Sorts DEF Quiet, Leases, LeasesTaken, Leased, Puttings, FlowsInTime, Fenced
  <2> QED
    BY <1>0, <2>1, Kinds DEF Writers
<1> QED
  BY <1>2, <1>3, <1>4

(* A grant that is issued meanwhile is its callback's to store or settle.    *)
LEMMA IssuedUnstored ==
  ASSUME TypeOK, [Next]_vars, NEW g \in Flows, g \in vendor'.live, g \notin vendor.live
  PROVE  Unstored(g)'
<1>1. Exchange(g)
  BY VendorMoves
<1>2. flow'[g].pc \in {"issued", "moving"}
  <2>1. \E p \in {"issued", "moving"} : flow' = [flow EXCEPT ![g].pc = p]
    BY <1>1 DEF Exchange
  <2> QED
    BY <2>1 DEF TypeOK, Flow
<1> QED
  BY <1>2 DEF Unstored

LEMMA UnstoredStays ==
  ASSUME Closed, [Next]_vars, Shut', NEW g \in Flows, g \in vendor'.live, g \in vendor.live, Unstored(g)
  PROVE  Unstored(g)' \/ (flow[g].pc = "refused" /\ g \in left')
<1>0. TypeOK /\ Quiet /\ WorkersHold /\ RealTokens /\ flow[g].pc \notin Unissued
  <2>1. TypeOK /\ Quiet /\ WorkersHold /\ RealTokens
    BY DEF Closed, Paired, Quiet, Known
  <2>2. g # None
    BY <2>1, LiveTyped
  <2> QED
    BY <2>1, <2>2 DEF Closed, LiveIssued, OutThere
<1> DEFINE Out == {"moving", "issued", "writing", "refused", "unpublished", "failed"}
<1>1. CASE Astray(g)
  <2>1. Astray(g)'
    BY <1>0, <1>1, AstrayStays
  <2> QED
    BY <2>1 DEF Unstored, Astray
<1>2. CASE flow[g].pc \in Out
  <2>1. flow'[g].pc \in Out => Unstored(g)'
    BY DEF Unstored
  <2>2. flow[g].pc \in Leased => g \in dead
    BY ClosedStops DEF Closed
  <2>3. ~StoresAccess(g)
    BY <2>2 DEF StoresAccess, PutAccess, Runs, Leased, Puttings
  <2>4. ~GiveUp(g)
    BY <2>2 DEF GiveUp, Runs, Leased, Puttings
  <2>5. Settle(g) => flow[g].pc = "refused" /\ g \in left'
    <3>1. SUFFICES ASSUME Settle(g) PROVE flow[g].pc = "refused" /\ g \in left'
      OBVIOUS
    <3>2. flow[g].pc = "refused"
      BY <2>2, <3>1 DEF Settle, Runs, Leased
    <3>3. ~(vendor' = [vendor EXCEPT !.live = vendor.live \ {g}])
      BY <1>0 DEF TypeOK
    <3> QED
      BY <3>1, <3>2, <3>3 DEF Settle
  <2> QED
    BY <1>0, <1>2, <2>1, <2>3, <2>4, <2>5, CallbacksMove, StaysShut DEF CallbackGoesOn, Regranted
<1>3. CASE g \notin dead /\ flow[g].pc # "done" /\ flow[g].pc \notin Out
  <2>1. flow[g].pc \notin {"half", "stored"}
    BY <1>3, ClosedStops DEF Leased, Puttings
  <2>2. flow[g].pc \in FlowSteps
    BY <1>0 DEF TypeOK, Flow
  <2> QED
    BY <1>0, <1>3, <2>1, <2>2 DEF FlowSteps, Unissued
<1> QED
  BY <1>1, <1>2, <1>3 DEF Unstored, Astray

LEMMA NewestStays ==
  ASSUME Closed, [Next]_vars, NEW t, NEW g \in Flows, Newest(t, g)
  PROVE  Newest(t, g)' \/ Unstored(g)'
<1>0. TypeOK /\ RealTokens
  BY DEF Closed, Paired, Quiet, Known
<1>1. CASE vendor'.seq[g] = vendor.seq[g]
  BY <1>1 DEF Newest
<1>2. ASSUME NEW r \in Refreshers, Refreshed(r), vendor'.seq[g] # vendor.seq[g] PROVE Unstored(g)'
  <2>1. refresh[r].token.grant = g /\ refresh[r].pc \in Reading /\ r \notin dead
    BY <1>0, <1>2, Answered DEF Reading
  <2>2. Astray(g)'
    BY <1>0, <2>1, ClosedStops, AstrayStays
  <2> QED
    BY <2>2 DEF Unstored, Astray
<1> QED
  BY <1>0, <1>1, <1>2, VendorMoves

(* While the row stays shut, what is settled stays so.                       *)
LEMMA StaysSettled ==
  ASSUME Closed, TypeOK', [Next]_vars, Shut', NEW t, SettledBut(t)
  PROVE  SettledBut(t)'
<1>0. TypeOK /\ RealTokens /\ Quiet /\ WorkersHold /\ vendor'.live \subseteq Flows /\ None \notin Flows
  <2>1. TypeOK /\ RealTokens /\ Quiet /\ WorkersHold
    BY DEF Closed, Paired, Quiet, Known
  <2> QED
    BY <2>1, LiveTyped DEF TypeOK
<1>1. ASSUME NEW g \in vendor'.live PROVE Spared(g)' \/ Newest(t, g)'
  <2>0. g \in Flows
    BY <1>0
  <2>1. CASE g \notin vendor.live
    BY <1>0, <2>0, <2>1, IssuedUnstored DEF Spared
  <2>2. CASE g \in vendor.live
    <3>1. g \in left \/ Unstored(g) \/ Newest(t, g)
      BY <2>2 DEF SettledBut, Spared
    <3> QED
      BY <2>0, <2>2, <3>1, LeftGrows, UnstoredStays, NewestStays DEF Spared
  <2> QED
    BY <2>1, <2>2
<1>2. ASSUME NEW g \in vendor'.live, secrets'.refresh.token.grant = g PROVE Unstored(g)' \/ Newest(t, g)'
  <2>0. g \in Flows
    BY <1>0
  <2>1. CASE g \notin vendor.live
    BY <1>0, <2>0, <2>1, IssuedUnstored
  <2>2. CASE g \in vendor.live /\ secrets'.refresh = secrets.refresh
    <3>1. secrets.refresh.token.grant = g /\ flow[g].pc # "refused"
      BY <1>0, <1>2, <2>0, <2>2 DEF Closed, WrittenOnly, WrittenGrants, Unwritten
    <3>2. Unstored(g) \/ Newest(t, g)
      BY <2>2, <3>1 DEF SettledBut
    <3> QED
      BY <2>0, <2>2, <3>1, <3>2, UnstoredStays, NewestStays
  <2>3. ASSUME NEW c \in Flows, StoresRefresh(c) PROVE FALSE
    BY <2>3, ClosedStops DEF StoresRefresh, PutRefresh, Runs, Leased, Puttings
  <2>4. ASSUME NEW r \in Refreshers, RestoresRefresh(r) PROVE Unstored(g)'
    <3>1. refresh[r].pc \in Reading /\ r \notin dead /\ refresh[r].token.grant = g
      BY <1>0, <1>2, <2>4, RestoringRefresh DEF IsPut, Reading
    <3>2. Astray(g)'
      BY <1>0, <2>0, <3>1, ClosedStops, AstrayStays
    <3> QED
      BY <3>2 DEF Unstored, Astray
  <2>5. ASSUME NEW d \in Removers, SweepRefresh(d) PROVE secrets'.refresh = secrets.refresh
    <3>1. secrets'.refresh = Swept(secrets.refresh, removal[d].refs.refresh)
      BY <1>0, <2>5, Sweeping DEF Closed
    <3>2. secrets'.refresh.token.grant # None
      BY <1>0, <1>2
    <3> QED
      BY <1>0, <3>1, <3>2, TokensTyped DEF Swept, Empty
  <2> QED
    BY <1>0, <2>1, <2>2, <2>3, <2>4, <2>5, RefreshMovesOn
<1> QED
  BY <1>1, <1>2 DEF SettledBut
-------------------------------------------------------------------------------
(* What removals report.                                                     *)

MarkSettled == row.mark /\ Exists => Settled

(* A removal that sends the refresh token of a whole pair settles with it.   *)
SentSettled ==
  \A d \in Removers : row.hold.by = d /\ removal[d].pc = "sending" /\ ~removal[d].mixed =>
    SettledBut(removal[d].token)

ToldSettled ==
  \A d \in Removers : removal[d].pc = "removed" /\ removal[d].claim => ~Exists /\ Settled

Settling == MarkSettled /\ ClaimSettled /\ SentSettled /\ ToldSettled

Reportable ==
  /\ Refreshable /\ Led /\ Provenance /\ LeaderPair /\ StandBack /\ NewestKept /\ AnsweredNewest
  /\ LiveIssued /\ AbsentEmpty /\ Placed /\ Numbered /\ PlacedPair
  /\ WrittenOnly /\ ClaimLate /\ ShutIsQuiet /\ RefsStay /\ RefsOld /\ SweptFirst /\ Aligned
  /\ Settling

LEMMA ReportableClosed ==
  ASSUME Reportable, Shut
  PROVE  Closed
BY DEF Reportable, Refreshable, Led, Closed

LEMMA StillSettled ==
  ASSUME Reportable, TypeOK', [Next]_vars, Shut, Shut', Settled
  PROVE  Settled'
<1>0. /\ TypeOK /\ NoToken.grant = None /\ None \notin Flows
      /\ vendor.live \subseteq Flows /\ vendor'.live \subseteq Flows
  <2>1. TypeOK
    BY DEF Reportable, Refreshable, Paired, Quiet
  <2> QED
    BY <2>1, LiveTyped, TokensTyped DEF TypeOK
<1>1. SettledBut(NoToken)
  BY <1>0 DEF Settled, SettledBut
<1>2. SettledBut(NoToken)'
  <2>1. PICK t : t = NoToken
    OBVIOUS
  <2>2. SettledBut(t)'
    BY <1>1, <2>1, ReportableClosed, StaysSettled
  <2> QED
    BY <2>1, <2>2
<1>3. \A g \in vendor'.live : ~Newest(NoToken, g)'
  BY <1>0 DEF Newest
<1> QED
  BY <1>2, <1>3 DEF Settled, SettledBut

(* The token that a removal finds behind the refs settles the rest, when the *)
(* pair it found is whole.                                                   *)
LEMMA LookSettles ==
  ASSUME Reportable, NEW d \in Removers, Look(d),
         Behind(secrets.refresh, removal[d].refs.refresh), ~Mixed(d)
  PROVE  SettledBut(secrets.refresh.token)
<1>0. /\ TypeOK /\ Quiet /\ WorkersHold /\ FewFences /\ GensDiffer /\ Authors /\ Numbered
      /\ Present(secrets.refresh) /\ vendor.live \subseteq Flows /\ None \notin Flows
  <2>1. TypeOK /\ Quiet /\ WorkersHold /\ FewFences /\ GensDiffer /\ Authors /\ Numbered
    BY DEF Reportable, Refreshable, Paired, Quiet, Led, Provenance
  <2> QED
    BY <2>1, LiveTyped DEF Behind
<1>1. AtWork(d) /\ row.hold.by = d
  BY <1>0, HoldersWork DEF Look, Working, Runs
<1>2. Closed
  BY <1>1, Sorts, ReportableClosed DEF Shut
<1>3. secrets.access.gen = secrets.refresh.gen
  BY <1>1 DEF Mixed, Reportable, RefsStay, Aligned
<1>4. secrets.access.token = secrets.refresh.token
  BY <1>0, <1>3, SameToken
<1>5. \A g : ~Ready(g)
  BY <1>2, ClosedStops DEF Ready
<1>6. ASSUME NEW g \in vendor.live PROVE Spared(g) \/ Newest(secrets.refresh.token, g)
  <2>0. g \in Flows /\ g # None /\ flow[g].pc \in FlowSteps \ Unissued
    BY <1>0 DEF Reportable, LiveIssued, OutThere, TypeOK, Flow
  <2>1. CASE flow[g].pc \in HasStored
    <3>1. Kept(g)
      BY <2>1 DEF Reportable, Placed
    <3> QED
      BY <1>4, <1>5, <3>1 DEF Kept, Given, Spared, Unstored, Astray
  <2>2. CASE flow[g].pc \notin HasStored
    BY <2>0, <2>2 DEF HasStored, FlowSteps, Unissued, Spared, Unstored
  <2> QED
    BY <2>1, <2>2
<1>7. ASSUME NEW g, g = secrets.refresh.token.grant, g \in vendor.live
      PROVE  Unstored(g) \/ Newest(secrets.refresh.token, g)
  BY <1>0, <1>3, <1>5, <1>7 DEF Reportable, PlacedPair, Unstored, Astray
<1> QED
  BY <1>6, <1>7 DEF SettledBut

LEMMA SendSettles ==
  ASSUME TypeOK, NEW d \in Removers, Send(d), SettledBut(removal[d].token)
  PROVE  Settled'
<1>1. /\ vendor' = AfterRevoking(removal[d].token)
      /\ UNCHANGED <<secrets, flow, refresh, dead, overtaken, left>>
  BY DEF Send
<1>2. /\ vendor'.live \subseteq vendor.live
      /\ \A g \in vendor'.live : ~Newest(removal[d].token, g)
  <2>1. CASE Current(removal[d].token)
    <3>1. vendor'.live = vendor.live \ {removal[d].token.grant}
      BY <1>1, <2>1 DEF AfterRevoking, TypeOK
    <3> QED
      BY <3>1 DEF Newest
  <2>2. CASE ~Current(removal[d].token)
    <3>1. vendor' = vendor
      BY <1>1, <2>2 DEF AfterRevoking
    <3> QED
      BY <2>2, <3>1 DEF Newest, Current
  <2> QED
    BY <2>1, <2>2
<1>3. ASSUME NEW g PROVE (Unstored(g) => Unstored(g)') /\ (Spared(g) => Spared(g)')
  BY <1>1 DEF Spared, Unstored, Misread
<1> QED
  BY <1>1, <1>2, <1>3 DEF SettledBut, Settled

LEMMA StepMarkSettled ==
  ASSUME Reportable, TypeOK', [Next]_vars
  PROVE  MarkSettled'
<1>0. TypeOK /\ WorkersHold
  BY DEF Reportable, Refreshable, Paired, Quiet
<1> SUFFICES ASSUME row'.mark, Exists' PROVE Settled'
  BY DEF MarkSettled
<1>1. Settled /\ Shut
  <2>1. CASE row.mark
    BY <1>0, <2>1, GoneStays DEF Shut, Reportable, Settling, MarkSettled
  <2>2. ASSUME NEW d \in Removers, Mark(d) PROVE Settled /\ Shut
    <3>1. row.hold.by = d /\ removal[d].claim
      BY <1>0, <2>2 DEF Mark, WorkersHold, Working, Runs, Reportable, ClaimLate
    <3> QED
      BY <3>1, Sorts DEF Shut, Reportable, Settling, ClaimSettled
  <2> QED
    BY <1>0, <2>1, <2>2, RowMoves DEF RowGoesOn
<1> QED
  BY <1>1, StillSettled DEF Shut

LEMMA StepClaimSettled ==
  ASSUME Reportable, TypeOK', [Next]_vars
  PROVE  ClaimSettled'
<1>0. TypeOK /\ Quiet /\ WorkersHold /\ ClaimLate'
  BY StepClaimLate DEF Reportable, Refreshable, Paired, Quiet
<1> SUFFICES ASSUME NEW d \in Removers, row'.hold.by = d, removal'[d].claim PROVE Settled'
  BY DEF ClaimSettled
<1>1. RemovalAdvances(d)
  BY <1>0, RemovalsAdvance
<1>2. row.hold.by = d
  <2>1. ~TakeHold(d) \/ ~Holdable(d)
    <3>1. TakeHold(d) /\ Holdable(d) => removal'[d].pc = "held"
      BY <1>0 DEF TakeHold, TypeOK, Removal
    <3> QED
      BY <1>0, <3>1 DEF ClaimLate
  <2> QED
    BY <1>0, <2>1, HoldMoves, Sorts
<1>3. Shut /\ Shut'
  BY <1>2, Sorts DEF Shut
<1>4. CASE removal[d].claim
  BY <1>2, <1>3, <1>4, StillSettled DEF Reportable, Settling, ClaimSettled
<1>5. CASE Look(d) /\ removal[d].mark
  <2>1. AtWork(d)
    BY <1>0, <1>5, HoldersWork DEF Look, Working, Runs
  <2>2. Settled
    BY <1>5, <2>1 DEF AtWork, Reportable, RefsStay, Settling, MarkSettled
  <2> QED
    BY <1>3, <2>2, StillSettled
<1>6. CASE Send(d) /\ ~removal[d].mixed
  <2>1. SettledBut(removal[d].token)
    BY <1>2, <1>6 DEF Send, Reportable, Settling, SentSettled
  <2> QED
    BY <1>0, <1>6, <2>1, SendSettles
<1>7. removal[d].claim \/ (Look(d) /\ removal[d].mark) \/ (Send(d) /\ ~removal[d].mixed)
  BY <1>1 DEF RemovalAdvances
<1> QED
  BY <1>4, <1>5, <1>6, <1>7

LEMMA StepSentSettled ==
  ASSUME Reportable, TypeOK', [Next]_vars
  PROVE  SentSettled'
<1>0. TypeOK /\ Quiet /\ WorkersHold
  BY DEF Reportable, Refreshable, Paired, Quiet
<1> SUFFICES ASSUME NEW d \in Removers, row'.hold.by = d, removal'[d].pc = "sending", ~removal'[d].mixed
             PROVE  SettledBut(removal[d].token)'
  BY DEF SentSettled
<1>1. RemovalAdvances(d)
  BY <1>0, RemovalsAdvance
<1>2. row.hold.by = d
  <2>1. ~TakeHold(d) \/ ~Holdable(d)
    <3>1. TakeHold(d) /\ Holdable(d) => removal'[d].pc = "held"
      BY <1>0 DEF TakeHold, TypeOK, Removal
    <3> QED
      BY <3>1
  <2> QED
    BY <1>0, <2>1, HoldMoves, Sorts
<1>3. Closed /\ Shut'
  BY <1>2, Sorts, ReportableClosed DEF Shut
<1>4. \E t : t = removal'[d].token /\ SettledBut(t)
  <2>1. CASE removal'[d] = removal[d]
    BY <1>2, <2>1 DEF Reportable, Settling, SentSettled
  <2>2. CASE Look(d)
    <3>1. /\ Behind(secrets.refresh, removal[d].refs.refresh)
          /\ removal'[d].mixed = Mixed(d) /\ removal'[d].token = secrets.refresh.token
      BY <1>1, <2>2 DEF RemovalAdvances, Look, Disconnect, Send, Waiting
    <3>2. SettledBut(secrets.refresh.token)
      BY <2>2, <3>1, LookSettles
    <3> QED
      BY <3>1, <3>2
  <2> QED
    BY <1>1, <2>1, <2>2 DEF RemovalAdvances
<1>5. PICK t : t = removal'[d].token /\ SettledBut(t)
  BY <1>4
<1>6. SettledBut(t)'
  BY <1>3, <1>5, StaysSettled
<1> QED
  BY <1>5, <1>6

LEMMA StepToldSettled ==
  ASSUME Reportable, TypeOK', [Next]_vars
  PROVE  ToldSettled'
<1>0. TypeOK /\ WorkersHold
  BY DEF Reportable, Refreshable, Paired, Quiet
<1> SUFFICES ASSUME NEW d \in Removers, removal'[d].pc = "removed", removal'[d].claim
             PROVE  ~Exists' /\ Settled'
  BY DEF ToldSettled
<1>1. RemovalAdvances(d)
  BY <1>0, RemovalsAdvance
<1>2. CASE removal'[d] = removal[d]
  <2>1. ~Exists /\ Settled
    BY <1>2 DEF Reportable, Settling, ToldSettled
  <2>2. ~Exists'
    BY <1>0, <2>1, GoneStays
  <2> QED
    BY <2>1, <2>2, StillSettled DEF Shut
<1>3. CASE Delete(d)
  <2>1. row.hold.by = d /\ removal[d].claim
    BY <1>0, <1>1, <1>3 DEF RemovalAdvances, Delete, WorkersHold, Working, Runs, Disconnect, Waiting
  <2>2. ~Exists'
    <3>1. row' = [row EXCEPT !.status = "gone", !.hold = NoHold] /\ row \in Row
      BY <1>0, <1>3 DEF Delete, TypeOK
    <3> QED
      BY <3>1 DEF Exists, Row
  <2>3. Settled /\ Shut
    BY <2>1, Sorts DEF Shut, Reportable, Settling, ClaimSettled
  <2> QED
    BY <2>2, <2>3, StillSettled DEF Shut
<1> QED
  BY <1>1, <1>2, <1>3 DEF RemovalAdvances
-------------------------------------------------------------------------------
LEMMA StepReportable == Reportable /\ [Next]_vars => Reportable'
<1> SUFFICES ASSUME Reportable, [Next]_vars PROVE Reportable'
  OBVIOUS
<1>0. /\ Refreshable /\ Refreshable' /\ TypeOK'
      /\ Paired /\ Quiet /\ TypeOK /\ Known /\ RealTokens /\ FencedInTime /\ OneToken
      /\ Led /\ FlowsInTime /\ FencedLead /\ Floor /\ ReadsForward /\ Authors
      /\ Provenance /\ WorkersHold
  <2>1. Refreshable /\ Refreshable'
    BY StepRefreshable DEF Reportable
  <2> QED
    BY <2>1 DEF Reportable, Refreshable, Paired, Quiet, Known, Led, Provenance
<1>1. Led' /\ Provenance'
  BY <1>0, StepLed, StepFencedLead, StepFloor, StepReadsForward, StepAuthors DEF Provenance
<1>2. LeaderPair' /\ StandBack' /\ NewestKept'
  BY <1>0, StepLeaderPair, StepStandBack, StepNewestKept DEF Reportable
<1>3. AnsweredNewest' /\ LiveIssued' /\ AbsentEmpty' /\ Numbered'
  BY <1>0, StepAnsweredNewest, StepLiveIssued, StepAbsentEmpty, StepNumbered DEF Reportable
<1>4. Placed'
  BY <1>0, StepPlaced DEF Reportable, Settling
<1>5. PlacedPair'
  BY <1>0, StepPlacedPair DEF Reportable
<1>6. WrittenOnly' /\ ClaimLate' /\ ShutIsQuiet'
  BY <1>0, StepWrittenOnly, StepClaimLate, StepShutIsQuiet DEF Reportable
<1>7. RefsStay' /\ RefsOld' /\ SweptFirst' /\ Aligned'
  BY <1>0, StepRefsStay, StepRefsOld, StepSweptFirst, StepAligned DEF Reportable
<1>8. Settling'
  BY <1>0, StepMarkSettled, StepClaimSettled, StepSentSettled, StepToldSettled DEF Settling
<1> QED
  BY <1>0, <1>1, <1>2, <1>3, <1>4, <1>5, <1>6, <1>7, <1>8 DEF Reportable

LEMMA InitReportable == Init => Reportable
<1> SUFFICES ASSUME Init PROVE Reportable
  OBVIOUS
<1>0. Refreshable /\ TypeOK /\ Quiet /\ Flows \subseteq Nat \ {0} /\ 1 \in Flows /\ None = 0
  BY InitRefreshable, InitTyped, InitQuiet, Sorts DEF None
<1> DEFINE whole == [id |-> 1, gen |-> Stride, token |-> [grant |-> 1, seq |-> 0]]
<1>1. /\ \A r \in Refreshers : refresh[r] = Calm
      /\ \A d \in Removers : removal[d] = Waiting
      /\ \A c \in Flows : flow[c].pc \in {"none", "pending", "done"} /\ flow[c].lease = None
      /\ row.hold = NoHold /\ row.mark = FALSE /\ dead = {} /\ overtaken = {} /\ left = {}
      /\ vendor.seq = [g \in Flows |-> 0]
  BY DEF Init, NoFlow
<1>2. /\ \A r \in Refreshers : /\ refresh[r].pc = "idle" /\ refresh[r].token = NoToken
                               /\ refresh[r].lease = 0
      /\ \A d \in Removers : removal[d].pc = "idle" /\ ~removal[d].claim
      /\ NoToken.grant = 0 /\ NoHold.by = NoRemover /\ Fenced = {}
  BY <1>0, <1>1 DEF Calm, Waiting, NoToken, NoHold, Fenced
<1>3. \/ /\ row.status = "connected" /\ row.cred = 1 /\ vendor.live = {1} /\ flow[1].pc = "done"
         /\ row.refs = [access |-> 1, refresh |-> 1]
         /\ secrets.access = whole /\ secrets.refresh = whole
      \/ /\ row.status = "pending" /\ row.cred = 0 /\ vendor.live = {}
         /\ row.refs = [access |-> 0, refresh |-> 0]
         /\ secrets.access = Empty(0) /\ secrets.refresh = Empty(0)
  <2>1. flow[1] = IF row.status = "connected" THEN [NoFlow EXCEPT !.pc = "done"]
                                               ELSE [NoFlow EXCEPT !.pc = "pending"]
    BY <1>0 DEF Init
  <2>2. row.status = "connected" => flow[1].pc = "done"
    BY <2>1 DEF NoFlow
  <2> QED
    BY <1>0, <2>2 DEF Init
<1>4. Stride # 0 /\ whole.gen = WriteGeneration(1, 0) /\ whole.token = Issued(1)
  <2>1. WriteGeneration(1, 0) > 0
    BY <1>0, Counted
  <2>2. WriteGeneration(1, 0) = Stride
    BY ConnectionConstants DEF WriteGeneration
  <2> QED
    BY <2>1, <2>2 DEF Issued
<1>5. /\ whole.id = 1 /\ whole.gen = Stride /\ whole.token.grant = 1 /\ whole.token.seq = 0
      /\ Empty(0).id = 0 /\ Empty(0).gen = 0 /\ Empty(0).token = NoToken
  BY <1>0 DEF Empty
<1> HIDE DEF whole
<1>6. Led
  BY <1>1, <1>2 DEF Led, FlowsInTime, OvertakenBehind, GensDiffer, LeaderTop, Leader, None
<1>7. Provenance
  <2>1. FencedLead /\ Floor /\ ReadsForward
    BY <1>0, <1>2 DEF FencedLead, Floor, ReadsForward, Leader
  <2>2. Authors
    BY <1>0, <1>3, <1>4, <1>5 DEF Authors, WrittenBy, Present
  <2> QED
    BY <2>1, <2>2 DEF Provenance
<1>8. LeaderPair /\ AnsweredNewest /\ Numbered
  BY <1>2 DEF LeaderPair, Leader, AnsweredNewest, Numbered
<1>9. StandBack
  <2>1. Storing = {}
    BY <1>1, <1>2 DEF Storing, Puttings, Leader
  <2> QED
    BY <2>1 DEF StandBack
<1>10. NewestKept
  <2>1. \A k \in AccessStored : k \in {0, row.cred, secrets.refresh.token.grant}
    BY <1>0, <1>1, <1>2 DEF AccessStored, HaveStored
  <2>2. \A k \in PairStored : k \in {0, row.cred, secrets.refresh.token.grant}
    BY <1>0, <1>1, <1>2 DEF PairStored, HaveStored
  <2> QED
    BY <1>0, <1>2, <1>3, <1>5, <2>1, <2>2 DEF NewestKept
<1>11. LiveIssued /\ AbsentEmpty /\ WrittenOnly
  <2>1. LiveIssued
    BY <1>3 DEF LiveIssued, OutThere, Unissued
  <2>2. AbsentEmpty
    BY <1>0, <1>2, <1>3, <1>4, <1>5 DEF AbsentEmpty, Present
  <2>3. WrittenOnly
    BY <1>0, <1>2, <1>3, <1>5 DEF WrittenOnly, WrittenGrants, Unwritten, Unissued
  <2> QED
    BY <2>1, <2>2, <2>3
<1>12. \A g \in vendor.live : Newest(secrets.refresh.token, g)
  BY <1>0, <1>1, <1>3, <1>5 DEF Newest
<1>13. Placed /\ PlacedPair
  BY <1>12 DEF Placed, PlacedPair, Kept
<1>14. ClaimLate /\ ShutIsQuiet
  BY <1>1, <1>2, <1>3 DEF ClaimLate, ShutIsQuiet, Shut, Exists
<1>15. RefsStay /\ RefsOld /\ SweptFirst /\ Aligned
  <2>1. RefsStay /\ SweptFirst
    BY <1>2 DEF RefsStay, AtWork, SweptFirst
  <2>2. RefsOld
    <3>1. \/ row.refs.refresh = 1 /\ secrets.refresh.id = 1
          \/ row.refs.refresh = 0 /\ secrets.refresh.id = 0
      BY <1>3, <1>5
    <3> QED
      BY <3>1 DEF RefsOld
  <2>3. Aligned
    BY <1>0, <1>3, <1>4, <1>5 DEF Aligned, Behind, Present
  <2> QED
    BY <2>1, <2>2, <2>3
<1>16. Settling
  BY <1>1, <1>2 DEF Settling, MarkSettled, ClaimSettled, SentSettled, ToldSettled
<1> QED
  BY <1>0, <1>6, <1>7, <1>8, <1>9, <1>10, <1>11, <1>13, <1>14, <1>15, <1>16 DEF Reportable

(* A removal that reports the vendor's revocation leaves no authorization of *)
(* the connection live, but for those the code leaves to the person or to a  *)
(* newer authorization and those whose newest token no secret held: whatever *)
(* refreshes overtake each other, whatever callbacks are late, and whoever   *)
(* dies between a vendor's answer and its store.                             *)
THEOREM ReportIsAlwaysTrue == Spec => []ReportedIsRevoked
<1>1. Init => Reportable
  BY InitReportable
<1>2. Reportable /\ [Next]_vars => Reportable'
  BY StepReportable
<1>3. Reportable => ReportedIsRevoked
  BY DEF Reportable, Settling, ToldSettled, Settled, Spared, ReportedIsRevoked
<1> QED
  BY <1>1, <1>2, <1>3, PTL DEF Spec

(* The mark that lets a retry skip the vendor never stands for a live token  *)
(* behind the row's refs: nothing newer is stored there while it stands, and *)
(* a new authorization lifts it.                                             *)
THEOREM MarkIsAlwaysTrue == Spec => []MarkIsTrue
<1>1. Init => Reportable
  BY InitReportable
<1>2. Reportable /\ [Next]_vars => Reportable'
  BY StepReportable
<1>3. Reportable => MarkIsTrue
  BY DEF Reportable, Settling, MarkSettled, Settled, MarkIsTrue
<1> QED
  BY <1>1, <1>2, <1>3, PTL DEF Spec

-------------------------------------------------------------------------------
(* The refresh token of a connected row, where the vendor rotates.           *)

(* A refresh has a newer token of g than the secret.                         *)
Ahead(r, g) ==
  refresh[r].token.grant = g /\ secrets.refresh.token.seq < refresh[r].token.seq

(* The secret has a token of g.  Each refresh that asks read that one or one *)
(* before it; the newest is in the secret, or with the one refresh that is   *)
(* ahead of it.                                                              *)
Tally(g) ==
  /\ secrets.refresh.token.grant = g
  /\ secrets.refresh.token.seq <= vendor.seq[g]
  /\ \A r \in Refreshers :
       refresh[r].token.grant = g /\ refresh[r].pc = "asking" =>
         refresh[r].token.seq <= secrets.refresh.token.seq
  /\ \A r \in Refreshers : Ahead(r, g) =>
       /\ refresh[r].token.seq = vendor.seq[g]
       /\ \A q \in Refreshers : Ahead(q, g) => q = r
  /\ secrets.refresh.token.seq = vendor.seq[g] \/ \E r \in Refreshers : Ahead(r, g)

(* So it is for the grant of a connected row, and for the one that a         *)
(* callback has stored and is about to publish.                              *)
Tallied ==
  vendor.rotates => \A g \in Flows :
    \/ row.status = "connected" /\ row.cred = g
    \/ flow[g].pc = "stored" /\ row.auth = g
    => Tally(g)

(* A refresh of the row's own authorization that asks with the current token *)
(* can put what it gets, one that got a newer token is ahead and can put it, *)
(* and one that is done has put it.                                          *)
CanPut(r) == secrets.access.gen <= RefreshGeneration(r)

Delivers(r) ==
  /\ refresh[r].pc = "asking" /\ refresh[r].token.seq = vendor.seq[row.cred] => CanPut(r)
  /\ refresh[r].pc \in {"got", "half"} => Ahead(r, row.cred) /\ CanPut(r)
  /\ refresh[r].pc \in {"stored", "done"} => ~Ahead(r, row.cred)

OwnAhead ==
  row.status = "connected" /\ vendor.rotates =>
    \A r \in Refreshers : refresh[r].auth = row.cred => Delivers(r)

CredLive == row.status = "connected" => row.cred \in vendor.live \cup left

(* Nobody has a grant's refresh token before its callback has stored it.     *)
Unstarted == Unwritten \cup {"writing", "half"}

Unread ==
  \A c \in Flows : flow[c].pc \in Unstarted =>
    secrets.refresh.token.grant # c /\ \A r \in Refreshers : refresh[r].token.grant # c

Usable == Reportable /\ Unread /\ CredLive /\ Tallied /\ OwnAhead

(* A refresh keeps its token, reads it from the secret, or gets a newer one. *)
TokenMoves(r) ==
  \/ /\ refresh'[r].token = refresh[r].token
     /\ refresh'[r].pc = "asking" => refresh[r].pc = "asking"
  \/ /\ ReadToken(r) /\ refresh[r].token = NoToken
     /\ refresh'[r].token = secrets.refresh.token
  \/ Refreshed(r)

LEMMA TokensMove ==
  ASSUME TypeOK, RealTokens, [Next]_vars, NEW r \in Refreshers
  PROVE  TokenMoves(r)
<1>1. CASE Fence(r)
  <2>1. refresh[r].token = NoToken
    BY <1>1 DEF Fence, Calm
  <2> QED
    BY <1>1, <2>1, FenceAdmits DEF TokenMoves
<1>2. CASE ~Fence(r)
  <2>1. RefreshGoesOn(r)
    BY <1>2, RefreshesMove
  <2>2. CASE ReadToken(r) /\ refresh[r].pc = "fenced" /\ refresh'[r].token = secrets.refresh.token
    BY <2>2 DEF RealTokens, TokenMoves
  <2> QED
    BY <2>1, <2>2 DEF RefreshGoesOn, TokenMoves
<1> QED
  BY <1>1, <1>2

(* The vendor's answer to the one refresh that had the current token.        *)
LEMMA Answering ==
  ASSUME TypeOK, vendor.rotates, NEW r \in Refreshers, Refreshed(r)
  PROVE  \E g \in Flows : \E n \in Nat :
           /\ refresh[r].token.grant = g /\ refresh[r].token.seq = n /\ vendor.seq[g] = n
           /\ refresh'[r].token.grant = g /\ refresh'[r].token.seq = n + 1
           /\ refresh[r].pc = "asking" /\ refresh'[r].pc = "got"
           /\ refresh'[r].auth = refresh[r].auth /\ refresh'[r].gen = refresh[r].gen
           /\ \A q \in Refreshers : q # r => refresh'[q] = refresh[q]
           /\ vendor'.seq[g] = n + 1
           /\ \A h \in Flows : h # g => vendor'.seq[h] = vendor.seq[h]
           /\ UNCHANGED <<row, secrets, flow, left>>
<1>0. /\ refresh \in [Refreshers -> Refresh] /\ refresh[r].token \in Token
      /\ vendor \in [live : SUBSET Flows, seq : [Flows -> Nat], rotates : BOOLEAN]
  BY TokensTyped DEF TypeOK
<1>1. PICK g \in Flows, n \in Nat : refresh[r].token.grant = g /\ refresh[r].token.seq = n /\ vendor.seq[g] = n
  BY <1>0 DEF Refreshed, Current, Token
<1>2. /\ vendor' = [vendor EXCEPT !.seq[g] = n + 1]
      /\ refresh' = [refresh EXCEPT ![r] =
                       [refresh[r] EXCEPT !.pc = "got", !.token = [grant |-> g, seq |-> n + 1]]]
  <2>1. refresh[r].token.seq + (IF vendor.rotates THEN 1 ELSE 0) = n + 1
    BY <1>1
  <2> QED
    BY <1>1, <2>1 DEF Refreshed
<1>3. vendor'.seq[g] = n + 1 /\ \A h \in Flows : h # g => vendor'.seq[h] = vendor.seq[h]
  BY <1>0, <1>2
<1>4. /\ refresh'[r].pc = "got" /\ refresh'[r].auth = refresh[r].auth /\ refresh'[r].gen = refresh[r].gen
      /\ refresh'[r].token = [grant |-> g, seq |-> n + 1]
      /\ \A q \in Refreshers : q # r => refresh'[q] = refresh[q]
  <2> DEFINE v == [refresh[r] EXCEPT !.pc = "got", !.token = [grant |-> g, seq |-> n + 1]]
  <2>1. v.pc = "got" /\ v.auth = refresh[r].auth /\ v.gen = refresh[r].gen
        /\ v.token = [grant |-> g, seq |-> n + 1]
    BY <1>0 DEF Refresh
  <2>2. refresh'[r] = v /\ \A q \in Refreshers : q # r => refresh'[q] = refresh[q]
    BY <1>0, <1>2
  <2> HIDE DEF v
  <2> QED
    BY <2>1, <2>2
<1>5. refresh[r].pc = "asking" /\ UNCHANGED <<row, secrets, flow, left>>
  BY DEF Refreshed
<1>6. refresh'[r].token.grant = g /\ refresh'[r].token.seq = n + 1
  BY <1>4
<1> QED
  BY <1>1, <1>3, <1>4, <1>5, <1>6

LEMMA SeqsTyped ==
  ASSUME TypeOK
  PROVE  /\ secrets.refresh.token.seq \in Nat /\ secrets.refresh.gen \in Nat /\ secrets.access.gen \in Nat
         /\ \A g \in Flows : vendor.seq[g] \in Nat
         /\ \A r \in Refreshers : refresh[r].token.seq \in Nat /\ RefreshGeneration(r) \in Nat
<1>1. /\ secrets.refresh.token \in Token /\ secrets.access \in Secret /\ secrets.refresh \in Secret
      /\ \A r \in Refreshers : refresh[r].token \in Token
  BY TokensTyped
<1>2. \A t \in Token : t.seq \in Nat
  BY DEF Token
<1>3. \A g \in Flows : vendor.seq[g] \in Nat
  BY DEF TypeOK
<1>4. \A r \in Refreshers : refresh[r].auth \in Nat /\ refresh[r].gen \in Nat
  BY DEF TypeOK, Refresh
<1> QED
  BY <1>1, <1>2, <1>3, <1>4, Written DEF Secret, RefreshGeneration

(* While the secret keeps its token, only the vendor's answer makes a        *)
(* refresh ahead, and only of the token it was asked with.                   *)
LEMMA TallyKept ==
  ASSUME TypeOK, TypeOK', RealTokens, [Next]_vars, vendor.rotates, NEW g \in Flows, Tally(g),
         secrets'.refresh.token = secrets.refresh.token
  PROVE  Tally(g)'
<1>0. PICK S \in Nat, V \in Nat : secrets.refresh.token.seq = S /\ vendor.seq[g] = V
  BY SeqsTyped
<1>1. secrets'.refresh.token.seq = S /\ secrets'.refresh.token.grant = g /\ None # g
  BY <1>0, TokensTyped DEF Tally
<1>2. ASSUME NEW r \in Refreshers, Refreshed(r), refresh[r].token.grant = g PROVE Tally(g)'
  <2>1. PICK h \in Flows, n \in Nat :
           /\ refresh[r].token.grant = h /\ refresh[r].token.seq = n /\ vendor.seq[h] = n
           /\ refresh'[r].token.grant = h /\ refresh'[r].token.seq = n + 1
           /\ refresh[r].pc = "asking" /\ refresh'[r].pc = "got"
           /\ \A q \in Refreshers : q # r => refresh'[q] = refresh[q]
           /\ vendor'.seq[h] = n + 1
    BY <1>2, Answering
  <2>2. h = g /\ n = V /\ S = V
    <3>1. h = g /\ n = V
      BY <1>0, <1>2, <2>1
    <3>2. S <= V /\ n <= S
      BY <1>0, <1>2, <2>1 DEF Tally
    <3> QED
      BY <3>1, <3>2
  <2>3. \A q \in Refreshers : q # r /\ refresh[q].token.grant = g => ~(S < refresh[q].token.seq)
    <3>1. \A q \in Refreshers : refresh[q].token.seq \in Nat
      BY SeqsTyped
    <3>2. \A q \in Refreshers : refresh[q].token.grant = g /\ S < refresh[q].token.seq => refresh[q].token.seq = V
      BY <1>0 DEF Tally, Ahead
    <3> QED
      BY <2>2, <3>1, <3>2
  <2>4. \A q \in Refreshers : Ahead(q, g)' <=> q = r
    BY <1>1, <2>1, <2>2, <2>3 DEF Ahead
  <2>5. \A q \in Refreshers : refresh'[q].token.grant = g /\ refresh'[q].pc = "asking" =>
          refresh'[q].token.seq <= S
    BY <1>0, <2>1 DEF Tally
  <2> QED
    BY <1>1, <2>1, <2>2, <2>4, <2>5 DEF Tally
<1>3. ASSUME NEW r \in Refreshers, Refreshed(r), refresh[r].token.grant # g PROVE Tally(g)'
  <2>1. /\ refresh'[r].token.grant # g /\ vendor'.seq[g] = V
        /\ \A q \in Refreshers : q # r => refresh'[q] = refresh[q]
    BY <1>0, <1>3, Answering
  <2>2. \A q \in Refreshers : Ahead(q, g)' <=> Ahead(q, g)
    BY <1>0, <1>1, <1>3, <2>1 DEF Ahead
  <2>3. \A q \in Refreshers : refresh'[q].token.grant = g => refresh'[q] = refresh[q]
    BY <2>1
  <2>4. \A q \in Refreshers : Ahead(q, g) => refresh'[q] = refresh[q]
    BY <1>3, <2>1 DEF Ahead
  <2> QED
    BY <1>0, <1>1, <2>1, <2>2, <2>3, <2>4 DEF Tally
<1>4. CASE \A r \in Refreshers : ~Refreshed(r)
  <2>1. vendor'.seq = vendor.seq
    BY <1>4, VendorMoves
  <2>2. \A q \in Refreshers :
          \/ /\ refresh'[q].token = refresh[q].token
             /\ refresh'[q].pc = "asking" => refresh[q].pc = "asking"
          \/ refresh[q].token.grant # g /\ refresh'[q].token.seq = S
    BY <1>0, <1>1, <1>4, TokensMove DEF TokenMoves, NoToken
  <2>3. \A q \in Refreshers : Ahead(q, g)' <=> Ahead(q, g)
    BY <1>0, <1>1, <2>2 DEF Ahead
  <2>4. \A q \in Refreshers : Ahead(q, g) => refresh'[q].token = refresh[q].token
    BY <2>2 DEF Ahead
  <2>5. \A q \in Refreshers : refresh'[q].token.grant = g /\ refresh'[q].pc = "asking" =>
          refresh'[q].token.seq <= S
    BY <1>0, <2>2 DEF Tally
  <2> QED
    BY <1>0, <1>1, <2>1, <2>3, <2>4, <2>5 DEF Tally
<1> QED
  BY <1>2, <1>3, <1>4

(* The refresh that is ahead puts its token in the secret.                   *)
LEMMA TallyStored ==
  ASSUME TypeOK, NEW g \in Flows, Tally(g), NEW r \in Refreshers, RestoresRefresh(r), Ahead(r, g)
  PROVE  Tally(g)'
<1>0. PICK S \in Nat, V \in Nat : secrets.refresh.token.seq = S /\ vendor.seq[g] = V
  BY SeqsTyped
<1>1. /\ refresh'[r].pc = "stored" /\ refresh'[r].token = refresh[r].token
      /\ secrets'.refresh.token = refresh[r].token /\ vendor' = vendor
      /\ \A q \in Refreshers : q # r => refresh'[q] = refresh[q]
  BY RestoringRefresh DEF IsPut
<1>2. secrets'.refresh.token.seq = V /\ secrets'.refresh.token.grant = g /\ S < V /\ vendor'.seq[g] = V
  BY <1>0, <1>1 DEF Tally, Ahead
<1>3. \A q \in Refreshers : refresh[q].token.seq \in Nat
  BY SeqsTyped
<1>4. \A q \in Refreshers : q # r => ~(refresh[q].token.grant = g /\ S < refresh[q].token.seq)
  BY <1>0 DEF Tally, Ahead
<1>5. \A q \in Refreshers : ~Ahead(q, g)'
  BY <1>1, <1>2, <1>3, <1>4 DEF Ahead
<1>6. \A q \in Refreshers : refresh'[q].token.grant = g /\ refresh'[q].pc = "asking" =>
        refresh'[q].token.seq <= V
  <2> SUFFICES ASSUME NEW q \in Refreshers, refresh'[q].token.grant = g, refresh'[q].pc = "asking"
               PROVE  refresh'[q].token.seq <= V
    OBVIOUS
  <2>1. q # r /\ refresh'[q] = refresh[q]
    BY <1>1
  <2>2. refresh[q].token.seq \in Nat /\ refresh[q].token.seq <= S
    BY <1>0, <1>3, <2>1 DEF Tally
  <2> QED
    BY <1>2, <2>1, <2>2
<1> QED
  BY <1>2, <1>5, <1>6 DEF Tally

LEMMA StepUnread ==
  ASSUME Quiet, WorkersHold, FlowsInTime, Known, Unread, [Next]_vars
  PROVE  Unread'
<1>0. TypeOK /\ RealTokens
  BY DEF Quiet, Known
<1> SUFFICES ASSUME NEW c \in Flows, flow'[c].pc \in Unstarted
             PROVE  /\ secrets'.refresh.token.grant # c
                    /\ \A r \in Refreshers : refresh'[r].token.grant # c
  BY DEF Unread
<1>1. flow[c].pc \in Unstarted
  BY CallbacksMove DEF CallbackGoesOn, Unstarted, Unwritten, Unissued
<1>2. secrets.refresh.token.grant # c /\ \A r \in Refreshers : refresh[r].token.grant # c
  BY <1>1 DEF Unread
<1>3. secrets'.refresh.token.grant # c
  <2>1. ASSUME NEW k \in Flows, StoresRefresh(k) PROVE secrets'.refresh.token.grant # c
    <3>1. secrets'.refresh.token = Issued(k) /\ flow'[k].pc = "stored"
      BY <1>0, <2>1, StoringRefresh DEF IsPut
    <3>2. "stored" \notin Unstarted
      BY DEF Unstarted, Unwritten, Unissued
    <3> QED
      BY <3>1, <3>2 DEF Issued
  <2>2. ASSUME NEW r \in Refreshers, RestoresRefresh(r) PROVE secrets'.refresh.token.grant # c
    BY <1>0, <1>2, <2>2, RestoringRefresh DEF IsPut
  <2>3. ASSUME NEW d \in Removers, SweepRefresh(d) PROVE secrets'.refresh.token.grant # c
    <3>1. secrets'.refresh = Swept(secrets.refresh, removal[d].refs.refresh)
      BY <2>3, Sweeping
    <3>2. secrets'.refresh = secrets.refresh \/ secrets'.refresh.token = NoToken
      BY <3>1 DEF Swept, Empty
    <3> QED
      BY <1>0, <1>2, <3>2, TokensTyped
  <2> QED
    BY <1>0, <1>2, <2>1, <2>2, <2>3, RefreshMovesOn
<1>4. \A r \in Refreshers : refresh'[r].token.grant # c
  BY <1>0, <1>2, RefreshTokensMove DEF TokenGoesOn
<1> QED
  BY <1>3, <1>4

(* The grant of a connected row is live until a callback withdraws it.       *)
LEMMA StepCredLive ==
  ASSUME Paired, SentBefore, OnItsWay, CredLive, [Next]_vars
  PROVE  CredLive'
<1>0. TypeOK /\ Quiet /\ row.cred \in Nat /\ (row.cred # None => row.cred \in Flows)
  <2>1. TypeOK /\ Quiet
    BY DEF Paired, Quiet
  <2> QED
    BY <2>1, Counters
<1> SUFFICES ASSUME row'.status = "connected" PROVE row'.cred \in vendor'.live \cup left'
  BY DEF CredLive
<1>1. CASE row.status = "connected" /\ row'.cred = row.cred
  <2>0. row.cred # None /\ row.cred \in Flows
    BY <1>0, <1>1 DEF Paired, Admitted
  <2> SUFFICES ASSUME row.cred \notin vendor'.live, row.cred \notin left' PROVE FALSE
    BY <1>1
  <2>1. row.cred \in vendor.live
    BY <1>1, LeftGrows DEF CredLive
  <2>2. Ends(row.cred)
    BY <1>0, <2>0, <2>1, LiveMoves
  <2>3. flow[row.cred].pc = "done"
    BY <1>0, <2>0 DEF Quiet, Generations, Begins
  <2>4. PICK d \in Removers : /\ removal[d].pc \in {"sending", "sending access"}
                              /\ row.cred \in {removal[d].token.grant, removal[d].access.grant}
    BY <2>2, <2>3 DEF Ends
  <2>5. row.cred < removal[d].auth /\ removal[d].auth \in Nat
    BY <1>0, <2>4, NotSentBack
  <2>6. removal[d].auth <= row.cred
    BY <1>1, <2>4 DEF Paired, Admitted
  <2> QED
    BY <1>0, <2>5, <2>6
<1>2. ASSUME NEW c \in Flows, Publish(c), Publishable(c) PROVE row'.cred \in vendor'.live \cup left'
  <2>1. row'.cred = c /\ row.auth = c /\ flow[c].pc = "stored" /\ vendor' = vendor /\ left' = left
    BY <1>2, PublishAlone
  <2> QED
    BY <2>1 DEF OnItsWay, Puttings
<1>3. ASSUME NEW r \in Refreshers, Fence(r) PROVE row.status = "connected" /\ row'.cred = row.cred
  BY <1>0, <1>3, FenceAdmits
<1> QED
  BY <1>0, <1>1, <1>2, <1>3, ConnectMoves

(* What a step may do to the secrets and the vendor's count of a connected   *)
(* row: each change is a step of one of its own refreshes.                   *)
RefreshPutBy(q) ==
  /\ RestoresRefresh(q) /\ Ahead(q, row.cred) /\ refresh[q].pc = "half" /\ refresh'[q].pc = "stored"
  /\ secrets'.refresh.token = refresh[q].token

AccessPutBy(q) ==
  /\ RestoresAccess(q) /\ Ahead(q, row.cred) /\ refresh[q].pc = "got" /\ refresh'[q].pc = "half"
  /\ secrets'.access.gen = RefreshGeneration(q)

LEMMA OwnSteps ==
  ASSUME Paired, OwnAhead, vendor.rotates, row.status = "connected", [Next]_vars
  PROVE  /\ \/ secrets'.refresh.token = secrets.refresh.token
            \/ \E q \in Refreshers : RefreshPutBy(q)
         /\ \/ secrets'.access.gen = secrets.access.gen
            \/ \E q \in Refreshers : AccessPutBy(q)
<1>0. TypeOK /\ OwnPutsOnly
  BY ConnectedSecrets DEF Paired, Quiet
<1>1. ASSUME NEW q \in Refreshers, PutRefreshAgain(q), Puttable(secrets.refresh, RefreshGeneration(q)),
             refresh[q].auth = row.cred
      PROVE  RefreshPutBy(q)
  <2>1. RestoresRefresh(q)
    BY <1>1 DEF RestoresRefresh
  <2>2. /\ refresh[q].pc = "half" /\ refresh'[q].pc = "stored"
        /\ secrets'.refresh.token = refresh[q].token
    BY <1>0, <2>1, RestoringRefresh DEF IsPut
  <2>3. Ahead(q, row.cred)
    BY <1>1, <2>2 DEF OwnAhead, Delivers
  <2> QED
    BY <2>1, <2>2, <2>3 DEF RefreshPutBy
<1>2. ASSUME NEW q \in Refreshers, PutAccessAgain(q), Puttable(secrets.access, RefreshGeneration(q)),
             refresh[q].auth = row.cred
      PROVE  AccessPutBy(q)
  <2>1. RestoresAccess(q)
    BY <1>2 DEF RestoresAccess
  <2>2. /\ refresh[q].pc = "got" /\ refresh'[q].pc = "half"
        /\ secrets'.access.gen = RefreshGeneration(q)
    BY <1>0, <2>1, RestoringAccess DEF IsPut
  <2>3. Ahead(q, row.cred)
    BY <1>2, <2>2 DEF OwnAhead, Delivers
  <2> QED
    BY <2>1, <2>2, <2>3 DEF AccessPutBy
<1> QED
  BY <1>0, <1>1, <1>2 DEF OwnPutsOnly

LEMMA StepTallied ==
  ASSUME Paired, Paired', Known, Unread, Tallied, OwnAhead, [Next]_vars
  PROVE  Tallied'
<1>0. /\ TypeOK /\ TypeOK' /\ Quiet /\ RealTokens /\ row.cred \in Nat
      /\ (row.cred # None => row.cred \in Flows)
  <2>1. TypeOK /\ TypeOK' /\ Quiet /\ RealTokens
    BY DEF Paired, Quiet, Known
  <2> QED
    BY <2>1, Counters
<1> SUFFICES ASSUME vendor'.rotates, NEW c \in Flows,
                    \/ row'.status = "connected" /\ row'.cred = c
                    \/ flow'[c].pc = "stored" /\ row'.auth = c
             PROVE  Tally(c)'
  BY DEF Tallied
<1>a. vendor.rotates
  BY <1>0, VendorMoves
<1>1. ASSUME row'.status = "connected", row'.cred = c PROVE Tally(c)'
  <2>1. CASE row.status = "connected" /\ row'.cred = row.cred
    <3>1. Tally(c)
      BY <1>a, <1>1, <2>1 DEF Tallied
    <3>2. CASE secrets'.refresh.token = secrets.refresh.token
      BY <1>0, <1>a, <3>1, <3>2, TallyKept
    <3>3. ASSUME NEW q \in Refreshers, RefreshPutBy(q) PROVE Tally(c)'
      BY <1>0, <1>1, <2>1, <3>1, <3>3, TallyStored DEF RefreshPutBy
    <3> QED
      BY <1>a, <2>1, <3>2, <3>3, OwnSteps
  <2>2. ASSUME NEW k \in Flows, Publish(k), Publishable(k) PROVE Tally(c)'
    <3>1. /\ k = c /\ row.auth = c /\ flow[c].pc = "stored"
          /\ secrets' = secrets /\ vendor' = vendor /\ refresh' = refresh
      BY <1>1, <2>2, PublishAlone
    <3>2. Tally(c)
      BY <1>a, <3>1 DEF Tallied
    <3> QED
      BY <3>1, <3>2 DEF Tally, Ahead
  <2>3. ASSUME NEW r \in Refreshers, Fence(r) PROVE row.status = "connected" /\ row'.cred = row.cred
    BY <1>0, <2>3, FenceAdmits
  <2> QED
    BY <1>0, <1>1, <2>1, <2>2, <2>3, ConnectMoves
<1>2. ASSUME flow'[c].pc = "stored", row'.auth = c PROVE Tally(c)'
  <2>0. secrets'.refresh.token = Issued(c)
    BY <1>2 DEF Paired, Stores, Puttings
  <2>1. CASE flow[c].pc = "stored"
    <3>1. row.auth = c
      <4>1. ASSUME c = row.auth + 1 PROVE FALSE
        <5>1. c > row.auth
          BY <1>0, <4>1, Counters
        <5> QED
          BY <1>0, <2>1, <5>1 DEF Quiet, Generations, Begins
      <4> QED
        BY <1>0, <1>2, <4>1, GenerationMoves
    <3>2. secrets.refresh.token = Issued(c) /\ Tally(c)
      BY <1>a, <2>1, <3>1 DEF Paired, Stores, Puttings, Tallied
    <3> QED
      BY <1>0, <1>a, <2>0, <3>2, TallyKept
  <2>2. CASE flow[c].pc # "stored"
    <3>1. StoresRefresh(c) /\ flow[c].pc = "half"
      BY <1>0, <1>2, <2>2, CallbacksMove DEF CallbackGoesOn
    <3>2. vendor' = vendor /\ refresh' = refresh
      BY <1>0, <3>1, StoringRefresh
    <3>3. \A r \in Refreshers : refresh[r].token.grant # c
      BY <3>1 DEF Unread, Unstarted
    <3>4. vendor.seq[c] = 0
      BY <3>3 DEF Known, Rotated
    <3>5. secrets'.refresh.token.grant = c /\ secrets'.refresh.token.seq = 0
      BY <2>0 DEF Issued
    <3> QED
      BY <3>2, <3>3, <3>4, <3>5 DEF Tally, Ahead
  <2> QED
    BY <2>1, <2>2
<1> QED
  BY <1>1, <1>2

(* What is proved of a refresh r of a connected row over a step.             *)
LEMMA StepDelivers ==
  ASSUME Paired, Known, FencedInTime, OneToken, Tallied, OwnAhead, vendor.rotates,
         row.status = "connected", row'.cred = row.cred, [Next]_vars,
         NEW r \in Refreshers, refresh'[r].auth = row.cred
  PROVE  Delivers(r)'
<1>0. /\ TypeOK /\ Quiet /\ RealTokens
  BY DEF Paired, Quiet, Known
<1> DEFINE P == row.cred
<1>c. P \in Flows /\ P # None
  BY <1>0, Counters DEF Paired, Admitted
<1>1. PICK S \in Nat, V \in Nat, A \in Nat, G \in Nat, N \in Nat :
         /\ secrets.refresh.token.seq = S /\ vendor.seq[P] = V /\ secrets.access.gen = A
         /\ RefreshGeneration(r) = G /\ refresh[r].token.seq = N
  BY <1>0, <1>c, SeqsTyped
<1>2. Tally(P)
  BY <1>c DEF Tallied
<1>3. S <= V /\ secrets.refresh.token.grant = P
  BY <1>1, <1>2 DEF Tally
<1>4. \A q \in Refreshers : Ahead(q, P) =>
        /\ refresh[q].token.seq = V /\ refresh[q].token.grant = P /\ S < V
        /\ Ahead(r, P) => q = r
  BY <1>1, <1>2 DEF Tally, Ahead
<1>5. \/ secrets'.refresh.token = secrets.refresh.token
      \/ \E q \in Refreshers : RefreshPutBy(q)
  BY OwnSteps
<1>6. \/ secrets'.access.gen = A
      \/ \E q \in Refreshers : AccessPutBy(q)
  BY <1>1, OwnSteps
<1>7. secrets'.refresh.token.seq \in Nat /\ secrets'.refresh.token.seq >= S
  <2>1. ASSUME NEW q \in Refreshers, RefreshPutBy(q) PROVE secrets'.refresh.token.seq = V /\ S < V
    BY <1>4, <2>1 DEF RefreshPutBy
  <2> QED
    BY <1>1, <1>5, <2>1
<1>8. CASE Fence(r)
  BY <1>0, <1>8, FenceAdmits DEF Delivers
<1>9. CASE refresh'[r] = refresh[r]
  <2>1. Delivers(r) /\ RefreshGeneration(r)' = G
    BY <1>1, <1>9 DEF OwnAhead, RefreshGeneration
  <2>2. ASSUME Ahead(r, P), refresh[r].pc \in {"got", "half"} PROVE Ahead(r, P)' /\ CanPut(r)'
    <3>1. secrets'.refresh.token = secrets.refresh.token
      BY <1>4, <1>5, <1>9, <2>2 DEF RefreshPutBy
    <3>2. secrets'.access.gen = A
      BY <1>4, <1>6, <1>9, <2>2 DEF AccessPutBy
    <3> QED
      BY <1>1, <1>9, <2>1, <2>2, <3>1, <3>2 DEF Ahead, CanPut, Delivers
  <2>3. ASSUME ~Ahead(r, P) PROVE ~Ahead(r, P)'
    BY <1>1, <1>7, <1>9, <2>3 DEF Ahead
  <2>4. ASSUME refresh[r].pc = "asking", N = vendor'.seq[P] PROVE CanPut(r)'
    <3>1. refresh[r].token.grant = P
      <4>1. r \in Fenced /\ refresh[r].token.grant # None /\ refresh[r].auth = P
        BY <1>0, <1>9, <2>4 DEF Fenced, RealTokens, Reading
      <4> QED
        BY <4>1 DEF OneToken
    <3>2. N <= S
      BY <1>1, <1>2, <2>4, <3>1 DEF Tally
    <3>3. vendor'.seq[P] = V
      <4>1. ASSUME NEW q \in Refreshers, Refreshed(q), vendor'.seq[P] # V PROVE FALSE
        <5>1. vendor'.seq[P] = V + 1
          BY <1>0, <1>1, <1>c, <4>1, Answering
        <5> QED
          BY <1>3, <2>4, <3>2, <5>1
      <4> QED
        BY <1>0, <1>1, <4>1, VendorMoves
    <3>4. N = V /\ S = V
      BY <1>3, <2>4, <3>2, <3>3
    <3>5. secrets'.access.gen = A
      BY <1>4, <1>6, <3>4 DEF AccessPutBy
    <3> QED
      BY <1>1, <2>1, <2>4, <3>4, <3>5 DEF Delivers, CanPut
  <2> QED
    BY <1>1, <1>9, <2>1, <2>2, <2>3, <2>4 DEF Delivers
<1>10. CASE ~Fence(r) /\ refresh'[r] # refresh[r]
  <2>0. /\ RefreshGoesOn(r) /\ refresh[r].auth = P /\ RefreshGeneration(r)' = G
    BY <1>0, <1>1, <1>10, RefreshesMove DEF RefreshGoesOn, RefreshGeneration
  <2>1. Delivers(r)
    BY <2>0 DEF OwnAhead
  <2>2. ASSUME refresh[r].pc \in {"fenced", "asking", "stored"} PROVE ~Ahead(r, P)
    <3>1. CASE refresh[r].pc = "fenced"
      BY <1>0, <1>c, <3>1, TokensTyped DEF RealTokens, Ahead
    <3>2. CASE refresh[r].pc = "asking"
      BY <1>1, <1>2, <3>2 DEF Tally, Ahead
    <3>3. CASE refresh[r].pc = "stored"
      BY <2>1, <3>3 DEF Delivers
    <3> QED
      BY <2>2, <3>1, <3>2, <3>3
  <2>3. CASE ReadToken(r) /\ refresh[r].pc = "fenced" /\ refresh'[r].pc = "asking"
    <3>1. r \notin dead /\ secrets' = secrets
      BY <2>3 DEF ReadToken, Runs
    <3>2. refresh[r].gen = row.gen /\ OfCredential(secrets.access)
      BY <2>0, <2>3, <3>1 DEF FencedInTime, Paired, OnePair
    <3>3. A <= G
      BY <1>1, <2>0, <3>2 DEF OfCredential, RefreshGeneration
    <3> QED
      BY <1>1, <2>0, <2>3, <3>1, <3>3 DEF Delivers, CanPut
  <2>4. CASE Refreshed(r) /\ refresh[r].pc = "asking" /\ refresh'[r].pc = "got"
    <3>1. r \in Fenced /\ refresh[r].token.grant = P
      <4>1. r \in Fenced /\ refresh[r].token.grant # None
        BY <1>0, <2>4 DEF Fenced, RealTokens, Reading
      <4> QED
        BY <2>0, <4>1 DEF OneToken
    <3>2. /\ N = V /\ refresh'[r].token.grant = P /\ refresh'[r].token.seq = V + 1
          /\ secrets' = secrets
      BY <1>0, <1>1, <2>4, <3>1, Answering
    <3>3. A <= G
      BY <1>1, <2>1, <2>4, <3>2 DEF Delivers, CanPut
    <3> QED
      BY <1>1, <1>3, <2>0, <2>4, <3>2, <3>3 DEF Delivers, CanPut, Ahead
  <2>5. CASE PutAccessAgain(r) /\ Puttable(secrets.access, RefreshGeneration(r))
             /\ refresh[r].pc = "got" /\ refresh'[r].pc = "half" /\ refresh'[r].token = refresh[r].token
    <3>1. RestoresAccess(r)
      BY <2>5 DEF RestoresAccess
    <3>2. secrets'.access.gen = G /\ secrets'.refresh = secrets.refresh
      BY <1>0, <1>1, <3>1, RestoringAccess DEF IsPut
    <3>3. Ahead(r, P)
      BY <2>1, <2>5 DEF Delivers
    <3> QED
      BY <1>1, <2>0, <2>5, <3>2, <3>3 DEF Delivers, CanPut, Ahead
  <2>6. CASE PutRefreshAgain(r) /\ Puttable(secrets.refresh, RefreshGeneration(r))
             /\ refresh[r].pc = "half" /\ refresh'[r].pc = "stored" /\ refresh'[r].token = refresh[r].token
    <3>1. RestoresRefresh(r)
      BY <2>6 DEF RestoresRefresh
    <3>2. secrets'.refresh.token = refresh[r].token
      BY <1>0, <3>1, RestoringRefresh DEF IsPut
    <3>3. ~Ahead(r, P)'
      BY <1>1, <2>6, <3>2 DEF Ahead
    <3> QED
      BY <2>6, <3>3 DEF Delivers
  <2>7. CASE refresh[r].pc \in {"fenced", "asking", "stored"} /\ refresh'[r].pc = "done"
             /\ refresh'[r].token = refresh[r].token
    <3>1. ~Ahead(r, P)'
      BY <1>1, <1>7, <2>2, <2>7 DEF Ahead
    <3> QED
      BY <2>7, <3>1 DEF Delivers
  <2>8. ~(PutAccessAgain(r) /\ ~Puttable(secrets.access, RefreshGeneration(r)))
    BY <2>1 DEF PutAccessAgain, Delivers, CanPut, Puttable
  <2>9. ~(PutRefreshAgain(r) /\ ~Puttable(secrets.refresh, RefreshGeneration(r)))
    <3>1. PICK B \in Nat : secrets.refresh.gen = B
      BY <1>0, SeqsTyped
    <3>2. B <= A
      BY <1>1, <3>1 DEF Paired, OnePair
    <3>3. PutRefreshAgain(r) => A <= G
      BY <1>1, <2>1 DEF PutRefreshAgain, Delivers, CanPut
    <3> QED
      BY <1>1, <3>1, <3>2, <3>3 DEF Puttable
  <2> QED
    BY <1>10, <2>0, <2>3, <2>4, <2>5, <2>6, <2>7, <2>8, <2>9 DEF RefreshGoesOn
<1> QED
  BY <1>8, <1>9, <1>10

LEMMA StepOwnAhead ==
  ASSUME Paired, Known, FencedInTime, OneToken, Tallied, OwnAhead, [Next]_vars
  PROVE  OwnAhead'
<1>0. TypeOK
  BY DEF Paired, Quiet
<1> SUFFICES ASSUME row'.status = "connected", vendor'.rotates,
                    NEW r \in Refreshers, refresh'[r].auth = row'.cred
             PROVE  Delivers(r)'
  BY DEF OwnAhead
<1>1. vendor.rotates
  BY <1>0, VendorMoves
<1>2. CASE row.status = "connected" /\ row'.cred = row.cred
  BY <1>1, <1>2, StepDelivers
<1>3. ASSUME NEW c \in Flows, Publish(c), Publishable(c) PROVE Delivers(r)'
  <2>1. row'.cred = c /\ refresh' = refresh /\ \A q \in Fenced : refresh[q].auth # c
    BY <1>3, PublishAlone
  <2>2. refresh'[r].pc = "idle"
    BY <2>1 DEF Fenced
  <2> QED
    BY <2>2 DEF Delivers
<1>4. ASSUME NEW q \in Refreshers, Fence(q) PROVE row.status = "connected" /\ row'.cred = row.cred
  BY <1>0, <1>4, FenceAdmits
<1> QED
  BY <1>0, <1>2, <1>3, <1>4, ConnectMoves

LEMMA StepUsable == Usable /\ [Next]_vars => Usable'
<1> SUFFICES ASSUME Usable, [Next]_vars PROVE Usable'
  OBVIOUS
<1>1. /\ Reportable /\ Reportable' /\ Refreshable /\ Refreshable' /\ FlowsInTime
  BY StepReportable DEF Usable, Reportable, Led
<1>2. Paired /\ Paired' /\ Quiet /\ WorkersHold /\ Known /\ SentBefore /\ OnItsWay /\ FencedInTime /\ OneToken
  BY <1>1 DEF Refreshable, Paired
<1> QED
  BY <1>1, <1>2, StepUnread, StepCredLive, StepTallied, StepOwnAhead DEF Usable

LEMMA InitUsable == Init => Usable
<1> SUFFICES ASSUME Init PROVE Usable
  OBVIOUS
<1>1. Reportable /\ Refreshable /\ Paired /\ TypeOK
  BY InitReportable DEF Reportable, Refreshable, Paired, Quiet
<1>2. /\ row.status = "connected" => row.cred = 1 /\ flow[1].pc = "done"
      /\ \A c \in Flows : c # 1 => flow[c].pc = "none"
      /\ flow[1].pc \in {"done", "pending"} /\ 1 \in Flows
      /\ flow[1].pc = "done" => row.status = "connected"
  BY Sorts DEF Init, NoFlow
<1>3. /\ \A r \in Refreshers : refresh[r].pc = "idle" /\ refresh[r].token.grant = None
      /\ \A g \in Flows : vendor.seq[g] = 0
  BY DEF Init, Calm, NoToken
<1>4. /\ secrets.refresh.token.seq = 0
      /\ row.status = "connected" => secrets.refresh.token.grant = 1 /\ 1 \in vendor.live
      /\ row.status # "connected" => secrets.refresh.token.grant = None
  BY DEF Init, Empty, NoToken
<1>5. None \notin Flows
  BY Sorts DEF None
<1>6. Unread
  <2> SUFFICES ASSUME NEW c \in Flows, flow[c].pc \in Unstarted PROVE secrets.refresh.token.grant # c
    BY <1>3, <1>5 DEF Unread
  <2>1. flow[c].pc # "done"
    BY DEF Unstarted, Unwritten, Unissued
  <2> QED
    BY <1>2, <1>4, <1>5, <2>1
<1>7. CredLive
  BY <1>2, <1>4 DEF CredLive
<1>8. Tallied
  BY <1>2, <1>3, <1>4, <1>5 DEF Tallied, Tally, Ahead
<1>9. OwnAhead
  BY <1>3 DEF OwnAhead, Delivers
<1> QED
  BY <1>1, <1>6, <1>7, <1>8, <1>9 DEF Usable

(* A connected row always has a refresh token behind its refs, and the       *)
(* vendor will accept it next unless a callback withdrew its grant, or the   *)
(* newest token of this very grant was given to a refresh that has not       *)
(* stored it: it is on its way, was lost where that refresh broke off, or    *)
(* may not be stored.  So it is however many refreshes, callbacks and        *)
(* removals overlap, fail or end between two of their steps.                 *)
THEOREM ConnectedCanAlwaysRefresh == Spec => []ConnectedCanRefresh
<1>1. Usable => ConnectedCanRefresh
  <2> SUFFICES ASSUME Usable, row.status = "connected"
               PROVE  LET g == secrets.refresh.token.grant IN
                        /\ Behind(secrets.refresh, row.refs.refresh)
                        /\ \/ g \in left
                           \/ /\ g \in vendor.live
                              /\ Current(secrets.refresh.token) \/ \E r \in Refreshers : Carries(r, g)
    BY DEF ConnectedCanRefresh
  <2>0. /\ Refreshable /\ Paired /\ Known /\ TypeOK /\ row.cred # None /\ row.cred \in Flows /\ row.cred \in Nat
        /\ secrets.refresh \in Secret
    <3>1. Refreshable /\ Paired /\ Known /\ TypeOK
      BY DEF Usable, Reportable, Refreshable, Paired, Quiet
    <3> QED
      BY <3>1, Counters DEF Paired, Admitted, TypeOK
  <2>1. row.refs.refresh = secrets.refresh.id /\ secrets.refresh.token.grant = row.cred
    BY <2>0 DEF Refreshable, OneToken
  <2>2. Present(secrets.refresh)
    <3>1. row.cred > 0 /\ 0 \in Nat
      BY <2>0 DEF None
    <3>2. WriteGeneration(row.cred, 0) > 0 /\ WriteGeneration(row.cred, 0) \in Nat
      BY <2>0, <3>1, Counted, Written
    <3>3. WriteGeneration(row.cred, 0) <= secrets.refresh.gen /\ secrets.refresh.gen \in Nat
      BY <2>0 DEF Paired, OnePair, OfCredential, Secret
    <3> QED
      BY <3>2, <3>3 DEF Present, None
  <2>3. row.cred \in left \/ row.cred \in vendor.live
    BY DEF Usable, CredLive
  <2>4. vendor.seq[row.cred] = secrets.refresh.token.seq \/ \E r \in Refreshers : Carries(r, row.cred)
    <3>1. CASE ~vendor.rotates
      BY <2>0, <3>1 DEF Refreshable, Still
    <3>2. ASSUME vendor.rotates, NEW r \in Refreshers, Ahead(r, row.cred) PROVE Carries(r, row.cred)
      <4>1. refresh[r].token = [grant |-> row.cred, seq |-> vendor.seq[row.cred]]
        <5>1. Tally(row.cred)
          BY <2>0, <3>2 DEF Usable, Tallied
        <5>2. refresh[r].token.grant = row.cred /\ refresh[r].token.seq = vendor.seq[row.cred]
          BY <3>2, <5>1 DEF Tally, Ahead
        <5>3. refresh[r].token \in Token
          BY <2>0, TokensTyped
        <5> QED
          BY <5>2, <5>3 DEF Token
      <4>2. CASE refresh[r].auth # row.cred
        BY <2>0, <4>1, <4>2 DEF Misread, Carries
      <4>3. CASE refresh[r].auth = row.cred
        <5>1. refresh[r].pc # "asking"
          <6>1. Tally(row.cred) /\ secrets.refresh.token.seq \in Nat /\ refresh[r].token.seq \in Nat
            BY <2>0, <3>2, SeqsTyped DEF Usable, Tallied
          <6> QED
            BY <3>2, <6>1 DEF Tally, Ahead
        <5>2. refresh[r].pc \notin {"idle", "fenced"}
          BY <2>0, <3>2 DEF Known, RealTokens, Ahead, NoToken
        <5>3. refresh[r].pc \notin {"stored", "done"}
          BY <3>2, <4>3 DEF Usable, OwnAhead, Delivers
        <5>4. refresh[r].pc \in RefreshSteps
          BY <2>0 DEF TypeOK, Refresh
        <5> QED
          BY <4>1, <5>1, <5>2, <5>3, <5>4 DEF RefreshSteps, Carries
      <4> QED
        BY <4>2, <4>3
    <3> QED
      BY <2>0, <3>1, <3>2 DEF Usable, Tallied, Tally
  <2> QED
    BY <2>1, <2>2, <2>3, <2>4 DEF Behind, Current
<1> QED
  BY <1>1, InitUsable, StepUsable, PTL DEF Spec
===============================================================================
