------------------------- MODULE RefreshQueueProofs -------------------------
(* Theorems about RefreshQueue, for any portfolios, requests, attempts and  *)
(* batches: first with any number of workers that keep within the lock      *)
(* timeout, then with one worker of any speed.                              *)
EXTENDS RefreshQueue, TLAPS

-----------------------------------------------------------------------------
(* Rows. *)

LEMMA NewRowType ==
    ASSUME NEW o \in Versions
    PROVE  /\ NewRow(o) \in Row
           /\ NewRow(o).status = "pending"
           /\ ~NewRow(o).completedAt
<1>1. AbsentRow \in Row
  BY RefreshQueueAssumptions DEF AbsentRow, Row, Versions
<1>2. ~AbsentRow.completedAt
  BY DEF AbsentRow
<1>. QED BY <1>1, <1>2 DEF NewRow, Row

LEMMA RowTypes ==
    ASSUME NEW row \in Row
    PROVE  /\ \A o \in Versions : Reused(row, o) \in Row
           /\ Completed(row) \in Row
           /\ Failed(row) \in Row
           /\ Retried(row) \in Row
           /\ [row EXCEPT !.due = TRUE] \in Row
           /\ [row EXCEPT !.stale = TRUE] \in Row
  BY DEF Row, Reused, Completed, Failed, Retried

LEMMA ClaimedType ==
    ASSUME NEW row \in Row, row.attempts < MaxAttempts
    PROVE  /\ Claimed(row) \in Row
           /\ row.attempts + 1 \in 1 .. MaxAttempts
<1>1. row.attempts + 1 \in 1 .. MaxAttempts /\ row.attempts + 1 \in 0 .. MaxAttempts
  BY RefreshQueueAssumptions DEF Row
<1>. DEFINE n == row.attempts + 1
<1>2. Claimed(row) = [row EXCEPT !.status = "processing", !.due = FALSE, !.stale = FALSE,
                                 !.attempts = n, !.tried = TRUE]
  BY DEF Claimed
<1>. HIDE DEF n
<1>3. n \in 0 .. MaxAttempts
  BY <1>1 DEF n
<1>4. Claimed(row) \in Row
  BY <1>2, <1>3 DEF Row
<1>. QED BY <1>1, <1>4

LEMMA ViewTypes ==
    ASSUME NEW x \in View, NEW n \in Versions, NEW ok \in BOOLEAN
    PROVE  /\ [x EXCEPT !.ledger = n, !.ok = ok] \in View
           /\ [x EXCEPT !.summary = n] \in View
           /\ [x EXCEPT !.holdings = n] \in View
  BY DEF View

-----------------------------------------------------------------------------
(* Type correctness. *)

LEMMA InitType == Init => TypeOK
  BY RefreshQueueAssumptions
  DEF Init, TypeOK, AbsentRow, Row, NoView, View, Versions, Alive, Working, Refreshing

LEMMA GotoType ==
    ASSUME TypeOK, NEW w \in Workers, NEW l \in Alive \cup {"down", "exited"}, Goto(w, l)
    PROVE  /\ pc' \in [Workers -> Alive \cup {"down", "exited"}]
           /\ \A v \in Workers : v # w => pc'[v] = pc[v]
           /\ pc'[w] = l
  BY DEF TypeOK, Goto

LEMMA ReleaseType ==
    ASSUME TypeOK, NEW w \in Workers, Release(w)
    PROVE  /\ job' \in [Workers -> Claim \cup {NoClaim}]
           /\ view' \in [Workers -> View]
           /\ \A v \in Workers : v # w => job'[v] = job[v]
           /\ job'[w] = NoClaim
  BY RefreshQueueAssumptions DEF TypeOK, Release, NoView, View, Versions

LEMMA PostType ==
    ASSUME TypeOK, NEW p \in Portfolios, PostOperation(p)
    PROVE  TypeOK'
<1>1. posted' \in [Portfolios -> Versions] /\ replayable' \in [Portfolios -> BOOLEAN]
  BY RefreshQueueAssumptions DEF TypeOK, PostOperation, Versions
<1>2. posted[p] + 1 \in Versions
  BY RefreshQueueAssumptions DEF TypeOK, PostOperation, Versions
<1>3. request' \in [Requests -> Row]
  <2>1. ASSUME NEW r \in Requests, request' = [request EXCEPT ![r] = Reused(@, posted[p] + 1)]
        PROVE  request' \in [Requests -> Row]
    BY <1>2, <2>1, RowTypes DEF TypeOK
  <2>2. ASSUME NEW r \in Requests, request' = [request EXCEPT ![r] = NewRow(posted[p] + 1)]
        PROVE  request' \in [Requests -> Row]
    BY <1>2, <2>2, NewRowType DEF TypeOK
  <2>. QED BY <2>1, <2>2 DEF PostOperation, EnqueueRefreshRequest, PendingOf
<1>. QED BY <1>1, <1>3 DEF TypeOK, PostOperation, derived, workerVars

LEMMA AdvanceType ==
    ASSUME TypeOK, NEW w \in Workers, Advance(w)
    PROVE  TypeOK'
<1>1. CASE MarkExhaustedFailed(w)
  <2>1. request' \in [Requests -> Row]
    BY <1>1, RowTypes DEF MarkExhaustedFailed, TypeOK
  <2>. QED BY <1>1, <2>1, GotoType
       DEF MarkExhaustedFailed, TypeOK, derived, Alive, Working, Refreshing
<1>2. CASE ClaimBatch(w)
  <2>. PICK S \in SUBSET Eligible :
          /\ request' = [r \in Requests |->
                IF r \in S THEN Claimed(request[r]) ELSE request[r]]
          /\ batch' = [batch EXCEPT ![w] =
                {[id |-> r, attempts |-> request[r].attempts + 1] : r \in S}]
          /\ Goto(w, IF S = {} THEN "idle" ELSE "next")
    BY <1>2 DEF ClaimBatch
  <2>1. \A r \in S : /\ r \in Requests
                     /\ Claimed(request[r]) \in Row
                     /\ [id |-> r, attempts |-> request[r].attempts + 1] \in Claim
    BY ClaimedType DEF Eligible, TypeOK, Claim
  <2>2. request' \in [Requests -> Row]
    BY <2>1 DEF TypeOK
  <2>3. batch' \in [Workers -> SUBSET Claim]
    <3>. DEFINE B == {[id |-> r, attempts |-> request[r].attempts + 1] : r \in S}
    <3>1. B \in SUBSET Claim /\ batch' = [batch EXCEPT ![w] = B]
      BY <2>1
    <3>. HIDE DEF B
    <3>. QED BY <3>1 DEF TypeOK
  <2>4. pc' \in [Workers -> Alive \cup {"down", "exited"}] /\ pc'[w] \notin Working
        /\ \A v \in Workers : v # w => pc'[v] = pc[v]
    <3>1. CASE S = {}
      BY <3>1, GotoType DEF Alive, Working, Refreshing
    <3>2. CASE S # {}
      BY <3>2, GotoType DEF Alive, Working, Refreshing
    <3>. QED BY <3>1, <3>2
  <2>. QED BY <1>2, <2>2, <2>3, <2>4 DEF ClaimBatch, TypeOK, derived
<1>3. CASE StartRequest(w)
  BY <1>3, GotoType DEF StartRequest, TypeOK, queueVars, derived, Alive
<1>4. CASE EndPass(w)
  BY <1>4, GotoType DEF EndPass, TypeOK, queueVars, derived, Alive, Working, Refreshing
<1>5. ASSUME pc[w] \in Working PROVE Target(w) \in Portfolios
  BY <1>5, RefreshQueueAssumptions DEF TypeOK, Claim, Target
<1>6. ASSUME pc[w] \in Working
      PROVE  /\ posted[Target(w)] \in Versions
             /\ replayable[Target(w)] \in BOOLEAN
             /\ readModel[Target(w)] \in Versions
             /\ job[w].id \in Requests
             /\ request[job[w].id] \in Row
             /\ view[w] \in View
  BY <1>5, <1>6 DEF TypeOK, Claim
<1>7. CASE ReadLedger(w)
  <2>1. view' \in [Workers -> View]
    BY <1>6, <1>7, ViewTypes DEF ReadLedger, TypeOK, Working, Refreshing
  <2>. QED BY <1>7, <2>1, GotoType
       DEF ReadLedger, TypeOK, queueVars, derived, Alive, Working, Refreshing
<1>8. CASE ReplaceReadModels(w)
  <2>1. view[w].ledger \in Versions
    BY <1>6, <1>8 DEF ReplaceReadModels, View, Working, Refreshing
  <2>. QED BY <1>8, <2>1, GotoType
       DEF ReplaceReadModels, TypeOK, queueVars, Alive, Working, Refreshing
<1>9. CASE ReadSummary(w)
  <2>1. view' \in [Workers -> View]
    BY <1>6, <1>9, ViewTypes DEF ReadSummary, TypeOK, Working, Refreshing
  <2>. QED BY <1>9, <2>1, GotoType
       DEF ReadSummary, TypeOK, queueVars, derived, Alive, Working, Refreshing
<1>10. CASE ReadHoldings(w)
  <2>1. view' \in [Workers -> View]
    BY <1>6, <1>10, ViewTypes DEF ReadHoldings, TypeOK, Working, Refreshing
  <2>. QED BY <1>10, <2>1, GotoType
       DEF ReadHoldings, TypeOK, queueVars, derived, Alive, Working, Refreshing
<1>11. CASE WriteSnapshot(w)
  <2>1. [summary |-> view[w].summary, holdings |-> view[w].holdings]
          \in [summary: Versions, holdings: Versions]
    BY <1>6, <1>11 DEF WriteSnapshot, View, Working, Refreshing
  <2>. QED BY <1>11, <2>1, GotoType
       DEF WriteSnapshot, TypeOK, queueVars, Alive, Working, Refreshing
<1>12. CASE RefreshFails(w)
  BY <1>12, GotoType
  DEF RefreshFails, TypeOK, queueVars, derived, Alive, Working, Refreshing
<1>13. CASE MarkCompleted(w)
  <2>1. request' \in [Requests -> Row]
    BY <1>6, <1>13, RowTypes DEF MarkCompleted, TypeOK, Working
  <2>. QED BY <1>13, <2>1, GotoType, ReleaseType
       DEF MarkCompleted, TypeOK, derived, Alive, Working, Refreshing
<1>14. CASE MarkFailed(w)
  <2>1. request' \in [Requests -> Row]
    BY <1>6, <1>14, RowTypes DEF MarkFailed, TypeOK, Working
  <2>. QED BY <1>14, <2>1, GotoType, ReleaseType
       DEF MarkFailed, TypeOK, derived, Alive, Working, Refreshing
<1>15. CASE ScheduleRetry(w)
  <2>1. request' \in [Requests -> Row]
    BY <1>6, <1>15, RowTypes DEF ScheduleRetry, TypeOK, Working
  <2>. QED BY <1>15, <2>1, GotoType, ReleaseType
       DEF ScheduleRetry, TypeOK, derived, Alive, Working, Refreshing
<1>16. CASE ExitOnRetryConflict(w)
  BY <1>16, GotoType, ReleaseType
  DEF ExitOnRetryConflict, Stop, TypeOK, queueVars, derived, Alive, Working, Refreshing
<1>. QED BY <1>1, <1>2, <1>3, <1>4, <1>7, <1>8, <1>9, <1>10, <1>11, <1>12,
            <1>13, <1>14, <1>15, <1>16 DEF Advance

LEMMA NextType == TypeOK /\ [Next]_vars => TypeOK'
<1>. SUFFICES ASSUME TypeOK, [Next]_vars PROVE TypeOK'
  OBVIOUS
<1>1. ASSUME NEW p \in Portfolios, PostOperation(p) PROVE TypeOK'
  BY <1>1, PostType
<1>2. ASSUME NEW w \in Workers, Advance(w) PROVE TypeOK'
  BY <1>2, AdvanceType
<1>3. ASSUME NEW w \in Workers, Crash(w) PROVE TypeOK'
  BY <1>3, GotoType, ReleaseType
  DEF Crash, Stop, TypeOK, queueVars, derived, Alive, Working, Refreshing
<1>4. ASSUME NEW w \in Workers, Start(w) PROVE TypeOK'
  BY <1>4, GotoType
  DEF Start, TypeOK, queueVars, derived, Alive, Working, Refreshing
<1>5. ASSUME NEW r \in Requests, RetryDelayElapses(r) PROVE TypeOK'
  BY <1>5, RowTypes DEF RetryDelayElapses, TypeOK, derived, workerVars
<1>6. ASSUME NEW r \in Requests, LockTimeoutElapses(r) PROVE TypeOK'
  BY <1>6, RowTypes DEF LockTimeoutElapses, TypeOK, derived, workerVars
<1>7. CASE UNCHANGED vars
  BY <1>7 DEF TypeOK, vars, queueVars, derived, workerVars
<1>. QED BY <1>1, <1>2, <1>3, <1>4, <1>5, <1>6, <1>7 DEF Next

(* Every reachable state has the types of the tables and of the worker.     *)
THEOREM TypeCorrect == Spec => []TypeOK
  BY InitType, NextType, PTL DEF Spec

-----------------------------------------------------------------------------
(* Claims are exclusive while no pass outlasts the lock timeout. *)

(* The inductive invariant.  A worker's batch never names the request it is *)
(* working on, and a row that is not settled has no completion date; with   *)
(* ExclusiveClaims this makes each mark_* statement meet the row it is for. *)
BatchApartFromJob == \A w \in Workers : \A c \in batch[w] : c.id # job[w].id
OpenNotCompleted ==
    \A r \in Requests :
        request[r].status \notin {"completed", "failed"} => ~request[r].completedAt
ClaimInv == TypeOK /\ ExclusiveClaims /\ BatchApartFromJob /\ OpenNotCompleted

(* What worker w holds, as claims. *)
ClaimsOf(w) == batch[w] \cup ({job[w]} \ {NoClaim})

(* The rows in anybody's hands: nobody but the holder may touch them.       *)
Untouched(r) == request'[r] = request[r]

LEMMA HeldIsClaimed ==
    ASSUME TypeOK, NEW w \in Workers
    PROVE  /\ \A c \in ClaimsOf(w) : c \in Claim /\ c.id \in Held(w)
           /\ \A r \in Held(w) : \E c \in ClaimsOf(w) : c.id = r
           /\ pc[w] \in Working => job[w] \in ClaimsOf(w)
  BY RefreshQueueAssumptions DEF TypeOK, ClaimsOf, Held, Claim, NoClaim

LEMMA InitClaim == Init => ClaimInv
<1>. SUFFICES ASSUME Init PROVE ClaimInv
  OBVIOUS
<1>1. \A w \in Workers : batch[w] = {} /\ job[w] = NoClaim
  BY DEF Init
<1>2. ExclusiveClaims
  BY <1>1 DEF ExclusiveClaims, Held, NoClaim
<1>3. OpenNotCompleted
  BY DEF Init, OpenNotCompleted, AbsentRow
<1>. QED BY <1>1, <1>2, <1>3, InitType DEF ClaimInv, BatchApartFromJob

(* A step that leaves the workers' claims alone, and every held row as it   *)
(* is, keeps the claims exclusive.                                          *)
LEMMA ClaimsKept ==
    ASSUME ClaimInv, UNCHANGED <<batch, job>>,
           \A w \in Workers : \A r \in Held(w) : Untouched(r)
    PROVE  ExclusiveClaims' /\ BatchApartFromJob'
<1>1. \A w \in Workers : Held(w)' = Held(w)
  BY DEF Held
<1>2. \A w \in Workers : \A c \in batch[w] \cup ({job[w]} \ {NoClaim}) : Untouched(c.id)
  BY HeldIsClaimed DEF ClaimInv, ClaimsOf
<1>. QED BY <1>1, <1>2 DEF ClaimInv, ExclusiveClaims, BatchApartFromJob, Untouched

(* A step in which w lets go of its job, perhaps of its whole batch, and    *)
(* changes no row but the one of its job, keeps the claims exclusive.       *)
LEMMA ClaimsReleased ==
    ASSUME ClaimInv, NEW w \in Workers,
           job' = [job EXCEPT ![w] = NoClaim],
           batch' = batch \/ batch' = [batch EXCEPT ![w] = {}],
           \A r \in Requests : r # job[w].id => Untouched(r)
    PROVE  ExclusiveClaims' /\ BatchApartFromJob'
<1>1. \A v \in Workers : batch[v] \subseteq Claim
  BY DEF ClaimInv, TypeOK
<1>2. \A v \in Workers : batch'[v] \subseteq batch[v] /\ job'[v] \in {job[v], NoClaim}
  BY DEF ClaimInv, TypeOK
<1>3. job'[w] = NoClaim /\ \A v \in Workers \ {w} : job'[v] = job[v]
  BY DEF ClaimInv, TypeOK
<1>4. \A v \in Workers : Held(v)' \subseteq Held(v)
  BY <1>2 DEF Held, NoClaim
<1>5. \A v \in Workers : \A c \in batch'[v] \cup ({job'[v]} \ {NoClaim}) :
          c \in Claim /\ c.id # job[w].id /\ Untouched(c.id)
  <2>. SUFFICES ASSUME NEW v \in Workers,
                       NEW c \in batch'[v] \cup ({job'[v]} \ {NoClaim})
                PROVE  c \in Claim /\ c.id # job[w].id
    BY DEF Claim
  <2>1. c \in ClaimsOf(v)
    BY <1>2 DEF ClaimsOf
  <2>2. c \in Claim /\ c.id \in Held(v) /\ c.id \in Requests
    BY <2>1, HeldIsClaimed DEF ClaimInv, Claim
  <2>3. CASE v = w
    BY <1>2, <1>3, <2>2, <2>3 DEF ClaimInv, BatchApartFromJob
  <2>4. CASE v # w
    <3>1. Held(v) \cap Held(w) = {}
      BY <2>4 DEF ClaimInv, ExclusiveClaims
    <3>2. job[w].id \in Held(w) \/ job[w].id = NoRequest
      BY DEF Held
    <3>. QED BY <2>2, <3>1, <3>2, RefreshQueueAssumptions
  <2>. QED BY <2>3, <2>4
<1>6. \A v \in Workers : \A c \in batch'[v] \cup ({job'[v]} \ {NoClaim}) :
          /\ request'[c.id].status = "processing"
          /\ ~request'[c.id].stale
          /\ request'[c.id].attempts = c.attempts
  BY <1>2, <1>5 DEF ClaimInv, ExclusiveClaims, Untouched
<1>7. BatchApartFromJob'
  <2>. SUFFICES ASSUME NEW v \in Workers, NEW c \in batch'[v] PROVE c.id # job'[v].id
    BY DEF BatchApartFromJob
  <2>1. c \in batch[v] /\ c.id \in Requests
    BY <1>1, <1>2 DEF Claim
  <2>2. c.id # job[v].id /\ c.id # NoClaim.id
    BY <2>1, RefreshQueueAssumptions DEF ClaimInv, BatchApartFromJob, NoClaim
  <2>. QED BY <1>2, <2>2
<1>8. \A u, v \in Workers : u # v => Held(u)' \cap Held(v)' = {}
  BY <1>4 DEF ClaimInv, ExclusiveClaims
<1>. QED BY <1>6, <1>7, <1>8 DEF ExclusiveClaims

LEMMA RowFields ==
    ASSUME NEW row \in Row
    PROVE  /\ \A o \in Versions : /\ Reused(row, o).status = row.status
                                  /\ Reused(row, o).completedAt = row.completedAt
           /\ Completed(row).status = "completed"
           /\ Failed(row).status = "failed"
           /\ Retried(row).status = "pending"
           /\ Retried(row).completedAt = row.completedAt
           /\ Claimed(row).status = "processing"
           /\ Claimed(row).completedAt = row.completedAt
           /\ ~Claimed(row).stale
           /\ Claimed(row).attempts = row.attempts + 1
           /\ [row EXCEPT !.due = TRUE].status = row.status
           /\ [row EXCEPT !.due = TRUE].completedAt = row.completedAt
           /\ [row EXCEPT !.stale = TRUE].status = row.status
           /\ [row EXCEPT !.stale = TRUE].completedAt = row.completedAt
  BY DEF Row, Reused, Completed, Failed, Retried, Claimed

(* The posting transaction touches a pending row or a new one.              *)
LEMMA PostClaim ==
    ASSUME ClaimInv, NEW p \in Portfolios, PostOperation(p)
    PROVE  ClaimInv'
<1>1. posted[p] + 1 \in Versions
  BY RefreshQueueAssumptions DEF ClaimInv, TypeOK, PostOperation, Versions
<1>2. PICK r \in Requests :
          /\ request[r].status \in {"pending", "absent"}
          /\ \E row \in {Reused(request[r], posted[p] + 1), NewRow(posted[p] + 1)} :
                request' = [request EXCEPT ![r] = row]
  <2>1. CASE \E r \in PendingOf(p) : request' = [request EXCEPT ![r] = Reused(@, posted[p] + 1)]
    BY <2>1 DEF PendingOf
  <2>2. CASE \E r \in Requests : /\ request[r].status = "absent"
                                 /\ request' = [request EXCEPT ![r] = NewRow(posted[p] + 1)]
    BY <2>2
  <2>. QED BY <2>1, <2>2 DEF PostOperation, EnqueueRefreshRequest
<1>3. request[r] \in Row /\ ~request[r].completedAt
  BY <1>2 DEF ClaimInv, TypeOK, OpenNotCompleted
<1>4. PICK row \in {Reused(request[r], posted[p] + 1), NewRow(posted[p] + 1)} :
          request' = [request EXCEPT ![r] = row]
  BY <1>2
<1>5. /\ ~row.completedAt
      /\ request'[r] = row
      /\ \A q \in Requests : q # r => Untouched(q)
  BY <1>1, <1>3, <1>4, RowFields, NewRowType DEF ClaimInv, TypeOK, Untouched
<1>6. OpenNotCompleted'
  BY <1>5 DEF ClaimInv, OpenNotCompleted, Untouched
<1>7. \A w \in Workers : \A q \in Held(w) : q \in Requests /\ q # r
  BY <1>2, HeldIsClaimed DEF ClaimInv, ExclusiveClaims, ClaimsOf, Claim
<1>8. UNCHANGED <<batch, job>>
  BY DEF PostOperation, workerVars
<1>9. ExclusiveClaims' /\ BatchApartFromJob'
  BY <1>5, <1>7, <1>8, ClaimsKept
<1>. QED BY <1>6, <1>9, PostType DEF ClaimInv

(* Failing exhausted rows spares the held ones, which are fresh.            *)
LEMMA ExhaustedClaim ==
    ASSUME ClaimInv, NEW w \in Workers, MarkExhaustedFailed(w)
    PROVE  ClaimInv'
<1>1. UNCHANGED <<batch, job>>
  BY DEF MarkExhaustedFailed
<1>2. \A v \in Workers : \A r \in Held(v) : Untouched(r)
  BY HeldIsClaimed
  DEF ClaimInv, ExclusiveClaims, ClaimsOf, Claim, MarkExhaustedFailed, Untouched
<1>3. OpenNotCompleted'
  BY RowFields DEF ClaimInv, TypeOK, OpenNotCompleted, MarkExhaustedFailed
<1>. QED BY <1>1, <1>2, <1>3, ClaimsKept, AdvanceType DEF ClaimInv, Advance

(* The rows claimed are pending or abandoned ones, hence in nobody's hands. *)
LEMMA BatchClaim ==
    ASSUME ClaimInv, NEW w \in Workers, ClaimBatch(w)
    PROVE  ClaimInv'
<1>. PICK S \in SUBSET Eligible :
        /\ request' = [r \in Requests |->
              IF r \in S THEN Claimed(request[r]) ELSE request[r]]
        /\ batch' = [batch EXCEPT ![w] =
              {[id |-> r, attempts |-> request[r].attempts + 1] : r \in S}]
  BY DEF ClaimBatch
<1>. DEFINE B == {[id |-> r, attempts |-> request[r].attempts + 1] : r \in S}
<1>1. batch'[w] = B /\ \A v \in Workers : v # w => batch'[v] = batch[v]
  BY DEF ClaimInv, TypeOK
<1>2. job' = job
  BY DEF ClaimBatch
<1>3. \A v \in Workers : \A r \in Held(v) : r \in Requests /\ r \notin S /\ Untouched(r)
  <2>1. \A v \in Workers : \A r \in Held(v) :
            r \in Requests /\ request[r].status = "processing" /\ ~request[r].stale
    BY HeldIsClaimed DEF ClaimInv, ExclusiveClaims, ClaimsOf, Claim
  <2>. QED BY <2>1 DEF Eligible, Untouched
<1>4. \A c \in B : /\ c.id \in S
                   /\ request'[c.id].status = "processing"
                   /\ ~request'[c.id].stale
                   /\ request'[c.id].attempts = c.attempts
  BY RowFields DEF ClaimInv, TypeOK, Eligible
<1>5. \A v \in Workers : \A c \in ClaimsOf(v) :
          /\ request'[c.id].status = "processing"
          /\ ~request'[c.id].stale
          /\ request'[c.id].attempts = c.attempts
          /\ c.id \notin S
  BY <1>3, HeldIsClaimed DEF ClaimInv, ExclusiveClaims, ClaimsOf, Untouched
<1>. HIDE DEF B
<1>6. \A v \in Workers : Held(v)' \subseteq Held(v) \cup S
                         /\ (v # w => Held(v)' = Held(v))
  BY <1>1, <1>2, <1>4 DEF Held
<1>7. \A u, v \in Workers : u # v => Held(u)' \cap Held(v)' = {}
  BY <1>3, <1>6 DEF ClaimInv, ExclusiveClaims
<1>8. \A v \in Workers : \A c \in batch'[v] \cup ({job'[v]} \ {NoClaim}) :
          /\ request'[c.id].status = "processing"
          /\ ~request'[c.id].stale
          /\ request'[c.id].attempts = c.attempts
  BY <1>1, <1>2, <1>4, <1>5 DEF ClaimsOf
<1>9. BatchApartFromJob'
  <2>. SUFFICES ASSUME NEW v \in Workers, NEW c \in batch'[v] PROVE c.id # job'[v].id
    BY DEF BatchApartFromJob
  <2>1. CASE v # w
    BY <1>1, <1>2, <2>1 DEF ClaimInv, BatchApartFromJob
  <2>2. CASE v = w
    <3>1. c.id \in S /\ c.id \in Requests
      BY <1>1, <1>4, <2>2 DEF Eligible
    <3>2. job[w].id \in Held(w) \/ job[w].id = NoRequest
      BY DEF Held
    <3>. QED BY <1>2, <1>3, <2>2, <3>1, <3>2, RefreshQueueAssumptions
  <2>. QED BY <2>1, <2>2
<1>10. OpenNotCompleted'
  BY RowFields DEF ClaimInv, TypeOK, OpenNotCompleted, Eligible
<1>. QED BY <1>7, <1>8, <1>9, <1>10, AdvanceType DEF ClaimInv, ExclusiveClaims, Advance

(* Taking a claim out of the batch only moves it within the worker's hands. *)
LEMMA StartClaim ==
    ASSUME ClaimInv, NEW w \in Workers, StartRequest(w)
    PROVE  ClaimInv'
<1>. PICK c \in batch[w] :
        /\ job' = [job EXCEPT ![w] = c]
        /\ batch' = [batch EXCEPT ![w] = @ \ {c}]
  BY DEF StartRequest
<1>1. /\ request' = request
      /\ job'[w] = c
      /\ batch'[w] = batch[w] \ {c}
      /\ \A v \in Workers : v # w => job'[v] = job[v] /\ batch'[v] = batch[v]
  BY DEF ClaimInv, TypeOK, StartRequest, queueVars
<1>2. c \in Claim
  BY DEF ClaimInv, TypeOK
<1>3. \A d \in batch[w] : d \in Claim /\ (d.id = c.id => d = c)
  BY <1>2 DEF ClaimInv, TypeOK, ExclusiveClaims, Claim
<1>4. \A v \in Workers : Held(v)' \subseteq Held(v)
  BY <1>1, <1>2 DEF Held
<1>5. \A v \in Workers :
          batch'[v] \cup ({job'[v]} \ {NoClaim}) \subseteq batch[v] \cup ({job[v]} \ {NoClaim})
  BY <1>1
<1>6. ExclusiveClaims'
  BY <1>1, <1>4, <1>5 DEF ClaimInv, ExclusiveClaims
<1>7. BatchApartFromJob'
  BY <1>1, <1>3 DEF ClaimInv, BatchApartFromJob
<1>8. OpenNotCompleted'
  BY <1>1 DEF ClaimInv, OpenNotCompleted
<1>. QED BY <1>6, <1>7, <1>8, AdvanceType DEF ClaimInv, Advance

(* The three mark_* statements write the row of the worker's own claim.     *)
LEMMA MarkClaim ==
    ASSUME ClaimInv, NEW w \in Workers,
           MarkCompleted(w) \/ MarkFailed(w) \/ ScheduleRetry(w)
    PROVE  ClaimInv'
<1>1. job[w] \in Claim /\ job[w] \in ClaimsOf(w)
  BY HeldIsClaimed DEF ClaimInv, TypeOK, MarkCompleted, MarkFailed, ScheduleRetry, Working
<1>2. /\ job[w].id \in Requests
      /\ request[job[w].id] \in Row
      /\ request[job[w].id].status = "processing"
      /\ ~request[job[w].id].completedAt
  BY <1>1 DEF ClaimInv, TypeOK, Claim, ClaimsOf, ExclusiveClaims, OpenNotCompleted
<1>3. /\ job' = [job EXCEPT ![w] = NoClaim]
      /\ batch' = batch
      /\ \A r \in Requests : r # job[w].id => Untouched(r)
      /\ request'[job[w].id] \in {Completed(request[job[w].id]), Failed(request[job[w].id]),
                                  Retried(request[job[w].id])}
  BY <1>2 DEF MarkCompleted, MarkFailed, ScheduleRetry, Release, Untouched, ClaimInv, TypeOK
<1>4. ExclusiveClaims' /\ BatchApartFromJob'
  BY <1>3, ClaimsReleased
<1>5. OpenNotCompleted'
  BY <1>2, <1>3, RowFields DEF ClaimInv, OpenNotCompleted, Untouched
<1>. QED BY <1>4, <1>5, AdvanceType DEF ClaimInv, Advance

LEMMA StopClaim ==
    ASSUME ClaimInv, TypeOK', NEW w \in Workers, NEW l \in {"down", "exited"}, Stop(w, l)
    PROVE  ClaimInv'
<1>1. /\ job' = [job EXCEPT ![w] = NoClaim]
      /\ batch' = [batch EXCEPT ![w] = {}]
      /\ request' = request
  BY DEF Stop, Release, queueVars
<1>2. ExclusiveClaims' /\ BatchApartFromJob'
  BY <1>1, ClaimsReleased DEF Untouched
<1>. QED BY <1>1, <1>2 DEF ClaimInv, OpenNotCompleted

LEMMA NextClaim ==
    ASSUME SlowWorkers = FALSE
    PROVE  ClaimInv /\ [Next]_vars => ClaimInv'
<1>. SUFFICES ASSUME ClaimInv, [Next]_vars PROVE ClaimInv'
  OBVIOUS
<1>0. TypeOK'
  BY NextType DEF ClaimInv
<1>1. ASSUME UNCHANGED <<request, batch, job>> PROVE ClaimInv'
  BY <1>0, <1>1, ClaimsKept DEF ClaimInv, OpenNotCompleted, Untouched
<1>2. ASSUME NEW p \in Portfolios, PostOperation(p) PROVE ClaimInv'
  BY <1>2, PostClaim
<1>3. ASSUME NEW w \in Workers, Advance(w) PROVE ClaimInv'
  <2>1. CASE MarkExhaustedFailed(w)
    BY <2>1, ExhaustedClaim
  <2>2. CASE ClaimBatch(w)
    BY <2>2, BatchClaim
  <2>3. CASE StartRequest(w)
    BY <2>3, StartClaim
  <2>4. CASE EndPass(w) \/ ReadLedger(w) \/ ReplaceReadModels(w) \/ ReadSummary(w)
             \/ ReadHoldings(w) \/ WriteSnapshot(w) \/ RefreshFails(w)
    BY <1>1, <2>4
    DEF EndPass, ReadLedger, ReplaceReadModels, ReadSummary, ReadHoldings,
        WriteSnapshot, RefreshFails, queueVars
  <2>5. CASE MarkCompleted(w) \/ MarkFailed(w) \/ ScheduleRetry(w)
    BY <2>5, MarkClaim
  <2>6. CASE ExitOnRetryConflict(w)
    BY <1>0, <2>6, StopClaim DEF ExitOnRetryConflict
  <2>. QED BY <1>3, <2>1, <2>2, <2>3, <2>4, <2>5, <2>6 DEF Advance
<1>4. ASSUME NEW w \in Workers, Crash(w) PROVE ClaimInv'
  BY <1>0, <1>4, StopClaim DEF Crash
<1>5. ASSUME NEW w \in Workers, Start(w) PROVE ClaimInv'
  BY <1>1, <1>5 DEF Start, queueVars
<1>6. ASSUME NEW r \in Requests,
             RetryDelayElapses(r) \/ LockTimeoutElapses(r)
      PROVE  ClaimInv'
  <2>1. UNCHANGED <<batch, job>> /\ \A q \in Requests : q # r => Untouched(q)
    BY <1>6 DEF RetryDelayElapses, LockTimeoutElapses, workerVars, ClaimInv, TypeOK, Untouched
  <2>2. /\ request'[r].status = request[r].status
        /\ request'[r].completedAt = request[r].completedAt
    <3>1. request[r] \in Row
      BY DEF ClaimInv, TypeOK
    <3>2. CASE request'[r] = [request[r] EXCEPT !.due = TRUE]
      BY <3>1, <3>2, RowFields
    <3>3. CASE request'[r] = [request[r] EXCEPT !.stale = TRUE]
      BY <3>1, <3>3, RowFields
    <3>. QED BY <1>6, <3>2, <3>3 DEF RetryDelayElapses, LockTimeoutElapses, ClaimInv, TypeOK
  <2>3. \A w \in Workers : \A q \in Held(w) : q \in Requests /\ q # r
    <3>1. \A w \in Workers : \A q \in Held(w) :
              q \in Requests /\ request[q].status = "processing"
      BY HeldIsClaimed DEF ClaimInv, ExclusiveClaims, ClaimsOf, Claim
    <3>. QED BY <1>6, <3>1 DEF RetryDelayElapses, LockTimeoutElapses
  <2>. QED BY <1>0, <2>1, <2>2, <2>3, ClaimsKept DEF ClaimInv, OpenNotCompleted, Untouched
<1>7. CASE UNCHANGED vars
  BY <1>1, <1>7 DEF vars, queueVars, workerVars
<1>. QED BY <1>2, <1>3, <1>4, <1>5, <1>6, <1>7 DEF Next

(* FOR UPDATE SKIP LOCKED with the lock timeout: as long as no refresh      *)
(* outlasts the timeout, no two workers ever hold one request, and what a   *)
(* worker holds is exactly what it claimed, through crashes and restarts.   *)
THEOREM ClaimsExclusive ==
    ASSUME SlowWorkers = FALSE
    PROVE  Spec => []ExclusiveClaims
<1>1. ClaimInv => ExclusiveClaims
  BY DEF ClaimInv
<1>2. ClaimInv /\ [Next]_vars => ClaimInv'
  BY NextClaim
<1>. QED BY <1>1, <1>2, InitClaim, PTL DEF Spec

(* Under the same assumption a row that becomes pending again never keeps a *)
(* completion date, so no posting transaction is refused on its account.    *)
THEOREM PostingsAccepted ==
    ASSUME SlowWorkers = FALSE
    PROVE  Spec => []PendingAcceptsPostings
<1>1. ClaimInv => PendingAcceptsPostings
  BY DEF ClaimInv, OpenNotCompleted, PendingAcceptsPostings
<1>2. ClaimInv /\ [Next]_vars => ClaimInv'
  BY NextClaim
<1>. QED BY <1>1, <1>2, InitClaim, PTL DEF Spec

(* Under the same assumption a settled request stays settled, as it is.     *)
THEOREM TerminalForGood ==
    ASSUME SlowWorkers = FALSE
    PROVE  Spec => TerminalIsFinal
<1>. DEFINE Settled(r) == request[r].status \in {"completed", "failed"}
            Kept == \A r \in Requests : Settled(r) => request'[r].status = request[r].status
<1>1. ClaimInv /\ [Next]_vars => ClaimInv'
  BY NextClaim
<1>2. ClaimInv /\ Next => Kept
  <2>. SUFFICES ASSUME ClaimInv, Next, NEW r \in Requests, Settled(r)
                PROVE  Untouched(r)
    BY DEF Untouched
  <2>1. ASSUME NEW p \in Portfolios, PostOperation(p) PROVE Untouched(r)
    BY <2>1 DEF PostOperation, EnqueueRefreshRequest, PendingOf, Untouched, ClaimInv, TypeOK
  <2>2. ASSUME NEW w \in Workers, MarkExhaustedFailed(w) PROVE Untouched(r)
    BY <2>2 DEF MarkExhaustedFailed, Untouched
  <2>3. ASSUME NEW w \in Workers, ClaimBatch(w) PROVE Untouched(r)
    BY <2>3 DEF ClaimBatch, Eligible, Untouched
  <2>4. ASSUME NEW w \in Workers, MarkCompleted(w) \/ MarkFailed(w) \/ ScheduleRetry(w)
        PROVE  Untouched(r)
    <3>1. job[w] \in Claim /\ job[w] \in ClaimsOf(w)
      BY <2>4, HeldIsClaimed
      DEF ClaimInv, TypeOK, MarkCompleted, MarkFailed, ScheduleRetry, Working
    <3>2. request[job[w].id].status = "processing"
      BY <3>1 DEF ClaimInv, ClaimsOf, ExclusiveClaims
    <3>. QED BY <2>4, <3>1, <3>2
         DEF MarkCompleted, MarkFailed, ScheduleRetry, Untouched, ClaimInv, TypeOK
  <2>5. ASSUME NEW w \in Workers, UNCHANGED queueVars PROVE Untouched(r)
    BY <2>5 DEF queueVars, Untouched
  <2>6. ASSUME NEW q \in Requests, RetryDelayElapses(q) \/ LockTimeoutElapses(q)
        PROVE  Untouched(r)
    BY <2>6 DEF RetryDelayElapses, LockTimeoutElapses, Untouched, ClaimInv, TypeOK
  <2>7. ASSUME NEW w \in Workers, Advance(w) PROVE Untouched(r)
    BY <2>2, <2>3, <2>4, <2>5, <2>7
    DEF Advance, StartRequest, EndPass, ReadLedger, ReplaceReadModels, ReadSummary,
        ReadHoldings, WriteSnapshot, RefreshFails, ExitOnRetryConflict, Stop
  <2>. QED BY <2>1, <2>5, <2>6, <2>7 DEF Next, Crash, Stop, Start
<1>3. ClaimInv /\ [Next]_vars => [Kept]_vars
  BY <1>2
<1>. QED BY <1>1, <1>3, InitClaim, PTL DEF Spec, TerminalIsFinal

-----------------------------------------------------------------------------
(* What one kushim-worker, as slow as it may be and wherever it crashes,    *)
(* guarantees the users of the portfolios, and that the queue it empties    *)
(* implements RefreshContract.                                              *)

(* docker-compose.yml runs one worker. *)
OneWorker == \A v, w \in Workers : v = w

-----------------------------------------------------------------------------
(* The inductive invariant. *)

(* The worker's claims: it holds them only within a pass, and nobody else   *)
(* touches their rows, stale or not.                                        *)
HandsOK(w) ==
    /\ pc[w] \in {"idle", "claim", "down", "exited"} => batch[w] = {}
    /\ pc[w] \notin Working => job[w] = NoClaim
    /\ \A c \in ClaimsOf(w) : /\ request[c.id].status = "processing"
                              /\ request[c.id].attempts = c.attempts
    /\ \A c \in batch[w] : c.id # job[w].id

(* How far the refresh under way has come.                                  *)
ViewOK(w) ==
    LET p == Target(w)
        trigger == request[job[w].id].trigger
    IN  /\ pc[w] = "replace" => /\ trigger <= view[w].ledger
                                /\ readModel[p] <= view[w].ledger
                                /\ view[w].ledger <= posted[p]
        /\ pc[w] \in {"summary", "holdings", "snapshot", "complete"} =>
              trigger <= readModel[p]
        /\ pc[w] \in {"holdings", "snapshot"} => view[w].summary = readModel[p]
        /\ pc[w] = "snapshot" => view[w].holdings = readModel[p]
        /\ pc[w] = "complete" => trigger <= snapshot[p].summary

(* A pending row has attempts left, and one without has been tried.         *)
RowOK(r) ==
    /\ request[r].status = "pending" => request[r].attempts < MaxAttempts
    /\ request[r].status \in {"processing", "failed"} => request[r].tried
    /\ request[r].trigger <= posted[PortfolioOf[r]]
    /\ request[r].status = "completed" =>
          /\ request[r].trigger <= readModel[PortfolioOf[r]]
          /\ request[r].trigger <= snapshot[PortfolioOf[r]].summary

(* Some row was triggered by the last operation.                            *)
LatestOK(p) ==
    posted[p] > 0 =>
        \E r \in Requests : /\ PortfolioOf[r] = p
                            /\ request[r].status # "absent"
                            /\ request[r].trigger = posted[p]

DerivedOK(p) ==
    /\ snapshot[p].holdings = snapshot[p].summary
    /\ snapshot[p].summary <= readModel[p]
    /\ readModel[p] <= posted[p]

PromiseInv ==
    /\ TypeOK
    /\ \A w \in Workers : HandsOK(w) /\ ViewOK(w)
    /\ \A r \in Requests : RowOK(r)
    /\ \A p \in Portfolios : LatestOK(p) /\ DerivedOK(p)

(* The part of it that a step of worker w answers for. *)
PromiseFor(w) ==
    /\ TypeOK
    /\ HandsOK(w) /\ ViewOK(w)
    /\ \A r \in Requests : RowOK(r)
    /\ \A p \in Portfolios : LatestOK(p) /\ DerivedOK(p)

-----------------------------------------------------------------------------
(* The lemmas. *)

LEMMA InitPromise == Init => PromiseInv
<1>. SUFFICES ASSUME Init PROVE PromiseInv
  OBVIOUS
<1>1. \A w \in Workers : batch[w] = {} /\ job[w] = NoClaim /\ pc[w] = "down"
  BY DEF Init
<1>2. \A w \in Workers : HandsOK(w) /\ ViewOK(w)
  BY <1>1 DEF HandsOK, ViewOK, ClaimsOf
<1>3. \A r \in Requests : RowOK(r)
  BY RefreshQueueAssumptions DEF Init, RowOK, AbsentRow
<1>4. \A p \in Portfolios : LatestOK(p) /\ DerivedOK(p)
  BY DEF Init, LatestOK, DerivedOK
<1>. QED BY <1>2, <1>3, <1>4, InitType DEF PromiseInv

(* The numbers are numbers. *)
LEMMA Counts ==
    ASSUME TypeOK
    PROVE  /\ \A p \in Portfolios : /\ posted[p] \in Nat /\ readModel[p] \in Nat
                                    /\ snapshot[p].summary \in Nat
                                    /\ snapshot[p].holdings \in Nat
           /\ \A r \in Requests : /\ request[r] \in Row /\ request[r].trigger \in Nat
                                  /\ request[r].attempts \in Nat
                                  /\ PortfolioOf[r] \in Portfolios
           /\ \A w \in Workers : /\ view[w].ledger \in Nat /\ view[w].summary \in Nat
                                 /\ view[w].holdings \in Nat
  BY RefreshQueueAssumptions DEF TypeOK, Versions, Row, View

(* The row and the portfolio of the refresh under way.                      *)
LEMMA JobFacts ==
    ASSUME PromiseInv, NEW w \in Workers, pc[w] \in Working
    PROVE  /\ job[w] \in Claim /\ job[w].id \in Requests /\ job[w].attempts \in 1 .. MaxAttempts
           /\ job[w] \in ClaimsOf(w)
           /\ Target(w) = PortfolioOf[job[w].id] /\ Target(w) \in Portfolios
           /\ request[job[w].id].status = "processing"
           /\ request[job[w].id].attempts = job[w].attempts
<1>1. job[w] \in Claim /\ job[w] \in ClaimsOf(w)
  BY HeldIsClaimed DEF PromiseInv, TypeOK
<1>2. job[w].id \in Requests /\ job[w].attempts \in 1 .. MaxAttempts
  BY <1>1 DEF Claim
<1>. QED BY <1>1, <1>2, RefreshQueueAssumptions DEF PromiseInv, HandsOK, Target

(* What a step that leaves the derived tables and the triggers keeps.       *)
LEMMA TriggersKept ==
    ASSUME PromiseInv, UNCHANGED <<posted, readModel, snapshot>>,
           \A r \in Requests : /\ request'[r].trigger = request[r].trigger
                               /\ request[r].status # "absent" => request'[r].status # "absent"
    PROVE  \A p \in Portfolios : LatestOK(p)' /\ DerivedOK(p)'
<1>. TAKE p \in Portfolios
<1>1. LatestOK(p) /\ DerivedOK(p)
  BY DEF PromiseInv
<1>2. DerivedOK(p)'
  BY <1>1 DEF DerivedOK
<1>3. LatestOK(p)'
  <2>. SUFFICES ASSUME posted[p] > 0
                PROVE  \E r \in Requests : /\ PortfolioOf[r] = p
                                           /\ request'[r].status # "absent"
                                           /\ request'[r].trigger = posted[p]
    BY DEF LatestOK
  <2>. QED BY <1>1 DEF LatestOK
<1>. QED BY <1>2, <1>3

(* A step that leaves every table alone.                                    *)
LEMMA TablesKept ==
    ASSUME PromiseInv, UNCHANGED <<posted, request, readModel, snapshot>>
    PROVE  /\ \A r \in Requests : RowOK(r)'
           /\ \A p \in Portfolios : LatestOK(p)' /\ DerivedOK(p)'
<1>1. \A r \in Requests : RowOK(r)'
  BY DEF PromiseInv, RowOK
<1>. QED BY <1>1, TriggersKept

-----------------------------------------------------------------------------
(* The posting transaction. *)

LEMMA PostPromise ==
    ASSUME PromiseInv, NEW p \in Portfolios, PostOperation(p)
    PROVE  PromiseInv'
<1>1. TypeOK' /\ TypeOK
  BY PostType DEF PromiseInv
<1>2. posted[p] + 1 \in Versions
  BY RefreshQueueAssumptions DEF PromiseInv, TypeOK, PostOperation, Versions
<1>3. PICK r \in Requests, row \in Row :
          /\ request[r].status \in {"pending", "absent"} /\ PortfolioOf[r] = p
          /\ \/ row = NewRow(posted[p] + 1)
             \/ row = Reused(request[r], posted[p] + 1) /\ request[r].status = "pending"
          /\ request' = [request EXCEPT ![r] = row]
  BY <1>2, NewRowType, RowTypes DEF PostOperation, EnqueueRefreshRequest, PendingOf, PromiseInv, TypeOK
<1>4. request[r] \in Row
  BY DEF PromiseInv, TypeOK
<1>5. row.status = "pending" /\ row.trigger = posted[p] + 1 /\ row.attempts < MaxAttempts
  <2>1. CASE row = NewRow(posted[p] + 1)
    BY <2>1, RefreshQueueAssumptions DEF NewRow, AbsentRow
  <2>2. CASE row = Reused(request[r], posted[p] + 1) /\ request[r].status = "pending"
    BY <1>3, <1>4, <2>2 DEF Reused, Row, PromiseInv, RowOK
  <2>. QED BY <1>3, <2>1, <2>2
<1>6. request'[r] = row /\ \A s \in Requests \ {r} : request'[s] = request[s]
  BY <1>3 DEF PromiseInv, TypeOK
<1>7. /\ posted'[p] = posted[p] + 1 /\ \A q \in Portfolios \ {p} : posted'[q] = posted[q]
      /\ UNCHANGED <<readModel, snapshot, pc, batch, job, view>>
  BY DEF PromiseInv, TypeOK, PostOperation, derived, workerVars
<1>8. \A q \in Portfolios : posted[q] \in Nat /\ posted[q] <= posted'[q]
  BY <1>1, <1>7, Counts
<1>9. \A s \in Requests : RowOK(s)'
  <2>. TAKE s \in Requests
  <2>1. CASE s = r
    BY <2>1, <1>1, <1>3, <1>5, <1>6, <1>7, Counts DEF RowOK
  <2>2. CASE s # r
    <3>1. RowOK(s) /\ request'[s] = request[s] /\ PortfolioOf[s] \in Portfolios
      BY <2>2, <1>6, RefreshQueueAssumptions DEF PromiseInv
    <3>2. request[s].trigger \in Nat
      BY <1>1, Counts
    <3>3. posted[PortfolioOf[s]] <= posted'[PortfolioOf[s]] /\ posted'[PortfolioOf[s]] \in Nat
      BY <1>1, <1>8, <3>1, Counts DEF TypeOK, Versions
    <3>. QED BY <1>7, <1>8, <3>1, <3>2, <3>3 DEF RowOK
  <2>. QED BY <2>1, <2>2
<1>10. ASSUME NEW q \in Portfolios PROVE LatestOK(q)' /\ DerivedOK(q)'
  <2>1. LatestOK(q) /\ DerivedOK(q)
    BY DEF PromiseInv
  <2>2. DerivedOK(q)'
    <3>1. readModel[q] \in Nat /\ posted[q] <= posted'[q] /\ posted[q] \in Nat /\ posted'[q] \in Nat
      BY <1>1, <1>8, Counts DEF TypeOK, Versions
    <3>. QED BY <1>7, <2>1, <3>1 DEF DerivedOK
  <2>3. CASE q = p
    BY <2>2, <2>3, <1>3, <1>5, <1>6, <1>7 DEF LatestOK
  <2>4. CASE q # p
    BY <2>1, <2>2, <2>4, <1>3, <1>6, <1>7 DEF LatestOK
  <2>. QED BY <2>3, <2>4
<1>11. ASSUME NEW w \in Workers PROVE HandsOK(w)' /\ ViewOK(w)'
  <2>1. HandsOK(w) /\ ViewOK(w)
    BY DEF PromiseInv
  <2>2. \A c \in ClaimsOf(w) : c.id \in Requests /\ c.id # r
    BY <1>1, <1>3, <2>1, HeldIsClaimed DEF HandsOK, Claim
  <2>3. HandsOK(w)'
    BY <1>6, <1>7, <2>1, <2>2 DEF HandsOK, ClaimsOf
  <2>4. CASE pc[w] \in Working
    <3>1. /\ job[w].id \in Requests /\ job[w].id # r /\ Target(w) \in Portfolios
          /\ Target(w)' = Target(w)
      BY <1>7, <2>2, <2>4, JobFacts DEF Target
    <3>2. request'[job[w].id] = request[job[w].id]
      BY <1>6, <3>1
    <3>3. /\ posted[Target(w)] <= posted'[Target(w)] /\ posted[Target(w)] \in Nat
          /\ posted'[Target(w)] \in Nat /\ view[w].ledger \in Nat
      BY <1>1, <1>8, <3>1, Counts DEF TypeOK, Versions
    <3>4. ViewOK(w)'
      BY <1>7, <2>1, <3>1, <3>2, <3>3 DEF ViewOK
    <3>. QED BY <2>3, <3>4
  <2>5. CASE pc[w] \notin Working
    BY <1>7, <2>3, <2>5 DEF ViewOK, Working, Refreshing
  <2>. QED BY <2>4, <2>5
<1>. QED BY <1>1, <1>9, <1>10, <1>11 DEF PromiseInv

-----------------------------------------------------------------------------
(* The queue's own statements. *)

(* What the statements keep of a row.                                       *)
LEMMA RowsKept ==
    ASSUME NEW row \in Row
    PROVE  /\ \A row2 \in {Completed(row), Failed(row), Retried(row), Claimed(row),
                            [row EXCEPT !.due = TRUE], [row EXCEPT !.stale = TRUE]} :
                 row2.trigger = row.trigger
           /\ \A row2 \in {Completed(row), Failed(row), Retried(row),
                            [row EXCEPT !.due = TRUE], [row EXCEPT !.stale = TRUE]} :
                 row2.attempts = row.attempts /\ row2.tried = row.tried
           /\ Claimed(row).tried
  BY DEF Row, Completed, Failed, Retried, Claimed

(* Workers with nothing in their hands. *)
LEMMA EmptyHands ==
    ASSUME NEW w \in Workers, batch[w] = {}, job[w] = NoClaim, pc[w] \notin Working
    PROVE  HandsOK(w) /\ ViewOK(w)
  BY DEF HandsOK, ViewOK, ClaimsOf, Working, Refreshing

LEMMA ExhaustedPromise ==
    ASSUME PromiseInv, NEW w \in Workers, MarkExhaustedFailed(w)
    PROVE  PromiseFor(w)'
<1>1. TypeOK' /\ TypeOK
  BY AdvanceType DEF PromiseInv, Advance
<1>2. \A r \in Requests : request[r] \in Row /\ RowOK(r)
  BY DEF PromiseInv, TypeOK
<1>3. \A r \in Requests :
          request'[r] = IF /\ request[r].attempts >= MaxAttempts
                           /\ \/ request[r].status = "pending"
                              \/ request[r].status = "processing" /\ request[r].stale
                        THEN Failed(request[r]) ELSE request[r]
  BY DEF MarkExhaustedFailed
<1>4. \A r \in Requests :
          \/ request'[r] = request[r]
          \/ request'[r] = Failed(request[r]) /\ request[r].status = "processing"
  <2>. TAKE r \in Requests
  <2>1. request[r].attempts \in Nat /\ MaxAttempts \in Nat
    BY <1>1, Counts, RefreshQueueAssumptions
  <2>2. ~(request[r].status = "pending" /\ request[r].attempts >= MaxAttempts)
    BY <1>2, <2>1 DEF RowOK
  <2>. QED BY <1>3, <2>2
<1>5. UNCHANGED <<posted, readModel, snapshot, batch, job>> /\ pc[w] = "idle" /\ pc'[w] = "claim"
  BY <1>1 DEF MarkExhaustedFailed, derived, Goto, TypeOK
<1>6. \A r \in Requests : RowOK(r)'
  <2>. TAKE r \in Requests
  <2>1. CASE request'[r] = request[r]
    BY <2>1, <1>2, <1>5 DEF RowOK
  <2>2. CASE request'[r] = Failed(request[r]) /\ request[r].status = "processing"
    BY <2>2, <1>2, <1>5, RowFields, RowsKept DEF RowOK
  <2>. QED BY <2>1, <2>2, <1>4
<1>7. \A p \in Portfolios : LatestOK(p)' /\ DerivedOK(p)'
  BY <1>2, <1>4, <1>5, RowFields, RowsKept, TriggersKept
<1>8. HandsOK(w)' /\ ViewOK(w)'
  BY <1>5 DEF PromiseInv, HandsOK, ViewOK, ClaimsOf, Working, Refreshing
<1>. QED BY <1>1, <1>6, <1>7, <1>8 DEF PromiseInv, PromiseFor

LEMMA BatchPromise ==
    ASSUME PromiseInv, NEW w \in Workers, ClaimBatch(w)
    PROVE  PromiseFor(w)'
<1>1. TypeOK' /\ TypeOK
  BY AdvanceType DEF PromiseInv, Advance
<1>2. PICK S \in SUBSET Eligible :
        /\ request' = [r \in Requests |->
              IF r \in S THEN Claimed(request[r]) ELSE request[r]]
        /\ batch' = [batch EXCEPT ![w] =
              {[id |-> r, attempts |-> request[r].attempts + 1] : r \in S}]
        /\ Goto(w, IF S = {} THEN "idle" ELSE "next")
  BY DEF ClaimBatch
<1>. DEFINE B == {[id |-> r, attempts |-> request[r].attempts + 1] : r \in S}
<1>3. \A r \in Requests : request[r] \in Row /\ RowOK(r)
  BY DEF PromiseInv, TypeOK
<1>4. \A r \in S : /\ r \in Requests /\ request'[r] = Claimed(request[r])
                   /\ request[r].status \in {"pending", "processing"}
  BY <1>2 DEF Eligible
<1>5. \A r \in Requests \ S : request'[r] = request[r]
  BY <1>2
<1>6. /\ UNCHANGED <<posted, readModel, snapshot, job>> /\ pc[w] = "claim"
      /\ pc'[w] = (IF S = {} THEN "idle" ELSE "next") /\ batch'[w] = B
  BY <1>1, <1>2 DEF ClaimBatch, derived, Goto, TypeOK
<1>7. \A r \in Requests : RowOK(r)'
  <2>. TAKE r \in Requests
  <2>1. CASE r \in S
    BY <2>1, <1>3, <1>4, <1>6, RowFields, RowsKept DEF RowOK
  <2>2. CASE r \notin S
    BY <2>2, <1>3, <1>5, <1>6 DEF RowOK
  <2>. QED BY <2>1, <2>2
<1>8. \A p \in Portfolios : LatestOK(p)' /\ DerivedOK(p)'
  BY <1>3, <1>4, <1>5, <1>6, RowFields, RowsKept, TriggersKept
<1>9. job[w] = NoClaim
  BY <1>6 DEF PromiseInv, HandsOK, Working, Refreshing
<1>10. \A c \in B : /\ c.id \in Requests /\ c.id # NoClaim.id
                    /\ request'[c.id].status = "processing"
                    /\ request'[c.id].attempts = c.attempts
  BY <1>3, <1>4, RowFields, RefreshQueueAssumptions DEF NoClaim
<1>11. S = {} => B = {}
  OBVIOUS
<1>. HIDE DEF B
<1>12. HandsOK(w)' /\ ViewOK(w)'
  <2>1. \A c \in ClaimsOf(w)' : c \in B
    BY <1>6, <1>9 DEF ClaimsOf
  <2>. QED BY <2>1, <1>6, <1>9, <1>10, <1>11 DEF HandsOK, ViewOK, Working, Refreshing
<1>. QED BY <1>1, <1>7, <1>8, <1>12 DEF PromiseInv, PromiseFor

LEMMA StartPromise ==
    ASSUME PromiseInv, NEW w \in Workers, StartRequest(w)
    PROVE  PromiseFor(w)'
<1>1. TypeOK' /\ TypeOK
  BY AdvanceType DEF PromiseInv, Advance
<1>2. PICK c \in batch[w] :
        job' = [job EXCEPT ![w] = c] /\ batch' = [batch EXCEPT ![w] = @ \ {c}]
  BY DEF StartRequest
<1>3. /\ UNCHANGED <<posted, request, readModel, snapshot>>
      /\ pc'[w] = "read" /\ job'[w] = c /\ batch'[w] = batch[w] \ {c}
  BY <1>1, <1>2 DEF StartRequest, queueVars, derived, Goto, TypeOK
<1>4. \A d \in batch[w] : /\ d \in Claim /\ request[d.id].status = "processing"
                          /\ request[d.id].attempts = d.attempts
  BY <1>1 DEF PromiseInv, HandsOK, ClaimsOf, TypeOK
<1>5. \A d \in batch'[w] : d.id # c.id
  BY <1>3, <1>4 DEF Claim
<1>6. HandsOK(w)' /\ ViewOK(w)'
  BY <1>3, <1>4, <1>5 DEF HandsOK, ViewOK, ClaimsOf, Working, Refreshing
<1>. QED BY <1>1, <1>3, <1>6, TablesKept DEF PromiseInv, PromiseFor

LEMMA EndPromise ==
    ASSUME PromiseInv, NEW w \in Workers, EndPass(w)
    PROVE  PromiseFor(w)'
<1>1. TypeOK' /\ TypeOK
  BY AdvanceType DEF PromiseInv, Advance
<1>2. /\ UNCHANGED <<posted, request, readModel, snapshot, batch, job>>
      /\ pc[w] = "next" /\ batch[w] = {} /\ pc'[w] = "idle"
  BY <1>1 DEF EndPass, queueVars, derived, Goto, TypeOK
<1>3. HandsOK(w)' /\ ViewOK(w)'
  BY <1>2 DEF PromiseInv, HandsOK, ViewOK, ClaimsOf, Working, Refreshing
<1>. QED BY <1>1, <1>2, <1>3, TablesKept DEF PromiseInv, PromiseFor

(* The worker stops: what it held is in nobody's hands. *)
LEMMA StopPromise ==
    ASSUME PromiseInv, NEW w \in Workers, NEW l \in {"down", "exited"}, Stop(w, l), TypeOK'
    PROVE  PromiseFor(w)'
<1>1. /\ UNCHANGED <<posted, request, readModel, snapshot>>
      /\ pc'[w] = l /\ batch'[w] = {} /\ job'[w] = NoClaim
  BY DEF PromiseInv, Stop, Release, queueVars, derived, Goto, TypeOK
<1>2. HandsOK(w)' /\ ViewOK(w)'
  BY <1>1 DEF HandsOK, ViewOK, ClaimsOf, Working, Refreshing
<1>. QED BY <1>1, <1>2, TablesKept DEF PromiseInv, PromiseFor

LEMMA RestartPromise ==
    ASSUME PromiseInv, NEW w \in Workers, Start(w), TypeOK'
    PROVE  PromiseFor(w)'
<1>1. /\ UNCHANGED <<posted, request, readModel, snapshot, batch, job>>
      /\ pc[w] \in {"down", "exited"} /\ pc'[w] = "idle"
  BY DEF PromiseInv, Start, queueVars, derived, Goto, TypeOK
<1>2. HandsOK(w)' /\ ViewOK(w)'
  BY <1>1 DEF PromiseInv, HandsOK, ViewOK, ClaimsOf, Working, Refreshing
<1>. QED BY <1>1, <1>2, TablesKept DEF PromiseInv, PromiseFor

(* The row of the job is closed, or put back. *)
LEMMA CloseJob ==
    ASSUME PromiseInv, NEW w \in Workers, pc[w] \in Working,
           NEW row, request' = [request EXCEPT ![job[w].id] = row],
           row.status \in {"pending", "completed", "failed"},
           row.trigger = request[job[w].id].trigger,
           row.attempts = request[job[w].id].attempts,
           row.tried = request[job[w].id].tried,
           row.status = "pending" => job[w].attempts < MaxAttempts,
           row.status = "completed" => pc[w] = "complete",
           Release(w), Goto(w, "next"), UNCHANGED <<posted, readModel, snapshot, batch>>, TypeOK'
    PROVE  PromiseFor(w)'
<1>1. TypeOK /\ ViewOK(w) /\ HandsOK(w)
  BY DEF PromiseInv
<1>. PICK k : k = job[w].id
  OBVIOUS
<1>2. /\ job[w] \in Claim /\ k \in Requests /\ job[w] \in ClaimsOf(w) /\ Target(w) = PortfolioOf[k]
      /\ request[k].status = "processing" /\ request[k].attempts = job[w].attempts
  BY JobFacts
<1>3. request'[k] = row /\ \A r \in Requests \ {k} : request'[r] = request[r]
  BY <1>1, <1>2 DEF TypeOK
<1>4. pc'[w] = "next" /\ job'[w] = NoClaim /\ batch'[w] = batch[w]
  BY <1>1 DEF Goto, Release, TypeOK
<1>5. RowOK(k)'
  <2>1. RowOK(k)
    BY <1>2 DEF PromiseInv
  <2>2. row.status = "completed" =>
            row.trigger <= readModel[PortfolioOf[k]] /\ row.trigger <= snapshot[PortfolioOf[k]].summary
    BY <1>1, <1>2 DEF ViewOK
  <2>. QED BY <1>2, <1>3, <2>1, <2>2 DEF RowOK
<1>6. \A r \in Requests : RowOK(r)'
  <2>. TAKE r \in Requests
  <2>1. CASE r # k
    BY <1>3, <2>1 DEF PromiseInv, RowOK
  <2>. QED BY <1>5, <2>1
<1>7. \A p \in Portfolios : LatestOK(p)' /\ DerivedOK(p)'
  <2>1. \A r \in Requests : /\ request'[r].trigger = request[r].trigger
                            /\ request[r].status # "absent" => request'[r].status # "absent"
    BY <1>3
  <2>. QED BY <2>1, TriggersKept
<1>8. \A c \in batch[w] : /\ c.id \in Requests /\ c.id # k
                          /\ request'[c.id].status = "processing"
                          /\ request'[c.id].attempts = c.attempts
  BY <1>1, <1>3 DEF HandsOK, ClaimsOf, TypeOK, Claim
<1>9. HandsOK(w)' /\ ViewOK(w)'
  BY <1>4, <1>8, RefreshQueueAssumptions DEF HandsOK, ViewOK, ClaimsOf, NoClaim, Working, Refreshing
<1>. QED BY <1>6, <1>7, <1>9 DEF PromiseInv, PromiseFor

(* The clock changes no row but in being due or stale. *)
LEMMA ClockPromise ==
    ASSUME PromiseInv, NEW r \in Requests, RetryDelayElapses(r) \/ LockTimeoutElapses(r), TypeOK'
    PROVE  PromiseInv'
<1>1. \A s \in Requests :
          /\ request'[s].status = request[s].status /\ request'[s].trigger = request[s].trigger
          /\ request'[s].attempts = request[s].attempts /\ request'[s].tried = request[s].tried
  <2>1. request \in [Requests -> Row]
    BY DEF PromiseInv, TypeOK
  <2>2. CASE RetryDelayElapses(r)
    BY <2>1, <2>2, RowFields, RowsKept DEF RetryDelayElapses
  <2>3. CASE LockTimeoutElapses(r)
    BY <2>1, <2>3, RowFields, RowsKept DEF LockTimeoutElapses
  <2>. QED BY <2>2, <2>3
<1>2. UNCHANGED <<posted, readModel, snapshot, pc, batch, job, view>>
  BY DEF RetryDelayElapses, LockTimeoutElapses, derived, workerVars
<1>3. \A s \in Requests : RowOK(s)'
  BY <1>1, <1>2 DEF PromiseInv, RowOK
<1>4. ASSUME NEW w \in Workers PROVE HandsOK(w)' /\ ViewOK(w)'
  <2>1. HandsOK(w) /\ ViewOK(w) /\ \A c \in ClaimsOf(w) : c.id \in Requests
    BY HeldIsClaimed DEF PromiseInv, Claim
  <2>2. HandsOK(w)'
    BY <1>1, <1>2, <2>1 DEF HandsOK, ClaimsOf
  <2>3. pc[w] \in Working => job[w].id \in Requests
    BY JobFacts
  <2>4. ViewOK(w)'
    BY <1>1, <1>2, <2>1, <2>3 DEF ViewOK, Target, Working, Refreshing
  <2>. QED BY <2>2, <2>4
<1>. QED BY <1>1, <1>2, <1>3, <1>4, TriggersKept DEF PromiseInv

-----------------------------------------------------------------------------
(* The steps of a refresh. *)

LEMMA RefreshPromise ==
    ASSUME PromiseInv, NEW w \in Workers,
           \/ ReadLedger(w) \/ ReplaceReadModels(w) \/ ReadSummary(w) \/ ReadHoldings(w)
           \/ WriteSnapshot(w) \/ RefreshFails(w)
    PROVE  PromiseFor(w)'
<1>1. TypeOK' /\ TypeOK /\ ViewOK(w)
  BY AdvanceType DEF PromiseInv, Advance
<1>2. pc[w] \in Working
  BY DEF ReadLedger, ReplaceReadModels, ReadSummary, ReadHoldings, WriteSnapshot, RefreshFails,
         Working, Refreshing
<1>. PICK k, p : k = job[w].id /\ p = Target(w)
  OBVIOUS
<1>3. k \in Requests /\ p = PortfolioOf[k] /\ p \in Portfolios /\ RowOK(k) /\ DerivedOK(p)
  BY <1>2, JobFacts DEF PromiseInv
<1>4. /\ posted[p] \in Nat /\ readModel[p] \in Nat /\ request[k].trigger \in Nat
      /\ snapshot[p].summary \in Nat /\ view[w].ledger \in Nat
  BY <1>1, <1>3, Counts
<1>5. UNCHANGED <<posted, request, batch, job>>
  BY DEF ReadLedger, ReplaceReadModels, ReadSummary, ReadHoldings, WriteSnapshot, RefreshFails,
         queueVars
<1>6. Target(w)' = p /\ job'[w].id = k
  BY <1>5 DEF Target
<1>7. CASE ReadLedger(w)
  <2>1. view'[w].ledger = posted[p] /\ pc'[w] = "replace" /\ UNCHANGED <<readModel, snapshot>>
    BY <1>1, <1>7 DEF ReadLedger, Goto, TypeOK, View, derived
  <2>2. ViewOK(w)'
    BY <2>1, <1>3, <1>4, <1>5, <1>6 DEF ViewOK, RowOK, DerivedOK
  <2>3. HandsOK(w)'
    BY <1>2, <1>5, <1>7, <2>1 DEF PromiseInv, HandsOK, ClaimsOf, Working, Refreshing
  <2>. QED BY <1>1, <1>5, <2>1, <2>2, <2>3, TablesKept DEF PromiseInv, PromiseFor
<1>8. CASE ReplaceReadModels(w)
  <2>1. /\ pc[w] = "replace" /\ pc'[w] = "summary" /\ UNCHANGED snapshot
        /\ readModel' = [readModel EXCEPT ![p] = view[w].ledger]
    BY <1>1, <1>8 DEF ReplaceReadModels, Goto, TypeOK
  <2>2. readModel'[p] = view[w].ledger /\ \A q \in Portfolios \ {p} : readModel'[q] = readModel[q]
    BY <1>1, <1>3, <2>1 DEF TypeOK
  <2>3. /\ request[k].trigger <= view[w].ledger /\ readModel[p] <= view[w].ledger
        /\ view[w].ledger <= posted[p]
    BY <1>1, <2>1 DEF ViewOK
  <2>4. \A q \in Portfolios : readModel[q] \in Nat /\ readModel'[q] \in Nat /\ readModel[q] <= readModel'[q]
    BY <1>1, <1>4, <2>2, <2>3, Counts
  <2>5. \A r \in Requests : RowOK(r)'
    <3>. TAKE r \in Requests
    <3>1. RowOK(r) /\ request[r].trigger \in Nat /\ PortfolioOf[r] \in Portfolios
      BY <1>1, Counts DEF PromiseInv
    <3>. QED BY <1>5, <2>1, <2>4, <3>1 DEF RowOK
  <2>6. \A q \in Portfolios : LatestOK(q)' /\ DerivedOK(q)'
    <3>. TAKE q \in Portfolios
    <3>1. LatestOK(q) /\ DerivedOK(q)
      BY DEF PromiseInv
    <3>2. LatestOK(q)'
      BY <1>5, <3>1 DEF LatestOK
    <3>3. snapshot[q].summary \in Nat /\ posted[q] \in Nat
      BY <1>1, Counts
    <3>4. DerivedOK(q)'
      <4>1. CASE q = p
        BY <4>1, <1>5, <2>1, <2>2, <2>3, <2>4, <3>1, <3>3 DEF DerivedOK
      <4>2. CASE q # p
        BY <4>2, <1>5, <2>1, <2>2, <3>1 DEF DerivedOK
      <4>. QED BY <4>1, <4>2
    <3>. QED BY <3>2, <3>4
  <2>7. ViewOK(w)'
    BY <1>5, <1>6, <2>1, <2>2, <2>3 DEF ViewOK
  <2>8. HandsOK(w)'
    BY <1>2, <1>5, <2>1 DEF PromiseInv, HandsOK, ClaimsOf, Working, Refreshing
  <2>. QED BY <1>1, <2>5, <2>6, <2>7, <2>8 DEF PromiseInv, PromiseFor
<1>9. CASE ReadSummary(w)
  <2>1. /\ view'[w].summary = readModel[p] /\ pc[w] = "summary" /\ pc'[w] = "holdings"
        /\ UNCHANGED <<readModel, snapshot>>
    BY <1>1, <1>9 DEF ReadSummary, Goto, TypeOK, View, derived
  <2>2. ViewOK(w)'
    BY <2>1, <1>1, <1>5, <1>6 DEF ViewOK
  <2>3. HandsOK(w)'
    BY <1>2, <1>5, <2>1 DEF PromiseInv, HandsOK, ClaimsOf, Working, Refreshing
  <2>. QED BY <1>1, <1>5, <2>1, <2>2, <2>3, TablesKept DEF PromiseInv, PromiseFor
<1>10. CASE ReadHoldings(w)
  <2>1. /\ view'[w].holdings = readModel[p] /\ view'[w].summary = view[w].summary
        /\ pc[w] = "holdings" /\ pc'[w] = "snapshot" /\ UNCHANGED <<readModel, snapshot>>
    BY <1>1, <1>10 DEF ReadHoldings, Goto, TypeOK, View, derived
  <2>2. ViewOK(w)'
    BY <2>1, <1>1, <1>5, <1>6 DEF ViewOK
  <2>3. HandsOK(w)'
    BY <1>2, <1>5, <2>1 DEF PromiseInv, HandsOK, ClaimsOf, Working, Refreshing
  <2>. QED BY <1>1, <1>5, <2>1, <2>2, <2>3, TablesKept DEF PromiseInv, PromiseFor
<1>11. CASE WriteSnapshot(w)
  <2>1. /\ pc[w] = "snapshot" /\ pc'[w] = "complete" /\ UNCHANGED readModel
        /\ snapshot' = [snapshot EXCEPT ![p] =
              [summary |-> view[w].summary, holdings |-> view[w].holdings]]
    BY <1>1, <1>11 DEF WriteSnapshot, Goto, TypeOK
  <2>2. /\ snapshot'[p] = [summary |-> view[w].summary, holdings |-> view[w].holdings]
        /\ \A q \in Portfolios \ {p} : snapshot'[q] = snapshot[q]
    BY <1>1, <1>3, <2>1 DEF TypeOK
  <2>3. /\ request[k].trigger <= readModel[p]
        /\ snapshot'[p].summary = readModel[p] /\ snapshot'[p].holdings = readModel[p]
    BY <1>1, <2>1, <2>2 DEF ViewOK
  <2>4. \A q \in Portfolios : /\ snapshot[q].summary \in Nat /\ snapshot'[q].summary \in Nat
                              /\ snapshot[q].summary <= snapshot'[q].summary
    BY <1>1, <1>3, <1>4, <2>2, <2>3, Counts DEF DerivedOK
  <2>5. \A r \in Requests : RowOK(r)'
    <3>. TAKE r \in Requests
    <3>1. RowOK(r) /\ request[r].trigger \in Nat /\ PortfolioOf[r] \in Portfolios
      BY <1>1, Counts DEF PromiseInv
    <3>. QED BY <1>5, <2>1, <2>4, <3>1 DEF RowOK
  <2>6. \A q \in Portfolios : LatestOK(q)' /\ DerivedOK(q)'
    <3>. TAKE q \in Portfolios
    <3>1. LatestOK(q) /\ DerivedOK(q)
      BY DEF PromiseInv
    <3>2. LatestOK(q)'
      BY <1>5, <3>1 DEF LatestOK
    <3>3. DerivedOK(q)'
      <4>1. CASE q = p
        BY <4>1, <1>4, <1>5, <2>1, <2>3, <3>1 DEF DerivedOK
      <4>2. CASE q # p
        BY <4>2, <1>5, <2>1, <2>2, <3>1 DEF DerivedOK
      <4>. QED BY <4>1, <4>2
    <3>. QED BY <3>2, <3>3
  <2>7. ViewOK(w)'
    BY <1>5, <1>6, <2>1, <2>3 DEF ViewOK
  <2>8. HandsOK(w)'
    BY <1>2, <1>5, <2>1 DEF PromiseInv, HandsOK, ClaimsOf, Working, Refreshing
  <2>. QED BY <1>1, <2>5, <2>6, <2>7, <2>8 DEF PromiseInv, PromiseFor
<1>12. CASE RefreshFails(w)
  <2>1. pc'[w] = "record" /\ UNCHANGED <<readModel, snapshot>>
    BY <1>1, <1>12 DEF RefreshFails, Goto, TypeOK, derived
  <2>2. ViewOK(w)'
    BY <2>1 DEF ViewOK
  <2>3. HandsOK(w)'
    BY <1>2, <1>5, <2>1 DEF PromiseInv, HandsOK, ClaimsOf, Working, Refreshing
  <2>. QED BY <1>1, <1>5, <2>1, <2>2, <2>3, TablesKept DEF PromiseInv, PromiseFor
<1>. QED BY <1>7, <1>8, <1>9, <1>10, <1>11, <1>12

LEMMA ClosePromise ==
    ASSUME PromiseInv, NEW w \in Workers,
           MarkCompleted(w) \/ MarkFailed(w) \/ ScheduleRetry(w)
    PROVE  PromiseFor(w)'
<1>1. TypeOK' /\ TypeOK
  BY AdvanceType DEF PromiseInv, Advance
<1>2. pc[w] \in Working /\ Release(w) /\ Goto(w, "next") /\ UNCHANGED <<posted, readModel, snapshot, batch>>
  BY DEF MarkCompleted, MarkFailed, ScheduleRetry, Working, Refreshing, derived
<1>. DEFINE old == request[job[w].id]
<1>3. old \in Row
  BY <1>1, <1>2, JobFacts DEF TypeOK
<1>4. CASE MarkCompleted(w)
  <2>. DEFINE row == Completed(old)
  <2>1. /\ row.status = "completed" /\ row.trigger = old.trigger /\ row.attempts = old.attempts
        /\ row.tried = old.tried
    BY <1>3, RowFields, RowsKept
  <2>2. request' = [request EXCEPT ![job[w].id] = row] /\ pc[w] = "complete"
    BY <1>4 DEF MarkCompleted
  <2>. HIDE DEF row
  <2>. QED BY <1>1, <1>2, <2>1, <2>2, CloseJob
<1>5. CASE MarkFailed(w)
  <2>. DEFINE row == Failed(old)
  <2>1. /\ row.status = "failed" /\ row.trigger = old.trigger /\ row.attempts = old.attempts
        /\ row.tried = old.tried
    BY <1>3, RowFields, RowsKept
  <2>2. request' = [request EXCEPT ![job[w].id] = row]
    BY <1>5 DEF MarkFailed
  <2>. HIDE DEF row
  <2>. QED BY <1>1, <1>2, <2>1, <2>2, CloseJob
<1>6. CASE ScheduleRetry(w)
  <2>. DEFINE row == Retried(old)
  <2>1. /\ row.status = "pending" /\ row.trigger = old.trigger /\ row.attempts = old.attempts
        /\ row.tried = old.tried
    BY <1>3, RowFields, RowsKept
  <2>2. request' = [request EXCEPT ![job[w].id] = row] /\ job[w].attempts < MaxAttempts
    BY <1>6 DEF ScheduleRetry
  <2>. HIDE DEF row
  <2>. QED BY <1>1, <1>2, <2>1, <2>2, CloseJob
<1>. QED BY <1>4, <1>5, <1>6

-----------------------------------------------------------------------------
(* The other workers. *)

(* A worker's step posts nothing, keeps what triggered each row, and leaves *)
(* alone what the other workers hold and have read.                         *)
LEMMA OwnStep ==
    ASSUME TypeOK, NEW w \in Workers, Advance(w) \/ Crash(w) \/ Start(w)
    PROVE  /\ UNCHANGED posted
           /\ \A r \in Requests : /\ request'[r].trigger = request[r].trigger
                                  /\ request[r].status # "absent" => request'[r].status # "absent"
           /\ \A v \in Workers \ {w} : /\ pc'[v] = pc[v] /\ batch'[v] = batch[v]
                                       /\ job'[v] = job[v] /\ view'[v] = view[v]
<1>1. request \in [Requests -> Row]
  BY DEF TypeOK
<1>2. CASE MarkExhaustedFailed(w)
  BY <1>1, <1>2, RowFields, RowsKept DEF MarkExhaustedFailed, Goto, TypeOK
<1>3. CASE ClaimBatch(w)
  BY <1>1, <1>3, RowFields, RowsKept DEF ClaimBatch, Goto, TypeOK
<1>4. CASE \/ StartRequest(w) \/ EndPass(w) \/ ReadLedger(w) \/ ReplaceReadModels(w) \/ ReadSummary(w)
           \/ ReadHoldings(w) \/ WriteSnapshot(w) \/ RefreshFails(w) \/ Start(w)
  BY <1>4 DEF StartRequest, EndPass, ReadLedger, ReplaceReadModels, ReadSummary, ReadHoldings,
              WriteSnapshot, RefreshFails, Start, Goto, queueVars, TypeOK
<1>5. CASE MarkCompleted(w) \/ MarkFailed(w) \/ ScheduleRetry(w)
  <2>1. UNCHANGED <<posted, batch>> /\ Release(w) /\ Goto(w, "next")
    BY <1>5 DEF MarkCompleted, MarkFailed, ScheduleRetry
  <2>2. /\ job[w].id \in Requests
        /\ \E row \in {Completed(request[job[w].id]), Failed(request[job[w].id]), Retried(request[job[w].id])} :
              request' = [request EXCEPT ![job[w].id] = row]
    <3>1. job[w].id \in Requests
      BY <1>5 DEF TypeOK, MarkCompleted, MarkFailed, ScheduleRetry, Working, Refreshing, Claim
    <3>. QED BY <1>5, <3>1 DEF MarkCompleted, MarkFailed, ScheduleRetry
  <2>3. \A r \in Requests : /\ request'[r].trigger = request[r].trigger
                            /\ request[r].status # "absent" => request'[r].status # "absent"
    BY <1>1, <2>2, RowFields, RowsKept
  <2>. QED BY <2>1, <2>3 DEF Release, Goto, TypeOK
<1>6. CASE ExitOnRetryConflict(w) \/ Crash(w)
  BY <1>6 DEF ExitOnRetryConflict, Crash, Stop, Release, Goto, queueVars, TypeOK
<1>. QED BY <1>2, <1>3, <1>4, <1>5, <1>6 DEF Advance

(* A worker's step keeps the invariant if it keeps its own part of it:      *)
(* there is no other worker.                                                *)
LEMMA Together ==
    ASSUME OneWorker, PromiseInv, NEW w \in Workers,
           Advance(w) \/ Crash(w) \/ Start(w), PromiseFor(w)'
    PROVE  PromiseInv'
  BY DEF OneWorker, PromiseInv, PromiseFor

LEMMA NextPromise ==
    ASSUME OneWorker, PromiseInv, [Next]_vars PROVE PromiseInv'
<1>1. TypeOK'
  BY NextType DEF PromiseInv
<1>2. ASSUME NEW p \in Portfolios, PostOperation(p) PROVE PromiseInv'
  BY <1>2, PostPromise
<1>3. ASSUME NEW w \in Workers, Advance(w) PROVE PromiseInv'
  <2>. SUFFICES PromiseFor(w)'
    BY <1>3, Together
  <2>1. CASE ExitOnRetryConflict(w)
    BY <1>1, <2>1, StopPromise DEF ExitOnRetryConflict
  <2>2. CASE \/ ReadLedger(w) \/ ReplaceReadModels(w) \/ ReadSummary(w) \/ ReadHoldings(w)
             \/ WriteSnapshot(w) \/ RefreshFails(w)
    BY <2>2, RefreshPromise
  <2>3. CASE MarkCompleted(w) \/ MarkFailed(w) \/ ScheduleRetry(w)
    BY <2>3, ClosePromise
  <2>. QED BY <1>3, <2>1, <2>2, <2>3, ExhaustedPromise, BatchPromise, StartPromise, EndPromise
       DEF Advance
<1>4. ASSUME NEW w \in Workers, Crash(w) PROVE PromiseInv'
  BY <1>1, <1>4, StopPromise, Together DEF Crash
<1>5. ASSUME NEW w \in Workers, Start(w) PROVE PromiseInv'
  BY <1>1, <1>5, RestartPromise, Together
<1>6. ASSUME NEW r \in Requests, RetryDelayElapses(r) \/ LockTimeoutElapses(r) PROVE PromiseInv'
  BY <1>1, <1>6, ClockPromise
<1>7. CASE UNCHANGED vars
  <2>1. UNCHANGED <<posted, request, readModel, snapshot, pc, batch, job, view>>
    BY <1>7 DEF vars, queueVars, derived, workerVars
  <2>2. \A w \in Workers : HandsOK(w)' /\ ViewOK(w)'
    BY <2>1 DEF PromiseInv, HandsOK, ViewOK, ClaimsOf, Target
  <2>. QED BY <1>1, <2>1, <2>2, TablesKept DEF PromiseInv
<1>. QED BY <1>2, <1>3, <1>4, <1>5, <1>6, <1>7 DEF Next

-----------------------------------------------------------------------------
(* What every portfolio is promised. *)

(* The promise of a portfolio none of whose requests is open is kept or     *)
(* openly broken.                                                           *)
LEMMA NothingLost ==
    ASSUME PromiseInv, NEW p \in Portfolios, readModel[p] < posted[p],
           \A r \in Requests : PortfolioOf[r] = p => ~Open(r)
    PROVE  \E r \in Requests : /\ PortfolioOf[r] = p /\ request[r].status = "failed"
                               /\ request[r].trigger = posted[p]
<1>1. posted[p] \in Nat /\ readModel[p] \in Nat
  BY Counts DEF PromiseInv
<1>2. PICK r \in Requests : /\ PortfolioOf[r] = p /\ request[r].status # "absent"
                            /\ request[r].trigger = posted[p]
  BY <1>1 DEF PromiseInv, LatestOK
<1>3. request[r].status # "completed"
  BY <1>1, <1>2 DEF PromiseInv, RowOK
<1>4. request[r].status \in {"absent", "pending", "processing", "completed", "failed"}
  BY DEF PromiseInv, TypeOK, Row
<1>. QED BY <1>2, <1>3, <1>4 DEF Open

LEMMA PromiseKept ==
    PromiseInv => NoLostPosting /\ CompletedCoversTrigger /\ SnapshotCoherent /\ NotFailedUntried
<1>. SUFFICES ASSUME PromiseInv
              PROVE  NoLostPosting /\ CompletedCoversTrigger /\ SnapshotCoherent /\ NotFailedUntried
  OBVIOUS
<1>1. NoLostPosting
  BY NothingLost DEF NoLostPosting
<1>2. CompletedCoversTrigger
  <2>. SUFFICES ASSUME NEW r \in Requests, request[r].status = "completed"
                PROVE  /\ readModel[PortfolioOf[r]] >= request[r].trigger
                       /\ snapshot[PortfolioOf[r]].summary >= request[r].trigger
    BY DEF CompletedCoversTrigger
  <2>1. RowOK(r) /\ PortfolioOf[r] \in Portfolios
    BY RefreshQueueAssumptions DEF PromiseInv
  <2>2. /\ readModel[PortfolioOf[r]] \in Nat /\ snapshot[PortfolioOf[r]].summary \in Nat
        /\ request[r].trigger \in Nat
    BY <2>1, Counts DEF PromiseInv
  <2>. QED BY <2>1, <2>2 DEF RowOK
<1>3. SnapshotCoherent
  BY DEF PromiseInv, DerivedOK, SnapshotCoherent
<1>4. NotFailedUntried
  BY DEF PromiseInv, RowOK, NotFailedUntried
<1>. QED BY <1>1, <1>2, <1>3, <1>4

(* The read models of a portfolio are replaced from no fewer operations.    *)
LEMMA OnlyForward ==
    ASSUME PromiseInv, [Next]_vars
    PROVE  \A p \in Portfolios : readModel'[p] >= readModel[p]
<1>. TAKE p \in Portfolios
<1>1. readModel[p] \in Nat
  BY Counts DEF PromiseInv
<1>2. ASSUME NEW w \in Workers, ReplaceReadModels(w) PROVE readModel'[p] >= readModel[p]
  <2>1. /\ pc[w] = "replace" /\ readModel' = [readModel EXCEPT ![Target(w)] = view[w].ledger]
        /\ view[w].ledger \in Nat /\ ViewOK(w)
    BY <1>2, Counts DEF ReplaceReadModels, PromiseInv
  <2>2. Target(w) \in Portfolios /\ readModel[Target(w)] <= view[w].ledger
    BY <2>1, JobFacts DEF ViewOK, Working, Refreshing
  <2>. QED BY <1>1, <2>1, <2>2 DEF PromiseInv, TypeOK
<1>3. (\A w \in Workers : ~ReplaceReadModels(w)) => readModel' = readModel
  BY DEF Next, Advance, PostOperation, MarkExhaustedFailed, ClaimBatch, StartRequest, EndPass,
         ReadLedger, ReadSummary, ReadHoldings, WriteSnapshot, RefreshFails, MarkCompleted,
         MarkFailed, ScheduleRetry, ExitOnRetryConflict, Stop, Crash, Start, RetryDelayElapses,
         LockTimeoutElapses, vars, queueVars, derived, workerVars
<1>. QED BY <1>1, <1>2, <1>3

-----------------------------------------------------------------------------
(* The refinement. *)

(* A step that posts nothing, publishes nothing and changes no settled row  *)
(* settles the promises of the portfolios whose last open request it ends.  *)
LEMMA Settles ==
    ASSUME PromiseInv, PromiseInv', UNCHANGED <<posted, readModel>>,
           \A r \in Requests : ~Open(r) => /\ request'[r].status = request[r].status
                                           /\ request'[r].trigger = request[r].trigger
    PROVE  \E S \in SUBSET Portfolios : Contract!Settle(S)
<1>. DEFINE Owed(p) == \E r \in Requests : PortfolioOf[r] = p /\ Open(r)
            Missing(p) == \E r \in Requests : /\ PortfolioOf[r] = p /\ request[r].status = "failed"
                                              /\ request[r].trigger = posted[p]
            S == {p \in Portfolios : Owed(p) /\ ~Owed(p)'}
<1>1. \A p \in Portfolios : Promise[p] = IF Owed(p) THEN "owed"
                                         ELSE IF readModel[p] = posted[p] THEN "kept"
                                         ELSE IF Missing(p) THEN "broken" ELSE "lost"
  BY DEF Promise
<1>2. \A p \in Portfolios : Promise'[p] = IF Owed(p)' THEN "owed"
                                          ELSE IF readModel[p] = posted[p] THEN "kept"
                                          ELSE IF Missing(p)' THEN "broken" ELSE "lost"
  BY DEF Promise
<1>3. ASSUME NEW p \in Portfolios, ~Owed(p) PROVE ~Owed(p)' /\ (Missing(p)' <=> Missing(p))
  BY <1>3 DEF Open
<1>4. ASSUME NEW p \in Portfolios, ~Owed(p)', readModel[p] # posted[p] PROVE Missing(p)'
  <2>1. readModel[p] < posted[p] /\ readModel[p] \in Nat /\ posted[p] \in Nat
    BY <1>4, Counts DEF PromiseInv, DerivedOK
  <2>2. PICK r \in Requests : /\ PortfolioOf[r] = p /\ request'[r].status # "absent"
                              /\ request'[r].trigger = posted[p]
    BY <2>1 DEF PromiseInv, LatestOK
  <2>3. request'[r].status # "completed"
    BY <2>1, <2>2 DEF PromiseInv, RowOK
  <2>4. request'[r].status \in {"absent", "pending", "processing", "completed", "failed"}
    BY DEF PromiseInv, TypeOK, Row
  <2>5. request'[r].status \notin {"pending", "processing"}
    BY <1>4, <2>2 DEF Open
  <2>. QED BY <2>2, <2>3, <2>4, <2>5
<1>. HIDE DEF Owed, Missing
<1>5. \A p \in S : Promise[p] = "owed"
  BY <1>1
<1>6. Promise' = [p \in Portfolios |->
          IF p \notin S THEN Promise[p]
          ELSE IF readModel[p] = posted[p] THEN "kept" ELSE "broken"]
  <2>1. \A p \in Portfolios :
            Promise'[p] = IF p \notin S THEN Promise[p]
                          ELSE IF readModel[p] = posted[p] THEN "kept" ELSE "broken"
    BY <1>1, <1>2, <1>3, <1>4
  <2>2. Promise' = [p \in Portfolios |-> Promise'[p]]
    BY DEF Promise
  <2>. QED BY <2>1, <2>2
<1>7. S \in SUBSET Portfolios
  OBVIOUS
<1>. HIDE DEF S
<1>. QED BY <1>5, <1>6, <1>7 DEF Contract!Settle

(* A posting makes a refresh owed. *)
LEMMA PostRefines ==
    ASSUME PromiseInv, NEW p \in Portfolios, PostOperation(p)
    PROVE  Contract!Post(p)
<1>1. posted[p] + 1 \in Versions
  BY RefreshQueueAssumptions DEF PromiseInv, TypeOK, PostOperation, Versions
<1>2. PICK r \in Requests, row \in Row :
          /\ request[r].status \in {"pending", "absent"} /\ PortfolioOf[r] = p
          /\ \/ row = NewRow(posted[p] + 1)
             \/ row = Reused(request[r], posted[p] + 1) /\ request[r].status = "pending"
          /\ request' = [request EXCEPT ![r] = row]
  BY <1>1, NewRowType, RowTypes DEF PostOperation, EnqueueRefreshRequest, PendingOf, PromiseInv, TypeOK
<1>3. row.status = "pending"
  BY <1>1, <1>2, NewRowType, RowFields DEF PromiseInv, TypeOK
<1>4. request'[r] = row /\ \A s \in Requests \ {r} : request'[s] = request[s]
  BY <1>2 DEF PromiseInv, TypeOK
<1>5. /\ posted[p] < MaxPosted /\ posted' = [posted EXCEPT ![p] = @ + 1] /\ UNCHANGED readModel
      /\ \A q \in Portfolios \ {p} : posted'[q] = posted[q]
  BY DEF PostOperation, PromiseInv, TypeOK, derived
<1>6. Promise'[p] = "owed"
  <2>1. Open(r)' /\ PortfolioOf[r] = p
    BY <1>2, <1>3, <1>4 DEF Open
  <2>. QED BY <2>1 DEF Promise
<1>7. ASSUME NEW q \in Portfolios, q # p PROVE Promise'[q] = Promise[q]
  <2>1. \A s \in Requests : PortfolioOf[s] = q => request'[s] = request[s]
    BY <1>2, <1>4, <1>7
  <2>. DEFINE rows == {s \in Requests : PortfolioOf[s] = q}
  <2>2. (\E s \in rows : Open(s))' <=> \E s \in rows : Open(s)
    BY <2>1 DEF Open
  <2>3. (\E s \in rows : request[s].status = "failed" /\ request[s].trigger = posted[q])'
        <=> \E s \in rows : request[s].status = "failed" /\ request[s].trigger = posted[q]
    BY <1>5, <1>7, <2>1
  <2>4. posted'[q] = posted[q] /\ readModel'[q] = readModel[q]
    BY <1>5, <1>7
  <2>5. Promise[q] = IF \E s \in rows : Open(s) THEN "owed"
                     ELSE IF readModel[q] = posted[q] THEN "kept"
                     ELSE IF \E s \in rows : request[s].status = "failed" /\ request[s].trigger = posted[q]
                     THEN "broken" ELSE "lost"
    BY DEF Promise
  <2>6. Promise'[q] = IF (\E s \in rows : Open(s))' THEN "owed"
                      ELSE IF readModel'[q] = posted'[q] THEN "kept"
                      ELSE IF (\E s \in rows : request[s].status = "failed" /\ request[s].trigger = posted[q])'
                      THEN "broken" ELSE "lost"
    BY DEF Promise
  <2>. QED BY <2>2, <2>3, <2>4, <2>5, <2>6
<1>8. Promise' = [Promise EXCEPT ![p] = "owed"]
  <2>1. Promise' = [q \in Portfolios |-> Promise'[q]] /\ Promise = [q \in Portfolios |-> Promise[q]]
    BY DEF Promise
  <2>. QED BY <1>6, <1>7, <2>1
<1>. QED BY <1>5, <1>8 DEF Contract!Post

(* A rebuild publishes while its request is open. *)
LEMMA ReplaceRefines ==
    ASSUME PromiseInv, NEW w \in Workers, ReplaceReadModels(w)
    PROVE  \E p \in Portfolios : Contract!Publish(p)
<1>. DEFINE p == Target(w)
<1>1. /\ pc[w] = "replace" /\ pc[w] \in Working /\ UNCHANGED <<posted, request>>
      /\ readModel' = [readModel EXCEPT ![p] = view[w].ledger]
  BY DEF ReplaceReadModels, queueVars, Working, Refreshing
<1>2. /\ job[w].id \in Requests /\ p = PortfolioOf[job[w].id] /\ p \in Portfolios
      /\ request[job[w].id].status = "processing"
  BY <1>1, JobFacts
<1>3. view[w].ledger \in readModel[p] .. posted[p]
  <2>1. ViewOK(w)
    BY DEF PromiseInv
  <2>2. readModel[p] \in Nat /\ posted[p] \in Nat /\ view[w].ledger \in Nat
    BY <1>2, Counts DEF PromiseInv
  <2>. QED BY <1>1, <2>1, <2>2 DEF ViewOK
<1>4. Promise[p] = "owed"
  BY <1>2 DEF Promise, Open
<1>. HIDE DEF p
<1>5. Promise' = Promise
  <2>1. \A q \in Portfolios : Promise'[q] = Promise[q]
    <3>. TAKE q \in Portfolios
    <3>1. CASE q = p
      <4>1. \E r \in Requests : PortfolioOf[r] = q /\ request'[r].status \in {"pending", "processing"}
        BY <1>1, <1>2, <3>1
      <4>2. Promise'[q] = "owed"
        BY <4>1 DEF Promise, Open
      <4>. QED BY <1>4, <3>1, <4>2
    <3>2. CASE q # p
      <4>1. readModel'[q] = readModel[q]
        BY <1>1, <3>2 DEF PromiseInv, TypeOK
      <4>. QED BY <1>1, <4>1 DEF Promise, Open
    <3>. QED BY <3>1, <3>2
  <2>. QED BY <2>1 DEF Promise
<1>. QED BY <1>1, <1>2, <1>3, <1>4, <1>5 DEF Contract!Publish

LEMMA InitRefines == Init => Contract!Init
<1>. SUFFICES ASSUME Init PROVE Contract!Init
  OBVIOUS
<1>1. Promise = [p \in Portfolios |-> "kept"]
  BY DEF Init, Promise, Open, AbsentRow
<1>. QED BY <1>1 DEF Init, Contract!Init

LEMMA StepRefines ==
    ASSUME PromiseInv, PromiseInv', [Next]_vars
    PROVE  [Contract!Next]_Contract!contractVars
<1>1. \A r \in Requests : request[r] \in Row
  BY DEF PromiseInv, TypeOK
<1>2. ASSUME UNCHANGED <<posted, readModel>>,
             \A r \in Requests : ~Open(r) => /\ request'[r].status = request[r].status
                                             /\ request'[r].trigger = request[r].trigger
      PROVE  Contract!Next
  BY <1>2, Settles DEF Contract!Next
<1>3. ASSUME NEW p \in Portfolios, PostOperation(p) PROVE Contract!Next
  BY <1>3, PostRefines DEF Contract!Next
<1>4. ASSUME NEW w \in Workers, Advance(w) PROVE Contract!Next
  <2>1. CASE MarkExhaustedFailed(w)
    <3>1. \A r \in Requests : ~Open(r) => request'[r] = request[r]
      BY <2>1 DEF MarkExhaustedFailed, Open
    <3>. QED BY <2>1, <3>1, <1>2 DEF MarkExhaustedFailed, derived
  <2>2. CASE ClaimBatch(w)
    <3>1. \A r \in Requests : ~Open(r) => request'[r] = request[r]
      BY <2>2 DEF ClaimBatch, Eligible, Open
    <3>. QED BY <2>2, <3>1, <1>2 DEF ClaimBatch, derived
  <2>3. CASE ReplaceReadModels(w)
    BY <2>3, ReplaceRefines DEF Contract!Next
  <2>4. CASE MarkCompleted(w) \/ MarkFailed(w) \/ ScheduleRetry(w)
    <3>1. pc[w] \in Working /\ UNCHANGED <<posted, readModel>>
      BY <2>4 DEF MarkCompleted, MarkFailed, ScheduleRetry, Working, Refreshing, derived
    <3>2. Open(job[w].id)
      BY <3>1, JobFacts DEF Open
    <3>3. \A r \in Requests : r # job[w].id => request'[r] = request[r]
      BY <2>4 DEF MarkCompleted, MarkFailed, ScheduleRetry, PromiseInv, TypeOK
    <3>. QED BY <3>1, <3>2, <3>3, <1>2
  <2>5. CASE \/ StartRequest(w) \/ EndPass(w) \/ ReadLedger(w) \/ ReadSummary(w) \/ ReadHoldings(w)
             \/ WriteSnapshot(w) \/ RefreshFails(w) \/ ExitOnRetryConflict(w)
    <3>1. UNCHANGED <<posted, readModel, request>>
      BY <2>5 DEF StartRequest, EndPass, ReadLedger, ReadSummary, ReadHoldings, WriteSnapshot,
                  RefreshFails, ExitOnRetryConflict, Stop, queueVars, derived
    <3>. QED BY <3>1, <1>2
  <2>. QED BY <1>4, <2>1, <2>2, <2>3, <2>4, <2>5 DEF Advance
<1>5. ASSUME NEW w \in Workers, Crash(w) \/ Start(w) PROVE Contract!Next
  BY <1>2, <1>5 DEF Crash, Start, Stop, queueVars, derived
<1>6. ASSUME NEW r \in Requests, RetryDelayElapses(r) \/ LockTimeoutElapses(r) PROVE Contract!Next
  <2>1. UNCHANGED <<posted, readModel>> /\ Open(r) /\ \A s \in Requests \ {r} : request'[s] = request[s]
    BY <1>6 DEF RetryDelayElapses, LockTimeoutElapses, derived, Open, PromiseInv, TypeOK
  <2>. QED BY <2>1, <1>2
<1>7. CASE UNCHANGED vars
  BY <1>2, <1>7 DEF vars, queueVars, derived
<1>. QED BY <1>3, <1>4, <1>5, <1>6, <1>7 DEF Next

-----------------------------------------------------------------------------
(* The theorems. *)

LEMMA PromiseHolds ==
    ASSUME OneWorker
    PROVE  Spec => []PromiseInv
<1>1. PromiseInv /\ [Next]_vars => PromiseInv'
  BY NextPromise
<1>. QED BY <1>1, InitPromise, PTL DEF Spec

(* One worker forgets no posted operation: what the read models miss is     *)
(* owed by an open request, or its failure can be seen.                     *)
THEOREM NoPostingLost ==
    ASSUME OneWorker
    PROVE  Spec => []NoLostPosting
<1>1. PromiseInv => NoLostPosting
  BY PromiseKept
<1>. QED BY <1>1, PromiseHolds, PTL

(* One worker marks a request completed only when the read models and the   *)
(* snapshot cover the operation that triggered it.                          *)
THEOREM CompletedMeansCovered ==
    ASSUME OneWorker
    PROVE  Spec => []CompletedCoversTrigger
<1>1. PromiseInv => CompletedCoversTrigger
  BY PromiseKept
<1>. QED BY <1>1, PromiseHolds, PTL

(* The two SELECTs of one worker's snapshot see the same read models.       *)
THEOREM SnapshotOfOneLedger ==
    ASSUME OneWorker
    PROVE  Spec => []SnapshotCoherent
<1>1. PromiseInv => SnapshotCoherent
  BY PromiseKept
<1>. QED BY <1>1, PromiseHolds, PTL

(* One worker gives up a request only after an attempt that could see the   *)
(* last operation enqueued on it.                                           *)
THEOREM TriedBeforeFailed ==
    ASSUME OneWorker
    PROVE  Spec => []NotFailedUntried
<1>1. PromiseInv => NotFailedUntried
  BY PromiseKept
<1>. QED BY <1>1, PromiseHolds, PTL

(* One worker never replaces the read models of a portfolio by those of a   *)
(* shorter ledger.                                                          *)
THEOREM ReadModelsForward ==
    ASSUME OneWorker
    PROVE  Spec => ReadModelNeverRegresses
<1>1. PromiseInv /\ [Next]_vars => [\A p \in Portfolios : readModel'[p] >= readModel[p]]_vars
  BY OnlyForward
<1>. QED BY <1>1, PromiseHolds, PTL DEF Spec, ReadModelNeverRegresses

(* The queue with one worker implements the contract with the users: every  *)
(* step of the queue posts, publishes or settles, or changes nothing that   *)
(* they can tell.                                                           *)
THEOREM QueueImplementsContract ==
    ASSUME OneWorker
    PROVE  Spec => ImplementsContract
<1>1. PromiseInv /\ PromiseInv' /\ [Next]_vars => [Contract!Next]_Contract!contractVars
  BY StepRefines
<1>2. Spec => []PromiseInv
  BY PromiseHolds
<1>3. Init => Contract!Init
  BY InitRefines
<1>. QED BY <1>1, <1>2, <1>3, PTL DEF Spec, ImplementsContract, Contract!Spec

-----------------------------------------------------------------------------
(* Several workers.  Two of them break these promises (README.md): one that *)
(* read the ledger first can replace the read models last.  What the queue  *)
(* itself guarantees does not depend on them.                               *)

(* Some row of each portfolio was triggered by its last operation, and at   *)
(* most one of its rows is pending.                                         *)
EveryPostingQueued == \A p \in Portfolios : LatestOK(p)
OnePending ==
    \A r, s \in Requests :
        /\ PortfolioOf[r] = PortfolioOf[s]
        /\ request[r].status = "pending" /\ request[s].status = "pending"
        => r = s
QueueInv == TypeOK /\ EveryPostingQueued /\ OnePending

(* The row a posting transaction writes. *)
LEMMA PostedRow ==
    ASSUME TypeOK, NEW p \in Portfolios, PostOperation(p)
    PROVE  /\ posted'[p] = posted[p] + 1 /\ \A q \in Portfolios \ {p} : posted'[q] = posted[q]
           /\ UNCHANGED <<readModel, snapshot, pc, batch, job, view>>
           /\ \E r \in Requests :
                 /\ PortfolioOf[r] = p
                 /\ \/ request[r].status = "pending" /\ request'[r].attempts = request[r].attempts
                    \/ PendingOf(p) = {} /\ request[r].status = "absent" /\ request'[r].attempts = 0
                 /\ request'[r].status = "pending" /\ request'[r].trigger = posted[p] + 1
                 /\ \A s \in Requests \ {r} : request'[s] = request[s]
<1>1. /\ posted'[p] = posted[p] + 1 /\ \A q \in Portfolios \ {p} : posted'[q] = posted[q]
      /\ UNCHANGED <<readModel, snapshot, pc, batch, job, view>>
      /\ EnqueueRefreshRequest(p, posted[p] + 1)
  BY DEF TypeOK, PostOperation, derived, workerVars
<1>2. ASSUME NEW r \in PendingOf(p), request' = [request EXCEPT ![r] = Reused(@, posted[p] + 1)]
      PROVE  /\ r \in Requests /\ PortfolioOf[r] = p /\ request[r].status = "pending"
             /\ request'[r].attempts = request[r].attempts
             /\ request'[r].status = "pending" /\ request'[r].trigger = posted[p] + 1
             /\ \A s \in Requests \ {r} : request'[s] = request[s]
  BY <1>2 DEF PendingOf, Reused, Row, TypeOK
<1>3. ASSUME NEW r \in Requests, request' = [request EXCEPT ![r] = NewRow(posted[p] + 1)]
      PROVE  /\ request'[r].attempts = 0
             /\ request'[r].status = "pending" /\ request'[r].trigger = posted[p] + 1
             /\ \A s \in Requests \ {r} : request'[s] = request[s]
  BY <1>3 DEF NewRow, AbsentRow, TypeOK
<1>. QED BY <1>1, <1>2, <1>3 DEF EnqueueRefreshRequest

LEMMA PostQueue ==
    ASSUME QueueInv, NEW p \in Portfolios, PostOperation(p)
    PROVE  EveryPostingQueued' /\ OnePending'
<1>1. PICK r \in Requests :
          /\ PortfolioOf[r] = p
          /\ \/ request[r].status = "pending" /\ request'[r].attempts = request[r].attempts
             \/ PendingOf(p) = {} /\ request[r].status = "absent" /\ request'[r].attempts = 0
          /\ request'[r].status = "pending" /\ request'[r].trigger = posted[p] + 1
          /\ \A s \in Requests \ {r} : request'[s] = request[s]
  BY PostedRow DEF QueueInv
<1>2. posted'[p] = posted[p] + 1 /\ \A q \in Portfolios \ {p} : posted'[q] = posted[q]
  BY PostedRow DEF QueueInv
<1>3. ASSUME NEW q \in Portfolios PROVE LatestOK(q)'
  <2>1. CASE q = p
    BY <1>1, <1>2, <2>1 DEF LatestOK
  <2>2. CASE q # p
    <3>. SUFFICES ASSUME posted[q] > 0
                  PROVE  \E s \in Requests : /\ PortfolioOf[s] = q
                                             /\ request'[s].status # "absent"
                                             /\ request'[s].trigger = posted[q]
      BY <1>2, <2>2 DEF LatestOK
    <3>1. PICK s \in Requests : /\ PortfolioOf[s] = q /\ request[s].status # "absent"
                                /\ request[s].trigger = posted[q]
      BY DEF QueueInv, EveryPostingQueued, LatestOK
    <3>. QED BY <1>1, <2>2, <3>1
  <2>. QED BY <2>1, <2>2
<1>4. \A s \in Requests \ {r} : request[s].status = "pending" => PortfolioOf[s] # p
  BY <1>1 DEF QueueInv, OnePending, PendingOf
<1>5. OnePending'
  BY <1>1, <1>4 DEF QueueInv, OnePending
<1>. QED BY <1>3, <1>5 DEF EveryPostingQueued

(* A statement that makes no row pending, or one whose portfolio has no     *)
(* other, keeps the index.                                                  *)
LEMMA PendingKept ==
    ASSUME QueueInv,
           \E k \in Requests :
              /\ \A r \in Requests \ {k} : request'[r].status = "pending" => request[r].status = "pending"
              /\ request'[k].status = "pending" =>
                    \/ request[k].status = "pending"
                    \/ PendingOf(PortfolioOf[k]) \ {k} = {}
    PROVE  OnePending'
  BY DEF QueueInv, OnePending, PendingOf

LEMMA WorkerQueue ==
    ASSUME QueueInv, NEW w \in Workers, Advance(w) \/ Crash(w) \/ Start(w)
    PROVE  EveryPostingQueued' /\ OnePending'
<1>1. TypeOK /\ request \in [Requests -> Row]
  BY DEF QueueInv, TypeOK
<1>2. EveryPostingQueued'
  <2>1. /\ UNCHANGED posted
        /\ \A r \in Requests : /\ request'[r].trigger = request[r].trigger
                               /\ request[r].status # "absent" => request'[r].status # "absent"
    BY <1>1, OwnStep
  <2>. SUFFICES ASSUME NEW p \in Portfolios, posted[p] > 0
                PROVE  \E r \in Requests : /\ PortfolioOf[r] = p
                                           /\ request'[r].status # "absent"
                                           /\ request'[r].trigger = posted[p]
    BY <2>1 DEF EveryPostingQueued, LatestOK
  <2>2. PICK r \in Requests : /\ PortfolioOf[r] = p /\ request[r].status # "absent"
                              /\ request[r].trigger = posted[p]
    BY DEF QueueInv, EveryPostingQueued, LatestOK
  <2>. QED BY <2>1, <2>2
<1>. SUFFICES OnePending'
  BY <1>2
<1>3. ASSUME \A r \in Requests : request'[r].status = "pending" => request[r].status = "pending"
      PROVE  OnePending'
  BY <1>3 DEF QueueInv, OnePending
<1>4. CASE MarkExhaustedFailed(w)
  BY <1>1, <1>3, <1>4, RowFields DEF MarkExhaustedFailed
<1>5. CASE ClaimBatch(w)
  BY <1>1, <1>3, <1>5, RowFields DEF ClaimBatch
<1>6. CASE MarkCompleted(w) \/ MarkFailed(w) \/ ScheduleRetry(w)
  <2>1. job[w].id \in Requests
    BY <1>1, <1>6 DEF TypeOK, MarkCompleted, MarkFailed, ScheduleRetry, Working, Refreshing, Claim
  <2>2. CASE MarkCompleted(w) \/ MarkFailed(w)
    BY <1>1, <1>3, <2>1, <2>2, RowFields DEF MarkCompleted, MarkFailed
  <2>3. CASE ScheduleRetry(w)
    <3>1. /\ \A r \in Requests \ {job[w].id} : request'[r] = request[r]
          /\ PendingOf(PortfolioOf[job[w].id]) \ {job[w].id} = {}
      BY <1>1, <2>3 DEF ScheduleRetry, RetryConflict, Target
    <3>. QED BY <2>1, <3>1, PendingKept
  <2>. QED BY <1>6, <2>2, <2>3
<1>7. CASE \/ StartRequest(w) \/ EndPass(w) \/ ReadLedger(w) \/ ReplaceReadModels(w) \/ ReadSummary(w)
           \/ ReadHoldings(w) \/ WriteSnapshot(w) \/ RefreshFails(w) \/ ExitOnRetryConflict(w)
           \/ Crash(w) \/ Start(w)
  BY <1>3, <1>7 DEF StartRequest, EndPass, ReadLedger, ReplaceReadModels, ReadSummary, ReadHoldings,
     WriteSnapshot, RefreshFails, ExitOnRetryConflict, Crash, Start, Stop, queueVars
<1>. QED BY <1>4, <1>5, <1>6, <1>7 DEF Advance

LEMMA NextQueue == QueueInv /\ [Next]_vars => QueueInv'
<1>. SUFFICES ASSUME QueueInv, [Next]_vars PROVE QueueInv'
  OBVIOUS
<1>1. TypeOK' /\ request \in [Requests -> Row]
  BY NextType DEF QueueInv, TypeOK
<1>2. ASSUME UNCHANGED posted,
             \A r \in Requests : /\ request'[r].status = request[r].status
                                 /\ request'[r].trigger = request[r].trigger
      PROVE  QueueInv'
  <2>1. \A p \in Portfolios : LatestOK(p)'
    BY <1>2 DEF QueueInv, EveryPostingQueued, LatestOK
  <2>2. OnePending'
    BY <1>2 DEF QueueInv, OnePending
  <2>. QED BY <1>1, <2>1, <2>2 DEF QueueInv, EveryPostingQueued
<1>3. ASSUME NEW r \in Requests, RetryDelayElapses(r) \/ LockTimeoutElapses(r)
      PROVE  QueueInv'
  <2>1. CASE RetryDelayElapses(r)
    BY <1>1, <1>2, <2>1, RowFields, RowsKept DEF RetryDelayElapses
  <2>2. CASE LockTimeoutElapses(r)
    BY <1>1, <1>2, <2>2, RowFields, RowsKept DEF LockTimeoutElapses
  <2>. QED BY <1>3, <2>1, <2>2
<1>4. CASE UNCHANGED vars
  BY <1>2, <1>4 DEF vars, queueVars
<1>. QED BY <1>1, <1>3, <1>4, PostQueue, WorkerQueue DEF Next, QueueInv

(* However many workers run, however slow, and wherever they crash: the     *)
(* last operation of every portfolio has a row of the queue (coalescing and *)
(* retries lose none), and a portfolio has one pending row at the most, so  *)
(* the ON CONFLICT of a posting has one row to reuse.                       *)
THEOREM QueueKeepsPostings == Spec => [](EveryPostingQueued /\ OnePending)
<1>1. Init => QueueInv
  BY InitType DEF Init, QueueInv, EveryPostingQueued, LatestOK, OnePending, AbsentRow
<1>2. QueueInv => EveryPostingQueued /\ OnePending
  BY DEF QueueInv
<1>. QED BY <1>1, <1>2, NextQueue, PTL DEF Spec

-----------------------------------------------------------------------------
(* Prompt workers that may overtake each other: each attempt still sees the *)
(* ledger up to the operation its request was triggered by.                 *)

Rebuilding == {"replace", "summary", "holdings", "snapshot", "complete"}

(* A pending row has attempts left, one that was claimed has been tried,    *)
(* and the worker that rebuilds for a row has read past its trigger.        *)
AttemptOK(r) ==
    /\ request[r].status = "pending" => request[r].attempts < MaxAttempts
    /\ request[r].status \in {"processing", "failed"} => request[r].tried
    /\ request[r].trigger <= posted[PortfolioOf[r]]
CoverOK(w) == pc[w] \in Rebuilding => request[job[w].id].trigger <= view[w].ledger
PromptInv ==
    /\ ClaimInv
    /\ \A r \in Requests : AttemptOK(r)
    /\ \A w \in Workers : CoverOK(w)

LEMMA WorkingRow ==
    ASSUME PromptInv, NEW w \in Workers, pc[w] \in Working
    PROVE  /\ job[w].id \in Requests /\ request[job[w].id].status = "processing"
           /\ request[job[w].id].attempts = job[w].attempts
           /\ request[job[w].id] \in Row
<1>1. job[w] \in Claim /\ job[w] \in ClaimsOf(w)
  BY HeldIsClaimed DEF PromptInv, ClaimInv, TypeOK
<1>2. job[w].id \in Requests
  BY <1>1 DEF Claim
<1>. QED BY <1>1, <1>2 DEF PromptInv, ClaimInv, ExclusiveClaims, ClaimsOf, TypeOK

(* The rows after a posting: only a row nobody holds is written.            *)
LEMMA PostPrompt ==
    ASSUME PromptInv, NEW p \in Portfolios, PostOperation(p)
    PROVE  /\ \A r \in Requests : AttemptOK(r)'
           /\ \A w \in Workers : CoverOK(w)'
<1>1. TypeOK /\ TypeOK'
  BY PostType DEF PromptInv, ClaimInv
<1>2. PICK k \in Requests :
          /\ PortfolioOf[k] = p
          /\ \/ request[k].status = "pending" /\ request'[k].attempts = request[k].attempts
             \/ PendingOf(p) = {} /\ request[k].status = "absent" /\ request'[k].attempts = 0
          /\ request'[k].status = "pending" /\ request'[k].trigger = posted[p] + 1
          /\ \A s \in Requests \ {k} : request'[s] = request[s]
  BY <1>1, PostedRow
<1>3. /\ posted'[p] = posted[p] + 1 /\ \A q \in Portfolios \ {p} : posted'[q] = posted[q]
      /\ UNCHANGED <<pc, job, view>>
  BY <1>1, PostedRow
<1>4. /\ \A q \in Portfolios : posted[q] \in Nat /\ posted'[q] \in Nat /\ posted[q] <= posted'[q]
      /\ \A r \in Requests : request[r].trigger \in Nat /\ PortfolioOf[r] \in Portfolios
  <2>1. \A q \in Portfolios : posted[q] \in Nat
    BY <1>1, Counts
  <2>2. \A q \in Portfolios : posted'[q] = posted[q] + 1 \/ posted'[q] = posted[q]
    BY <1>3
  <2>3. \A r \in Requests : request[r].trigger \in Nat /\ PortfolioOf[r] \in Portfolios
    BY <1>1, Counts
  <2>. QED BY <2>1, <2>2, <2>3
<1>5. AttemptOK(k)'
  <2>1. request'[k].attempts < MaxAttempts
    BY <1>2, RefreshQueueAssumptions DEF PromptInv, AttemptOK
  <2>2. request'[k].trigger <= posted'[PortfolioOf[k]]
    BY <1>2, <1>3, <1>4
  <2>. QED BY <1>2, <2>1, <2>2 DEF AttemptOK
<1>6. ASSUME NEW r \in Requests, r # k PROVE AttemptOK(r)'
  <2>1. AttemptOK(r) /\ request'[r] = request[r]
    BY <1>2, <1>6 DEF PromptInv
  <2>2. request[r].trigger <= posted'[PortfolioOf[r]]
    BY <1>4, <2>1 DEF AttemptOK
  <2>. QED BY <2>1, <2>2 DEF AttemptOK
<1>7. ASSUME NEW w \in Workers PROVE CoverOK(w)'
  <2>. SUFFICES ASSUME pc[w] \in Rebuilding
                PROVE  request'[job[w].id].trigger <= view[w].ledger
    BY <1>3 DEF CoverOK
  <2>1. job[w].id \in Requests /\ request[job[w].id].status = "processing"
    BY WorkingRow DEF Rebuilding, Working, Refreshing
  <2>. QED BY <1>2, <2>1 DEF PromptInv, CoverOK
<1>. QED BY <1>5, <1>6, <1>7

LEMMA WorkerPrompt ==
    ASSUME PromptInv, NEW w \in Workers, Advance(w) \/ Crash(w) \/ Start(w)
    PROVE  /\ \A r \in Requests : AttemptOK(r)'
           /\ \A v \in Workers : CoverOK(v)'
<1>1. TypeOK /\ request \in [Requests -> Row]
  BY DEF PromptInv, ClaimInv, TypeOK
<1>2. UNCHANGED posted /\ \A r \in Requests : request'[r].trigger = request[r].trigger
  BY <1>1, OwnStep
<1>3. ASSUME NEW r \in Requests,
             request'[r].status = "pending" => request'[r].attempts < MaxAttempts,
             request'[r].status \in {"processing", "failed"} => request'[r].tried
      PROVE  AttemptOK(r)'
  BY <1>2, <1>3 DEF PromptInv, AttemptOK
<1>4. \A r \in Requests : request'[r] = request[r] => AttemptOK(r)'
  BY <1>3 DEF PromptInv, AttemptOK
<1>5. ASSUME NEW r \in Requests PROVE AttemptOK(r)'
  <2>1. AttemptOK(r) /\ request[r] \in Row /\ request[r].attempts \in Nat
    BY <1>1, Counts DEF PromptInv
  <2>2. CASE MarkExhaustedFailed(w)
    <3>1. \/ request'[r] = request[r]
          \/ request'[r] = Failed(request[r]) /\ request[r].status \in {"pending", "processing"}
             /\ request[r].attempts >= MaxAttempts
      BY <2>2 DEF MarkExhaustedFailed
    <3>2. CASE request'[r] = Failed(request[r]) /\ request[r].status \in {"pending", "processing"}
               /\ request[r].attempts >= MaxAttempts
      <4>1. request[r].status = "processing"
        BY <2>1, <3>2, RefreshQueueAssumptions DEF AttemptOK
      <4>2. request'[r].status = "failed" /\ request'[r].tried
        BY <2>1, <3>2, <4>1, RowFields, RowsKept DEF AttemptOK
      <4>. QED BY <1>3, <4>2
    <3>. QED BY <1>4, <3>1, <3>2
  <2>3. CASE ClaimBatch(w)
    <3>1. request'[r] = request[r] \/ request'[r] = Claimed(request[r])
      BY <2>3 DEF ClaimBatch
    <3>2. Claimed(request[r]).status = "processing" /\ Claimed(request[r]).tried
      BY <2>1, RowFields, RowsKept
    <3>. QED BY <1>3, <1>4, <3>1, <3>2
  <2>4. CASE MarkCompleted(w) \/ MarkFailed(w) \/ ScheduleRetry(w)
    <3>1. /\ job[w].id \in Requests /\ request[job[w].id].status = "processing"
          /\ request[job[w].id].attempts = job[w].attempts
      BY <2>4, WorkingRow DEF MarkCompleted, MarkFailed, ScheduleRetry, Working, Refreshing
    <3>2. CASE r # job[w].id
      BY <1>1, <1>4, <2>4, <3>2 DEF MarkCompleted, MarkFailed, ScheduleRetry
    <3>3. CASE r = job[w].id
      <4>1. CASE MarkCompleted(w)
        BY <1>1, <1>3, <2>1, <3>1, <3>3, <4>1, RowFields DEF MarkCompleted
      <4>2. CASE MarkFailed(w)
        <5>1. request'[r].status = "failed" /\ request'[r].tried
          BY <1>1, <2>1, <3>1, <3>3, <4>2, RowFields, RowsKept DEF MarkFailed, AttemptOK
        <5>. QED BY <1>3, <5>1
      <4>3. CASE ScheduleRetry(w)
        <5>1. request'[r].status = "pending" /\ request'[r].attempts < MaxAttempts
          BY <1>1, <2>1, <3>1, <3>3, <4>3, RowFields, RowsKept DEF ScheduleRetry
        <5>. QED BY <1>3, <5>1
      <4>. QED BY <2>4, <4>1, <4>2, <4>3
    <3>. QED BY <3>2, <3>3
  <2>5. CASE UNCHANGED request
    BY <1>4, <2>5
  <2>. QED BY <2>2, <2>3, <2>4, <2>5
       DEF Advance, StartRequest, EndPass, ReadLedger, ReplaceReadModels, ReadSummary, ReadHoldings,
           WriteSnapshot, RefreshFails, ExitOnRetryConflict, Crash, Start, Stop, queueVars
<1>6. ASSUME NEW v \in Workers, v # w PROVE CoverOK(v)'
  <2>1. v \in Workers \ {w}
    BY <1>6
  <2>2. pc'[v] = pc[v] /\ job'[v] = job[v] /\ view'[v] = view[v]
    BY <1>1, <2>1, OwnStep
  <2>3. pc[v] \in Rebuilding => job[v].id \in Requests
    BY WorkingRow DEF Rebuilding, Working, Refreshing
  <2>. QED BY <1>2, <2>2, <2>3 DEF PromptInv, CoverOK
<1>7. CoverOK(w)'
  <2>. SUFFICES ASSUME pc'[w] \in Rebuilding
                PROVE  request'[job'[w].id].trigger <= view'[w].ledger
    BY DEF CoverOK
  <2>1. CASE ReadLedger(w)
    <3>1. job[w].id \in Requests
      BY <2>1, WorkingRow DEF ReadLedger, Working, Refreshing
    <3>2. view'[w].ledger = posted[Target(w)] /\ job' = job
      BY <1>1, <2>1 DEF ReadLedger, TypeOK, View
    <3>. QED BY <1>2, <3>1, <3>2 DEF PromptInv, AttemptOK, Target
  <2>2. CASE ReplaceReadModels(w) \/ ReadSummary(w) \/ ReadHoldings(w) \/ WriteSnapshot(w)
    <3>1. pc[w] \in Rebuilding /\ job' = job /\ view'[w].ledger = view[w].ledger
      BY <1>1, <2>2 DEF ReplaceReadModels, ReadSummary, ReadHoldings, WriteSnapshot, Rebuilding, TypeOK, View
    <3>2. job[w].id \in Requests
      BY <3>1, WorkingRow DEF Rebuilding, Working, Refreshing
    <3>. QED BY <1>2, <3>1, <3>2 DEF PromptInv, CoverOK
  <2>3. CASE ~ReadLedger(w) /\ ~ReplaceReadModels(w) /\ ~ReadSummary(w) /\ ~ReadHoldings(w) /\ ~WriteSnapshot(w)
    <3>1. pc'[w] \in {"claim", "idle", "next", "read", "record", "down", "exited"}
      BY <1>1, <2>3 DEF TypeOK, Advance, MarkExhaustedFailed, ClaimBatch, StartRequest, EndPass,
         RefreshFails, MarkCompleted, MarkFailed, ScheduleRetry, ExitOnRetryConflict, Crash, Start,
         Stop, Goto
    <3>. QED BY <3>1 DEF Rebuilding
  <2>. QED BY <2>1, <2>2, <2>3
<1>. QED BY <1>5, <1>6, <1>7

LEMMA NextPrompt ==
    ASSUME SlowWorkers = FALSE
    PROVE  PromptInv /\ [Next]_vars => PromptInv'
<1>. SUFFICES ASSUME PromptInv, [Next]_vars PROVE PromptInv'
  OBVIOUS
<1>1. ClaimInv' /\ request \in [Requests -> Row]
  BY NextClaim DEF PromptInv, ClaimInv, TypeOK
<1>2. ASSUME UNCHANGED <<posted, pc, job, view>>,
             \A r \in Requests : /\ request'[r].status = request[r].status
                                 /\ request'[r].trigger = request[r].trigger
                                 /\ request'[r].attempts = request[r].attempts
                                 /\ request'[r].tried = request[r].tried
      PROVE  PromptInv'
  <2>1. \A r \in Requests : AttemptOK(r)'
    BY <1>2 DEF PromptInv, AttemptOK
  <2>2. ASSUME NEW w \in Workers PROVE CoverOK(w)'
    <3>1. pc[w] \in Rebuilding => job[w].id \in Requests
      BY WorkingRow DEF Rebuilding, Working, Refreshing
    <3>. QED BY <1>2, <3>1 DEF PromptInv, CoverOK
  <2>. QED BY <1>1, <2>1, <2>2 DEF PromptInv
<1>3. ASSUME NEW r \in Requests, RetryDelayElapses(r) \/ LockTimeoutElapses(r)
      PROVE  PromptInv'
  <2>1. CASE RetryDelayElapses(r)
    BY <1>1, <1>2, <2>1, RowFields, RowsKept DEF RetryDelayElapses, workerVars
  <2>2. CASE LockTimeoutElapses(r)
    BY <1>1, <1>2, <2>2, RowFields, RowsKept DEF LockTimeoutElapses, workerVars
  <2>. QED BY <1>3, <2>1, <2>2
<1>4. CASE UNCHANGED vars
  BY <1>2, <1>4 DEF vars, queueVars, workerVars
<1>. QED BY <1>1, <1>3, <1>4, PostPrompt, WorkerPrompt DEF Next, PromptInv

LEMMA PromptHolds ==
    ASSUME SlowWorkers = FALSE
    PROVE  Spec => []PromptInv
<1>1. Init => PromptInv
  <2>. SUFFICES ASSUME Init PROVE PromptInv
    OBVIOUS
  <2>1. \A r \in Requests : AttemptOK(r)
    BY RefreshQueueAssumptions DEF Init, AttemptOK, AbsentRow
  <2>2. \A w \in Workers : CoverOK(w)
    BY DEF Init, CoverOK, Rebuilding
  <2>. QED BY <2>1, <2>2, InitClaim DEF PromptInv
<1>2. PromptInv /\ [Next]_vars => PromptInv'
  BY NextPrompt
<1>. QED BY <1>1, <1>2, PTL DEF Spec

(* Prompt workers, however many and wherever they crash, give up a request  *)
(* only after an attempt that could see the last operation enqueued on it.  *)
THEOREM PromptTriedBeforeFailed ==
    ASSUME SlowWorkers = FALSE
    PROVE  Spec => []NotFailedUntried
<1>1. PromptInv => NotFailedUntried
  BY DEF PromptInv, AttemptOK, NotFailedUntried
<1>. QED BY <1>1, PromptHolds, PTL

(* The refresh that completes a request has read the ledger up to the       *)
(* operation that triggered the request.                                    *)
CompletionCovers ==
    [][\A r \in Requests :
          request[r].status # "completed" /\ request'[r].status = "completed" =>
              \E w \in Workers : /\ pc[w] = "complete" /\ job[w].id = r
                                 /\ request[r].trigger <= view[w].ledger]_vars

(* Prompt workers, however many, complete a request only after reading a    *)
(* ledger that holds the operation behind it, even where a slower sibling   *)
(* of the portfolio then puts older read models in their place.             *)
THEOREM PromptCompletionCovers ==
    ASSUME SlowWorkers = FALSE
    PROVE  Spec => CompletionCovers
<1>. DEFINE Covered ==
        \A r \in Requests :
            request[r].status # "completed" /\ request'[r].status = "completed" =>
                \E w \in Workers : /\ pc[w] = "complete" /\ job[w].id = r
                                   /\ request[r].trigger <= view[w].ledger
<1>1. PromptInv /\ [Next]_vars => [Covered]_vars
  <2>. SUFFICES ASSUME PromptInv, Next, NEW r \in Requests,
                       request[r].status # "completed", request'[r].status = "completed"
                PROVE  \E w \in Workers : MarkCompleted(w) /\ job[w].id = r
    <3>1. ASSUME NEW w \in Workers, MarkCompleted(w), PromptInv
          PROVE  pc[w] = "complete" /\ request[job[w].id].trigger <= view[w].ledger
      BY <3>1 DEF MarkCompleted, PromptInv, CoverOK, Rebuilding
    <3>. QED BY <3>1
  <2>1. request \in [Requests -> Row] /\ request[r] \in Row
    BY DEF PromptInv, ClaimInv, TypeOK
  <2>2. ASSUME NEW p \in Portfolios, PostOperation(p) PROVE FALSE
    BY <2>2, PostedRow DEF PromptInv, ClaimInv
  <2>3. ASSUME NEW w \in Workers, MarkExhaustedFailed(w) PROVE FALSE
    BY <2>1, <2>3, RowFields DEF MarkExhaustedFailed
  <2>4. ASSUME NEW w \in Workers, ClaimBatch(w) PROVE FALSE
    BY <2>1, <2>4, RowFields DEF ClaimBatch
  <2>5. ASSUME NEW w \in Workers, MarkFailed(w) \/ ScheduleRetry(w) PROVE FALSE
    BY <2>1, <2>5, RowFields DEF MarkFailed, ScheduleRetry
  <2>6. ASSUME NEW w \in Workers, MarkCompleted(w) PROVE job[w].id = r
    BY <2>1, <2>6 DEF MarkCompleted
  <2>7. ASSUME NEW s \in Requests, RetryDelayElapses(s) \/ LockTimeoutElapses(s) PROVE FALSE
    <3>1. CASE RetryDelayElapses(s)
      BY <2>1, <3>1, RowFields DEF RetryDelayElapses
    <3>2. CASE LockTimeoutElapses(s)
      BY <2>1, <3>2, RowFields DEF LockTimeoutElapses
    <3>. QED BY <2>7, <3>1, <3>2
  <2>8. request' # request
    OBVIOUS
  <2>. QED BY <2>2, <2>3, <2>4, <2>5, <2>6, <2>7, <2>8
       DEF Next, Advance, StartRequest, EndPass, ReadLedger, ReplaceReadModels, ReadSummary,
           ReadHoldings, WriteSnapshot, RefreshFails, ExitOnRetryConflict, Crash, Start, Stop, queueVars
<1>. QED BY <1>1, PromptHolds, PTL DEF Spec, CompletionCovers
=============================================================================
