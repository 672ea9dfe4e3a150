---------------------------- MODULE RefreshQueue ----------------------------
(***************************************************************************)
(* The automatic portfolio refresh of Kushim: the durable queue            *)
(* portfolio_refresh_requests, the API transaction that posts an operation *)
(* and enqueues a refresh, and the kushim-worker processes that claim the  *)
(* requests, rebuild the read models, take the daily snapshot and close    *)
(* the request.                                                            *)
(*                                                                         *)
(* Each action is one committed database statement or transaction, so the  *)
(* interleavings are those of several processes over one PostgreSQL in     *)
(* READ COMMITTED.  Posted operations are append-only, so the ledger of a  *)
(* portfolio is the NUMBER of its posted operations, and a read model is   *)
(* the length of the ledger prefix it was computed from.                   *)
(*                                                                         *)
(* Time is reduced to the two deadlines the SQL tests: a pending row is    *)
(* due or not (next_attempt_at <= now()), a processing row is stale or not *)
(* (processing_started_at < now() - lock timeout).                         *)
(***************************************************************************)
EXTENDS Naturals, FiniteSets

CONSTANTS
    Portfolios,
    Requests,        \* primary keys that rows of the queue may take
    PortfolioOf,     \* the portfolio (id_portfolio) of each such row
    Workers,         \* kushim-worker processes in loop mode
    NoRequest,       \* not a request: the worker is between two requests
    MaxAttempts,     \* WORKER_REFRESH_MAX_ATTEMPTS
    BatchSize,       \* WORKER_REFRESH_BATCH_SIZE
    MaxPosted,       \* bound: operations posted to one portfolio
    SlowWorkers      \* may a refresh outlast the lock timeout?

ASSUME RefreshQueueAssumptions ==
    /\ PortfolioOf \in [Requests -> Portfolios]
    /\ NoRequest \notin Requests
    /\ MaxAttempts \in Nat \ {0}
    /\ BatchSize \in Nat \ {0}
    /\ MaxPosted \in Nat
    /\ SlowWorkers \in BOOLEAN

VARIABLES
    posted,      \* posted[p]: number of posted operations of p
    replayable,  \* replayable[p]: whether rebuild_portfolio_state accepts them
    request,     \* the rows of portfolio_refresh_requests
    readModel,   \* ledger prefix behind rm_portfolio_summary / rm_portfolio_holdings
    snapshot,    \* ledger prefixes behind today's daily snapshot and its holdings
    pc,          \* where each worker process is
    batch,       \* claims of the current pass a worker has not started yet
    job,         \* the claim it is working on
    view         \* what it has read so far for that claim

queueVars  == <<posted, replayable, request>>
derived    == <<readModel, snapshot>>
workerVars == <<pc, batch, job, view>>
vars       == <<queueVars, derived, workerVars>>

Versions == 0 .. MaxPosted

(* A row.  completedAt: completed_at is set.  trigger: the operation of     *)
(* id_triggering_operation, by its rank in the ledger.  tried is history:  *)
(* the row has been claimed since an operation was last enqueued on it.    *)
Row == [status: {"absent", "pending", "processing", "completed", "failed"},
        attempts: 0 .. MaxAttempts, due: BOOLEAN, stale: BOOLEAN,
        completedAt: BOOLEAN, trigger: Versions, tried: BOOLEAN]

AbsentRow == [status |-> "absent", attempts |-> 0, due |-> FALSE, stale |-> FALSE,
              completedAt |-> FALSE, trigger |-> 0, tried |-> FALSE]

(* What the statements of the repository make of a row.                     *)
NewRow(operation) == [AbsentRow EXCEPT !.status = "pending", !.due = TRUE,
                                       !.trigger = operation]
Reused(row, operation) == [row EXCEPT !.due = TRUE, !.trigger = operation,
                                      !.tried = FALSE]
Claimed(row)   == [row EXCEPT !.status = "processing", !.due = FALSE, !.stale = FALSE,
                              !.attempts = @ + 1, !.tried = TRUE]
Completed(row) == [row EXCEPT !.status = "completed", !.completedAt = TRUE, !.stale = FALSE]
Failed(row)    == [row EXCEPT !.status = "failed", !.completedAt = TRUE, !.stale = FALSE]
Retried(row)   == [row EXCEPT !.status = "pending", !.due = FALSE, !.stale = FALSE]

(* ClaimedRefreshRequest: the id and the attempt count RETURNED by the claim. *)
Claim   == [id: Requests, attempts: 1 .. MaxAttempts]
NoClaim == [id |-> NoRequest, attempts |-> 0]

View   == [ledger: Versions, ok: BOOLEAN, summary: Versions, holdings: Versions]
NoView == [ledger |-> 0, ok |-> FALSE, summary |-> 0, holdings |-> 0]

(* "down": not running.  "exited": the process returned an error from main. *)
Alive      == {"idle", "claim", "next", "read", "replace", "summary",
               "holdings", "snapshot", "complete", "record"}
Refreshing == {"read", "replace", "summary", "holdings", "snapshot"}
Working    == Refreshing \cup {"complete", "record"}

TypeOK ==
    /\ posted \in [Portfolios -> Versions]
    /\ replayable \in [Portfolios -> BOOLEAN]
    /\ request \in [Requests -> Row]
    /\ readModel \in [Portfolios -> Versions]
    /\ snapshot \in [Portfolios -> [summary: Versions, holdings: Versions]]
    /\ pc \in [Workers -> Alive \cup {"down", "exited"}]
    /\ batch \in [Workers -> SUBSET Claim]
    /\ job \in [Workers -> Claim \cup {NoClaim}]
    /\ view \in [Workers -> View]
    /\ \A w \in Workers : pc[w] \in Working => job[w] \in Claim

Init ==
    /\ posted = [p \in Portfolios |-> 0]
    /\ replayable = [p \in Portfolios |-> TRUE]
    /\ request = [r \in Requests |-> AbsentRow]
    /\ readModel = [p \in Portfolios |-> 0]
    /\ snapshot = [p \in Portfolios |-> [summary |-> 0, holdings |-> 0]]
    /\ pc = [w \in Workers |-> "down"]
    /\ batch = [w \in Workers |-> {}]
    /\ job = [w \in Workers |-> NoClaim]
    /\ view = [w \in Workers |-> NoView]

-----------------------------------------------------------------------------
(* The API side. *)

(* Mutation of PendingOf: the index also covers rows being processed.       *)
OpenOf(p) == {r \in Requests : /\ PortfolioOf[r] = p
                               /\ request[r].status \in {"pending", "processing"}}

PendingOf(p) == {r \in Requests : PortfolioOf[r] = p /\ request[r].status = "pending"}

(* INSERT ... ON CONFLICT (id_portfolio) WHERE status = 'pending' DO UPDATE. *)
(* A pending row is reused with its attempts; otherwise a row is inserted.   *)
(* Reusing a row that has completed_at fails: requested_at = now() would be  *)
(* later than completed_at, which chk_..._completed_after_requested forbids. *)
EnqueueRefreshRequest(p, operation) ==
    \/ \E r \in PendingOf(p) :
          /\ ~request[r].completedAt
          /\ request' = [request EXCEPT ![r] = Reused(@, operation)]
    \/ /\ PendingOf(p) = {}
       /\ \E r \in Requests :
             /\ PortfolioOf[r] = p
             /\ request[r].status = "absent"
             /\ request' = [request EXCEPT ![r] = NewRow(operation)]

(* One transaction posts an operation and enqueues the refresh.  Whether the *)
(* longer ledger replays is up to the operation: a sell beyond the position  *)
(* is accepted here and rejected by the replay, and a later operation with   *)
(* an earlier executed_at can make the ledger replay again.                  *)
PostOperation(p) ==
    /\ posted[p] < MaxPosted
    /\ posted' = [posted EXCEPT ![p] = @ + 1]
    /\ \E ok \in BOOLEAN : replayable' = [replayable EXCEPT ![p] = ok]
    /\ EnqueueRefreshRequest(p, posted[p] + 1)
    /\ UNCHANGED <<derived, workerVars>>

-----------------------------------------------------------------------------
(* The worker: one pass of process_portfolio_refresh_requests. *)

Goto(w, label) == pc' = [pc EXCEPT ![w] = label]

(* Mutation of MarkExhaustedFailed: the last attempt is not granted.        *)
MarkNearlyExhaustedFailed(w) ==
    /\ pc[w] = "idle"
    /\ request' = [r \in Requests |->
          IF /\ request[r].attempts + 1 >= MaxAttempts
             /\ \/ request[r].status = "pending"
                \/ request[r].status = "processing" /\ request[r].stale
          THEN Failed(request[r])
          ELSE request[r]]
    /\ Goto(w, "claim")
    /\ UNCHANGED <<posted, replayable, derived, batch, job, view>>

MarkExhaustedFailed(w) ==
    /\ pc[w] = "idle"
    /\ request' = [r \in Requests |->
          IF /\ request[r].attempts >= MaxAttempts
             /\ \/ request[r].status = "pending"
                \/ request[r].status = "processing" /\ request[r].stale
          THEN Failed(request[r])
          ELSE request[r]]
    /\ Goto(w, "claim")
    /\ UNCHANGED <<posted, replayable, derived, batch, job, view>>

(* Mutations of Eligible: a row is claimable while another worker's claim   *)
(* is fresh; abandoned rows are not recovered.                              *)
EligibleIgnoringLock ==
    {r \in Requests : /\ request[r].attempts < MaxAttempts
                      /\ \/ request[r].status = "pending" /\ request[r].due
                         \/ request[r].status = "processing"}
EligibleNoRecovery ==
    {r \in Requests : /\ request[r].attempts < MaxAttempts
                      /\ request[r].status = "pending" /\ request[r].due}

Eligible == {r \in Requests :
                /\ request[r].attempts < MaxAttempts
                /\ \/ request[r].status = "pending" /\ request[r].due
                   \/ request[r].status = "processing" /\ request[r].stale}

(* SKIP LOCKED may leave out a row some open transaction has locked, so the  *)
(* batch is any set of eligible rows within the LIMIT, the empty one too.    *)
ClaimBatch(w) ==
    /\ pc[w] = "claim"
    /\ \E S \in SUBSET Eligible :
          /\ Cardinality(S) <= BatchSize
          /\ request' = [r \in Requests |->
                IF r \in S THEN Claimed(request[r]) ELSE request[r]]
          /\ batch' = [batch EXCEPT ![w] =
                {[id |-> r, attempts |-> request[r].attempts + 1] : r \in S}]
          /\ Goto(w, IF S = {} THEN "idle" ELSE "next")
    /\ UNCHANGED <<posted, replayable, derived, job, view>>

(* The claims are processed one after the other, in the order of RETURNING,  *)
(* which the query does not define; then the pass ends and the loop sleeps.  *)
StartRequest(w) ==
    /\ pc[w] = "next"
    /\ \E c \in batch[w] :
          /\ job' = [job EXCEPT ![w] = c]
          /\ batch' = [batch EXCEPT ![w] = @ \ {c}]
    /\ Goto(w, "read")
    /\ UNCHANGED <<queueVars, derived, view>>

EndPass(w) ==
    /\ pc[w] = "next"
    /\ batch[w] = {}
    /\ Goto(w, "idle")
    /\ UNCHANGED <<queueVars, derived, batch, job, view>>

Target(w) == PortfolioOf[job[w].id]

(* Mutation of ReadLedger: the ledger up to the triggering operation only.  *)
ReadLedgerUpToTrigger(w) ==
    /\ pc[w] = "read"
    /\ view' = [view EXCEPT ![w] = [@ EXCEPT !.ledger = request[job[w].id].trigger,
                                             !.ok = replayable[Target(w)]]]
    /\ Goto(w, "replace")
    /\ UNCHANGED <<queueVars, derived, batch, job>>

ReadLedger(w) ==
    /\ pc[w] = "read"
    /\ view' = [view EXCEPT ![w] = [@ EXCEPT !.ledger = posted[Target(w)],
                                             !.ok = replayable[Target(w)]]]
    /\ Goto(w, "replace")
    /\ UNCHANGED <<queueVars, derived, batch, job>>

(* rebuild_portfolio_state succeeds and one transaction replaces both models. *)
ReplaceReadModels(w) ==
    /\ pc[w] = "replace"
    /\ view[w].ok
    /\ readModel' = [readModel EXCEPT ![Target(w)] = view[w].ledger]
    /\ Goto(w, "summary")
    /\ UNCHANGED <<queueVars, snapshot, batch, job, view>>

(* The snapshot transaction: two SELECTs, each with its own READ COMMITTED   *)
(* snapshot, then the write of what they returned.                           *)
ReadSummary(w) ==
    /\ pc[w] = "summary"
    /\ view' = [view EXCEPT ![w] = [@ EXCEPT !.summary = readModel[Target(w)]]]
    /\ Goto(w, "holdings")
    /\ UNCHANGED <<queueVars, derived, batch, job>>

(* Mutation of ReadHoldings: holdings recomputed from the ledger itself.    *)
ReadHoldingsFromLedger(w) ==
    /\ pc[w] = "holdings"
    /\ view' = [view EXCEPT ![w] = [@ EXCEPT !.holdings = posted[Target(w)]]]
    /\ Goto(w, "snapshot")
    /\ UNCHANGED <<queueVars, derived, batch, job>>

ReadHoldings(w) ==
    /\ pc[w] = "holdings"
    /\ view' = [view EXCEPT ![w] = [@ EXCEPT !.holdings = readModel[Target(w)]]]
    /\ Goto(w, "snapshot")
    /\ UNCHANGED <<queueVars, derived, batch, job>>

WriteSnapshot(w) ==
    /\ pc[w] = "snapshot"
    /\ snapshot' = [snapshot EXCEPT ![Target(w)] =
          [summary |-> view[w].summary, holdings |-> view[w].holdings]]
    /\ Goto(w, "complete")
    /\ UNCHANGED <<queueVars, readModel, batch, job, view>>

(* Mutation of RefreshFails: the error of the refresh is swallowed.         *)
RefreshErrorIgnored(w) ==
    /\ pc[w] \in Refreshing
    /\ Goto(w, "complete")
    /\ UNCHANGED <<queueVars, derived, batch, job, view>>

(* Any step of the refresh may fail; a ledger that does not replay must.     *)
RefreshFails(w) ==
    /\ pc[w] \in Refreshing
    /\ Goto(w, "record")
    /\ UNCHANGED <<queueVars, derived, batch, job, view>>

Release(w) ==
    /\ job' = [job EXCEPT ![w] = NoClaim]
    /\ view' = [view EXCEPT ![w] = NoView]

(* WHERE id_portfolio_refresh_request = $1: nothing checks that the row is   *)
(* still processing, nor that this worker still owns it.                     *)
MarkCompleted(w) ==
    /\ pc[w] = "complete"
    /\ request' = [request EXCEPT ![job[w].id] = Completed(@)]
    /\ Release(w)
    /\ Goto(w, "next")
    /\ UNCHANGED <<posted, replayable, derived, batch>>

MarkFailed(w) ==
    /\ pc[w] = "record"
    /\ job[w].attempts >= MaxAttempts
    /\ request' = [request EXCEPT ![job[w].id] = Failed(@)]
    /\ Release(w)
    /\ Goto(w, "next")
    /\ UNCHANGED <<posted, replayable, derived, batch>>

(* Another row of the same portfolio is pending: setting this one pending    *)
(* would break uq_portfolio_refresh_requests_pending_per_portfolio.          *)
RetryConflict(w) == PendingOf(Target(w)) \ {job[w].id} # {}

ScheduleRetry(w) ==
    /\ pc[w] = "record"
    /\ job[w].attempts < MaxAttempts
    /\ ~RetryConflict(w)
    /\ request' = [request EXCEPT ![job[w].id] = Retried(@)]
    /\ Release(w)
    /\ Goto(w, "next")
    /\ UNCHANGED <<posted, replayable, derived, batch>>

Stop(w, label) ==
    /\ Goto(w, label)
    /\ batch' = [batch EXCEPT ![w] = {}]
    /\ Release(w)
    /\ UNCHANGED <<queueVars, derived>>

(* The index rejects the UPDATE; the error leaves run() through `?` and the  *)
(* loop through `result?`: its batch stays unprocessed and nothing polls the *)
(* queue until the process has been signalled to end and started again.      *)
ExitOnRetryConflict(w) ==
    /\ pc[w] = "record"
    /\ job[w].attempts < MaxAttempts
    /\ RetryConflict(w)
    /\ Stop(w, "exited")

(* A kill, a shutdown that drops the job between two awaits, or an error of  *)
(* one of the queue's own statements: the rows stay as they are.             *)
Crash(w) ==
    /\ pc[w] \in Alive
    /\ Stop(w, "down")

(* The container is started by hand or by whatever supervises it. *)
Start(w) ==
    /\ pc[w] \in {"down", "exited"}
    /\ Goto(w, "idle")
    /\ UNCHANGED <<queueVars, derived, batch, job, view>>

-----------------------------------------------------------------------------
(* The clock. *)

Held(w) == {c.id : c \in batch[w]} \cup ({job[w].id} \ {NoRequest})

RetryDelayElapses(r) ==
    /\ request[r].status = "pending"
    /\ ~request[r].due
    /\ request' = [request EXCEPT ![r] = [@ EXCEPT !.due = TRUE]]
    /\ UNCHANGED <<posted, replayable, derived, workerVars>>

(* With SlowWorkers = FALSE the lock timeout is longer than any pass, so it  *)
(* runs out only on rows that no running worker holds.                       *)
LockTimeoutElapses(r) ==
    /\ request[r].status = "processing"
    /\ ~request[r].stale
    /\ SlowWorkers \/ \A w \in Workers : r \notin Held(w)
    /\ request' = [request EXCEPT ![r] = [@ EXCEPT !.stale = TRUE]]
    /\ UNCHANGED <<posted, replayable, derived, workerVars>>

-----------------------------------------------------------------------------
Advance(w) ==
    \/ MarkExhaustedFailed(w)
    \/ ClaimBatch(w)
    \/ StartRequest(w)
    \/ EndPass(w)
    \/ ReadLedger(w)
    \/ ReplaceReadModels(w)
    \/ ReadSummary(w)
    \/ ReadHoldings(w)
    \/ WriteSnapshot(w)
    \/ RefreshFails(w)
    \/ MarkCompleted(w)
    \/ MarkFailed(w)
    \/ ScheduleRetry(w)
    \/ ExitOnRetryConflict(w)

Next ==
    \/ \E p \in Portfolios : PostOperation(p)
    \/ \E w \in Workers : Advance(w) \/ Crash(w) \/ Start(w)
    \/ \E r \in Requests : RetryDelayElapses(r) \/ LockTimeoutElapses(r)

Spec == Init /\ [][Next]_vars

-----------------------------------------------------------------------------
(* Safety. *)

Open(r) == request[r].status \in {"pending", "processing"}

(* A completed request really had both steps: the read models and today's   *)
(* snapshot of its portfolio cover the operation that triggered it, however *)
(* many refreshes, failures and restarts came in between.                   *)
CompletedCoversTrigger ==
    \A r \in Requests :
        request[r].status = "completed" =>
            /\ readModel[PortfolioOf[r]] >= request[r].trigger
            /\ snapshot[PortfolioOf[r]].summary >= request[r].trigger

(* No posted operation is forgotten: while the read models of a portfolio   *)
(* miss an operation, a request of it is open, or the one its last          *)
(* operation triggered has visibly failed.                                  *)
NoLostPosting ==
    \A p \in Portfolios :
        readModel[p] < posted[p] =>
            \E r \in Requests :
                /\ PortfolioOf[r] = p
                /\ \/ Open(r)
                   \/ request[r].status = "failed" /\ request[r].trigger = posted[p]

(* The summary of a daily snapshot and its holdings tell of the same        *)
(* ledger, although two separate SELECTs read them.                         *)
SnapshotCoherent ==
    \A p \in Portfolios : snapshot[p].summary = snapshot[p].holdings

(* A request is failed only after an attempt that could see the last        *)
(* operation enqueued on it: coalescing never inherits a spent budget.      *)
NotFailedUntried ==
    \A r \in Requests : request[r].status = "failed" => request[r].tried

(* No two workers hold the same request, and a request a worker holds is    *)
(* still the one it claimed: processing, not taken for abandoned, with the  *)
(* attempt count the claim returned.                                        *)
ExclusiveClaims ==
    /\ \A v, w \in Workers : v # w => Held(v) \cap Held(w) = {}
    /\ \A w \in Workers : \A c \in batch[w] \cup ({job[w]} \ {NoClaim}) :
          /\ request[c.id].status = "processing"
          /\ ~request[c.id].stale
          /\ request[c.id].attempts = c.attempts

(* A pending row never carries the completed_at of an earlier life, on      *)
(* which the next posting transaction of the portfolio would fail.          *)
PendingAcceptsPostings ==
    \A r \in Requests : request[r].status = "pending" => ~request[r].completedAt

(* completed and failed are terminal: no later statement reopens the row or *)
(* turns one outcome into the other.                                        *)
TerminalIsFinal ==
    [][\A r \in Requests :
          request[r].status \in {"completed", "failed"} =>
              request'[r].status = request[r].status]_vars

(* The read models of a portfolio never go back to a shorter ledger.        *)
ReadModelNeverRegresses ==
    [][\A p \in Portfolios : readModel'[p] >= readModel[p]]_vars

(* Once a refresh has failed, the worker's next step on it (unless it is    *)
(* killed) schedules a retry or records the terminal failure.               *)
FailureIsRecorded ==
    [][\A w \in Workers :
          pc[w] = "record" /\ pc'[w] \notin {"record", "down"} =>
              request'[job[w].id].status \in {"pending", "failed"}]_vars

-----------------------------------------------------------------------------
(* The abstract specification: what a portfolio's users can tell.           *)

Promise == [p \in Portfolios |->
    LET rows == {r \in Requests : PortfolioOf[r] = p}
    IN  IF \E r \in rows : Open(r) THEN "owed"
        ELSE IF readModel[p] = posted[p] THEN "kept"
        ELSE IF \E r \in rows : /\ request[r].status = "failed"
                                /\ request[r].trigger = posted[p]
             THEN "broken"
             ELSE "lost"]

Contract == INSTANCE RefreshContract WITH visible <- readModel, promise <- Promise

(* One worker, however slow, crashing or failing, implements the contract.  *)
ImplementsContract == Contract!Spec

-----------------------------------------------------------------------------
(* Liveness. *)

(* Every process that runs goes on, and the clock does.  The claim query    *)
(* takes the rows in the order of next_attempt_at and locks are short, so   *)
(* no row is passed over for ever while passes are made; nothing starts a   *)
(* worker that has stopped.                                                 *)
ClaimsRequest(w, r) == ClaimBatch(w) /\ \E c \in batch'[w] : c.id = r

Fairness ==
    /\ \A w \in Workers : WF_vars(Advance(w))
    /\ \A w \in Workers, r \in Requests : SF_vars(ClaimsRequest(w, r))
    /\ \A r \in Requests : WF_vars(RetryDelayElapses(r))
    /\ \A r \in Requests : WF_vars(LockTimeoutElapses(r))

FairSpec == Spec /\ Fairness

(* If some worker, in the end, stays up, every request is settled: it is    *)
(* completed or, once its attempts are spent, failed.  Crashed workers,     *)
(* abandoned claims and repeated failures delay it only.                    *)
EveryRequestSettles ==
    (\E w \in Workers : <>[](pc[w] \in Alive)) =>
        \A r \in Requests : Open(r) ~> ~Open(r)
=============================================================================
