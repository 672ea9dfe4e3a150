------------------------ MODULE DailySnapshotsProofs ------------------------
(* Theorems about DailySnapshots, for any workers, operations and dates. *)
EXTENDS DailySnapshots, FiniteSetTheorems, WellFoundedInduction, TLAPS

Writing == {"header", "delete", "deleting", "insert"}

Covered(from, to) == \A d \in Days : from <= d /\ d <= to /\ CreatedOn <= d => header[d] # Nothing

(* What is to be written is the author's, and all of it when the author has *)
(* replayed the ledger itself.                                              *)
Writes(j, x) ==
    /\ x.target \in Targets
    /\ x.target \in Days => CreatedOn <= x.target
    /\ \A r \in x.inserted \cup x.toWrite : r.by = <<j, x.run>>
    /\ (x.target = Current \/ j \in Backfills) =>
          x.inserted \cup x.toWrite = HoldingRows(x.ops, <<j, x.run>>)
    /\ (x.target = Current /\ x.pc = "header") => x.toWrite = {}

(* The holder of a snapshot's header is alone with its holdings.            *)
Holds(x) ==
    /\ x.locks <=> (x.pc \in Writing \ {"header"} /\ x.target \in Days)
    /\ (x.target \in Days /\ x.pc = "deleting") => x.seen = rows[x.target]
    /\ (x.target \in Days /\ x.pc = "insert") => x.deleted = rows[x.target]

BackfillOK(x) ==
    /\ x.pc \in {"idle", "date"} \cup Writing
    /\ x.pc # "idle" =>
          /\ {x.first, x.date, x.last} \subseteq Days
          /\ x.first <= x.date /\ x.date <= x.last
          /\ x.base \subseteq ledger
          /\ Covered(x.first, x.date - 1)
    /\ x.pc \in Writing =>
          /\ x.target = x.date
          /\ AsOf(x.base, x.date) \subseteq x.ops /\ x.ops \subseteq AsOf(ledger, x.date)
    /\ x.outcome = "done" => {x.first, x.last} \subseteq Days /\ Covered(x.first, x.last)

RefreshOK(x) ==
    /\ x.pc # "date"
    /\ x.pc # "idle" => x.date \in Days /\ CreatedOn <= x.date

JobOK(j, x) ==
    /\ x.pc \in Writing => Writes(j, x)
    /\ x.pc \notin Writing => x.inserted = {}
    /\ Holds(x)
    /\ j \in Backfills => BackfillOK(x)
    /\ j \in Refreshers => RefreshOK(x)

OneHolder ==
    \A j, k \in Jobs :
        job[j].locks /\ job[k].locks /\ job[j].target = job[k].target => j = k

TablesOK ==
    /\ CreatedOn <= today
    /\ \A d \in Days : d < CreatedOn => header[d] = Nothing
    /\ SnapshotsAreOfOneRun /\ LastRebuildIsThere /\ BackfillIsAsOf

SnapshotsInv ==
    /\ TypeOK
    /\ \A j \in Jobs : JobOK(j, job[j])
    /\ OneHolder
    /\ TablesOK

-----------------------------------------------------------------------------
(* The lemmas. *)

(* A replay writes well-typed rows, all of them its author's.               *)
LEMMA ReplayedRows ==
    ASSUME NEW ops \in SUBSET Operations, NEW author \in Jobs \X Nat
    PROVE  /\ HoldingRows(ops, author) \subseteq HoldingRow
           /\ \A r \in HoldingRows(ops, author) : r.by = author
  BY DEF HoldingRows, Held, HoldingRow

(* A worker that does not run holds nothing and promises only what its last *)
(* run has left.                                                            *)
LEMMA IdleJob ==
    ASSUME NEW j \in Jobs, NEW run \in Nat, NEW outcome \in {"none", "failed", "done"},
           j \in Backfills => outcome # "done"
    PROVE  /\ Idle(run, outcome) \in Job
           /\ JobOK(j, Idle(run, outcome))
           /\ ~Idle(run, outcome).locks
  <1> DEFINE x == Idle(run, outcome)
  <1>1. x \in Job
    BY DEF Idle, Job
  <1>2. x.pc = "idle" /\ x.outcome = outcome /\ x.inserted = {} /\ x.locks = FALSE
    BY DEF Idle
  <1> HIDE DEF x
  <1>3. JobOK(j, x)
    BY <1>2 DEF JobOK, Writing, Holds, BackfillOK, RefreshOK
  <1> QED BY <1>1, <1>2, <1>3 DEF x

(* What a run begins with. *)
LEMMA FreshJob ==
    ASSUME NEW j \in Jobs, NEW run \in Nat
    PROVE  /\ Idle(run, "none") \in Job
           /\ Idle(run, "none").run = run /\ Idle(run, "none").outcome = "none"
           /\ Idle(run, "none").inserted = {} /\ Idle(run, "none").locks = FALSE
  BY DEF Idle, Job

LEMMA SnapshotsInit == Init => SnapshotsInv
  <1> SUFFICES ASSUME Init PROVE SnapshotsInv
    OBVIOUS
  <1> USE DailySnapshotsAssumptions
  <1>1. \A j \in Jobs : job[j] = Idle(0, "none")
    BY DEF Init
  <1>2. \A j \in Jobs : job[j] \in Job /\ JobOK(j, job[j]) /\ ~job[j].locks
    <2> TAKE j \in Jobs
    <2>1. job[j] = Idle(0, "none")
      BY <1>1
    <2> QED BY <2>1, IdleJob
  <1>3. TypeOK
    <2>1. job \in [Jobs -> Job]
      BY <1>2 DEF Init
    <2> QED BY <2>1 DEF Init, TypeOK
  <1>4. TablesOK
    BY DEF Init, TablesOK, SnapshotsAreOfOneRun, LastRebuildIsThere, BackfillIsAsOf,
           Targets, Days, Current
  <1>5. OneHolder
    BY <1>2 DEF OneHolder
  <1> QED BY <1>2, <1>3, <1>4, <1>5 DEF SnapshotsInv

(* A step of one worker that leaves the tables alone keeps the invariant    *)
(* when what it becomes is in order and holds no header that another holds. *)
LEMMA OneJobSteps ==
    ASSUME SnapshotsInv, NEW j \in Jobs, NEW x \in Job, JobOK(j, x),
           Becomes(j, x), UNCHANGED <<today, ledger, header, rows>>,
           x.locks => \A k \in Jobs \ {j} : job[k].locks => job[k].target # x.target
    PROVE  SnapshotsInv'
  <1>1. job \in [Jobs -> Job]
    BY DEF SnapshotsInv, TypeOK
  <1>2. job' = [job EXCEPT ![j] = x]
    BY DEF Becomes
  <1>3. job' \in [Jobs -> Job] /\ job'[j] = x /\ \A k \in Jobs \ {j} : job'[k] = job[k]
    BY <1>1, <1>2
  <1>4. TypeOK'
    BY <1>3 DEF SnapshotsInv, TypeOK
  <1>5. TablesOK'
    BY DEF SnapshotsInv, TablesOK, SnapshotsAreOfOneRun, LastRebuildIsThere, BackfillIsAsOf, Whole
  <1>6. OneHolder'
    BY <1>3 DEF SnapshotsInv, OneHolder
  <1>7. ASSUME NEW k \in Jobs, NEW y, JobOK(k, y) PROVE JobOK(k, y)'
    BY <1>7 DEF JobOK, Writes, Holds, BackfillOK, RefreshOK, Covered
  <1>8. ASSUME NEW k \in Jobs PROVE JobOK(k, job[k])'
    <2>1. CASE k = j
      BY <2>1, <1>3, <1>7
    <2>2. CASE k # j
      <3>1. JobOK(k, job[k])
        BY DEF SnapshotsInv
      <3>2. JobOK(k, job'[k])
        BY <3>1, <2>2, <1>3
      <3> QED BY <3>2 DEF JobOK, Writes, Holds, BackfillOK, RefreshOK, Covered
    <2> QED BY <2>1, <2>2
  <1> QED BY <1>4, <1>5, <1>6, <1>8 DEF SnapshotsInv

(* A run that ends without having finished. *)
LEMMA EndedRuns ==
    ASSUME SnapshotsInv, NEW j \in Jobs, NEW outcome \in {"failed", "done"},
           j \in Backfills => outcome = "failed",
           Ends(j, outcome), UNCHANGED <<today, ledger, header, rows>>
    PROVE  SnapshotsInv'
  <1> DEFINE last == IF j \in Backfills THEN outcome ELSE "none"
             x == Idle(job[j].run, last)
  <1>1. job[j].run \in Nat
    BY DEF SnapshotsInv, TypeOK, Job
  <1>2. last \in {"none", "failed", "done"} /\ (j \in Backfills => last # "done")
    OBVIOUS
  <1>3. Becomes(j, x)
    BY DEF Ends
  <1> HIDE DEF last
  <1>4. x \in Job /\ JobOK(j, x) /\ ~x.locks
    BY <1>1, <1>2, IdleJob
  <1> HIDE DEF x
  <1> QED BY <1>3, <1>4, OneJobSteps

(* What is known of a worker. *)
LEMMA WorkerFacts ==
    ASSUME SnapshotsInv, NEW j \in Jobs
    PROVE  /\ job[j] \in Job /\ JobOK(j, job[j])
           /\ Author(j) \in Jobs \X Nat
           /\ ledger \subseteq Operations /\ today \in Days
           /\ \A t \in Targets : rows[t] \subseteq HoldingRow
  <1>1. job[j] \in Job /\ JobOK(j, job[j])
    BY DEF SnapshotsInv, TypeOK
  <1>2. Author(j) \in Jobs \X Nat
    BY <1>1 DEF Author, Job
  <1> QED BY <1>1, <1>2 DEF SnapshotsInv, TypeOK

LEMMA BeginsRefresh ==
    ASSUME SnapshotsInv, NEW j \in Refreshers, BeginRefresh(j)
    PROVE  SnapshotsInv'
  <1> DEFINE fresh == Idle(job[j].run + 1, "none")
             x == [fresh EXCEPT !.pc = "ledger", !.date = today]
  <1>1. j \in Jobs /\ j \notin Backfills
    BY DailySnapshotsAssumptions DEF Jobs
  <1>2. job[j].run \in Nat /\ today \in Days
    BY <1>1, WorkerFacts DEF Job
  <1>3. /\ x \in Job /\ x.pc = "ledger" /\ x.date = today
        /\ x.inserted = {} /\ x.locks = FALSE
    <2>1. job[j].run + 1 \in Nat
      BY <1>2
    <2>2. fresh \in Job /\ fresh.inserted = {} /\ fresh.locks = FALSE
      BY <1>1, <2>1, FreshJob
    <2> HIDE DEF fresh
    <2> QED BY <2>2, <1>2 DEF Job
  <1>4. Becomes(j, x) /\ UNCHANGED <<today, ledger, header, rows>>
    BY DEF BeginRefresh
  <1> HIDE DEF x
  <1>5. JobOK(j, x)
    BY <1>1, <1>2, <1>3 DEF JobOK, Writing, Holds, RefreshOK, SnapshotsInv, TablesOK
  <1> QED BY <1>1, <1>3, <1>4, <1>5, OneJobSteps

LEMMA BeginsBackfill ==
    ASSUME SnapshotsInv, NEW j \in Backfills, BeginBackfill(j)
    PROVE  SnapshotsInv'
  <1>1. j \in Jobs /\ j \notin Refreshers
    BY DailySnapshotsAssumptions DEF Jobs
  <1>2. PICK from \in Days, to \in Days :
           /\ from <= to
           /\ Becomes(j, [Idle(job[j].run + 1, "none") EXCEPT
                           !.pc = "date", !.date = from, !.first = from, !.last = to,
                           !.base = ledger])
    BY DEF BeginBackfill, ValidRange
  <1> DEFINE fresh == Idle(job[j].run + 1, "none")
             x == [fresh EXCEPT
                    !.pc = "date", !.date = from, !.first = from, !.last = to, !.base = ledger]
  <1>3. job[j].run \in Nat /\ ledger \subseteq Operations
    BY <1>1, WorkerFacts DEF Job
  <1>4. /\ x \in Job /\ x.pc = "date" /\ x.date = from /\ x.first = from /\ x.last = to
        /\ x.base = ledger /\ x.inserted = {} /\ x.locks = FALSE /\ x.outcome = "none"
    <2>1. job[j].run + 1 \in Nat
      BY <1>3
    <2>2. fresh \in Job /\ fresh.inserted = {} /\ fresh.locks = FALSE /\ fresh.outcome = "none"
      BY <1>1, <2>1, FreshJob
    <2> HIDE DEF fresh
    <2> QED BY <2>2, <1>3 DEF Job
  <1>5. Becomes(j, x) /\ UNCHANGED <<today, ledger, header, rows>>
    BY <1>2 DEF BeginBackfill
  <1> HIDE DEF x
  <1>6. Covered(x.first, x.date - 1)
    BY <1>4, DailySnapshotsAssumptions DEF Covered, Days
  <1>7. BackfillOK(x)
    BY <1>2, <1>4, <1>6, DailySnapshotsAssumptions DEF BackfillOK, Writing, Days
  <1>8. JobOK(j, x)
    BY <1>1, <1>4, <1>7 DEF JobOK, Writing, Holds
  <1> QED BY <1>1, <1>4, <1>5, <1>8, OneJobSteps

(* A worker that is about to replace a target. *)
LEMMA BeginsReplacement ==
    ASSUME SnapshotsInv, NEW j \in Jobs, NEW t \in Targets,
           NEW ops \in SUBSET Operations, NEW new \in SUBSET HoldingRow,
           job[j].pc \in {"ledger", "holdings", "date"},
           job[j].inserted = {},
           t \in Days => CreatedOn <= t,
           \A r \in new : r.by = Author(j),
           (t = Current \/ j \in Backfills) => new = HoldingRows(ops, Author(j)),
           j \in Backfills => /\ t = job[j].date
                              /\ AsOf(job[j].base, t) \subseteq ops
                              /\ ops \subseteq AsOf(ledger, t),
           Becomes(j, Replacing(j, t, ops, new)),
           UNCHANGED <<today, ledger, header, rows>>
    PROVE  SnapshotsInv'
  <1> DEFINE x == Replacing(j, t, ops, new)
             old == job[j]
  <1>1. old \in Job /\ JobOK(j, old)
    BY WorkerFacts
  <1>2. old.locks = FALSE
    BY <1>1 DEF JobOK, Holds, Writing, Job
  <1>3. /\ x \in Job
        /\ x.pc = IF t # Current THEN "header" ELSE "delete"
        /\ x.target = t /\ x.ops = ops /\ x.toWrite = new
        /\ x.run = old.run /\ x.outcome = old.outcome /\ x.date = old.date
        /\ x.first = old.first /\ x.last = old.last /\ x.base = old.base
        /\ x.inserted = {} /\ x.locks = FALSE
    BY <1>1, <1>2 DEF Replacing, HeaderFirst, Job
  <1>4. Becomes(j, x)
    OBVIOUS
  <1>5. Author(j) = <<j, x.run>>
    BY <1>3 DEF Author
  <1>6. Current \notin Days
    BY DEF Current, Days
  <1> HIDE DEF x
  <1>7. Writes(j, x)
    BY <1>3, <1>5 DEF Writes
  <1>8. Holds(x)
    BY <1>3, <1>6 DEF Holds, Writing, Targets
  <1>9. ASSUME j \in Backfills PROVE BackfillOK(x)
    <2>1. BackfillOK(old)
      BY <1>1, <1>9 DEF JobOK
    <2>2. x.pc \in Writing /\ x.pc # "idle"
      BY <1>3 DEF Writing
    <2>3. /\ {x.first, x.date, x.last} \subseteq Days
          /\ x.first <= x.date /\ x.date <= x.last
          /\ x.base \subseteq ledger
          /\ Covered(x.first, x.date - 1)
      BY <2>1, <1>3 DEF BackfillOK
    <2>4. /\ x.target = x.date
          /\ AsOf(x.base, x.date) \subseteq x.ops /\ x.ops \subseteq AsOf(ledger, x.date)
      BY <1>3, <1>9
    <2>5. x.outcome = "done" => {x.first, x.last} \subseteq Days /\ Covered(x.first, x.last)
      BY <2>1, <1>3 DEF BackfillOK
    <2> QED BY <2>2, <2>3, <2>4, <2>5 DEF BackfillOK
  <1>10. ASSUME j \in Refreshers PROVE RefreshOK(x)
    BY <1>1, <1>3, <1>10 DEF JobOK, RefreshOK
  <1>11. JobOK(j, x)
    BY <1>3, <1>7, <1>8, <1>9, <1>10 DEF JobOK
  <1> QED BY <1>3, <1>4, <1>11, OneJobSteps

-----------------------------------------------------------------------------
(* The steps of a refresh. *)

LEMMA ReadsLedger ==
    ASSUME SnapshotsInv, NEW j \in Refreshers, ReadLedger(j)
    PROVE  SnapshotsInv'
  <1>1. j \in Jobs /\ j \notin Backfills
    BY DailySnapshotsAssumptions DEF Jobs
  <1>2. UNCHANGED <<today, ledger, header, rows>>
    BY DEF ReadLedger
  <1>3. CASE Replayable(ledger)
    <2> DEFINE new == HoldingRows(ledger, Author(j))
    <2>1. ledger \in SUBSET Operations /\ Author(j) \in Jobs \X Nat
      BY <1>1, WorkerFacts
    <2>2. new \in SUBSET HoldingRow /\ \A r \in new : r.by = Author(j)
      BY <2>1, ReplayedRows
    <2>3. job[j].pc = "ledger" /\ JobOK(j, job[j])
      BY <1>1, WorkerFacts DEF ReadLedger, At
    <2>4. job[j].inserted = {}
      BY <2>3 DEF JobOK, Writing
    <2>5. Becomes(j, Replacing(j, Current, ledger, new))
      BY <1>3 DEF ReadLedger
    <2>6. Current \in Targets /\ Current \notin Days
      BY DEF Targets, Current, Days
    <2> HIDE DEF new
    <2>7. new = HoldingRows(ledger, Author(j))
      BY DEF new
    <2> QED BY <1>1, <1>2, <2>1, <2>2, <2>3, <2>4, <2>5, <2>6, <2>7, BeginsReplacement
  <1>4. CASE ~Replayable(ledger)
    <2>1. Ends(j, "failed")
      BY <1>4 DEF ReadLedger
    <2> QED BY <1>1, <1>2, <2>1, EndedRuns
  <1> QED BY <1>3, <1>4

LEMMA ReadsSummary ==
    ASSUME SnapshotsInv, NEW j \in Refreshers, ReadSummary(j)
    PROVE  SnapshotsInv'
  <1>1. j \in Jobs /\ j \notin Backfills
    BY DailySnapshotsAssumptions DEF Jobs
  <1>2. UNCHANGED <<today, ledger, header, rows>>
    BY DEF ReadSummary
  <1>3. CASE header[Current] = Nothing
    <2>1. Ends(j, "done")
      BY <1>3 DEF ReadSummary
    <2> QED BY <1>1, <1>2, <2>1, EndedRuns
  <1>4. CASE header[Current] # Nothing
    <2> DEFINE x == [job[j] EXCEPT !.pc = "holdings", !.ops = header[Current].ops]
    <2>1. header[Current].ops \subseteq Operations
      <3>1. Current \in Targets
        BY DEF Targets
      <3>2. header[Current] \in HeaderRow
        BY <1>4, <3>1 DEF SnapshotsInv, TypeOK
      <3> QED BY <3>2 DEF HeaderRow
    <2>2. job[j] \in Job /\ JobOK(j, job[j]) /\ job[j].pc = "summary"
      BY <1>1, WorkerFacts DEF ReadSummary, At
    <2>3. job[j].inserted = {} /\ job[j].locks = FALSE
      BY <2>2 DEF JobOK, Holds, Writing, Job
    <2>4. /\ x \in Job /\ x.pc = "holdings" /\ x.date = job[j].date
          /\ x.inserted = {} /\ x.locks = FALSE
      BY <2>1, <2>2, <2>3 DEF Job
    <2>5. Becomes(j, x)
      BY <1>4 DEF ReadSummary
    <2> HIDE DEF x
    <2>6. RefreshOK(job[j])
      BY <2>2 DEF JobOK
    <2>7. JobOK(j, x)
      BY <1>1, <2>2, <2>4, <2>6 DEF JobOK, Writing, Holds, RefreshOK
    <2> QED BY <1>1, <1>2, <2>4, <2>5, <2>7, OneJobSteps
  <1> QED BY <1>3, <1>4

LEMMA ReadsHoldings ==
    ASSUME SnapshotsInv, NEW j \in Refreshers, ReadHoldings(j)
    PROVE  SnapshotsInv'
  <1> DEFINE new == {[r EXCEPT !.by = Author(j)] : r \in rows[Current]}
  <1>1. j \in Jobs /\ j \notin Backfills
    BY DailySnapshotsAssumptions DEF Jobs
  <1>2. Becomes(j, Replacing(j, job[j].date, job[j].ops, new))
    BY DEF ReadHoldings
  <1>3. Current \in Targets /\ Current \notin Days
    BY DEF Targets, Current, Days
  <1>4. rows[Current] \subseteq HoldingRow /\ Author(j) \in Jobs \X Nat
    BY <1>1, <1>3, WorkerFacts
  <1>5. \A r \in HoldingRow : /\ [r EXCEPT !.by = Author(j)] \in HoldingRow
                              /\ [r EXCEPT !.by = Author(j)].by = Author(j)
    BY <1>4 DEF HoldingRow
  <1>6. new \in SUBSET HoldingRow /\ \A r \in new : r.by = Author(j)
    BY <1>4, <1>5
  <1> HIDE DEF new
  <1>7. job[j] \in Job /\ JobOK(j, job[j]) /\ job[j].pc = "holdings"
    BY <1>1, WorkerFacts DEF ReadHoldings, At
  <1>8. job[j].inserted = {} /\ job[j].ops \in SUBSET Operations
    BY <1>7 DEF JobOK, Writing, Job
  <1>9. job[j].date \in Days /\ CreatedOn <= job[j].date
    BY <1>7 DEF JobOK, RefreshOK
  <1>10. job[j].date \in Targets /\ job[j].date # Current
    BY <1>3, <1>9 DEF Targets
  <1>11. UNCHANGED <<today, ledger, header, rows>>
    BY DEF ReadHoldings
  <1> QED BY <1>1, <1>2, <1>6, <1>7, <1>8, <1>9, <1>10, <1>11, BeginsReplacement

-----------------------------------------------------------------------------
(* The steps of a backfill. *)

(* What NextDate makes of a worker. *)
LEMMA NextDates ==
    ASSUME NEW j \in Jobs, job[j] \in Job, {job[j].first, job[j].date, job[j].last} \subseteq Days,
           job[j].first <= job[j].date, job[j].date <= job[j].last,
           NEW x, x = NextDate(j)
    PROVE  /\ x \in Job /\ x.inserted = {} /\ x.locks = FALSE
           /\ x.first = job[j].first /\ x.last = job[j].last
           /\ \/ job[j].date = job[j].last /\ x.pc = "idle"
              \/ /\ x.pc = "date" /\ x.outcome = "none"
                 /\ x.date = job[j].date + 1 /\ x.date \in Days
                 /\ x.date <= x.last /\ x.base = job[j].base
  <1>1. job[j].run \in Nat /\ job[j].base \subseteq Operations
    BY DEF Job
  <1>2. CASE job[j].date = job[j].last
    <2> DEFINE fresh == Idle(job[j].run, "done")
    <2>1. fresh \in Job /\ fresh.inserted = {} /\ fresh.locks = FALSE /\ fresh.pc = "idle"
      BY <1>1 DEF Idle, Job
    <2>2. x = [fresh EXCEPT !.first = job[j].first, !.last = job[j].last]
      BY <1>2 DEF NextDate
    <2> HIDE DEF fresh
    <2>3. /\ x \in Job /\ x.inserted = {} /\ x.locks = FALSE /\ x.pc = "idle"
          /\ x.first = job[j].first /\ x.last = job[j].last
      BY <2>1, <2>2 DEF Job
    <2> QED BY <1>2, <2>3
  <1>3. CASE job[j].date # job[j].last
    <2> DEFINE fresh == Idle(job[j].run, "none")
    <2>1. fresh \in Job /\ fresh.inserted = {} /\ fresh.locks = FALSE /\ fresh.outcome = "none"
      BY <1>1, FreshJob
    <2>2. x = [fresh EXCEPT !.pc = "date", !.date = job[j].date + 1, !.first = job[j].first,
                            !.last = job[j].last, !.base = job[j].base]
      BY <1>3 DEF NextDate
    <2>3. job[j].date + 1 \in Days /\ job[j].date + 1 <= job[j].last
      BY <1>3, DailySnapshotsAssumptions DEF Days
    <2> HIDE DEF fresh
    <2>4. /\ x \in Job /\ x.inserted = {} /\ x.locks = FALSE /\ x.pc = "date"
          /\ x.outcome = "none" /\ x.date = job[j].date + 1 /\ x.base = job[j].base
          /\ x.first = job[j].first /\ x.last = job[j].last
      <3>1. job[j].first \in Days /\ job[j].last \in Days
        OBVIOUS
      <3>2. x \in Job
        BY <1>1, <2>1, <2>2, <2>3, <3>1 DEF Job
      <3> QED BY <2>1, <2>2, <3>2 DEF Job
    <2> QED BY <2>3, <2>4
  <1> QED BY <1>2, <1>3

(* Coverage grows by the date that has just been dealt with. *)
LEMMA DateCovered ==
    ASSUME NEW from \in Days, NEW date \in Days, Covered(from, date - 1),
           CreatedOn <= date => header[date] # Nothing
    PROVE  Covered(from, date)
  BY DailySnapshotsAssumptions DEF Covered, Days

LEMMA SkipsDate ==
    ASSUME SnapshotsInv, NEW j \in Backfills, SkipDate(j)
    PROVE  SnapshotsInv'
  <1>1. j \in Jobs /\ j \notin Refreshers
    BY DailySnapshotsAssumptions DEF Jobs
  <1>2. job[j] \in Job /\ BackfillOK(job[j]) /\ job[j].pc = "date"
    BY <1>1, WorkerFacts DEF JobOK, SkipDate, At
  <1>3. /\ {job[j].first, job[j].date, job[j].last} \subseteq Days
        /\ job[j].first <= job[j].date /\ job[j].date <= job[j].last
        /\ job[j].base \subseteq ledger
        /\ Covered(job[j].first, job[j].date - 1)
    BY <1>2 DEF BackfillOK
  <1>4. job[j].date < CreatedOn /\ UNCHANGED <<today, ledger, header, rows>>
    BY DEF SkipDate, BeforeCreation
  <1>5. Covered(job[j].first, job[j].date)
    BY <1>3, <1>4, DailySnapshotsAssumptions, DateCovered DEF Days
  <1> DEFINE x == NextDate(j)
  <1>6. Becomes(j, x)
    BY DEF SkipDate
  <1> HIDE DEF x
  <1>7. /\ x \in Job /\ x.inserted = {} /\ x.locks = FALSE
        /\ x.first = job[j].first /\ x.last = job[j].last
        /\ \/ job[j].date = job[j].last /\ x.pc = "idle"
           \/ /\ x.pc = "date" /\ x.outcome = "none"
              /\ x.date = job[j].date + 1 /\ x.date \in Days
              /\ x.date <= x.last /\ x.base = job[j].base
    BY <1>1, <1>2, <1>3, NextDates DEF x
  <1>8. BackfillOK(x)
    <2>1. CASE job[j].date = job[j].last /\ x.pc = "idle"
      BY <2>1, <1>3, <1>5, <1>7 DEF BackfillOK, Writing
    <2>2. CASE /\ x.pc = "date" /\ x.outcome = "none"
               /\ x.date = job[j].date + 1 /\ x.date \in Days
               /\ x.date <= x.last /\ x.base = job[j].base
      <3>1. x.date - 1 = job[j].date /\ x.first <= x.date
        BY <2>2, <1>3, <1>7 DEF Days
      <3>2. Covered(x.first, x.date - 1)
        BY <3>1, <1>5, <1>7
      <3> QED BY <3>1, <3>2, <2>2, <1>3, <1>7 DEF BackfillOK, Writing
    <2> QED BY <2>1, <2>2, <1>7
  <1>9. x.pc \in {"idle", "date"}
    BY <1>7
  <1>10. JobOK(j, x)
    BY <1>1, <1>7, <1>8, <1>9 DEF JobOK, Writing, Holds
  <1> QED BY <1>1, <1>4, <1>6, <1>7, <1>10, OneJobSteps

LEMMA ReplaysDate ==
    ASSUME SnapshotsInv, NEW j \in Backfills, ReplayDate(j)
    PROVE  SnapshotsInv'
  <1> DEFINE date == job[j].date
             used == ThroughDate(ledger, date)
             new == HoldingRows(used, Author(j))
  <1>1. j \in Jobs /\ j \notin Refreshers
    BY DailySnapshotsAssumptions DEF Jobs
  <1>2. UNCHANGED <<today, ledger, header, rows>>
    BY DEF ReplayDate
  <1>3. CASE Replayable(used)
    <2>1. ledger \subseteq Operations /\ Author(j) \in Jobs \X Nat
      BY <1>1, WorkerFacts
    <2>2. job[j] \in Job /\ JobOK(j, job[j]) /\ job[j].pc = "date"
      BY <1>1, WorkerFacts DEF ReplayDate, At
    <2>3. job[j].inserted = {} /\ date \in Days /\ job[j].base \subseteq ledger
      BY <2>2 DEF JobOK, Writing, BackfillOK
    <2>4. used \in SUBSET Operations
      BY <2>1 DEF ThroughDate, AsOf
    <2>5. Becomes(j, Replacing(j, date, used, new))
      BY <1>3 DEF ReplayDate
    <2>6. CreatedOn <= date
      BY <2>3, DailySnapshotsAssumptions DEF ReplayDate, BeforeCreation, Days
    <2>7. AsOf(job[j].base, date) \subseteq used /\ used \subseteq AsOf(ledger, date)
      BY <2>3 DEF ThroughDate, AsOf
    <2> HIDE DEF used
    <2>8. new \in SUBSET HoldingRow /\ \A r \in new : r.by = Author(j)
      BY <2>1, <2>4, ReplayedRows
    <2>9. new = HoldingRows(used, Author(j))
      OBVIOUS
    <2> HIDE DEF new
    <2>10. date \in Targets
      BY <2>3 DEF Targets
    <2> HIDE DEF date
    <2>11. date = job[j].date
      BY DEF date
    <2> QED BY <1>1, <1>2, <2>2, <2>3, <2>4, <2>5, <2>6, <2>7, <2>8, <2>9, <2>10, <2>11,
               BeginsReplacement
  <1>4. CASE ~Replayable(used)
    <2>1. Ends(j, "failed")
      BY <1>4 DEF ReplayDate
    <2> QED BY <1>1, <1>2, <2>1, EndedRuns
  <1> QED BY <1>3, <1>4

-----------------------------------------------------------------------------
(* The steps of a replacement. *)

(* A replacement under way that goes on: what the step leaves alone.        *)
Continues(x, y) ==
    /\ y.run = x.run /\ y.outcome = x.outcome /\ y.date = x.date
    /\ y.first = x.first /\ y.last = x.last /\ y.base = x.base
    /\ y.target = x.target /\ y.ops = x.ops

LEMMA ContinuesReplacement ==
    ASSUME SnapshotsInv, NEW j \in Jobs, NEW x \in Job, Continues(job[j], x),
           job[j].pc \in Writing, x.pc \in Writing,
           x.inserted \cup x.toWrite = job[j].inserted \cup job[j].toWrite,
           (x.target = Current /\ x.pc = "header") => x.toWrite = {},
           Holds(x),
           x.locks => \A k \in Jobs \ {j} : job[k].locks => job[k].target # x.target,
           Becomes(j, x), UNCHANGED <<today, ledger, header, rows>>
    PROVE  SnapshotsInv'
  <1>1. job[j] \in Job /\ JobOK(j, job[j])
    BY WorkerFacts
  <1>2. Writes(j, x)
    BY <1>1 DEF JobOK, Writes, Continues
  <1>3. ASSUME j \in Backfills PROVE BackfillOK(x)
    <2>1. BackfillOK(job[j]) /\ job[j].pc # "idle" /\ x.pc # "idle"
      BY <1>1, <1>3 DEF JobOK, Writing
    <2>2. /\ {x.first, x.date, x.last} \subseteq Days
          /\ x.first <= x.date /\ x.date <= x.last
          /\ x.base \subseteq ledger
          /\ Covered(x.first, x.date - 1)
      BY <2>1 DEF BackfillOK, Continues
    <2>3. /\ x.target = x.date
          /\ AsOf(x.base, x.date) \subseteq x.ops /\ x.ops \subseteq AsOf(ledger, x.date)
      BY <2>1 DEF BackfillOK, Continues
    <2>4. x.outcome = "done" => {x.first, x.last} \subseteq Days /\ Covered(x.first, x.last)
      BY <2>1 DEF BackfillOK, Continues
    <2> QED BY <2>2, <2>3, <2>4 DEF BackfillOK
  <1>4. ASSUME j \in Refreshers PROVE RefreshOK(x)
    BY <1>1, <1>4 DEF JobOK, RefreshOK, Continues, Writing
  <1>5. JobOK(j, x)
    BY <1>2, <1>3, <1>4 DEF JobOK
  <1> QED BY <1>5, OneJobSteps

(* A worker at a step of a replacement.                                     *)
LEMMA ReplacingFacts ==
    ASSUME SnapshotsInv, NEW j \in Jobs, job[j].pc \in Writing
    PROVE  /\ job[j] \in Job /\ Writes(j, job[j]) /\ Holds(job[j])
           /\ job[j].target \in Targets
           /\ job[j].target # Current <=> job[j].target \in Days
           /\ rows[job[j].target] \subseteq HoldingRow
  <1>1. job[j] \in Job /\ Writes(j, job[j]) /\ Holds(job[j])
    BY WorkerFacts DEF JobOK
  <1>2. job[j].target \in Targets
    BY <1>1 DEF Writes
  <1> QED BY <1>1, <1>2, WorkerFacts DEF Targets, Current, Days

(* A snapshot's header is locked when no rival holds it. *)
LEMMA LocksHeader ==
    ASSUME SnapshotsInv, NEW j \in Jobs, UpsertHeader(j), HeaderFirst(job[j].target)
    PROVE  SnapshotsInv'
  <1> DEFINE x == [job[j] EXCEPT !.pc = "delete", !.locks = TRUE]
  <1>1. job[j].pc = "header" /\ job[j].pc \in Writing
    BY DEF UpsertHeader, At, Writing
  <1>2. job[j] \in Job /\ Writes(j, job[j]) /\ job[j].target \in Days
    BY <1>1, ReplacingFacts DEF HeaderFirst
  <1>3. Becomes(j, x) /\ UNCHANGED <<today, ledger, header, rows>>
    BY DEF UpsertHeader
  <1>4. /\ x \in Job /\ Continues(job[j], x) /\ x.pc = "delete" /\ x.locks = TRUE
        /\ x.inserted = job[j].inserted /\ x.toWrite = job[j].toWrite
    BY <1>2 DEF Job, Continues
  <1>5. \A k \in Jobs \ {j} : job[k].locks => job[k].target # job[j].target
    BY DEF UpsertHeader, HeaderHolders, Rivals
  <1> HIDE DEF x
  <1>6. x.target = job[j].target /\ x.pc \in Writing
    BY <1>4 DEF Continues, Writing
  <1>7. Holds(x)
    BY <1>2, <1>4, <1>6 DEF Holds, Writing
  <1> QED BY <1>1, <1>3, <1>4, <1>5, <1>6, <1>7, ContinuesReplacement

(* A step of a worker that holds what it held.                              *)
LEMMA StillHolds ==
    ASSUME SnapshotsInv, NEW j \in Jobs, NEW x, x.locks = job[j].locks, x.target = job[j].target
    PROVE  x.locks => \A k \in Jobs \ {j} : job[k].locks => job[k].target # x.target
  BY DEF SnapshotsInv, OneHolder

LEMMA BeginsDelete ==
    ASSUME SnapshotsInv, NEW j \in Jobs, BeginDelete(j)
    PROVE  SnapshotsInv'
  <1> DEFINE x == [job[j] EXCEPT !.pc = "deleting", !.seen = rows[job[j].target]]
  <1>1. job[j].pc = "delete" /\ job[j].pc \in Writing
    BY DEF BeginDelete, At, Writing
  <1>2. /\ job[j] \in Job /\ Holds(job[j]) /\ rows[job[j].target] \subseteq HoldingRow
    BY <1>1, ReplacingFacts
  <1>3. Becomes(j, x) /\ UNCHANGED <<today, ledger, header, rows>>
    BY DEF BeginDelete
  <1>4. /\ x \in Job /\ Continues(job[j], x) /\ x.pc = "deleting" /\ x.locks = job[j].locks
        /\ x.seen = rows[job[j].target]
        /\ x.inserted = job[j].inserted /\ x.toWrite = job[j].toWrite
    BY <1>2 DEF Job, Continues
  <1> HIDE DEF x
  <1>5. x.target = job[j].target /\ x.pc \in Writing
    BY <1>4 DEF Continues, Writing
  <1>6. Holds(x)
    BY <1>1, <1>2, <1>4, <1>5 DEF Holds, Writing
  <1> QED BY <1>1, <1>3, <1>4, <1>5, <1>6, StillHolds, ContinuesReplacement

LEMMA EndsDelete ==
    ASSUME SnapshotsInv, NEW j \in Jobs, EndDelete(j)
    PROVE  SnapshotsInv'
  <1> DEFINE gone == job[j].seen \cap rows[job[j].target]
             x == [job[j] EXCEPT !.pc = "insert", !.seen = {}, !.deleted = gone]
  <1>1. job[j].pc = "deleting" /\ job[j].pc \in Writing
    BY DEF EndDelete, At, Writing
  <1>2. /\ job[j] \in Job /\ Holds(job[j]) /\ rows[job[j].target] \subseteq HoldingRow
    BY <1>1, ReplacingFacts
  <1>3. Becomes(j, x) /\ UNCHANGED <<today, ledger, header, rows>>
    BY DEF EndDelete
  <1>4. gone \subseteq HoldingRow /\ (job[j].seen = rows[job[j].target] => gone = rows[job[j].target])
    BY <1>2
  <1> HIDE DEF gone
  <1>5. /\ x \in Job /\ Continues(job[j], x) /\ x.pc = "insert" /\ x.locks = job[j].locks
        /\ x.deleted = gone
        /\ x.inserted = job[j].inserted /\ x.toWrite = job[j].toWrite
    BY <1>2, <1>4 DEF Job, Continues
  <1> HIDE DEF x
  <1>6. x.target = job[j].target /\ x.pc \in Writing
    BY <1>5 DEF Continues, Writing
  <1>7. Holds(x)
    BY <1>1, <1>2, <1>4, <1>5, <1>6 DEF Holds, Writing
  <1> QED BY <1>1, <1>3, <1>5, <1>6, <1>7, StillHolds, ContinuesReplacement

LEMMA InsertsHolding ==
    ASSUME SnapshotsInv, NEW j \in Jobs, InsertHolding(j)
    PROVE  SnapshotsInv'
  <1>1. PICK r \in job[j].toWrite :
           IF Conflicts(r, rows[job[j].target] \ job[j].deleted)
           THEN Ends(j, "failed")
           ELSE Becomes(j, [job[j] EXCEPT !.inserted = @ \cup {r}, !.toWrite = @ \ {r}])
    BY DEF InsertHolding
  <1>2. UNCHANGED <<today, ledger, header, rows>>
    BY DEF InsertHolding
  <1>3. CASE Ends(j, "failed")
    BY <1>2, <1>3, EndedRuns
  <1>4. CASE Becomes(j, [job[j] EXCEPT !.inserted = @ \cup {r}, !.toWrite = @ \ {r}])
    <2> DEFINE x == [job[j] EXCEPT !.inserted = @ \cup {r}, !.toWrite = @ \ {r}]
    <2>1. job[j].pc = "insert" /\ job[j].pc \in Writing
      BY DEF InsertHolding, At, Writing
    <2>2. job[j] \in Job /\ Holds(job[j])
      BY <2>1, ReplacingFacts
    <2>3. /\ x \in Job /\ Continues(job[j], x) /\ x.pc = "insert" /\ x.locks = job[j].locks
          /\ x.deleted = job[j].deleted
          /\ x.inserted = job[j].inserted \cup {r} /\ x.toWrite = job[j].toWrite \ {r}
      <3> DEFINE written == job[j].inserted \cup {r}
                 left == job[j].toWrite \ {r}
      <3>1. written \in SUBSET HoldingRow /\ left \in SUBSET HoldingRow
        BY <2>2 DEF Job
      <3>2. x = [job[j] EXCEPT !.inserted = written, !.toWrite = left]
        BY <2>2 DEF Job
      <3> HIDE DEF written, left, x
      <3>3. x \in Job /\ x.inserted = written /\ x.toWrite = left /\ x.pc = job[j].pc
        BY <2>2, <3>1, <3>2 DEF Job
      <3>4. Continues(job[j], x) /\ x.locks = job[j].locks /\ x.deleted = job[j].deleted
        BY <2>2, <3>2 DEF Job, Continues
      <3> QED BY <2>1, <3>3, <3>4 DEF written, left
    <2>4. Becomes(j, x)
      BY <1>4
    <2> HIDE DEF x
    <2>5. x.target = job[j].target /\ x.pc \in Writing
      BY <2>3 DEF Continues, Writing
    <2>6. Holds(x)
      BY <2>1, <2>2, <2>3, <2>5 DEF Holds, Writing
    <2>7. x.inserted \cup x.toWrite = job[j].inserted \cup job[j].toWrite
      BY <2>3
    <2> QED BY <1>2, <2>1, <2>3, <2>4, <2>5, <2>6, <2>7, StillHolds, ContinuesReplacement
  <1> QED BY <1>1, <1>3, <1>4

(* The read models' summary is written when the holdings are. *)
LEMMA EndsHoldings ==
    ASSUME SnapshotsInv, NEW j \in Jobs, EndInserts(j), ~HeaderFirst(job[j].target)
    PROVE  SnapshotsInv'
  <1> DEFINE x == [job[j] EXCEPT !.pc = "header"]
  <1>1. job[j].pc = "insert" /\ job[j].pc \in Writing /\ job[j].toWrite = {}
    BY DEF EndInserts, At, Writing
  <1>2. job[j] \in Job /\ Holds(job[j]) /\ job[j].target \notin Days
    BY <1>1, ReplacingFacts DEF HeaderFirst
  <1>3. Becomes(j, x) /\ UNCHANGED <<today, ledger, header, rows>>
    BY DEF EndInserts
  <1>4. /\ x \in Job /\ Continues(job[j], x) /\ x.pc = "header" /\ x.locks = job[j].locks
        /\ x.inserted = job[j].inserted /\ x.toWrite = job[j].toWrite
    BY <1>2 DEF Job, Continues
  <1> HIDE DEF x
  <1>5. x.target = job[j].target /\ x.pc \in Writing
    BY <1>4 DEF Continues, Writing
  <1>6. Holds(x)
    BY <1>1, <1>2, <1>4, <1>5 DEF Holds, Writing
  <1> QED BY <1>1, <1>3, <1>4, <1>5, <1>6, StillHolds, ContinuesReplacement

(* A commit: all that has been deleted and inserted, and the header, at     *)
(* once.                                                                    *)
LEMMA Commits ==
    ASSUME SnapshotsInv, NEW j \in Jobs, Commit(j), UNCHANGED <<today, ledger>>,
           job[j].toWrite = {},
           \/ job[j].pc = "header" /\ job[j].target = Current
           \/ job[j].pc = "insert" /\ job[j].target \in Days
    PROVE  SnapshotsInv'
  <1> DEFINE t == job[j].target
             row == [ops |-> job[j].ops, by |-> Author(j), base |-> job[j].base]
             new == (rows[t] \ job[j].deleted) \cup job[j].inserted
             next == IF j \in Backfills THEN NextDate(j)
                     ELSE IF t = Current
                          THEN [Idle(job[j].run, "none") EXCEPT !.pc = "summary",
                                   !.date = job[j].date]
                          ELSE Idle(job[j].run, "none")
  <1> PICK x, old : x = next /\ old = job[j]
    OBVIOUS
  <1>1. job[j].pc \in Writing /\ job[j].pc # "idle"
    BY DEF Writing
  <1>2. /\ job[j] \in Job /\ JobOK(j, job[j]) /\ Writes(j, job[j]) /\ Holds(job[j])
        /\ t \in Targets /\ (t # Current <=> t \in Days)
        /\ rows[t] \subseteq HoldingRow /\ Author(j) \in Jobs \X Nat
        /\ Author(j) = <<j, job[j].run>>
    BY <1>1, ReplacingFacts, WorkerFacts DEF Author
  <1>3. row \in HeaderRow /\ row # Nothing
    BY <1>2, DailySnapshotsAssumptions DEF HeaderRow, Job
  <1>4. new \subseteq HoldingRow
    BY <1>2 DEF Job
  <1>5. /\ header' = [header EXCEPT ![t] = row] /\ rows' = [rows EXCEPT ![t] = new]
        /\ Becomes(j, x)
    BY DEF Commit
  <1>6. /\ header \in [Targets -> HeaderRow \cup {Nothing}] /\ rows \in [Targets -> SUBSET HoldingRow]
        /\ job \in [Jobs -> Job] /\ ledger \subseteq Operations /\ today \in Days
    BY DEF SnapshotsInv, TypeOK
  <1>7. \A r \in job[j].inserted : r.by = Author(j)
    BY <1>2 DEF Writes
  <1>8. t \in Days => new = job[j].inserted
    BY <1>2 DEF Holds
  <1>9. (t = Current \/ j \in Backfills) => job[j].inserted = HoldingRows(job[j].ops, Author(j))
    BY <1>2 DEF Writes
  <1>10. job[j].inserted \subseteq new
    OBVIOUS
  <1>11. row.ops = job[j].ops /\ row.by = Author(j) /\ row.base = job[j].base
    OBVIOUS
  <1> HIDE DEF row, new
  <1>12. /\ header' \in [Targets -> HeaderRow \cup {Nothing}] /\ rows' \in [Targets -> SUBSET HoldingRow]
         /\ header'[t] = row /\ rows'[t] = new
         /\ \A u \in Targets \ {t} : header'[u] = header[u] /\ rows'[u] = rows[u]
    BY <1>2, <1>3, <1>4, <1>5, <1>6
  <1>13. \A d \in Days : d \in Targets
    BY DEF Targets
  <1>14. \A d \in Days : header[d] # Nothing => header'[d] # Nothing
    BY <1>3, <1>12, <1>13
  <1>15. x \in Job /\ ~x.locks /\ JobOK(j, x)'
    <2>1. CASE j \in Backfills
      <3>1. /\ {job[j].first, job[j].date, job[j].last} \subseteq Days
            /\ job[j].first <= job[j].date /\ job[j].date <= job[j].last
            /\ job[j].base \subseteq ledger
            /\ Covered(job[j].first, job[j].date - 1) /\ t = job[j].date
        BY <1>1, <1>2, <2>1 DEF JobOK, BackfillOK
      <3>2. Covered(old.first, old.date)'
        BY <1>3, <1>12, <1>14, <3>1, DailySnapshotsAssumptions DEF Covered, Days
      <3>3. x = NextDate(j)
        BY <2>1
      <3>4. /\ x \in Job /\ x.inserted = {} /\ x.locks = FALSE
            /\ x.first = job[j].first /\ x.last = job[j].last
            /\ \/ job[j].date = job[j].last /\ x.pc = "idle"
               \/ /\ x.pc = "date" /\ x.outcome = "none"
                  /\ x.date = job[j].date + 1 /\ x.date \in Days
                  /\ x.date <= x.last /\ x.base = job[j].base
        BY <1>2, <3>1, <3>3, NextDates
      <3>5. BackfillOK(x)'
        <4>1. CASE job[j].date = job[j].last /\ x.pc = "idle"
          BY <4>1, <3>1, <3>2, <3>4 DEF BackfillOK, Writing, Covered
        <4>2. CASE /\ x.pc = "date" /\ x.outcome = "none"
                   /\ x.date = job[j].date + 1 /\ x.date \in Days
                   /\ x.date <= x.last /\ x.base = job[j].base
          <5>1. x.date - 1 = job[j].date /\ x.first <= x.date
            BY <4>2, <3>1, <3>4 DEF Days
          <5>2. Covered(x.first, x.date - 1)'
            BY <5>1, <3>2, <3>4 DEF Covered
          <5> QED BY <5>1, <5>2, <4>2, <3>1, <3>4 DEF BackfillOK, Writing
        <4> QED BY <4>1, <4>2, <3>4
      <3>6. x.pc \in {"idle", "date"} /\ j \notin Refreshers
        BY <2>1, <3>4, DailySnapshotsAssumptions
      <3> QED BY <3>4, <3>5, <3>6 DEF JobOK, Writing, Holds
    <2>2. CASE j \notin Backfills
      <3> DEFINE fresh == Idle(job[j].run, "none")
      <3>1. j \in Refreshers /\ RefreshOK(job[j])
        BY <1>2, <2>2 DEF Jobs, JobOK
      <3>2. job[j].date \in Days /\ CreatedOn <= job[j].date /\ job[j].run \in Nat
        BY <1>1, <1>2, <3>1 DEF RefreshOK, Job
      <3>3. /\ fresh \in Job /\ fresh.inserted = {} /\ fresh.locks = FALSE /\ fresh.pc = "idle"
        BY <3>2, FreshJob DEF Idle
      <3>4. CASE t = Current
        <4>1. x = [fresh EXCEPT !.pc = "summary", !.date = job[j].date]
          BY <2>2, <3>4
        <4> HIDE DEF fresh
        <4>2. /\ x \in Job /\ x.pc = "summary" /\ x.date = job[j].date
              /\ x.inserted = {} /\ x.locks = FALSE
          BY <3>2, <3>3, <4>1 DEF Job
        <4> QED BY <2>2, <3>2, <4>2 DEF JobOK, Writing, Holds, RefreshOK
      <3>5. CASE t # Current
        <4>1. x = fresh
          BY <2>2, <3>5
        <4> HIDE DEF fresh
        <4> QED BY <2>2, <3>3, <4>1 DEF JobOK, Writing, Holds, RefreshOK
      <3> QED BY <3>4, <3>5
    <2> QED BY <2>1, <2>2
  <1>16. job' \in [Jobs -> Job] /\ job'[j] = x /\ \A k \in Jobs \ {j} : job'[k] = job[k]
    BY <1>5, <1>6, <1>15 DEF Becomes
  <1>17. TypeOK'
    BY <1>6, <1>12, <1>16 DEF TypeOK
  <1>18. OneHolder'
    BY <1>15, <1>16 DEF SnapshotsInv, OneHolder
  <1>19. ASSUME NEW k \in Jobs PROVE JobOK(k, job[k])'
    <2>1. CASE k = j
      <3>1. job'[k] = x /\ JobOK(k, x)'
        BY <1>15, <1>16, <2>1
      <3>2. (job[k].pc \in Writing => Writes(k, job[k]))'
        BY <3>1 DEF JobOK, Writes
      <3>3. Holds(job[k])'
        BY <3>1 DEF JobOK, Holds
      <3>4. (k \in Backfills => BackfillOK(job[k]))'
        BY <3>1 DEF JobOK, BackfillOK, Covered
      <3>5. (k \in Refreshers => RefreshOK(job[k]))'
        BY <3>1 DEF JobOK, RefreshOK
      <3>6. (job[k].pc \notin Writing => job[k].inserted = {})'
        BY <3>1 DEF JobOK
      <3> QED BY <3>2, <3>3, <3>4, <3>5, <3>6 DEF JobOK
    <2>2. CASE k # j
      <3> DEFINE y == job[k]
      <3>1. JobOK(k, y) /\ y \in Job /\ y' = y
        BY <1>16, <2>2, WorkerFacts
      <3>2. y.locks => y.target \in Days /\ y.target # t
        BY <1>1, <1>2, <2>2, <3>1 DEF JobOK, Holds, SnapshotsInv, OneHolder, Writing
      <3>3. Holds(y)'
        BY <1>12, <1>13, <3>1, <3>2 DEF JobOK, Holds, Writing
      <3>4. ASSUME k \in Backfills PROVE BackfillOK(y)'
        <4>1. BackfillOK(y)
          BY <3>1, <3>4 DEF JobOK
        <4>2. ASSUME NEW from, NEW to, Covered(from, to) PROVE Covered(from, to)'
          BY <1>14, <4>2 DEF Covered
        <4> QED BY <1>6, <3>1, <4>1, <4>2 DEF BackfillOK
      <3>5. k \in Refreshers => RefreshOK(y)'
        BY <3>1 DEF JobOK, RefreshOK
      <3>6. y.pc \in Writing => Writes(k, y)'
        BY <3>1 DEF JobOK, Writes
      <3> QED BY <3>1, <3>3, <3>4, <3>5, <3>6 DEF JobOK
    <2> QED BY <2>1, <2>2
  <1>20. TablesOK'
    <2>1. (CreatedOn <= today)'
      BY DEF SnapshotsInv, TablesOK
    <2>2. (\A d \in Days : d < CreatedOn => header[d] = Nothing)'
      <3>1. t \in Days => CreatedOn <= t
        BY <1>2 DEF Writes
      <3> QED BY <1>12, <1>13, <3>1, DailySnapshotsAssumptions DEF SnapshotsInv, TablesOK, Days
    <2>3. SnapshotsAreOfOneRun'
      <3> SUFFICES ASSUME NEW d \in Days, NEW r \in rows'[d]
                   PROVE  header'[d] # Nothing /\ r.by = header'[d].by
        BY DEF SnapshotsAreOfOneRun
      <3>1. CASE d = t
        BY <3>1, <1>3, <1>7, <1>8, <1>11, <1>12
      <3>2. CASE d # t
        BY <3>2, <1>12, <1>13 DEF SnapshotsInv, TablesOK, SnapshotsAreOfOneRun
      <3> QED BY <3>1, <3>2
    <2>4. LastRebuildIsThere'
      <3>1. CASE t = Current
        BY <3>1, <1>9, <1>10, <1>11, <1>12 DEF LastRebuildIsThere
      <3>2. CASE t # Current
        <4>1. Current \in Targets \ {t}
          BY <3>2 DEF Targets
        <4> QED BY <4>1, <1>12 DEF SnapshotsInv, TablesOK, LastRebuildIsThere
      <3> QED BY <3>1, <3>2
    <2>5. BackfillIsAsOf'
      <3> SUFFICES ASSUME NEW d \in Days, header'[d] # Nothing, header'[d].by[1] \in Backfills
                   PROVE  /\ AsOf(header'[d].base, d) \subseteq header'[d].ops
                          /\ header'[d].ops \subseteq AsOf(ledger, d)
                          /\ rows'[d] = HoldingRows(header'[d].ops, header'[d].by)
        BY DEF BackfillIsAsOf, Whole
      <3>1. CASE d = t
        <4>1. j \in Backfills
          BY <3>1, <1>2, <1>11, <1>12
        <4>2. BackfillOK(job[j])
          BY <4>1, <1>2 DEF JobOK
        <4>3. /\ t = job[j].date
              /\ AsOf(job[j].base, t) \subseteq job[j].ops /\ job[j].ops \subseteq AsOf(ledger, t)
          BY <1>1, <4>2 DEF BackfillOK
        <4> QED BY <3>1, <4>1, <4>3, <1>8, <1>9, <1>11, <1>12
      <3>2. CASE d # t
        BY <3>2, <1>12, <1>13 DEF SnapshotsInv, TablesOK, BackfillIsAsOf, Whole
      <3> QED BY <3>1, <3>2
    <2> QED BY <2>1, <2>2, <2>3, <2>4, <2>5 DEF TablesOK
  <1> QED BY <1>17, <1>18, <1>19, <1>20 DEF SnapshotsInv

LEMMA Upserts ==
    ASSUME SnapshotsInv, NEW j \in Jobs, UpsertHeader(j)
    PROVE  SnapshotsInv'
  <1>1. CASE HeaderFirst(job[j].target)
    BY <1>1, LocksHeader
  <1>2. CASE ~HeaderFirst(job[j].target)
    <2>1. job[j].pc = "header" /\ job[j].pc \in Writing
      BY DEF UpsertHeader, At, Writing
    <2>2. job[j].target = Current /\ Writes(j, job[j])
      BY <1>2, <2>1, ReplacingFacts DEF HeaderFirst
    <2>3. job[j].toWrite = {}
      BY <2>1, <2>2 DEF Writes
    <2>4. Commit(j) /\ UNCHANGED <<today, ledger>>
      BY <1>2 DEF UpsertHeader
    <2> QED BY <2>1, <2>2, <2>3, <2>4, Commits
  <1> QED BY <1>1, <1>2

LEMMA EndsInserts ==
    ASSUME SnapshotsInv, NEW j \in Jobs, EndInserts(j)
    PROVE  SnapshotsInv'
  <1>1. CASE ~HeaderFirst(job[j].target)
    BY <1>1, EndsHoldings
  <1>2. CASE HeaderFirst(job[j].target)
    <2>1. job[j].pc = "insert" /\ job[j].pc \in Writing /\ job[j].toWrite = {}
      BY DEF EndInserts, At, Writing
    <2>2. job[j].target \in Days
      BY <1>2, <2>1, ReplacingFacts DEF HeaderFirst
    <2>3. Commit(j) /\ UNCHANGED <<today, ledger>>
      BY <1>2 DEF EndInserts
    <2> QED BY <2>1, <2>2, <2>3, Commits
  <1> QED BY <1>1, <1>2

LEMMA Replaces ==
    ASSUME SnapshotsInv, NEW j \in Jobs, Replace(j)
    PROVE  SnapshotsInv'
  <1>1. CASE BreakDeadlock(j)
    <2>1. Ends(j, "failed") /\ UNCHANGED <<today, ledger, header, rows>>
      BY <1>1 DEF BreakDeadlock
    <2> QED BY <2>1, EndedRuns
  <1> QED BY <1>1, Upserts, BeginsDelete, EndsDelete, InsertsHolding, EndsInserts DEF Replace

-----------------------------------------------------------------------------
(* The rest of the world. *)

(* A posting only adds to what a backfill may have used.                    *)
LEMMA Posts ==
    ASSUME SnapshotsInv, NEW o \in Operations, Post(o)
    PROVE  SnapshotsInv'
  <1>1. ledger' = ledger \cup {o} /\ UNCHANGED <<today, header, rows, job>>
    BY DEF Post
  <1>2. \A d : AsOf(ledger, d) \subseteq AsOf(ledger', d)
    BY <1>1 DEF AsOf
  <1>3. TypeOK'
    BY <1>1 DEF SnapshotsInv, TypeOK
  <1>4. OneHolder'
    BY <1>1 DEF SnapshotsInv, OneHolder
  <1>5. TablesOK'
    <2>1. BackfillIsAsOf'
      BY <1>1, <1>2 DEF SnapshotsInv, TablesOK, BackfillIsAsOf, Whole
    <2> QED BY <1>1, <2>1 DEF SnapshotsInv, TablesOK, SnapshotsAreOfOneRun, LastRebuildIsThere
  <1>6. ASSUME NEW j \in Jobs PROVE JobOK(j, job[j])'
    <2>1. JobOK(j, job[j])
      BY WorkerFacts
    <2>2. Holds(job[j])' /\ (job[j].pc \in Writing => Writes(j, job[j]))'
      BY <1>1, <2>1 DEF JobOK, Holds, Writes
    <2>3. (j \in Backfills => BackfillOK(job[j]))'
      BY <1>1, <1>2, <2>1 DEF JobOK, BackfillOK, Covered
    <2>4. (j \in Refreshers => RefreshOK(job[j]))'
      BY <1>1, <2>1 DEF JobOK, RefreshOK
    <2> QED BY <1>1, <2>1, <2>2, <2>3, <2>4 DEF JobOK
  <1> QED BY <1>3, <1>4, <1>5, <1>6 DEF SnapshotsInv

LEMMA AtMidnight ==
    ASSUME SnapshotsInv, Midnight
    PROVE  SnapshotsInv'
  <1>1. today' = today + 1 /\ today < LastDay /\ UNCHANGED <<ledger, header, rows, job>>
    BY DEF Midnight
  <1>2. today' \in Days /\ CreatedOn <= today'
    BY <1>1, DailySnapshotsAssumptions DEF SnapshotsInv, TypeOK, TablesOK, Days
  <1>3. TypeOK'
    BY <1>1, <1>2 DEF SnapshotsInv, TypeOK
  <1>4. OneHolder'
    BY <1>1 DEF SnapshotsInv, OneHolder
  <1>5. TablesOK'
    BY <1>1, <1>2 DEF SnapshotsInv, TablesOK, BackfillIsAsOf, Whole, SnapshotsAreOfOneRun,
                      LastRebuildIsThere
  <1>6. ASSUME NEW j \in Jobs PROVE JobOK(j, job[j])'
    <2>1. JobOK(j, job[j])
      BY WorkerFacts
    <2> QED BY <1>1, <2>1 DEF JobOK, Holds, Writes, BackfillOK, Covered, RefreshOK
  <1> QED BY <1>3, <1>4, <1>5, <1>6 DEF SnapshotsInv

LEMMA SnapshotsNext == SnapshotsInv /\ [Next]_vars => SnapshotsInv'
  <1> SUFFICES ASSUME SnapshotsInv, [Next]_vars PROVE SnapshotsInv'
    OBVIOUS
  <1>1. CASE UNCHANGED vars
    BY <1>1 DEF vars, SnapshotsInv, TypeOK, OneHolder, TablesOK, SnapshotsAreOfOneRun,
                LastRebuildIsThere, BackfillIsAsOf, Whole, JobOK, Holds, Writes, BackfillOK,
                Covered, RefreshOK
  <1>2. ASSUME NEW o \in Operations, Post(o) PROVE SnapshotsInv'
    BY <1>2, Posts
  <1>3. CASE Midnight
    BY <1>3, AtMidnight
  <1>4. ASSUME NEW j \in Refreshers, BeginRefresh(j) \/ Refresh(j) PROVE SnapshotsInv'
    BY <1>4, BeginsRefresh, ReadsLedger, ReadsSummary, ReadsHoldings, Replaces DEF Refresh, Jobs
  <1>5. ASSUME NEW j \in Backfills, BeginBackfill(j) \/ Backfill(j) PROVE SnapshotsInv'
    BY <1>5, BeginsBackfill, SkipsDate, ReplaysDate, Replaces DEF Backfill, Jobs
  <1>6. ASSUME NEW j \in Jobs, Fail(j) PROVE SnapshotsInv'
    <2>1. Ends(j, "failed") /\ UNCHANGED <<today, ledger, header, rows>>
      BY <1>6 DEF Fail
    <2> QED BY <2>1, EndedRuns
  <1> QED BY <1>1, <1>2, <1>3, <1>4, <1>5, <1>6 DEF Next

-----------------------------------------------------------------------------
(* The theorems. *)

(* The invariant holds in every reachable state. *)
LEMMA SnapshotsSafe == Spec => []SnapshotsInv
  BY SnapshotsInit, SnapshotsNext, PTL DEF Spec

(* Every variable of the jobs' tables and workers keeps to its type. *)
THEOREM SnapshotsTypeCorrect == Spec => []TypeOK
  <1>1. SnapshotsInv => TypeOK
    BY DEF SnapshotsInv
  <1> QED BY <1>1, SnapshotsSafe, PTL

(* The holdings of a daily snapshot were inserted by the last writer of its *)
(* header: replace_daily_snapshot takes the header's row first, which makes *)
(* the runs that write one date take turns.                                 *)
THEOREM OneRunPerSnapshot == Spec => []SnapshotsAreOfOneRun
  <1>1. SnapshotsInv => SnapshotsAreOfOneRun
    BY DEF SnapshotsInv, TablesOK
  <1> QED BY <1>1, SnapshotsSafe, PTL

(* Whatever rebuilds run at once, the holdings of the one whose summary     *)
(* replace_read_models committed last are all in rm_portfolio_holdings.     *)
THEOREM LastRebuildIsWhole == Spec => []LastRebuildIsThere
  <1>1. SnapshotsInv => LastRebuildIsThere
    BY DEF SnapshotsInv, TablesOK
  <1> QED BY <1>1, SnapshotsSafe, PTL

(* A snapshot that the backfill job wrote last is the ledger as of its      *)
(* date, as list_posted_operations_through_date promises.                   *)
THEOREM BackfilledAsOfItsDate == Spec => []BackfillIsAsOf
  <1>1. SnapshotsInv => BackfillIsAsOf
    BY DEF SnapshotsInv, TablesOK
  <1> QED BY <1>1, SnapshotsSafe, PTL

(* A backfill that ended well has left a snapshot of every date of its      *)
(* range from the portfolio's creation on, and there is none before it.     *)
THEOREM BackfilledRange == Spec => []BackfillCoversItsRange
  <1>1. SnapshotsInv => BackfillCoversItsRange
    <2> SUFFICES ASSUME SnapshotsInv PROVE BackfillCoversItsRange
      OBVIOUS
    <2>1. ASSUME NEW j \in Backfills, job[j].outcome = "done",
                 NEW d \in job[j].first .. job[j].last, d >= CreatedOn
          PROVE  header[d] # Nothing
      <3>1. BackfillOK(job[j])
        BY WorkerFacts DEF Jobs, JobOK
      <3>2. {job[j].first, job[j].last} \subseteq Days /\ Covered(job[j].first, job[j].last)
        BY <2>1, <3>1 DEF BackfillOK
      <3>3. d \in Days /\ job[j].first <= d /\ d <= job[j].last /\ CreatedOn <= d
        BY <2>1, <3>2, DailySnapshotsAssumptions DEF Days
      <3> QED BY <3>2, <3>3 DEF Covered
    <2> QED BY <2>1 DEF SnapshotsInv, TablesOK, BackfillCoversItsRange
  <1> QED BY <1>1, SnapshotsSafe, PTL

-----------------------------------------------------------------------------
(* Who waits for whom. *)

(* Only a worker that is inserting, or is about to write the summary, has   *)
(* rows and keys that others may need.                                      *)
GrabsInv ==
    \A j \in Jobs :
        (job[j].inserted # {} \/ job[j].deleted # {}) =>
            job[j].pc = "insert" \/ (job[j].pc = "header" /\ job[j].target = Current)

Grabs(x) ==
    (x.inserted # {} \/ x.deleted # {}) =>
        x.pc = "insert" \/ (x.pc = "header" /\ x.target = Current)

LEMMA GrabsStep ==
    ASSUME SnapshotsInv, GrabsInv, NEW j \in Jobs, NEW x, Becomes(j, x), Grabs(x)
    PROVE  GrabsInv'
  <1>1. job \in [Jobs -> Job] /\ job' = [job EXCEPT ![j] = x]
    BY DEF SnapshotsInv, TypeOK, Becomes
  <1>2. \A k \in Jobs : job'[k] = IF k = j THEN x ELSE job[k]
    BY <1>1
  <1> QED BY <1>2 DEF GrabsInv, Grabs

LEMMA GrabsEnds ==
    ASSUME SnapshotsInv, GrabsInv, NEW j \in Jobs, NEW outcome, Ends(j, outcome)
    PROVE  GrabsInv'
  <1>1. PICK last : Becomes(j, Idle(job[j].run, last))
    BY DEF Ends
  <1>2. Grabs(Idle(job[j].run, last))
    BY DEF Grabs, Idle
  <1> QED BY <1>1, <1>2, GrabsStep

(* A worker that begins a replacement has nothing yet.                      *)
LEMMA GrabsReplacing ==
    ASSUME SnapshotsInv, GrabsInv, NEW j \in Jobs, NEW t, NEW ops, NEW new,
           job[j].pc \in {"ledger", "holdings", "date"},
           Becomes(j, Replacing(j, t, ops, new))
    PROVE  GrabsInv'
  <1>1. job[j] \in Job /\ job[j].inserted = {} /\ job[j].deleted = {}
    BY WorkerFacts DEF GrabsInv
  <1>2. Grabs(Replacing(j, t, ops, new))
    BY <1>1 DEF Grabs, Replacing, Job
  <1> QED BY <1>2, GrabsStep

LEMMA GrabsNextDate ==
    ASSUME NEW j \in Jobs
    PROVE  Grabs(NextDate(j))
  BY DEF Grabs, NextDate, Idle

LEMMA GrabsCommit ==
    ASSUME SnapshotsInv, GrabsInv, NEW j \in Jobs, Commit(j)
    PROVE  GrabsInv'
  <1>1. CASE j \in Backfills
    <2>1. Becomes(j, NextDate(j))
      BY <1>1 DEF Commit
    <2> QED BY <2>1, GrabsNextDate, GrabsStep
  <1>2. CASE j \notin Backfills /\ job[j].target = Current
    <2> DEFINE x == [Idle(job[j].run, "none") EXCEPT !.pc = "summary", !.date = job[j].date]
    <2>1. Becomes(j, x)
      BY <1>2 DEF Commit
    <2>2. Grabs(x)
      BY DEF Grabs, Idle
    <2> HIDE DEF x
    <2> QED BY <2>1, <2>2, GrabsStep
  <1>3. CASE j \notin Backfills /\ job[j].target # Current
    <2>1. Becomes(j, Idle(job[j].run, "none"))
      BY <1>3 DEF Commit
    <2>2. Grabs(Idle(job[j].run, "none"))
      BY DEF Grabs, Idle
    <2> QED BY <2>1, <2>2, GrabsStep
  <1> QED BY <1>1, <1>2, <1>3

LEMMA GrabsReplace ==
    ASSUME SnapshotsInv, GrabsInv, NEW j \in Jobs, Replace(j)
    PROVE  GrabsInv'
  <1>0. job[j] \in Job
    BY WorkerFacts
  <1>1. CASE UpsertHeader(j)
    <2>1. CASE HeaderFirst(job[j].target)
      <3>1. Becomes(j, [job[j] EXCEPT !.pc = "delete", !.locks = TRUE])
        BY <1>1, <2>1 DEF UpsertHeader
      <3>2. job[j].inserted = {} /\ job[j].deleted = {}
        BY <1>1, <2>1 DEF UpsertHeader, At, HeaderFirst, GrabsInv
      <3>3. Grabs([job[j] EXCEPT !.pc = "delete", !.locks = TRUE])
        BY <1>0, <3>2 DEF Grabs, Job
      <3> QED BY <3>1, <3>3, GrabsStep
    <2>2. CASE ~HeaderFirst(job[j].target)
      BY <1>1, <2>2, GrabsCommit DEF UpsertHeader
    <2> QED BY <2>1, <2>2
  <1>2. CASE BeginDelete(j)
    <2> DEFINE x == [job[j] EXCEPT !.pc = "deleting", !.seen = rows[job[j].target]]
    <2>1. Becomes(j, x) /\ job[j].inserted = {} /\ job[j].deleted = {}
      BY <1>2 DEF BeginDelete, At, GrabsInv
    <2>2. Grabs(x)
      BY <1>0, <2>1 DEF Grabs, Job
    <2> HIDE DEF x
    <2> QED BY <2>1, <2>2, GrabsStep
  <1>3. CASE EndDelete(j)
    <2> DEFINE gone == job[j].seen \cap rows[job[j].target]
               x == [job[j] EXCEPT !.pc = "insert", !.seen = {}, !.deleted = gone]
    <2>1. Becomes(j, x)
      BY <1>3 DEF EndDelete
    <2> HIDE DEF gone
    <2>2. Grabs(x)
      BY <1>0 DEF Grabs, Job
    <2> HIDE DEF x
    <2> QED BY <2>1, <2>2, GrabsStep
  <1>4. CASE InsertHolding(j)
    <2>1. PICK r \in job[j].toWrite :
             \/ Ends(j, "failed")
             \/ Becomes(j, [job[j] EXCEPT !.inserted = @ \cup {r}, !.toWrite = @ \ {r}])
      BY <1>4 DEF InsertHolding
    <2>2. CASE Ends(j, "failed")
      BY <2>2, GrabsEnds
    <2>3. CASE Becomes(j, [job[j] EXCEPT !.inserted = @ \cup {r}, !.toWrite = @ \ {r}])
      <3> DEFINE x == [job[j] EXCEPT !.inserted = @ \cup {r}, !.toWrite = @ \ {r}]
      <3>1. x.pc = "insert"
        BY <1>0, <1>4 DEF InsertHolding, At, Job
      <3> HIDE DEF x
      <3>2. Grabs(x)
        BY <3>1 DEF Grabs
      <3>3. Becomes(j, x)
        BY <2>3 DEF x
      <3> QED BY <3>2, <3>3, GrabsStep
    <2> QED BY <2>1, <2>2, <2>3
  <1>5. CASE EndInserts(j)
    <2>1. CASE HeaderFirst(job[j].target)
      BY <1>5, <2>1, GrabsCommit DEF EndInserts
    <2>2. CASE ~HeaderFirst(job[j].target)
      <3>1. Becomes(j, [job[j] EXCEPT !.pc = "header"])
        BY <1>5, <2>2 DEF EndInserts
      <3>2. Grabs([job[j] EXCEPT !.pc = "header"])
        BY <1>0, <2>2 DEF Grabs, Job, HeaderFirst
      <3> QED BY <3>1, <3>2, GrabsStep
    <2> QED BY <2>1, <2>2
  <1>6. CASE BreakDeadlock(j)
    BY <1>6, GrabsEnds DEF BreakDeadlock
  <1> QED BY <1>1, <1>2, <1>3, <1>4, <1>5, <1>6 DEF Replace

LEMMA GrabsNext == SnapshotsInv /\ GrabsInv /\ [Next]_vars => GrabsInv'
  <1> SUFFICES ASSUME SnapshotsInv, GrabsInv, [Next]_vars PROVE GrabsInv'
    OBVIOUS
  <1>1. CASE UNCHANGED job
    BY <1>1 DEF GrabsInv
  <1>2. ASSUME NEW j \in Refreshers, BeginRefresh(j) PROVE GrabsInv'
    <2> DEFINE x == [Idle(job[j].run + 1, "none") EXCEPT !.pc = "ledger", !.date = today]
    <2>1. Becomes(j, x) /\ j \in Jobs
      BY <1>2 DEF BeginRefresh, Jobs
    <2>2. Grabs(x)
      BY DEF Grabs, Idle
    <2> HIDE DEF x
    <2> QED BY <2>1, <2>2, GrabsStep
  <1>3. ASSUME NEW j \in Refreshers, ReadLedger(j) \/ ReadSummary(j) \/ ReadHoldings(j)
        PROVE  GrabsInv'
    <2>1. j \in Jobs /\ job[j] \in Job
      BY WorkerFacts DEF Jobs
    <2>2. CASE ReadLedger(j)
      BY <2>1, <2>2, GrabsReplacing, GrabsEnds DEF ReadLedger, At
    <2>3. CASE ReadSummary(j)
      <3> DEFINE x == [job[j] EXCEPT !.pc = "holdings", !.ops = header[Current].ops]
      <3>1. Ends(j, "done") \/ Becomes(j, x)
        BY <2>3 DEF ReadSummary
      <3>2. job[j].inserted = {} /\ job[j].deleted = {}
        BY <2>1, <2>3 DEF ReadSummary, At, GrabsInv
      <3>3. Grabs(x)
        BY <2>1, <3>2 DEF Grabs, Job
      <3> HIDE DEF x
      <3> QED BY <2>1, <3>1, <3>3, GrabsStep, GrabsEnds
    <2>4. CASE ReadHoldings(j)
      BY <2>1, <2>4, GrabsReplacing DEF ReadHoldings, At
    <2> QED BY <1>3, <2>2, <2>3, <2>4
  <1>4. ASSUME NEW j \in Backfills, BeginBackfill(j) PROVE GrabsInv'
    <2>1. PICK from \in Days, to \in Days :
             Becomes(j, [Idle(job[j].run + 1, "none") EXCEPT
                          !.pc = "date", !.date = from, !.first = from, !.last = to,
                          !.base = ledger])
      BY <1>4 DEF BeginBackfill
    <2> DEFINE x == [Idle(job[j].run + 1, "none") EXCEPT
                      !.pc = "date", !.date = from, !.first = from, !.last = to, !.base = ledger]
    <2>2. Becomes(j, x) /\ j \in Jobs
      BY <2>1 DEF Jobs
    <2>3. Grabs(x)
      BY DEF Grabs, Idle
    <2> HIDE DEF x
    <2> QED BY <2>2, <2>3, GrabsStep
  <1>5. ASSUME NEW j \in Backfills, SkipDate(j) \/ ReplayDate(j) PROVE GrabsInv'
    <2>1. j \in Jobs
      BY DEF Jobs
    <2>2. CASE SkipDate(j)
      BY <2>1, <2>2, GrabsNextDate, GrabsStep DEF SkipDate
    <2>3. CASE ReplayDate(j)
      BY <2>1, <2>3, GrabsReplacing, GrabsEnds DEF ReplayDate, At
    <2> QED BY <1>5, <2>2, <2>3
  <1>6. ASSUME NEW j \in Jobs, Replace(j) \/ Fail(j) PROVE GrabsInv'
    BY <1>6, GrabsReplace, GrabsEnds DEF Fail
  <1>7. CASE UNCHANGED vars
    BY <1>1, <1>7 DEF vars
  <1>8. CASE Midnight \/ \E o \in Operations : Post(o)
    BY <1>1, <1>8 DEF Midnight, Post
  <1> QED BY <1>2, <1>3, <1>4, <1>5, <1>6, <1>7, <1>8 DEF Next, Refresh, Backfill, Jobs

LEMMA GrabsSafe == Spec => [](SnapshotsInv /\ GrabsInv)
  <1>1. Init => GrabsInv
    BY DEF Init, GrabsInv, Idle
  <1> QED BY <1>1, GrabsNext, SnapshotsInit, SnapshotsNext, PTL DEF Spec

(* A worker waits for a rival that has locked a header, for one that has    *)
(* deleted or for one that has inserted rows.                               *)
LEMMA WaitFacts ==
    ASSUME SnapshotsInv, GrabsInv, NEW j \in Jobs, NEW k \in WaitsFor(j)
    PROVE  /\ k \in Jobs /\ k # j /\ job[k].target = job[j].target
           /\ job[j].pc \in {"header", "deleting", "insert"}
           /\ job[j].pc = "header" => job[k].locks
           /\ job[j].pc = "deleting" => job[k].deleted # {}
           /\ job[j].pc = "insert" => job[k].inserted # {} \/ job[k].deleted # {}
           /\ job[k].pc \in Writing
  <1>1. CASE At(j, "header")
    <2>1. k \in HeaderHolders(j)
      BY <1>1 DEF WaitsFor, At
    <2>2. k \in Jobs /\ k # j /\ job[k].target = job[j].target /\ job[k].locks
      BY <2>1 DEF HeaderHolders, Rivals
    <2>3. job[k].pc \in Writing
      BY <2>2, WorkerFacts DEF JobOK, Holds
    <2> QED BY <1>1, <2>2, <2>3 DEF At
  <1>2. CASE At(j, "deleting")
    <2>1. k \in Deleters(j)
      BY <1>2 DEF WaitsFor, At
    <2>2. k \in Jobs /\ k # j /\ job[k].target = job[j].target /\ job[k].deleted # {}
      BY <2>1 DEF Deleters, Rivals
    <2> QED BY <1>2, <2>2 DEF At, GrabsInv, Writing
  <1>3. CASE At(j, "insert")
    <2>1. PICK r \in job[j].toWrite : k \in KeyHolders(j, r)
      BY <1>3 DEF WaitsFor, At
    <2>2. /\ k \in Jobs /\ k # j /\ job[k].target = job[j].target
          /\ Conflicts(r, job[k].inserted \cup job[k].deleted)
      BY <2>1 DEF KeyHolders, Rivals
    <2>3. job[k].inserted # {} \/ job[k].deleted # {}
      BY <2>2 DEF Conflicts
    <2> QED BY <1>3, <2>2, <2>3 DEF At, GrabsInv, Writing
  <1>4. At(j, "header") \/ At(j, "deleting") \/ At(j, "insert")
    BY DEF WaitsFor
  <1> QED BY <1>1, <1>2, <1>3, <1>4

(* Holders of one day's snapshot are one.                                   *)
LEMMA OneHoldsTheDay ==
    ASSUME SnapshotsInv, GrabsInv, NEW j \in Jobs, NEW k \in Jobs,
           job[j].target = job[k].target, job[j].target # Current,
           job[j].pc \in Writing \ {"header"},
           job[k].locks \/ job[k].inserted # {} \/ job[k].deleted # {}
    PROVE  j = k
  <1>1. job[j].pc \in Writing /\ job[j].target \in Days
    BY ReplacingFacts
  <1>2. job[j].locks
    BY <1>1, WorkerFacts DEF JobOK, Holds
  <1>3. CASE ~job[k].locks
    <2>1. job[k].pc = "insert"
      BY <1>3 DEF GrabsInv
    <2>2. job[k].locks
      BY <1>1, <2>1, WorkerFacts DEF JobOK, Holds, Writing
    <2> QED BY <1>3, <2>2
  <1>4. CASE job[k].locks
    BY <1>2, <1>4 DEF SnapshotsInv, OneHolder
  <1> QED BY <1>3, <1>4

-----------------------------------------------------------------------------
(* Circles. *)

(* Each of a circle is waited for by another of it.                         *)
LEMMA WaitedFor ==
    ASSUME NEW circle \in SUBSET Jobs, Stuck(circle),
           \A smaller \in SUBSET circle : Stuck(smaller) => smaller = circle,
           \A j \in Jobs : j \notin WaitsFor(j),
           NEW k \in circle
    PROVE  \E m \in circle : k \in WaitsFor(m)
  <1> SUFFICES ASSUME \A m \in circle : k \notin WaitsFor(m) PROVE FALSE
    OBVIOUS
  <1> DEFINE others == circle \ {k}
  <1>1. PICK m \in WaitsFor(k) : m \in circle
    BY DEF Stuck
  <1>2. m \in others
    BY <1>1
  <1>3. \A n \in others : WaitsFor(n) \cap others # {}
    BY DEF Stuck
  <1>4. Stuck(others)
    BY <1>2, <1>3 DEF Stuck
  <1> QED BY <1>4

Below == {p \in Nat \X Nat : p[1] < p[2]}

LEMMA LeastNumber ==
    ASSUME NEW numbers \in SUBSET Nat, numbers # {}
    PROVE  \E n \in numbers : \A m \in numbers : n <= m
  <1>1. IsWellFoundedOn(Below, Nat)
    BY NatLessThanWellFounded DEF OpToRel, Below
  <1>2. PICK n \in numbers : \A m \in numbers : ~(<<m, n>> \in Below)
    BY <1>1, WFMin
  <1>3. ASSUME NEW m \in numbers, m < n PROVE FALSE
    <2>1. <<m, n>> \in Nat \X Nat /\ <<m, n>>[1] < <<m, n>>[2]
      BY <1>3
    <2> QED BY <1>2, <2>1 DEF Below
  <1> QED BY <1>3

(* Workers that all wait for each other have a circle among them. *)
LEMMA CircleExists ==
    ASSUME NEW workers \in SUBSET Jobs, Stuck(workers)
    PROVE  \E j \in workers : Deadlocked(j)
  <1> DEFINE stuck == {s \in SUBSET workers : Stuck(s)}
             sizes == {Cardinality(s) : s \in stuck}
  <1>1. IsFiniteSet(workers)
    BY DailySnapshotsAssumptions, FS_Subset
  <1>2. \A s \in stuck : IsFiniteSet(s) /\ Cardinality(s) \in Nat
    BY <1>1, FS_Subset, FS_CardinalityType
  <1>3. sizes \in SUBSET Nat /\ sizes # {}
    BY <1>2
  <1>4. PICK n \in sizes : \A m \in sizes : n <= m
    BY <1>3, LeastNumber
  <1>5. PICK circle \in stuck : n = Cardinality(circle)
    OBVIOUS
  <1>6. ASSUME NEW smaller \in SUBSET circle, Stuck(smaller) PROVE smaller = circle
    <2>1. smaller \in stuck
      BY <1>6
    <2>2. n <= Cardinality(smaller)
      BY <1>4, <2>1
    <2>3. Cardinality(smaller) <= Cardinality(circle) /\ (Cardinality(smaller) = Cardinality(circle) => smaller = circle)
      BY <1>2, FS_Subset
    <2> QED BY <1>2, <1>5, <2>1, <2>2, <2>3
  <1>7. PICK j : j \in circle
    BY <1>5 DEF Stuck
  <1> QED BY <1>5, <1>6, <1>7 DEF Deadlocked

-----------------------------------------------------------------------------
(* The theorems about waiting. *)

(* Nothing that the next statement of a run needs is held by another.       *)
Free(j) ==
    /\ ~At(j, "idle")
    /\ At(j, "header") => HeaderHolders(j) = {}
    /\ At(j, "deleting") => Deleters(j) = {}
    /\ At(j, "insert") /\ job[j].toWrite # {} =>
          \E r \in job[j].toWrite : KeyHolders(j, r) = {}

(* While runs are under way, one of them has nothing to wait for or is one  *)
(* that the deadlock detector may end.                                      *)
SomeRunIsFree == (\E j \in Jobs : ~At(j, "idle")) => \E j \in Jobs : Free(j) \/ Deadlocked(j)

(* Whatever refreshes and backfills run at once, one of them waits for      *)
(* nobody, or is in a circle of transactions that PostgreSQL breaks: no run *)
(* waits for one that has ended or failed.                                  *)
THEOREM NobodyWaitsForEver == Spec => []SomeRunIsFree
  <1>1. SnapshotsInv /\ GrabsInv => SomeRunIsFree
    <2> SUFFICES ASSUME SnapshotsInv, GrabsInv, \E j \in Jobs : ~At(j, "idle"),
                        \A j \in Jobs : ~Free(j)
                 PROVE  \E j \in Jobs : Deadlocked(j)
      BY DEF SomeRunIsFree
    <2> DEFINE workers == {j \in Jobs : ~At(j, "idle")}
    <2>1. ASSUME NEW j \in workers PROVE WaitsFor(j) \cap workers # {}
      <3>1. PICK k : k \in WaitsFor(j)
        BY <2>1 DEF Free, WaitsFor, At
      <3>2. k \in Jobs /\ job[k].pc \in Writing
        BY <2>1, <3>1, WaitFacts
      <3> QED BY <3>1, <3>2 DEF At, Writing
    <2>2. Stuck(workers)
      BY <2>1 DEF Stuck
    <2> QED BY <2>2, CircleExists
  <1> QED BY <1>1, GrabsSafe, PTL

(* Whoever is in a circle of waiting transactions is a refresh that inserts *)
(* holdings of the current read models.                                     *)
OnlyInsertionsDeadlock ==
    \A j \in Jobs :
        Deadlocked(j) => j \in Refreshers /\ job[j].target = Current /\ At(j, "insert")

(* Only rebuilds of the current read models can deadlock, on the order in   *)
(* which they insert holdings.  Writers of daily snapshots, backfills among *)
(* them, never do, since they take the header's row before anything else.   *)
THEOREM OnlyRebuildsDeadlock == Spec => []OnlyInsertionsDeadlock
  <1>1. SnapshotsInv /\ GrabsInv => OnlyInsertionsDeadlock
    <2> SUFFICES ASSUME SnapshotsInv, GrabsInv, NEW j \in Jobs, Deadlocked(j)
                 PROVE  j \in Refreshers /\ job[j].target = Current /\ At(j, "insert")
      BY DEF OnlyInsertionsDeadlock
    <2>1. PICK circle \in SUBSET Jobs :
             /\ j \in circle /\ Stuck(circle)
             /\ \A smaller \in SUBSET circle : Stuck(smaller) => smaller = circle
      BY DEF Deadlocked
    <2>2. \A k \in Jobs : k \notin WaitsFor(k)
      BY WaitFacts
    <2>3. PICK n \in WaitsFor(j) : n \in circle
      BY <2>1 DEF Stuck
    <2>4. PICK m \in circle : j \in WaitsFor(m)
      BY <2>1, <2>2, WaitedFor
    <2>5. /\ n \in Jobs /\ n # j /\ job[n].target = job[j].target
          /\ job[j].pc \in {"header", "deleting", "insert"}
          /\ job[j].pc = "header" => job[n].locks
          /\ job[j].pc # "header" => job[n].inserted # {} \/ job[n].deleted # {}
      BY <2>3, WaitFacts
    <2>6. /\ m \in Jobs /\ m # j /\ job[m].target = job[j].target
          /\ job[m].pc \in {"header", "deleting", "insert"}
          /\ job[m].pc = "header" => job[j].locks
          /\ job[m].pc = "deleting" => job[j].deleted # {}
          /\ job[m].pc # "header" => job[j].inserted # {} \/ job[j].deleted # {}
      BY <2>1, <2>4, WaitFacts
    <2>7. job[j].target = Current
      <3> SUFFICES ASSUME job[j].target # Current PROVE FALSE
        OBVIOUS
      <3>1. CASE job[m].pc = "header"
        <4>1. job[j].pc \in Writing \ {"header"}
          BY <2>6, <3>1, WorkerFacts DEF JobOK, Holds
        <4> QED BY <2>5, <4>1, OneHoldsTheDay
      <3>2. CASE job[m].pc # "header"
        BY <2>6, <3>2, OneHoldsTheDay DEF Writing
      <3> QED BY <3>1, <3>2
    <2>8. ~job[j].locks /\ ~job[n].locks
      BY <2>5, <2>7, WorkerFacts DEF JobOK, Holds, Days, Current
    <2>9. At(j, "insert")
      BY <2>5, <2>6, <2>8 DEF At, GrabsInv
    <2>10. j \notin Backfills
      <3> SUFFICES ASSUME j \in Backfills PROVE FALSE
        OBVIOUS
      <3>1. BackfillOK(job[j]) /\ job[j].pc \in Writing
        BY <2>9, WorkerFacts DEF JobOK, At, Writing
      <3>2. job[j].target \in Days
        BY <3>1 DEF BackfillOK, Writing
      <3> QED BY <2>7, <3>2 DEF Days, Current
    <2> QED BY <2>7, <2>9, <2>10 DEF Jobs
  <1> QED BY <1>1, GrabsSafe, PTL

-----------------------------------------------------------------------------
(* What several rebuilds at once may leave behind. *)

(* No target ever has two rows for one asset: the waits of DELETE and       *)
(* INSERT, as they are modelled, keep the unique keys (portfolio and asset, *)
(* snapshot and asset) of the two tables of holdings.                       *)
OneRowPerAsset ==
    \A t \in Targets : \A r, s \in rows[t] : r.asset = s.asset => r = s

(* What the last rebuild holds is shown as it wrote it: the rows left over  *)
(* from other rebuilds are of assets that it does not hold.                 *)
HeldIsAsWritten ==
    header[Current] # Nothing =>
        \A r \in rows[Current] :
            r \in HoldingRows(header[Current].ops, header[Current].by)
            \/ r.asset \notin Held(header[Current].ops)

Apart(some, others) == \A r \in some : \A s \in others : r.asset # s.asset
Distinct(some) == \A r, s \in some : r.asset = s.asset => r = s

(* A worker's rows have keys of their own, which no row that it leaves      *)
(* there has, and none that a rival has inserted or is deleting.            *)
Clear(x) ==
    /\ Distinct(x.inserted \cup x.toWrite)
    /\ Apart(x.inserted, rows[x.target] \ x.deleted)
Unrelated(x, y) ==
    x.target = y.target =>
        Apart(x.inserted, y.inserted \cup y.deleted) /\ Apart(y.inserted, x.deleted)

KeysInv ==
    /\ OneRowPerAsset
    /\ \A j \in Jobs : Clear(job[j])
    /\ \A j, k \in Jobs : j # k => Unrelated(job[j], job[k])

LEMMA KeysStep ==
    ASSUME SnapshotsInv, KeysInv, NEW j \in Jobs, NEW x, Becomes(j, x), UNCHANGED rows,
           Clear(x), \A k \in Jobs \ {j} : Unrelated(x, job[k])
    PROVE  KeysInv'
  <1>1. job \in [Jobs -> Job] /\ job' = [job EXCEPT ![j] = x]
    BY DEF SnapshotsInv, TypeOK, Becomes
  <1>2. \A k \in Jobs : job'[k] = IF k = j THEN x ELSE job[k]
    BY <1>1
  <1>3. \A k \in Jobs : Clear(job'[k])
    BY <1>2 DEF KeysInv
  <1>4. \A k, l \in Jobs : k # l => Unrelated(job'[k], job'[l])
    <2> TAKE k, l \in Jobs
    <2> HAVE k # l
    <2>1. CASE k = j
      BY <1>2, <2>1
    <2>2. CASE l = j
      <3>1. Unrelated(x, job[k])
        BY <2>2
      <3>2. Unrelated(job[k], x)
        BY <3>1 DEF Unrelated, Apart
      <3> QED BY <1>2, <2>2, <3>2
    <2>3. CASE k # j /\ l # j
      BY <1>2, <2>3 DEF KeysInv
    <2> QED BY <2>1, <2>2, <2>3
  <1>5. \A k \in Jobs : Clear(job[k])'
    BY <1>3 DEF Clear
  <1> QED BY <1>4, <1>5 DEF KeysInv, OneRowPerAsset, Unrelated

(* A worker that has inserted and deleted nothing. *)
LEMMA KeysFresh ==
    ASSUME SnapshotsInv, KeysInv, NEW j \in Jobs, NEW x, Becomes(j, x), UNCHANGED rows,
           x.inserted = {}, x.deleted = {}, Distinct(x.toWrite)
    PROVE  KeysInv'
  <1>1. Clear(x)
    BY DEF Clear, Apart
  <1>2. \A k \in Jobs \ {j} : Unrelated(x, job[k])
    BY DEF Unrelated, Apart
  <1> QED BY <1>1, <1>2, KeysStep

LEMMA KeysEnds ==
    ASSUME SnapshotsInv, KeysInv, NEW j \in Jobs, NEW outcome, Ends(j, outcome),
           UNCHANGED rows
    PROVE  KeysInv'
  <1>1. PICK last : Becomes(j, Idle(job[j].run, last))
    BY DEF Ends
  <1> DEFINE x == Idle(job[j].run, last)
  <1>2. x.inserted = {} /\ x.deleted = {} /\ x.toWrite = {}
    BY DEF Idle
  <1> HIDE DEF x
  <1>3. Distinct(x.toWrite)
    BY <1>2 DEF Distinct
  <1> QED BY <1>1, <1>2, <1>3, KeysFresh DEF x

(* A worker that goes on with what it has. *)
LEMMA KeysKept ==
    ASSUME SnapshotsInv, KeysInv, NEW j \in Jobs, NEW x, Becomes(j, x), UNCHANGED rows,
           x.target = job[j].target, x.inserted = job[j].inserted,
           x.deleted = job[j].deleted, x.toWrite = job[j].toWrite
    PROVE  KeysInv'
  <1>1. Clear(x)
    BY DEF Clear, KeysInv
  <1>2. \A k \in Jobs \ {j} : Unrelated(x, job[k])
    BY DEF Unrelated, KeysInv
  <1> QED BY <1>1, <1>2, KeysStep

LEMMA KeysReplacing ==
    ASSUME SnapshotsInv, GrabsInv, KeysInv, NEW j \in Jobs, NEW t, NEW ops, NEW new,
           job[j].pc \in {"ledger", "holdings", "date"}, Distinct(new),
           Becomes(j, Replacing(j, t, ops, new)), UNCHANGED rows
    PROVE  KeysInv'
  <1> DEFINE x == Replacing(j, t, ops, new)
  <1>1. job[j] \in Job /\ job[j].inserted = {} /\ job[j].deleted = {}
    BY WorkerFacts DEF GrabsInv
  <1>2. x.inserted = {} /\ x.deleted = {} /\ x.toWrite = new
    BY <1>1 DEF Replacing, Job
  <1>3. Becomes(j, x)
    OBVIOUS
  <1> HIDE DEF x
  <1> QED BY <1>2, <1>3, KeysFresh

LEMMA ReplayedDistinct ==
    ASSUME NEW ops, NEW author
    PROVE  Distinct(HoldingRows(ops, author))
  BY DEF Distinct, HoldingRows

(* A DELETE that waited for every rival deleting what it saw leaves no row  *)
(* that a rival inserted a key of.                                          *)
LEMMA KeysEndDelete ==
    ASSUME SnapshotsInv, GrabsInv, KeysInv, NEW j \in Jobs, EndDelete(j)
    PROVE  KeysInv'
  <1> DEFINE gone == job[j].seen \cap rows[job[j].target]
             x == [job[j] EXCEPT !.pc = "insert", !.seen = {}, !.deleted = gone]
  <1>1. /\ job[j] \in Job /\ job[j].pc = "deleting" /\ Deleters(j) = {}
        /\ Becomes(j, x) /\ UNCHANGED rows
    BY WorkerFacts DEF EndDelete, At
  <1>2. job[j].inserted = {}
    BY <1>1 DEF GrabsInv
  <1>3. /\ x.target = job[j].target /\ x.inserted = {} /\ x.deleted = gone
        /\ x.toWrite = job[j].toWrite
    BY <1>1, <1>2 DEF Job
  <1> HIDE DEF x
  <1>4. Clear(x)
    BY <1>2, <1>3 DEF Clear, Apart, KeysInv
  <1>5. ASSUME NEW k \in Jobs \ {j}, job[k].target = x.target
        PROVE  Apart(job[k].inserted, gone)
    <2>1. k \in Rivals(j)
      BY <1>3, <1>5 DEF Rivals
    <2>2. job[k].deleted \cap job[j].seen = {}
      BY <1>1, <2>1 DEF Deleters
    <2>3. gone \subseteq rows[job[k].target] \ job[k].deleted
      BY <1>3, <1>5, <2>2
    <2>4. Apart(job[k].inserted, rows[job[k].target] \ job[k].deleted)
      BY DEF KeysInv, Clear
    <2> QED BY <2>3, <2>4 DEF Apart
  <1>6. \A k \in Jobs \ {j} : Unrelated(x, job[k])
    BY <1>3, <1>5 DEF Unrelated, Apart
  <1> QED BY <1>1, <1>4, <1>6, KeysStep

LEMMA KeysInsert ==
    ASSUME SnapshotsInv, KeysInv, NEW j \in Jobs, InsertHolding(j)
    PROVE  KeysInv'
  <1>1. PICK r \in job[j].toWrite :
           /\ KeyHolders(j, r) = {}
           /\ IF Conflicts(r, rows[job[j].target] \ job[j].deleted)
              THEN Ends(j, "failed")
              ELSE Becomes(j, [job[j] EXCEPT !.inserted = @ \cup {r}, !.toWrite = @ \ {r}])
    BY DEF InsertHolding
  <1>2. UNCHANGED rows /\ job[j] \in Job
    BY WorkerFacts DEF InsertHolding
  <1>3. CASE Conflicts(r, rows[job[j].target] \ job[j].deleted)
    BY <1>1, <1>2, <1>3, KeysEnds
  <1>4. CASE ~Conflicts(r, rows[job[j].target] \ job[j].deleted)
    <2> DEFINE x == [job[j] EXCEPT !.inserted = @ \cup {r}, !.toWrite = @ \ {r}]
    <2>1. Becomes(j, x)
      BY <1>1, <1>4
    <2>2. /\ x.target = job[j].target /\ x.deleted = job[j].deleted
          /\ x.inserted = job[j].inserted \cup {r} /\ x.toWrite = job[j].toWrite \ {r}
      BY <1>2 DEF Job
    <2> HIDE DEF x
    <2>3. x.inserted \cup x.toWrite = job[j].inserted \cup job[j].toWrite
      BY <2>2
    <2>4. Apart({r}, rows[x.target] \ x.deleted)
      BY <1>4, <2>2 DEF Conflicts, Apart
    <2>5. Clear(x)
      BY <2>2, <2>3, <2>4 DEF Clear, Apart, KeysInv
    <2>6. ASSUME NEW k \in Jobs \ {j}, job[k].target = x.target
          PROVE  Apart({r}, job[k].inserted \cup job[k].deleted)
      <3>1. k \in Rivals(j)
        BY <2>2, <2>6 DEF Rivals
      <3>2. ~Conflicts(r, job[k].inserted \cup job[k].deleted)
        BY <1>1, <3>1 DEF KeyHolders
      <3> QED BY <3>2 DEF Conflicts, Apart
    <2>7. \A k \in Jobs \ {j} : Unrelated(job[j], job[k])
      BY DEF KeysInv
    <2>8. \A k \in Jobs \ {j} : Unrelated(x, job[k])
      BY <2>2, <2>6, <2>7 DEF Unrelated, Apart
    <2> QED BY <1>2, <2>1, <2>5, <2>8, KeysStep
  <1> QED BY <1>3, <1>4

LEMMA KeysCommit ==
    ASSUME SnapshotsInv, KeysInv, NEW j \in Jobs, Commit(j), job[j].pc \in Writing
    PROVE  KeysInv'
  <1> DEFINE t == job[j].target
             new == (rows[t] \ job[j].deleted) \cup job[j].inserted
  <1>1. t \in Targets /\ rows \in [Targets -> SUBSET HoldingRow] /\ job \in [Jobs -> Job]
    BY ReplacingFacts DEF SnapshotsInv, TypeOK
  <1>2. rows' = [rows EXCEPT ![t] = new]
    BY DEF Commit
  <1>3. PICK x : Becomes(j, x) /\ x.inserted = {} /\ x.deleted = {} /\ x.toWrite = {}
    <2>1. /\ NextDate(j).inserted = {} /\ NextDate(j).deleted = {} /\ NextDate(j).toWrite = {}
      BY DEF NextDate, Idle
    <2> DEFINE y == [Idle(job[j].run, "none") EXCEPT !.pc = "summary", !.date = job[j].date]
               z == Idle(job[j].run, "none")
    <2>2. y.inserted = {} /\ y.deleted = {} /\ y.toWrite = {}
      BY DEF Idle
    <2>3. z.inserted = {} /\ z.deleted = {} /\ z.toWrite = {}
      BY DEF Idle
    <2>4. Becomes(j, NextDate(j)) \/ Becomes(j, y) \/ Becomes(j, z)
      BY DEF Commit
    <2> HIDE DEF y, z
    <2> QED BY <2>1, <2>2, <2>3, <2>4
  <1>4. \A k \in Jobs : job'[k] = IF k = j THEN x ELSE job[k]
    BY <1>1, <1>3 DEF Becomes
  <1>5. /\ Distinct(job[j].inserted)
        /\ Apart(job[j].inserted, rows[t] \ job[j].deleted)
        /\ Distinct(rows[t])
    BY <1>1 DEF KeysInv, Clear, Distinct, OneRowPerAsset
  <1>6. Distinct(new)
    BY <1>5 DEF Distinct, Apart
  <1> HIDE DEF new
  <1>7. OneRowPerAsset'
    BY <1>1, <1>2, <1>6 DEF OneRowPerAsset, KeysInv, Distinct
  <1>8. ASSUME NEW k \in Jobs PROVE Clear(job[k])'
    <2>1. CASE k = j
      BY <1>3, <1>4, <2>1 DEF Clear, Apart, Distinct
    <2>2. CASE k # j /\ job[k].target = t
      <3>1. Clear(job[k]) /\ Unrelated(job[k], job[j])
        BY <2>2 DEF KeysInv
      <3>2. Apart(job[k].inserted, rows[t] \ job[k].deleted)
        BY <2>2, <3>1 DEF Clear
      <3>3. Apart(job[k].inserted, job[j].inserted)
        BY <2>2, <3>1 DEF Unrelated, Apart
      <3>4. Apart(job[k].inserted, new \ job[k].deleted)
        BY <3>2, <3>3 DEF Apart, new
      <3>5. rows'[t] = new /\ job'[k] = job[k]
        BY <1>1, <1>2, <1>4, <2>2
      <3> QED BY <2>2, <3>1, <3>4, <3>5 DEF Clear
    <2>3. CASE k # j /\ job[k].target # t
      <3>1. Clear(job[k]) /\ job'[k] = job[k]
        BY <1>4, <2>3 DEF KeysInv
      <3>2. CASE job[k].pc \in Writing
        <4>1. job[k].target \in Targets
          BY <3>2, ReplacingFacts
        <4>2. rows'[job[k].target] = rows[job[k].target]
          BY <1>1, <1>2, <2>3, <4>1
        <4> QED BY <3>1, <4>2 DEF Clear
      <3>3. CASE job[k].pc \notin Writing
        <4>1. job[k].inserted = {}
          BY <3>3, WorkerFacts DEF JobOK
        <4> QED BY <3>1, <4>1 DEF Clear, Apart
      <3> QED BY <3>2, <3>3
    <2> QED BY <2>1, <2>2, <2>3
  <1>9. ASSUME NEW k \in Jobs, NEW l \in Jobs, k # l PROVE Unrelated(job'[k], job'[l])
    <2>1. CASE k # j /\ l # j
      BY <1>4, <1>9, <2>1 DEF KeysInv
    <2>2. CASE k = j
      BY <1>3, <1>4, <1>9, <2>2 DEF Unrelated, Apart, KeysInv
    <2>3. CASE l = j
      BY <1>3, <1>4, <1>9, <2>3 DEF Unrelated, Apart, KeysInv
    <2> QED BY <2>1, <2>2, <2>3
  <1> QED BY <1>7, <1>8, <1>9 DEF KeysInv, Unrelated

LEMMA KeysReplace ==
    ASSUME SnapshotsInv, GrabsInv, KeysInv, NEW j \in Jobs, Replace(j)
    PROVE  KeysInv'
  <1>0. job[j] \in Job
    BY WorkerFacts
  <1>1. CASE UpsertHeader(j)
    <2> DEFINE x == [job[j] EXCEPT !.pc = "delete", !.locks = TRUE]
    <2>1. job[j].pc \in Writing
      BY <1>1 DEF UpsertHeader, At, Writing
    <2>2. (Becomes(j, x) /\ UNCHANGED rows) \/ Commit(j)
      BY <1>1 DEF UpsertHeader
    <2>3. /\ x.target = job[j].target /\ x.inserted = job[j].inserted
          /\ x.deleted = job[j].deleted /\ x.toWrite = job[j].toWrite
      BY <1>0 DEF Job
    <2> HIDE DEF x
    <2> QED BY <2>1, <2>2, <2>3, KeysKept, KeysCommit
  <1>2. CASE BeginDelete(j)
    <2> DEFINE x == [job[j] EXCEPT !.pc = "deleting", !.seen = rows[job[j].target]]
    <2>1. Becomes(j, x) /\ UNCHANGED rows
      BY <1>2 DEF BeginDelete
    <2>2. /\ x.target = job[j].target /\ x.inserted = job[j].inserted
          /\ x.deleted = job[j].deleted /\ x.toWrite = job[j].toWrite
      BY <1>0 DEF Job
    <2> HIDE DEF x
    <2> QED BY <2>1, <2>2, KeysKept
  <1>3. CASE EndInserts(j)
    <2> DEFINE x == [job[j] EXCEPT !.pc = "header"]
    <2>1. job[j].pc \in Writing
      BY <1>3 DEF EndInserts, At, Writing
    <2>2. (Becomes(j, x) /\ UNCHANGED rows) \/ Commit(j)
      BY <1>3 DEF EndInserts
    <2>3. /\ x.target = job[j].target /\ x.inserted = job[j].inserted
          /\ x.deleted = job[j].deleted /\ x.toWrite = job[j].toWrite
      BY <1>0 DEF Job
    <2> HIDE DEF x
    <2> QED BY <2>1, <2>2, <2>3, KeysKept, KeysCommit
  <1>4. CASE BreakDeadlock(j)
    BY <1>4, KeysEnds DEF BreakDeadlock
  <1> QED BY <1>1, <1>2, <1>3, <1>4, KeysEndDelete, KeysInsert DEF Replace

(* A copy of the read models' holdings has no two of one asset either.      *)
LEMMA KeysReadHoldings ==
    ASSUME SnapshotsInv, GrabsInv, KeysInv, NEW j \in Refreshers, ReadHoldings(j)
    PROVE  KeysInv'
  <1> DEFINE stamped(r) == [r EXCEPT !.by = Author(j)]
             new == {stamped(r) : r \in rows[Current]}
  <1>1. j \in Jobs /\ Current \in Targets /\ job[j].pc = "holdings"
    BY DEF Jobs, Targets, ReadHoldings, At
  <1>2. \A r \in rows[Current] : stamped(r).asset = r.asset
    BY <1>1, WorkerFacts DEF HoldingRow
  <1>3. \A r, s \in rows[Current] : r.asset = s.asset => r = s
    BY <1>1 DEF KeysInv, OneRowPerAsset
  <1>4. Becomes(j, Replacing(j, job[j].date, job[j].ops, new)) /\ UNCHANGED rows
    BY DEF ReadHoldings
  <1>5. Distinct(new)
    <2> HIDE DEF stamped
    <2> QED BY <1>2, <1>3 DEF Distinct
  <1> HIDE DEF new
  <1> QED BY <1>1, <1>4, <1>5, KeysReplacing

LEMMA KeysNext == SnapshotsInv /\ GrabsInv /\ KeysInv /\ [Next]_vars => KeysInv'
  <1> SUFFICES ASSUME SnapshotsInv, GrabsInv, KeysInv, [Next]_vars PROVE KeysInv'
    OBVIOUS
  <1>1. CASE UNCHANGED <<rows, job>>
    BY <1>1 DEF KeysInv, OneRowPerAsset, Clear, Unrelated
  <1>2. ASSUME NEW j \in Refreshers, BeginRefresh(j) PROVE KeysInv'
    <2> DEFINE x == [Idle(job[j].run + 1, "none") EXCEPT !.pc = "ledger", !.date = today]
    <2>1. Becomes(j, x) /\ j \in Jobs /\ UNCHANGED rows
      BY <1>2 DEF BeginRefresh, Jobs
    <2>2. x.inserted = {} /\ x.deleted = {} /\ x.toWrite = {}
      BY DEF Idle
    <2> HIDE DEF x
    <2>3. Distinct(x.toWrite)
      BY <2>2 DEF Distinct
    <2> QED BY <2>1, <2>2, <2>3, KeysFresh
  <1>3. ASSUME NEW j \in Refreshers, ReadLedger(j) PROVE KeysInv'
    <2> DEFINE new == HoldingRows(ledger, Author(j))
    <2>1. j \in Jobs /\ UNCHANGED rows /\ job[j].pc = "ledger"
      BY <1>3 DEF Jobs, ReadLedger, At
    <2>2. Ends(j, "failed") \/ Becomes(j, Replacing(j, Current, ledger, new))
      BY <1>3 DEF ReadLedger
    <2>3. Distinct(new)
      BY ReplayedDistinct
    <2> HIDE DEF new
    <2> QED BY <2>1, <2>2, <2>3, KeysEnds, KeysReplacing
  <1>4. ASSUME NEW j \in Refreshers, ReadSummary(j) PROVE KeysInv'
    <2> DEFINE x == [job[j] EXCEPT !.pc = "holdings", !.ops = header[Current].ops]
    <2>1. j \in Jobs /\ job[j] \in Job /\ UNCHANGED rows
      BY <1>4, WorkerFacts DEF Jobs, ReadSummary
    <2>2. Ends(j, "done") \/ Becomes(j, x)
      BY <1>4 DEF ReadSummary
    <2>3. /\ x.target = job[j].target /\ x.inserted = job[j].inserted
          /\ x.deleted = job[j].deleted /\ x.toWrite = job[j].toWrite
      BY <2>1 DEF Job
    <2> HIDE DEF x
    <2> QED BY <2>1, <2>2, <2>3, KeysEnds, KeysKept
  <1>5. ASSUME NEW j \in Backfills, BeginBackfill(j) PROVE KeysInv'
    <2>1. j \in Jobs /\ UNCHANGED rows
      BY <1>5 DEF BeginBackfill, Jobs
    <2>2. PICK from \in Days, to \in Days :
             Becomes(j, [Idle(job[j].run + 1, "none") EXCEPT
                          !.pc = "date", !.date = from, !.first = from, !.last = to,
                          !.base = ledger])
      BY <1>5 DEF BeginBackfill
    <2> DEFINE x == [Idle(job[j].run + 1, "none") EXCEPT
                      !.pc = "date", !.date = from, !.first = from, !.last = to,
                      !.base = ledger]
    <2>3. x.inserted = {} /\ x.deleted = {} /\ x.toWrite = {}
      BY DEF Idle
    <2>4. Becomes(j, x)
      BY <2>2
    <2> HIDE DEF x
    <2>5. Distinct(x.toWrite)
      BY <2>3 DEF Distinct
    <2> QED BY <2>1, <2>3, <2>4, <2>5, KeysFresh
  <1>6. ASSUME NEW j \in Backfills, SkipDate(j) PROVE KeysInv'
    <2>1. j \in Jobs /\ UNCHANGED rows /\ Becomes(j, NextDate(j))
      BY <1>6 DEF SkipDate, Jobs
    <2>2. /\ NextDate(j).inserted = {} /\ NextDate(j).deleted = {}
          /\ NextDate(j).toWrite = {}
      BY DEF NextDate, Idle
    <2>3. Distinct(NextDate(j).toWrite)
      BY <2>2 DEF Distinct
    <2> QED BY <2>1, <2>2, <2>3, KeysFresh
  <1>7. ASSUME NEW j \in Backfills, ReplayDate(j) PROVE KeysInv'
    <2> DEFINE used == ThroughDate(ledger, job[j].date)
               new == HoldingRows(used, Author(j))
    <2>1. j \in Jobs /\ UNCHANGED rows /\ job[j].pc = "date"
      BY <1>7 DEF Jobs, ReplayDate, At
    <2>2. Ends(j, "failed") \/ Becomes(j, Replacing(j, job[j].date, used, new))
      BY <1>7 DEF ReplayDate
    <2>3. Distinct(new)
      BY ReplayedDistinct
    <2> HIDE DEF new, used
    <2> QED BY <2>1, <2>2, <2>3, KeysEnds, KeysReplacing
  <1>8. ASSUME NEW j \in Jobs, Fail(j) PROVE KeysInv'
    BY <1>8, KeysEnds DEF Fail
  <1>9. CASE UNCHANGED vars
    BY <1>1, <1>9 DEF vars
  <1>10. CASE Midnight \/ \E o \in Operations : Post(o)
    BY <1>1, <1>10 DEF Midnight, Post
  <1> QED BY <1>2, <1>3, <1>4, <1>5, <1>6, <1>7, <1>8, <1>9, <1>10,
             KeysReplace, KeysReadHoldings DEF Next, Refresh, Backfill, Jobs

LEMMA KeysSafe == Spec => [](SnapshotsInv /\ GrabsInv /\ KeysInv)
  <1>1. Init => KeysInv
    <2> SUFFICES ASSUME Init PROVE KeysInv
      OBVIOUS
    <2>1. \A j \in Jobs : /\ job[j].inserted = {} /\ job[j].deleted = {}
                          /\ job[j].toWrite = {}
      BY DEF Init, Idle
    <2> QED BY <2>1 DEF Init, KeysInv, OneRowPerAsset, Clear, Unrelated, Distinct, Apart
  <1>2. Init => GrabsInv
    BY DEF Init, GrabsInv, Idle
  <1> QED BY <1>1, <1>2, KeysNext, GrabsNext, SnapshotsInit, SnapshotsNext, PTL DEF Spec

(* However many refreshes and backfills write one target at once, it never  *)
(* has two rows for one asset.                                              *)
THEOREM NoAssetTwice == Spec => []OneRowPerAsset
  <1>1. KeysInv => OneRowPerAsset
    BY DEF KeysInv
  <1> QED BY <1>1, KeysSafe, PTL

(* What concurrent rebuilds may leave behind, at the worst: holdings of     *)
(* assets that the last one does not hold, be they closed since or, when it *)
(* has replayed the older ledger, opened later.  Every asset that it holds  *)
(* is shown as it wrote it.                                                 *)
THEOREM HeldAsWritten == Spec => []HeldIsAsWritten
  <1>1. SnapshotsInv /\ KeysInv => HeldIsAsWritten
    <2> SUFFICES ASSUME SnapshotsInv, KeysInv, header[Current] # Nothing,
                        NEW r \in rows[Current],
                        r.asset \in Held(header[Current].ops)
                 PROVE  r \in HoldingRows(header[Current].ops, header[Current].by)
      BY DEF HeldIsAsWritten
    <2> DEFINE s == [asset |-> r.asset, ops |-> header[Current].ops,
                     by |-> header[Current].by]
    <2>1. s \in HoldingRows(header[Current].ops, header[Current].by)
      BY DEF HoldingRows
    <2>2. s \in rows[Current]
      BY <2>1 DEF SnapshotsInv, TablesOK, LastRebuildIsThere
    <2>3. r = s
      BY <2>2 DEF KeysInv, OneRowPerAsset, Targets
    <2> QED BY <2>1, <2>3
  <1> QED BY <1>1, KeysSafe, PTL

-----------------------------------------------------------------------------
(* One worker that runs refreshes, as docker-compose.yml has it, beside any *)
(* backfills. *)

(* It deletes every holding of the read models, and what it copies is what  *)
(* it has read.                                                             *)
LoneOK(j, x) ==
    /\ x.pc = "deleting" /\ x.target = Current => x.seen = rows[Current]
    /\ x.pc \in {"insert", "header"} /\ x.target = Current => x.deleted = rows[Current]
    /\ x.pc = "holdings" => header[Current] # Nothing /\ x.ops = header[Current].ops
    /\ x.pc \in Writing => x.inserted \cup x.toWrite = HoldingRows(x.ops, <<j, x.run>>)

(* Summary and holdings, of the read models and of every snapshot, tell of  *)
(* one replay.                                                              *)
EveryTargetIsWhole == \A t \in Targets : Whole(t)

LoneInv == EveryTargetIsWhole /\ \A j \in Refreshers : LoneOK(j, job[j])

LEMMA LoneStep ==
    ASSUME SnapshotsInv, LoneInv, NEW j \in Jobs, NEW x, Becomes(j, x),
           UNCHANGED <<header, rows>>, j \in Refreshers => LoneOK(j, x)
    PROVE  LoneInv'
  <1>1. job \in [Jobs -> Job] /\ job' = [job EXCEPT ![j] = x]
    BY DEF SnapshotsInv, TypeOK, Becomes
  <1>2. \A k \in Jobs : job'[k] = IF k = j THEN x ELSE job[k]
    BY <1>1
  <1>3. EveryTargetIsWhole'
    BY DEF LoneInv, EveryTargetIsWhole, Whole
  <1>4. ASSUME NEW k \in Refreshers PROVE LoneOK(k, job[k])'
    <2>1. k \in Jobs
      BY DEF Jobs
    <2>2. CASE k = j
      BY <1>2, <2>1, <2>2 DEF LoneOK
    <2>3. CASE k # j
      BY <1>2, <2>1, <2>3 DEF LoneOK, LoneInv
    <2> QED BY <2>2, <2>3
  <1> QED BY <1>3, <1>4 DEF LoneInv

LEMMA LoneEnds ==
    ASSUME SnapshotsInv, LoneInv, NEW j \in Jobs, NEW outcome, Ends(j, outcome),
           UNCHANGED <<header, rows>>
    PROVE  LoneInv'
  <1>1. PICK last : Becomes(j, Idle(job[j].run, last))
    BY DEF Ends
  <1>2. LoneOK(j, Idle(job[j].run, last))
    BY DEF LoneOK, Idle, Writing
  <1> QED BY <1>1, <1>2, LoneStep

(* A commit leaves the rows that the run has inserted, and no other.        *)
LEMMA LoneCommit ==
    ASSUME SnapshotsInv, LoneInv, \A k, l \in Refreshers : k = l,
           NEW j \in Jobs, Commit(j), job[j].toWrite = {},
           \/ job[j].pc = "header" /\ job[j].target = Current
           \/ job[j].pc = "insert" /\ job[j].target \in Days
    PROVE  LoneInv'
  <1> DEFINE t == job[j].target
             row == [ops |-> job[j].ops, by |-> Author(j), base |-> job[j].base]
             new == (rows[t] \ job[j].deleted) \cup job[j].inserted
  <1>1. job[j].pc \in Writing
    BY DEF Writing
  <1>2. /\ job[j] \in Job /\ JobOK(j, job[j]) /\ Writes(j, job[j]) /\ Holds(job[j])
        /\ t \in Targets /\ (t # Current <=> t \in Days)
        /\ Author(j) = <<j, job[j].run>> /\ Author(j) \in Jobs \X Nat
    BY <1>1, ReplacingFacts, WorkerFacts DEF Author
  <1>3. /\ header \in [Targets -> HeaderRow \cup {Nothing}]
        /\ rows \in [Targets -> SUBSET HoldingRow] /\ job \in [Jobs -> Job]
    BY DEF SnapshotsInv, TypeOK
  <1>4. row \in HeaderRow /\ row # Nothing
    BY <1>2, DailySnapshotsAssumptions DEF HeaderRow, Job
  <1>5. job[j].inserted = HoldingRows(job[j].ops, Author(j))
    <2>1. CASE j \in Backfills
      BY <1>2, <2>1 DEF Writes
    <2>2. CASE j \in Refreshers
      BY <1>1, <1>2, <2>2 DEF LoneInv, LoneOK
    <2> QED BY <2>1, <2>2 DEF Jobs
  <1>6. t = Current => j \in Refreshers
    <2>1. ASSUME j \in Backfills PROVE t \in Days
      BY <1>1, <1>2, <2>1 DEF JobOK, BackfillOK, Writing
    <2> QED BY <1>2, <2>1 DEF Jobs
  <1>7. job[j].deleted = rows[t]
    <2>1. CASE t = Current
      BY <1>2, <1>6, <2>1 DEF LoneInv, LoneOK
    <2>2. CASE t \in Days
      BY <1>2, <2>2 DEF Holds
    <2> QED BY <1>2, <2>1, <2>2
  <1>8. new = HoldingRows(row.ops, row.by)
    BY <1>5, <1>7
  <1>9. /\ header' = [header EXCEPT ![t] = row] /\ rows' = [rows EXCEPT ![t] = new]
        /\ \E x : Becomes(j, x) /\ (j \in Refreshers => x.pc \in {"idle", "summary"})
    <2>1. CASE j \in Backfills
      BY <2>1, DailySnapshotsAssumptions DEF Commit
    <2>2. CASE j \notin Backfills /\ t = Current
      <3> DEFINE x == [Idle(job[j].run, "none") EXCEPT !.pc = "summary", !.date = job[j].date]
      <3>1. x.pc = "summary"
        BY DEF Idle
      <3> QED BY <2>2, <3>1 DEF Commit
    <2>3. CASE j \notin Backfills /\ t # Current
      <3>1. Idle(job[j].run, "none").pc = "idle"
        BY DEF Idle
      <3> QED BY <2>3, <3>1 DEF Commit
    <2> QED BY <2>1, <2>2, <2>3
  <1> HIDE DEF new, row
  <1>10. /\ header'[t] = row /\ rows'[t] = new
         /\ \A u \in Targets \ {t} : header'[u] = header[u] /\ rows'[u] = rows[u]
    BY <1>2, <1>3, <1>9
  <1>11. EveryTargetIsWhole'
    <2> SUFFICES ASSUME NEW u \in Targets PROVE Whole(u)'
      BY DEF EveryTargetIsWhole
    <2>1. CASE u = t
      BY <2>1, <1>4, <1>8, <1>10 DEF Whole
    <2>2. CASE u # t
      BY <2>2, <1>10 DEF Whole, LoneInv, EveryTargetIsWhole
    <2> QED BY <2>1, <2>2
  <1>12. ASSUME NEW k \in Refreshers PROVE LoneOK(k, job[k])'
    <2>1. PICK x : Becomes(j, x) /\ (j \in Refreshers => x.pc \in {"idle", "summary"})
      BY <1>9
    <2>2. k \in Jobs /\ job'[k] = IF k = j THEN x ELSE job[k]
      BY <1>3, <2>1 DEF Becomes, Jobs
    <2>3. CASE k = j
      BY <2>1, <2>2, <2>3 DEF LoneOK, Writing
    <2>4. CASE k # j
      <3>1. t # Current
        BY <1>6, <2>4
      <3>2. Current \in Targets \ {t}
        BY <3>1 DEF Targets
      <3>3. header'[Current] = header[Current] /\ rows'[Current] = rows[Current]
        BY <1>10, <3>2
      <3> QED BY <2>2, <2>4, <3>3 DEF LoneOK, LoneInv
    <2> QED BY <2>3, <2>4
  <1> QED BY <1>11, <1>12 DEF LoneInv

LEMMA LoneReplacing ==
    ASSUME SnapshotsInv, LoneInv, NEW j \in Jobs, NEW t \in Targets, NEW ops, NEW new,
           job[j].pc \in {"ledger", "holdings", "date"},
           Becomes(j, Replacing(j, t, ops, new)), UNCHANGED <<header, rows>>,
           j \in Refreshers => new = HoldingRows(ops, Author(j))
    PROVE  LoneInv'
  <1> DEFINE x == Replacing(j, t, ops, new)
  <1>1. job[j] \in Job /\ job[j].inserted = {}
    BY WorkerFacts DEF JobOK, Writing
  <1>2. /\ x.pc = IF t # Current THEN "header" ELSE "delete"
        /\ x.target = t /\ x.ops = ops /\ x.toWrite = new
        /\ x.run = job[j].run /\ x.inserted = {}
    BY <1>1 DEF Replacing, HeaderFirst, Job
  <1>3. Becomes(j, x)
    OBVIOUS
  <1> HIDE DEF x
  <1>4. j \in Refreshers => LoneOK(j, x)
    BY <1>2 DEF LoneOK, Author
  <1> QED BY <1>3, <1>4, LoneStep

LEMMA LoneReplace ==
    ASSUME SnapshotsInv, LoneInv, \A k, l \in Refreshers : k = l, NEW j \in Jobs, Replace(j)
    PROVE  LoneInv'
  <1>0. job[j] \in Job
    BY WorkerFacts
  <1> DEFINE mine == j \in Refreshers => LoneOK(j, job[j])
  <1>1. mine
    BY DEF LoneInv
  <1>2. CASE UpsertHeader(j)
    <2>0. job[j].pc \in Writing /\ job[j].pc = "header"
      BY <1>2 DEF UpsertHeader, At, Writing
    <2>1. CASE HeaderFirst(job[j].target)
      <3> DEFINE x == [job[j] EXCEPT !.pc = "delete", !.locks = TRUE]
      <3>1. Becomes(j, x) /\ UNCHANGED <<header, rows>>
        BY <1>2, <2>1 DEF UpsertHeader
      <3>2. /\ x.pc = "delete" /\ x.inserted = job[j].inserted /\ x.toWrite = job[j].toWrite
            /\ x.ops = job[j].ops /\ x.run = job[j].run
        BY <1>0 DEF Job
      <3> HIDE DEF x
      <3>3. j \in Refreshers => LoneOK(j, x)
        BY <1>1, <2>0, <3>2 DEF LoneOK
      <3> QED BY <3>1, <3>3, LoneStep
    <2>2. CASE ~HeaderFirst(job[j].target)
      <3>1. job[j].target = Current /\ Writes(j, job[j])
        BY <2>0, <2>2, ReplacingFacts DEF HeaderFirst
      <3>2. job[j].toWrite = {} /\ Commit(j)
        BY <1>2, <2>0, <2>2, <3>1 DEF Writes, UpsertHeader
      <3> QED BY <2>0, <3>1, <3>2, LoneCommit
    <2> QED BY <2>1, <2>2
  <1>3. CASE BeginDelete(j)
    <2> DEFINE x == [job[j] EXCEPT !.pc = "deleting", !.seen = rows[job[j].target]]
    <2>1. Becomes(j, x) /\ UNCHANGED <<header, rows>> /\ job[j].pc = "delete"
      BY <1>3 DEF BeginDelete, At
    <2>2. /\ x.pc = "deleting" /\ x.inserted = job[j].inserted /\ x.toWrite = job[j].toWrite
          /\ x.ops = job[j].ops /\ x.run = job[j].run /\ x.target = job[j].target
          /\ x.seen = rows[job[j].target]
      BY <1>0 DEF Job
    <2> HIDE DEF x
    <2>3. j \in Refreshers => LoneOK(j, x)
      BY <1>1, <2>1, <2>2 DEF LoneOK, Writing
    <2> QED BY <2>1, <2>3, LoneStep
  <1>4. CASE EndDelete(j)
    <2> DEFINE gone == job[j].seen \cap rows[job[j].target]
               x == [job[j] EXCEPT !.pc = "insert", !.seen = {}, !.deleted = gone]
    <2>1. Becomes(j, x) /\ UNCHANGED <<header, rows>> /\ job[j].pc = "deleting"
      BY <1>4 DEF EndDelete, At
    <2>2. job[j].seen = rows[job[j].target] => gone = rows[job[j].target]
      OBVIOUS
    <2> HIDE DEF gone
    <2>3. /\ x.pc = "insert" /\ x.inserted = job[j].inserted /\ x.toWrite = job[j].toWrite
          /\ x.ops = job[j].ops /\ x.run = job[j].run /\ x.target = job[j].target
          /\ x.deleted = gone
      BY <1>0 DEF Job
    <2> HIDE DEF x
    <2>4. j \in Refreshers => LoneOK(j, x)
      BY <1>1, <2>1, <2>2, <2>3 DEF LoneOK, Writing
    <2> QED BY <2>1, <2>4, LoneStep
  <1>5. CASE InsertHolding(j)
    <2>1. PICK r \in job[j].toWrite :
             \/ Ends(j, "failed")
             \/ Becomes(j, [job[j] EXCEPT !.inserted = @ \cup {r}, !.toWrite = @ \ {r}])
      BY <1>5 DEF InsertHolding
    <2>2. UNCHANGED <<header, rows>> /\ job[j].pc = "insert"
      BY <1>5 DEF InsertHolding, At
    <2>3. CASE Ends(j, "failed")
      BY <2>2, <2>3, LoneEnds
    <2>4. CASE Becomes(j, [job[j] EXCEPT !.inserted = @ \cup {r}, !.toWrite = @ \ {r}])
      <3> DEFINE x == [job[j] EXCEPT !.inserted = @ \cup {r}, !.toWrite = @ \ {r}]
      <3>1. /\ x.pc = "insert" /\ x.inserted = job[j].inserted \cup {r}
            /\ x.toWrite = job[j].toWrite \ {r}
            /\ x.ops = job[j].ops /\ x.run = job[j].run /\ x.target = job[j].target
            /\ x.deleted = job[j].deleted
        BY <1>0, <2>2 DEF Job
      <3> HIDE DEF x
      <3>2. x.inserted \cup x.toWrite = job[j].inserted \cup job[j].toWrite
        BY <3>1
      <3>3. j \in Refreshers => LoneOK(j, x)
        BY <1>1, <2>2, <3>1, <3>2 DEF LoneOK, Writing
      <3>4. Becomes(j, x)
        BY <2>4 DEF x
      <3> QED BY <2>2, <3>3, <3>4, LoneStep
    <2> QED BY <2>1, <2>3, <2>4
  <1>6. CASE EndInserts(j)
    <2>0. job[j].pc \in Writing /\ job[j].pc = "insert" /\ job[j].toWrite = {}
      BY <1>6 DEF EndInserts, At, Writing
    <2>1. CASE HeaderFirst(job[j].target)
      <3>1. job[j].target \in Days
        BY <2>0, <2>1, ReplacingFacts DEF HeaderFirst
      <3>2. Commit(j)
        BY <1>6, <2>1 DEF EndInserts
      <3> QED BY <2>0, <3>1, <3>2, LoneCommit
    <2>2. CASE ~HeaderFirst(job[j].target)
      <3> DEFINE x == [job[j] EXCEPT !.pc = "header"]
      <3>1. Becomes(j, x) /\ UNCHANGED <<header, rows>>
        BY <1>6, <2>2 DEF EndInserts
      <3>2. /\ x.pc = "header" /\ x.inserted = job[j].inserted /\ x.toWrite = job[j].toWrite
            /\ x.ops = job[j].ops /\ x.run = job[j].run /\ x.target = job[j].target
            /\ x.deleted = job[j].deleted
        BY <1>0 DEF Job
      <3> HIDE DEF x
      <3>3. j \in Refreshers => LoneOK(j, x)
        BY <1>1, <2>0, <3>2 DEF LoneOK
      <3> QED BY <3>1, <3>3, LoneStep
    <2> QED BY <2>1, <2>2
  <1>7. CASE BreakDeadlock(j)
    BY <1>7, LoneEnds DEF BreakDeadlock
  <1> QED BY <1>2, <1>3, <1>4, <1>5, <1>6, <1>7 DEF Replace

(* What a refresh copies is what the read models hold, since nobody has     *)
(* rebuilt them between its two reads.                                      *)
LEMMA LoneReadsHoldings ==
    ASSUME SnapshotsInv, LoneInv, NEW j \in Refreshers, ReadHoldings(j)
    PROVE  LoneInv'
  <1> DEFINE new == {[r EXCEPT !.by = Author(j)] : r \in rows[Current]}
             ops == job[j].ops
             by == header[Current].by
  <1>1. j \in Jobs /\ job[j].pc = "holdings" /\ JobOK(j, job[j])
    BY WorkerFacts DEF Jobs, ReadHoldings, At
  <1>2. Current \in Targets /\ job[j].date \in Targets
    BY <1>1 DEF Targets, JobOK, RefreshOK
  <1>3. header[Current] # Nothing /\ ops = header[Current].ops
    BY <1>1 DEF LoneInv, LoneOK
  <1>4. rows[Current] = HoldingRows(ops, by)
    BY <1>2, <1>3 DEF LoneInv, EveryTargetIsWhole, Whole
  <1>5. \A a : [[asset |-> a, ops |-> ops, by |-> by] EXCEPT !.by = Author(j)]
                 = [asset |-> a, ops |-> ops, by |-> Author(j)]
    OBVIOUS
  <1>6. new = HoldingRows(ops, Author(j))
    <2> DEFINE stamped(r) == [r EXCEPT !.by = Author(j)]
               copy(a, author) == [asset |-> a, ops |-> ops, by |-> author]
    <2>1. \A a : stamped(copy(a, by)) = copy(a, Author(j))
      BY <1>5
    <2>2. rows[Current] = {copy(a, by) : a \in Held(ops)}
      BY <1>4 DEF HoldingRows
    <2>3. new = {stamped(r) : r \in rows[Current]}
      OBVIOUS
    <2>4. HoldingRows(ops, Author(j)) = {copy(a, Author(j)) : a \in Held(ops)}
      BY DEF HoldingRows
    <2> HIDE DEF new, stamped, copy
    <2> QED BY <2>1, <2>2, <2>3, <2>4
  <1> HIDE DEF new
  <1>7. Becomes(j, Replacing(j, job[j].date, ops, new)) /\ UNCHANGED <<header, rows>>
    BY DEF ReadHoldings, new
  <1> QED BY <1>1, <1>2, <1>6, <1>7, LoneReplacing

LEMMA LoneNext ==
    ASSUME \A k, l \in Refreshers : k = l
    PROVE  SnapshotsInv /\ LoneInv /\ [Next]_vars => LoneInv'
  <1> SUFFICES ASSUME SnapshotsInv, LoneInv, [Next]_vars PROVE LoneInv'
    OBVIOUS
  <1>1. CASE UNCHANGED <<header, rows, job>>
    BY <1>1 DEF LoneInv, EveryTargetIsWhole, Whole, LoneOK
  <1>2. ASSUME NEW j \in Refreshers, BeginRefresh(j) PROVE LoneInv'
    <2> DEFINE x == [Idle(job[j].run + 1, "none") EXCEPT !.pc = "ledger", !.date = today]
    <2>1. Becomes(j, x) /\ j \in Jobs /\ UNCHANGED <<header, rows>>
      BY <1>2 DEF BeginRefresh, Jobs
    <2>2. LoneOK(j, x)
      BY DEF LoneOK, Idle, Writing
    <2> HIDE DEF x
    <2> QED BY <2>1, <2>2, LoneStep
  <1>3. ASSUME NEW j \in Refreshers, ReadLedger(j) PROVE LoneInv'
    <2>1. j \in Jobs /\ job[j].pc = "ledger" /\ UNCHANGED <<header, rows>> /\ Current \in Targets
      BY <1>3 DEF Jobs, ReadLedger, At, Targets
    <2>2. CASE Ends(j, "failed")
      BY <2>1, <2>2, LoneEnds
    <2>3. CASE Becomes(j, Replacing(j, Current, ledger, HoldingRows(ledger, Author(j))))
      <3> DEFINE new == HoldingRows(ledger, Author(j))
      <3>1. Becomes(j, Replacing(j, Current, ledger, new)) /\ new = HoldingRows(ledger, Author(j))
        BY <2>3
      <3> HIDE DEF new
      <3> QED BY <2>1, <3>1, LoneReplacing
    <2> QED BY <1>3, <2>2, <2>3 DEF ReadLedger
  <1>4. ASSUME NEW j \in Refreshers, ReadSummary(j) PROVE LoneInv'
    <2> DEFINE x == [job[j] EXCEPT !.pc = "holdings", !.ops = header[Current].ops]
    <2>1. j \in Jobs /\ job[j] \in Job /\ UNCHANGED <<header, rows>>
      BY <1>4, WorkerFacts DEF Jobs, ReadSummary
    <2>2. CASE Ends(j, "done")
      BY <2>1, <2>2, LoneEnds
    <2>3. CASE header[Current] # Nothing /\ Becomes(j, x)
      <3>1. x.pc = "holdings" /\ x.ops = header[Current].ops
        BY <2>1 DEF Job
      <3> HIDE DEF x
      <3>2. LoneOK(j, x)
        BY <2>3, <3>1 DEF LoneOK, Writing
      <3> QED BY <2>1, <2>3, <3>2, LoneStep
    <2> QED BY <1>4, <2>2, <2>3 DEF ReadSummary
  <1>5. ASSUME NEW j \in Backfills, BeginBackfill(j) PROVE LoneInv'
    <2>1. PICK x : Becomes(j, x)
      BY <1>5 DEF BeginBackfill
    <2>2. j \in Jobs /\ j \notin Refreshers /\ UNCHANGED <<header, rows>>
      BY <1>5, DailySnapshotsAssumptions DEF BeginBackfill, Jobs
    <2> QED BY <2>1, <2>2, LoneStep
  <1>6. ASSUME NEW j \in Backfills, SkipDate(j) \/ ReplayDate(j) PROVE LoneInv'
    <2>1. j \in Jobs /\ j \notin Refreshers /\ UNCHANGED <<header, rows>>
      BY <1>6, DailySnapshotsAssumptions DEF SkipDate, ReplayDate, Jobs
    <2>2. \E x : Becomes(j, x)
      BY <1>6 DEF SkipDate, ReplayDate, Ends
    <2> QED BY <2>1, <2>2, LoneStep
  <1>7. ASSUME NEW j \in Jobs, Replace(j) PROVE LoneInv'
    BY <1>7, LoneReplace
  <1>8. ASSUME NEW j \in Jobs, Fail(j) PROVE LoneInv'
    BY <1>8, LoneEnds DEF Fail
  <1>9. CASE UNCHANGED vars
    BY <1>1, <1>9 DEF vars
  <1>10. CASE Midnight \/ \E o \in Operations : Post(o)
    BY <1>1, <1>10 DEF Midnight, Post
  <1> QED BY <1>2, <1>3, <1>4, <1>5, <1>6, <1>7, <1>8, <1>9, <1>10, LoneReadsHoldings
          DEF Next, Refresh, Backfill, Jobs

(* With one worker that runs refreshes, the read models and every snapshot  *)
(* always tell of one replay: replace_read_models_for_portfolio and         *)
(* replace_daily_snapshot are as good as atomic, and a refresh copies the   *)
(* holdings that belong to the summary it has read.  RefreshQueue takes     *)
(* them so.                                                                 *)
THEOREM LoneRefresherIsAtomic ==
    ASSUME \A k, l \in Refreshers : k = l
    PROVE  Spec => []EveryTargetIsWhole
  <1>1. Init => LoneInv
    BY DEF Init, LoneInv, EveryTargetIsWhole, Whole, LoneOK, Idle, Writing, Jobs
  <1>2. LoneInv => EveryTargetIsWhole
    BY DEF LoneInv
  <1> QED BY <1>1, <1>2, LoneNext, SnapshotsInit, SnapshotsNext, PTL DEF Spec

-----------------------------------------------------------------------------
(* That worker implements the atomic replacements of PublishedReplays. *)

(* What it writes to the read models is not older than what they show, and  *)
(* what it writes to a day is what they show.                               *)
ForwardOK(x) ==
    /\ x.pc \in Writing /\ x.target = Current =>
          /\ x.ops \subseteq ledger
          /\ header[Current] # Nothing => header[Current].ops \subseteq x.ops
    /\ x.pc \in Writing /\ x.target \in Days =>
          header[Current] # Nothing /\ x.ops = header[Current].ops

ForwardInv ==
    /\ header[Current] # Nothing => header[Current].ops \subseteq ledger
    /\ \A j \in Refreshers : ForwardOK(job[j])

(* A step of a replacement commits it, or leaves the tables alone and what  *)
(* is to be written as it is, or gives it up.                               *)
LEMMA ReplaceSteps ==
    ASSUME SnapshotsInv, NEW j \in Jobs, Replace(j)
    PROVE  /\ UNCHANGED <<today, ledger>>
           /\ \/ /\ Commit(j)
                 /\ job[j].pc \in Writing
              \/ /\ UNCHANGED <<header, rows>>
                 /\ \E x : /\ Becomes(j, x)
                           /\ \/ x.pc = "idle"
                              \/ /\ x.pc \in Writing /\ job[j].pc \in Writing
                                 /\ x.target = job[j].target /\ x.ops = job[j].ops
  <1>1. job[j] \in Job
    BY WorkerFacts
  <1> DEFINE same(x) == x.target = job[j].target /\ x.ops = job[j].ops
  <1>2. CASE UpsertHeader(j)
    <2> DEFINE x == [job[j] EXCEPT !.pc = "delete", !.locks = TRUE]
    <2>1. x.pc = "delete" /\ same(x)
      BY <1>1 DEF Job
    <2>2. (Becomes(j, x) /\ UNCHANGED <<header, rows>>) \/ Commit(j)
      BY <1>2 DEF UpsertHeader
    <2>3. job[j].pc = "header" /\ UNCHANGED <<today, ledger>>
      BY <1>2 DEF UpsertHeader, At
    <2> HIDE DEF x
    <2> QED BY <2>1, <2>2, <2>3 DEF Writing
  <1>3. CASE BeginDelete(j)
    <2> DEFINE x == [job[j] EXCEPT !.pc = "deleting", !.seen = rows[job[j].target]]
    <2>1. x.pc = "deleting" /\ same(x)
      BY <1>1 DEF Job
    <2>2. /\ Becomes(j, x) /\ UNCHANGED <<header, rows, today, ledger>>
          /\ job[j].pc = "delete"
      BY <1>3 DEF BeginDelete, At
    <2> HIDE DEF x
    <2> QED BY <2>1, <2>2 DEF Writing
  <1>4. CASE EndDelete(j)
    <2> DEFINE x == [job[j] EXCEPT !.pc = "insert", !.seen = {},
                                   !.deleted = job[j].seen \cap rows[job[j].target]]
    <2>1. x.pc = "insert" /\ same(x)
      BY <1>1 DEF Job
    <2>2. /\ Becomes(j, x) /\ UNCHANGED <<header, rows, today, ledger>>
          /\ job[j].pc = "deleting"
      BY <1>4 DEF EndDelete, At
    <2> HIDE DEF x
    <2> QED BY <2>1, <2>2 DEF Writing
  <1>5. CASE InsertHolding(j)
    <2>1. UNCHANGED <<header, rows, today, ledger>> /\ job[j].pc = "insert"
      BY <1>5 DEF InsertHolding, At
    <2>2. PICK r \in job[j].toWrite :
             \/ Ends(j, "failed")
             \/ Becomes(j, [job[j] EXCEPT !.inserted = @ \cup {r}, !.toWrite = @ \ {r}])
      BY <1>5 DEF InsertHolding
    <2> DEFINE x == [job[j] EXCEPT !.inserted = @ \cup {r}, !.toWrite = @ \ {r}]
    <2>3. x.pc = "insert" /\ same(x)
      BY <1>1, <2>1 DEF Job
    <2>4. Ends(j, "failed") => \E y : Becomes(j, y) /\ y.pc = "idle"
      BY DEF Ends, Idle
    <2>5. Becomes(j, x) \/ Ends(j, "failed")
      BY <2>2
    <2> HIDE DEF x
    <2> QED BY <2>1, <2>3, <2>4, <2>5 DEF Writing
  <1>6. CASE EndInserts(j)
    <2> DEFINE x == [job[j] EXCEPT !.pc = "header"]
    <2>1. x.pc = "header" /\ same(x)
      BY <1>1 DEF Job
    <2>2. (Becomes(j, x) /\ UNCHANGED <<header, rows>>) \/ Commit(j)
      BY <1>6 DEF EndInserts
    <2>3. job[j].pc = "insert" /\ UNCHANGED <<today, ledger>>
      BY <1>6 DEF EndInserts, At
    <2> HIDE DEF x
    <2> QED BY <2>1, <2>2, <2>3 DEF Writing
  <1>7. CASE BreakDeadlock(j)
    <2>1. \E y : Becomes(j, y) /\ y.pc = "idle"
      BY <1>7 DEF BreakDeadlock, Ends, Idle
    <2> QED BY <1>7, <2>1 DEF BreakDeadlock
  <1> QED BY <1>2, <1>3, <1>4, <1>5, <1>6, <1>7 DEF Replace

(* A step of one worker beside the tables. *)
LEMMA ForwardStep ==
    ASSUME SnapshotsInv, ForwardInv, NEW j \in Jobs, NEW x, Becomes(j, x),
           UNCHANGED <<ledger, header>>, j \in Refreshers => ForwardOK(x)
    PROVE  ForwardInv'
  <1>1. job' = [job EXCEPT ![j] = x] /\ job \in [Jobs -> Job]
    BY DEF SnapshotsInv, TypeOK, Becomes
  <1>2. ASSUME NEW k \in Refreshers PROVE ForwardOK(job[k])'
    <2>1. k \in Jobs /\ job'[k] = IF k = j THEN x ELSE job[k]
      BY <1>1 DEF Jobs
    <2>2. CASE k = j
      BY <2>1, <2>2 DEF ForwardOK
    <2>3. CASE k # j
      BY <2>1, <2>3 DEF ForwardOK, ForwardInv
    <2> QED BY <2>2, <2>3
  <1> QED BY <1>2 DEF ForwardInv

(* What a commit does to the tables. *)
LEMMA CommitFacts ==
    ASSUME SnapshotsInv, NEW j \in Jobs, Commit(j), job[j].pc \in Writing
    PROVE  LET t == job[j].target
               row == [ops |-> job[j].ops, by |-> Author(j), base |-> job[j].base]
           IN /\ t \in Targets /\ (t \in Days <=> t # Current)
              /\ t \in Days => CreatedOn <= t
              /\ row \in HeaderRow
              /\ header' = [header EXCEPT ![t] = row]
              /\ header'[t] = row
              /\ \A u \in Targets \ {t} : header'[u] = header[u]
              /\ \E x : Becomes(j, x) /\ (j \in Refreshers => x.pc \notin Writing)
              /\ j \in Backfills =>
                    t \in Days /\ row.ops \subseteq AsOf(ledger, t)
  <1> DEFINE t == job[j].target
             row == [ops |-> job[j].ops, by |-> Author(j), base |-> job[j].base]
  <1>1. /\ job[j] \in Job /\ JobOK(j, job[j]) /\ Writes(j, job[j])
        /\ t \in Targets /\ (t # Current <=> t \in Days)
    BY ReplacingFacts, WorkerFacts
  <1>2. Author(j) \in Jobs \X Nat /\ header \in [Targets -> HeaderRow \cup {Nothing}]
    BY WorkerFacts DEF SnapshotsInv, TypeOK
  <1>3. row \in HeaderRow
    BY <1>1, <1>2 DEF HeaderRow, Job
  <1>4. header' = [header EXCEPT ![t] = row]
    BY DEF Commit
  <1>5. \E x : Becomes(j, x) /\ (j \in Refreshers => x.pc \notin Writing)
    <2>1. CASE j \in Backfills
      BY <2>1, DailySnapshotsAssumptions DEF Commit
    <2>2. CASE j \notin Backfills /\ t = Current
      <3> DEFINE x == [Idle(job[j].run, "none") EXCEPT !.pc = "summary", !.date = job[j].date]
      <3>1. x.pc = "summary"
        BY DEF Idle
      <3> QED BY <2>2, <3>1 DEF Commit, Writing
    <2>3. CASE j \notin Backfills /\ t # Current
      <3>1. Idle(job[j].run, "none").pc = "idle"
        BY DEF Idle
      <3> QED BY <2>3, <3>1 DEF Commit, Writing
    <2> QED BY <2>1, <2>2, <2>3
  <1>6. j \in Backfills => t \in Days /\ row.ops \subseteq AsOf(ledger, t)
    BY <1>1 DEF JobOK, BackfillOK, Writing
  <1> HIDE DEF row
  <1>7. header'[t] = row /\ \A u \in Targets \ {t} : header'[u] = header[u]
    BY <1>1, <1>2, <1>4
  <1> QED BY <1>1, <1>3, <1>4, <1>5, <1>6, <1>7 DEF Writes, row

LEMMA ForwardCommit ==
    ASSUME SnapshotsInv, ForwardInv, \A k, l \in Refreshers : k = l,
           NEW j \in Jobs, Commit(j), job[j].pc \in Writing, UNCHANGED ledger
    PROVE  ForwardInv'
  <1> DEFINE t == job[j].target
             row == [ops |-> job[j].ops, by |-> Author(j), base |-> job[j].base]
  <1>1. /\ t \in Targets /\ (t \in Days <=> t # Current)
        /\ header'[t] = row /\ row.ops = job[j].ops
        /\ \A u \in Targets \ {t} : header'[u] = header[u]
        /\ j \in Backfills => t \in Days
    BY CommitFacts
  <1>2. PICK x : Becomes(j, x) /\ (j \in Refreshers => x.pc \notin Writing)
    BY CommitFacts
  <1>3. \A k \in Jobs : job'[k] = IF k = j THEN x ELSE job[k]
    BY <1>2 DEF SnapshotsInv, TypeOK, Becomes
  <1> HIDE DEF row
  <1>4. CASE j \in Refreshers
    <2>1. \A k \in Refreshers : job'[k].pc \notin Writing
      BY <1>2, <1>3, <1>4
    <2>2. \A k \in Refreshers : ForwardOK(job[k])'
      BY <2>1 DEF ForwardOK
    <2>3. CASE t = Current
      <3>1. job[j].ops \subseteq ledger
        BY <1>4, <2>3 DEF ForwardInv, ForwardOK
      <3> QED BY <1>1, <2>2, <2>3, <3>1 DEF ForwardInv
    <2>4. CASE t # Current
      BY <1>1, <2>2, <2>4 DEF ForwardInv, Targets
    <2> QED BY <2>3, <2>4
  <1>5. CASE j \notin Refreshers
    <2>1. t # Current
      BY <1>1, <1>5 DEF Jobs
    <2>2. header'[Current] = header[Current]
      BY <1>1, <2>1 DEF Targets
    <2>3. \A k \in Refreshers : job'[k] = job[k]
      BY <1>3, <1>5 DEF Jobs
    <2> QED BY <2>2, <2>3 DEF ForwardInv, ForwardOK
  <1> QED BY <1>4, <1>5

LEMMA ForwardEnds ==
    ASSUME SnapshotsInv, ForwardInv, NEW j \in Jobs, NEW outcome, Ends(j, outcome),
           UNCHANGED <<ledger, header>>
    PROVE  ForwardInv'
  <1>1. PICK last : Becomes(j, Idle(job[j].run, last))
    BY DEF Ends
  <1>2. ForwardOK(Idle(job[j].run, last))
    BY DEF ForwardOK, Idle, Writing
  <1> QED BY <1>1, <1>2, ForwardStep

LEMMA ForwardNext ==
    ASSUME \A k, l \in Refreshers : k = l
    PROVE  SnapshotsInv /\ LoneInv /\ ForwardInv /\ [Next]_vars => ForwardInv'
  <1> SUFFICES ASSUME SnapshotsInv, LoneInv, ForwardInv, [Next]_vars PROVE ForwardInv'
    OBVIOUS
  <1>1. CASE UNCHANGED <<header, job>> /\ ledger \subseteq ledger'
    BY <1>1 DEF ForwardInv, ForwardOK
  <1>2. ASSUME NEW j \in Refreshers, BeginRefresh(j) PROVE ForwardInv'
    <2> DEFINE x == [Idle(job[j].run + 1, "none") EXCEPT !.pc = "ledger", !.date = today]
    <2>1. Becomes(j, x) /\ j \in Jobs /\ UNCHANGED <<ledger, header>>
      BY <1>2 DEF BeginRefresh, Jobs
    <2>2. ForwardOK(x)
      BY DEF ForwardOK, Idle, Writing
    <2> HIDE DEF x
    <2> QED BY <2>1, <2>2, ForwardStep
  <1>3. ASSUME NEW j \in Refreshers, ReadLedger(j) PROVE ForwardInv'
    <2>1. j \in Jobs /\ job[j] \in Job /\ UNCHANGED <<ledger, header>>
      BY <1>3, WorkerFacts DEF Jobs, ReadLedger
    <2>2. CASE Ends(j, "failed")
      BY <2>1, <2>2, ForwardEnds
    <2> DEFINE x == Replacing(j, Current, ledger, HoldingRows(ledger, Author(j)))
    <2>3. CASE Becomes(j, x)
      <3>1. x.target = Current /\ x.ops = ledger
        BY <2>1 DEF Replacing, Job
      <3>2. Current \notin Days
        BY DEF Current, Days
      <3> HIDE DEF x
      <3>3. ForwardOK(x)
        BY <3>1, <3>2 DEF ForwardOK, ForwardInv
      <3> QED BY <2>1, <2>3, <3>3, ForwardStep
    <2> QED BY <1>3, <2>2, <2>3 DEF ReadLedger
  <1>4. ASSUME NEW j \in Refreshers, ReadSummary(j) PROVE ForwardInv'
    <2> DEFINE x == [job[j] EXCEPT !.pc = "holdings", !.ops = header[Current].ops]
    <2>1. j \in Jobs /\ job[j] \in Job /\ UNCHANGED <<ledger, header>>
      BY <1>4, WorkerFacts DEF Jobs, ReadSummary
    <2>2. CASE Ends(j, "done")
      BY <2>1, <2>2, ForwardEnds
    <2>3. CASE Becomes(j, x)
      <3>1. x.pc = "holdings"
        BY <2>1 DEF Job
      <3> HIDE DEF x
      <3>2. ForwardOK(x)
        BY <3>1 DEF ForwardOK, Writing
      <3> QED BY <2>1, <2>3, <3>2, ForwardStep
    <2> QED BY <1>4, <2>2, <2>3 DEF ReadSummary
  <1>5. ASSUME NEW j \in Refreshers, ReadHoldings(j) PROVE ForwardInv'
    <2> DEFINE x == Replacing(j, job[j].date, job[j].ops,
                              {[r EXCEPT !.by = Author(j)] : r \in rows[Current]})
    <2>1. /\ j \in Jobs /\ job[j] \in Job /\ JobOK(j, job[j]) /\ job[j].pc = "holdings"
          /\ UNCHANGED <<ledger, header>> /\ Becomes(j, x)
      BY <1>5, WorkerFacts DEF Jobs, ReadHoldings, At
    <2>2. header[Current] # Nothing /\ job[j].ops = header[Current].ops
      BY <2>1 DEF LoneInv, LoneOK
    <2>3. job[j].date # Current
      BY <2>1 DEF JobOK, RefreshOK, Days, Current
    <2>4. x.target = job[j].date /\ x.ops = job[j].ops
      BY <2>1 DEF Replacing, Job
    <2> HIDE DEF x
    <2>5. ForwardOK(x)
      BY <2>2, <2>3, <2>4 DEF ForwardOK
    <2> QED BY <2>1, <2>5, ForwardStep
  <1>6. ASSUME NEW j \in Backfills, BeginBackfill(j) \/ SkipDate(j) \/ ReplayDate(j)
        PROVE  ForwardInv'
    <2>1. j \in Jobs /\ j \notin Refreshers /\ UNCHANGED <<ledger, header>>
      BY <1>6, DailySnapshotsAssumptions DEF BeginBackfill, SkipDate, ReplayDate, Jobs
    <2>2. \E x : Becomes(j, x)
      BY <1>6 DEF BeginBackfill, SkipDate, ReplayDate, Ends
    <2> QED BY <2>1, <2>2, ForwardStep
  <1>7. ASSUME NEW j \in Jobs, Replace(j) PROVE ForwardInv'
    <2>1. UNCHANGED ledger
      BY <1>7, ReplaceSteps
    <2>2. CASE Commit(j) /\ job[j].pc \in Writing
      BY <2>1, <2>2, ForwardCommit
    <2>3. CASE /\ UNCHANGED header
               /\ \E x : /\ Becomes(j, x)
                         /\ \/ x.pc = "idle"
                            \/ /\ x.pc \in Writing /\ job[j].pc \in Writing
                               /\ x.target = job[j].target /\ x.ops = job[j].ops
      <3>1. PICK x : /\ Becomes(j, x)
                     /\ \/ x.pc = "idle"
                        \/ /\ x.pc \in Writing /\ job[j].pc \in Writing
                           /\ x.target = job[j].target /\ x.ops = job[j].ops
        BY <2>3
      <3>2. j \in Refreshers => ForwardOK(x)
        BY <3>1 DEF ForwardInv, ForwardOK, Writing
      <3> QED BY <2>1, <2>3, <3>1, <3>2, ForwardStep
    <2> QED BY <1>7, <2>2, <2>3, ReplaceSteps
  <1>8. ASSUME NEW j \in Jobs, Fail(j) PROVE ForwardInv'
    BY <1>8, ForwardEnds DEF Fail
  <1>9. CASE UNCHANGED vars
    BY <1>1, <1>9 DEF vars
  <1>10. CASE Midnight \/ \E o \in Operations : Post(o)
    BY <1>1, <1>10 DEF Midnight, Post
  <1> QED BY <1>2, <1>3, <1>4, <1>5, <1>6, <1>7, <1>8, <1>9, <1>10
          DEF Next, Refresh, Backfill, Jobs

(* The replays on show are those that the headers tell of. *)
LEMMA LoneShows ==
    ASSUME EveryTargetIsWhole
    PROVE  Shown = [t \in Targets |-> {row.ops : row \in {header[t]} \ {Nothing}}]
  BY DEF EveryTargetIsWhole, Shown

(* A commit puts one replay in place, of the kind its target is for.        *)
LEMMA CommitPublishes ==
    ASSUME SnapshotsInv, LoneInv, ForwardInv, EveryTargetIsWhole',
           NEW j \in Jobs, Commit(j), job[j].pc \in Writing, UNCHANGED ledger
    PROVE  Published!Next
  <1> DEFINE t == job[j].target
             ops == job[j].ops
             row == [ops |-> job[j].ops, by |-> Author(j), base |-> job[j].base]
             told(h) == {r.ops : r \in {h} \ {Nothing}}
  <1>1. /\ t \in Targets /\ (t \in Days <=> t # Current)
        /\ t \in Days => CreatedOn <= t
        /\ header'[t] = row /\ row.ops = ops /\ row \in HeaderRow
        /\ \A u \in Targets \ {t} : header'[u] = header[u]
        /\ j \in Backfills => t \in Days /\ ops \subseteq AsOf(ledger, t)
    BY CommitFacts
  <1>2. row # Nothing
    BY <1>1, DailySnapshotsAssumptions
  <1> HIDE DEF row
  <1>3. told(row) = {ops}
    BY <1>1, <1>2
  <1>4. Shown = [u \in Targets |-> told(header[u])]
    BY LoneShows DEF LoneInv
  <1>5. Shown' = [u \in Targets |-> told(header'[u])]
    BY DEF EveryTargetIsWhole, Shown
  <1>6. \A u \in Targets : told(header'[u]) = IF u = t THEN {ops} ELSE told(header[u])
    BY <1>1, <1>3
  <1> HIDE DEF told
  <1>7. Shown' = [Shown EXCEPT ![t] = {ops}]
    BY <1>1, <1>4, <1>5, <1>6
  <1>8. Published!Shows(t, ops)
    BY <1>7 DEF Published!Shows
  <1>9. Current \in Targets
    BY DEF Targets
  <1>10. header[Current] = Nothing => Shown[Current] = {}
    BY <1>4, <1>9 DEF told
  <1>11. header[Current] # Nothing => Shown[Current] = {header[Current].ops}
    BY <1>4, <1>9 DEF told
  <1>12. CASE t = Current
    <2>1. j \in Refreshers
      BY <1>1, <1>12 DEF Jobs
    <2>2. /\ ops \subseteq ledger
          /\ header[Current] # Nothing => header[Current].ops \subseteq ops
      BY <1>12, <2>1 DEF ForwardInv, ForwardOK
    <2>3. \A before \in Shown[Current] : before \subseteq ops
      BY <1>10, <1>11, <2>2
    <2>4. Published!Rebuild
      BY <1>8, <1>12, <2>2, <2>3 DEF Published!Rebuild
    <2> QED BY <2>4 DEF Published!Next
  <1>13. CASE t \in Days /\ j \in Refreshers
    <2>1. header[Current] # Nothing /\ ops = header[Current].ops
      BY <1>13 DEF ForwardInv, ForwardOK
    <2>2. Published!Copy(t)
      BY <1>8, <1>11, <2>1 DEF Published!Copy
    <2>3. t >= CreatedOn
      BY <1>1, <1>13, DailySnapshotsAssumptions DEF Days
    <2> QED BY <1>13, <2>2, <2>3 DEF Published!Next
  <1>14. CASE t \in Days /\ j \in Backfills
    <2>1. ops \subseteq AsOf(ledger, t)
      BY <1>1, <1>14
    <2>2. ops \in SUBSET ledger /\ ops = {o \in ops : DayOf[o] <= t}
      BY <2>1 DEF AsOf
    <2>3. Published!Recompute(t)
      BY <1>8, <2>2 DEF Published!Recompute
    <2>4. t >= CreatedOn
      BY <1>1, <1>14, DailySnapshotsAssumptions DEF Days
    <2> QED BY <1>14, <2>3, <2>4 DEF Published!Next
  <1> QED BY <1>1, <1>12, <1>13, <1>14 DEF Jobs

LEMMA LoneStepRefines ==
    SnapshotsInv /\ LoneInv /\ ForwardInv /\ EveryTargetIsWhole' /\ [Next]_vars
        => [Published!Next]_Published!publishedVars
  <1> SUFFICES ASSUME SnapshotsInv, LoneInv, ForwardInv, EveryTargetIsWhole', [Next]_vars
               PROVE  [Published!Next]_Published!publishedVars
    OBVIOUS
  <1>1. UNCHANGED <<header, rows>> => UNCHANGED Shown
    BY DEF Shown, Whole
  <1>2. CASE UNCHANGED <<ledger, header, rows>>
    BY <1>1, <1>2 DEF Published!publishedVars
  <1>3. ASSUME NEW o \in Operations, Post(o) PROVE Published!Next
    BY <1>1, <1>3 DEF Post, Published!Next, Published!Post
  <1>4. ASSUME NEW j \in Jobs, Replace(j) PROVE [Published!Next]_Published!publishedVars
    <2>1. CASE Commit(j) /\ job[j].pc \in Writing
      BY <1>4, <2>1, ReplaceSteps, CommitPublishes
    <2>2. CASE UNCHANGED <<header, rows>>
      BY <1>2, <1>4, <2>2, ReplaceSteps
    <2> QED BY <1>4, <2>1, <2>2, ReplaceSteps
  <1>5. ASSUME NEW j \in Jobs, Fail(j) PROVE UNCHANGED <<ledger, header, rows>>
    BY <1>5 DEF Fail
  <1>6. ASSUME NEW j \in Refreshers,
               BeginRefresh(j) \/ ReadLedger(j) \/ ReadSummary(j) \/ ReadHoldings(j)
        PROVE  UNCHANGED <<ledger, header, rows>>
    BY <1>6 DEF BeginRefresh, ReadLedger, ReadSummary, ReadHoldings
  <1>7. ASSUME NEW j \in Backfills, BeginBackfill(j) \/ SkipDate(j) \/ ReplayDate(j)
        PROVE  UNCHANGED <<ledger, header, rows>>
    BY <1>7 DEF BeginBackfill, SkipDate, ReplayDate
  <1>8. CASE Midnight \/ UNCHANGED vars
    BY <1>2, <1>8 DEF Midnight, vars
  <1> QED BY <1>2, <1>3, <1>4, <1>5, <1>6, <1>7, <1>8 DEF Next, Refresh, Backfill, Jobs

(* With one worker that runs refreshes, beside any backfills, the jobs of   *)
(* kushim-worker show users what PublishedReplays says: each replacement,   *)
(* of a header and holdings and in several statements, is one step in which *)
(* one replay takes the place of another; the read models only move         *)
(* forward; and what a refresh writes to a day is what they show then, not  *)
(* what they showed when the refresh read them.                             *)
THEOREM LoneRefresherPublishes ==
    ASSUME \A k, l \in Refreshers : k = l
    PROVE  Spec => ImplementsPublishedReplays
  <1>1. Init => LoneInv
    BY DEF Init, LoneInv, EveryTargetIsWhole, Whole, LoneOK, Idle, Writing, Jobs
  <1>2. Init => ForwardInv
    BY DEF Init, ForwardInv, ForwardOK, Idle, Writing, Jobs, Targets
  <1>3. Init => Published!Init
    <2> SUFFICES ASSUME Init PROVE Published!Init
      OBVIOUS
    <2>1. EveryTargetIsWhole
      BY <1>1 DEF LoneInv
    <2>2. \A t \in Targets : header[t] = Nothing
      BY DEF Init
    <2>3. \A t \in Targets : {row.ops : row \in {header[t]} \ {Nothing}} = {}
      BY <2>2
    <2>4. Shown = [t \in Targets |-> {}]
      BY <2>1, <2>3, LoneShows
    <2> QED BY <2>4 DEF Init, Published!Init, Targets
  <1>4. LoneInv => EveryTargetIsWhole
    BY DEF LoneInv
  <1> QED BY <1>1, <1>2, <1>3, <1>4, SnapshotsInit, SnapshotsNext, LoneNext, ForwardNext,
             LoneStepRefines, PTL DEF Spec, ImplementsPublishedReplays, Published!Spec
=============================================================================
