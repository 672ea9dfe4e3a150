--------------------------- MODULE DailySnapshots ---------------------------
(***************************************************************************)
(* The tables that the jobs of kushim-worker rewrite for one portfolio:    *)
(* the current read models and the daily snapshots, each a header row      *)
(* (rm_portfolio_summary, portfolio_snapshots_daily) and one row for every *)
(* holding.  A refresh rebuilds the read models from the whole ledger and  *)
(* copies them to the snapshot of the day it began; a backfill replays the *)
(* ledger up to the end of each date of its range.                         *)
(*                                                                         *)
(* A replacement is a transaction of several statements under READ         *)
(* COMMITTED: a statement sees what was committed when it began, and waits *)
(* for the transaction that holds the row or the key it needs.  The read   *)
(* models are replaced holdings first, a snapshot header first.            *)
(*                                                                         *)
(* What a replay computes is abstracted to the operations it used and the  *)
(* assets they leave open; PortfolioReplay has the figures.                *)
(***************************************************************************)
EXTENDS Naturals, FiniteSets

CONSTANTS
    Refreshers,   \* workers that run refreshes
    Backfills,    \* workers that run a backfill
    Operations,   \* the operations that clients post
    DayOf,        \* DayOf[o]: the date of executed_at
    Opens,        \* Opens[o]: the asset it buys, or Nothing
    Closes,       \* Closes[o]: the asset it sells out, or Nothing
    CreatedOn,    \* the date of the portfolio's created_at
    Ranges,       \* the ranges configured for backfills
    LastDay,      \* bound: the last day
    MaxRuns,      \* bound: runs of each worker
    Nothing

Jobs == Refreshers \cup Backfills
Days == 1 .. LastDay

(* A target of replacements: the read models, or the snapshot of a day.     *)
Current == 0
Targets == {Current} \cup Days

HeaderRow  == [ops: SUBSET Operations, by: Jobs \X Nat, base: SUBSET Operations]
HoldingRow == [asset: {Opens[o] : o \in Operations}, ops: SUBSET Operations, by: Jobs \X Nat]

ASSUME DailySnapshotsAssumptions ==
    /\ LastDay \in Nat \ {0} /\ MaxRuns \in Nat \ {0} /\ CreatedOn \in Days
    /\ \A o \in Operations : DayOf[o] \in Nat
    /\ IsFiniteSet(Jobs) /\ Refreshers \cap Backfills = {}
    /\ Nothing \notin HeaderRow

VARIABLES
    today,    \* the UTC date
    ledger,   \* the posted operations
    header,   \* header[t]: the committed header row, or Nothing
    rows,     \* rows[t]: the committed holding rows
    job       \* job[j]: what worker j is doing

vars == <<today, ledger, header, rows, job>>

-----------------------------------------------------------------------------
(* The replay, as far as the rows tell. *)

AsOf(operations, d) == {o \in operations : DayOf[o] <= d}

Held(operations) ==
    {Opens[o] : o \in operations} \ ({Closes[o] : o \in operations} \cup {Nothing})

(* An asset sold that nothing has bought by then ends the replay. *)
Replayable(operations) ==
    \A o \in operations :
        Closes[o] # Nothing =>
            \E b \in operations : Opens[b] = Closes[o] /\ DayOf[b] <= DayOf[o]

(* The holding rows that a replay of the operations writes. *)
HoldingRows(operations, author) ==
    {[asset |-> a, ops |-> operations, by |-> author] : a \in Held(operations)}

-----------------------------------------------------------------------------
(* A worker. *)

(* outcome tells how the last run ended, of backfills. *)
Idle(run, outcome) ==
    [pc |-> "idle", run |-> run, outcome |-> outcome, date |-> Nothing,
     first |-> Nothing, last |-> Nothing, base |-> {}, target |-> Nothing, ops |-> {},
     toWrite |-> {}, seen |-> {}, deleted |-> {}, inserted |-> {}, locks |-> FALSE]

Job ==
    [pc: {"idle", "ledger", "summary", "holdings", "date", "header", "delete", "deleting", "insert"},
     run: Nat, outcome: {"none", "done", "failed"},
     date: Days \cup {Nothing}, first: Days \cup {Nothing}, last: Days \cup {Nothing},
     base: SUBSET Operations, target: Targets \cup {Nothing}, ops: SUBSET Operations,
     toWrite: SUBSET HoldingRow, seen: SUBSET HoldingRow,
     deleted: SUBSET HoldingRow, inserted: SUBSET HoldingRow, locks: BOOLEAN]

TypeOK ==
    /\ today \in Days /\ ledger \subseteq Operations
    /\ header \in [Targets -> HeaderRow \cup {Nothing}]
    /\ rows \in [Targets -> SUBSET HoldingRow]
    /\ job \in [Jobs -> Job]

Init ==
    /\ today = CreatedOn
    /\ ledger = {}
    /\ header = [t \in Targets |-> Nothing]
    /\ rows = [t \in Targets |-> {}]
    /\ job = [j \in Jobs |-> Idle(0, "none")]

At(j, pc) == job[j].pc = pc
Becomes(j, record) == job' = [job EXCEPT ![j] = record]
Ends(j, outcome) ==
    Becomes(j, Idle(job[j].run, IF j \in Backfills THEN outcome ELSE "none"))
Author(j) == <<j, job[j].run>>

(* process_one takes the date before the refresh, which takes a while.      *)
BeginRefresh(j) ==
    /\ At(j, "idle")
    /\ job[j].run < MaxRuns
    /\ Becomes(j, [Idle(job[j].run + 1, "none") EXCEPT
                    !.pc = "ledger", !.date = today])
    /\ UNCHANGED <<today, ledger, header, rows>>

(* validate_job_specific_config: a range is not empty; it may reach beyond  *)
(* today.                                                                   *)
ValidRange(from, to) == from <= to

BeginBackfill(j) ==
    /\ At(j, "idle")
    /\ job[j].run < MaxRuns
    /\ \E from, to \in Days :
          /\ <<from, to>> \in Ranges
          /\ ValidRange(from, to)
          /\ Becomes(j, [Idle(job[j].run + 1, "none") EXCEPT
                          !.pc = "date", !.date = from, !.first = from, !.last = to,
                          !.base = ledger])
    /\ UNCHANGED <<today, ledger, header, rows>>

(* iter_dates: the next date of the range, or the end of the run.           *)
NextDate(j) ==
    IF job[j].date = job[j].last
    THEN [Idle(job[j].run, "done") EXCEPT
            !.first = job[j].first, !.last = job[j].last]
    ELSE [Idle(job[j].run, "none") EXCEPT
            !.pc = "date", !.date = job[j].date + 1, !.first = job[j].first,
            !.last = job[j].last, !.base = job[j].base]

-----------------------------------------------------------------------------
(* Replacing the rows of a target. *)

(* Mutation of HeaderFirst: the holdings are always replaced first.         *)
HeaderNeverFirst(t) == FALSE

(* A snapshot's holdings need the key of its header; the read models'       *)
(* summary is written last.                                                 *)
HeaderFirst(t) == t # Current

Replacing(j, t, operations, holdingRows) ==
    [job[j] EXCEPT !.pc = IF HeaderFirst(t) THEN "header" ELSE "delete",
                   !.target = t, !.ops = operations, !.toWrite = holdingRows]

Rivals(j) == {k \in Jobs \ {j} : job[k].target = job[j].target}

Conflicts(r, others) == \E other \in others : other.asset = r.asset

(* The rivals that a statement waits for: an upsert for the one that wrote  *)
(* the header, a DELETE for those that are deleting a row it saw, an INSERT *)
(* for those that wrote or are deleting a row with its unique key.          *)
HeaderHolders(j) == {k \in Rivals(j) : job[k].locks}
Deleters(j) == {k \in Rivals(j) : job[k].deleted \cap job[j].seen # {}}
KeyHolders(j, r) == {k \in Rivals(j) : Conflicts(r, job[k].inserted \cup job[k].deleted)}

WaitsFor(j) ==
    CASE At(j, "header")   -> HeaderHolders(j)
      [] At(j, "deleting") -> Deleters(j)
      [] At(j, "insert")   -> UNION {KeyHolders(j, r) : r \in job[j].toWrite}
      [] OTHER             -> {}

(* What a committed transaction leaves, and what its worker does next.      *)
Commit(j) ==
    LET t == job[j].target
    IN /\ rows' = [rows EXCEPT ![t] = (@ \ job[j].deleted) \cup job[j].inserted]
       /\ header' = [header EXCEPT ![t] = [ops |-> job[j].ops, by |-> Author(j),
                                           base |-> job[j].base]]
       /\ Becomes(j, IF j \in Backfills THEN NextDate(j)
                     ELSE IF t = Current
                          THEN [Idle(job[j].run, "none") EXCEPT !.pc = "summary",
                                   !.date = job[j].date]
                          ELSE Idle(job[j].run, "none"))

(* INSERT ... ON CONFLICT DO UPDATE. *)
UpsertHeader(j) ==
    /\ At(j, "header")
    /\ HeaderHolders(j) = {}
    /\ IF HeaderFirst(job[j].target)
       THEN /\ Becomes(j, [job[j] EXCEPT !.pc = "delete", !.locks = TRUE])
            /\ UNCHANGED <<header, rows>>
       ELSE Commit(j)
    /\ UNCHANGED <<today, ledger>>

BeginDelete(j) ==
    /\ At(j, "delete")
    /\ Becomes(j, [job[j] EXCEPT !.pc = "deleting", !.seen = rows[job[j].target]])
    /\ UNCHANGED <<today, ledger, header, rows>>

(* It skips the rows that rivals have removed; rows that they have inserted *)
(* it does not see.                                                         *)
EndDelete(j) ==
    /\ At(j, "deleting")
    /\ Deleters(j) = {}
    /\ Becomes(j, [job[j] EXCEPT !.pc = "insert", !.seen = {},
                                 !.deleted = job[j].seen \cap rows[job[j].target]])
    /\ UNCHANGED <<today, ledger, header, rows>>

(* Mutation of InsertHolding: ON CONFLICT DO NOTHING.                       *)
InsertHoldingIfAbsent(j) ==
    /\ At(j, "insert")
    /\ \E r \in job[j].toWrite :
          /\ KeyHolders(j, r) = {}
          /\ LET new == IF Conflicts(r, rows[job[j].target] \ job[j].deleted) THEN {} ELSE {r}
             IN Becomes(j, [job[j] EXCEPT !.inserted = @ \cup new, !.toWrite = @ \ {r}])
    /\ UNCHANGED <<today, ledger, header, rows>>

(* The positions of a replay are in a HashMap: any order.                   *)
InsertHolding(j) ==
    /\ At(j, "insert")
    /\ \E r \in job[j].toWrite :
          /\ KeyHolders(j, r) = {}
          /\ IF Conflicts(r, rows[job[j].target] \ job[j].deleted)
             THEN Ends(j, "failed")
             ELSE Becomes(j, [job[j] EXCEPT !.inserted = @ \cup {r}, !.toWrite = @ \ {r}])
    /\ UNCHANGED <<today, ledger, header, rows>>

EndInserts(j) ==
    /\ At(j, "insert")
    /\ job[j].toWrite = {}
    /\ IF HeaderFirst(job[j].target)
       THEN Commit(j)
       ELSE /\ Becomes(j, [job[j] EXCEPT !.pc = "header"])
            /\ UNCHANGED <<header, rows>>
    /\ UNCHANGED <<today, ledger>>

(* Mutation of BreakDeadlock: nobody looks. *)
DeadlockUnseen(j) == FALSE /\ UNCHANGED vars

(* Each of a circle waits for the next one: a set closed under waiting that *)
(* has no smaller one within it.                                            *)
Stuck(workers) == workers # {} /\ \A k \in workers : WaitsFor(k) \cap workers # {}
Deadlocked(j) ==
    \E circle \in SUBSET Jobs :
        /\ j \in circle
        /\ Stuck(circle)
        /\ \A smaller \in SUBSET circle : Stuck(smaller) => smaller = circle

(* PostgreSQL ends one of a circle of transactions.                         *)
BreakDeadlock(j) ==
    /\ Deadlocked(j)
    /\ Ends(j, "failed")
    /\ UNCHANGED <<today, ledger, header, rows>>

-----------------------------------------------------------------------------
(* The steps of a refresh between its two replacements. *)

(* The rebuild has no upper bound on executed_at.                           *)
ReadLedger(j) ==
    /\ At(j, "ledger")
    /\ IF Replayable(ledger)
       THEN Becomes(j, Replacing(j, Current, ledger, HoldingRows(ledger, Author(j))))
       ELSE Ends(j, "failed")
    /\ UNCHANGED <<today, ledger, header, rows>>

(* A portfolio without a summary is skipped. *)
ReadSummary(j) ==
    /\ At(j, "summary")
    /\ IF header[Current] = Nothing
       THEN Ends(j, "done")
       ELSE Becomes(j, [job[j] EXCEPT !.pc = "holdings", !.ops = header[Current].ops])
    /\ UNCHANGED <<today, ledger, header, rows>>

ReadHoldings(j) ==
    /\ At(j, "holdings")
    /\ Becomes(j, Replacing(j, job[j].date, job[j].ops,
                            {[r EXCEPT !.by = Author(j)] : r \in rows[Current]}))
    /\ UNCHANGED <<today, ledger, header, rows>>

-----------------------------------------------------------------------------
(* One date of a backfill. *)

(* Mutation of BeforeCreation: the day of the creation is skipped too. *)
UpToCreation(d) == d <= CreatedOn

BeforeCreation(d) == d < CreatedOn

SkipDate(j) ==
    /\ At(j, "date")
    /\ BeforeCreation(job[j].date)
    /\ Becomes(j, NextDate(j))
    /\ UNCHANGED <<today, ledger, header, rows>>

(* Mutation of ThroughDate: executed_at is compared with the date itself. *)
BeforeDate(operations, d) == {o \in operations : DayOf[o] < d}

(* list_posted_operations_through_date: executed_at < the next day. *)
ThroughDate(operations, d) == AsOf(operations, d)

ReplayDate(j) ==
    /\ At(j, "date")
    /\ ~BeforeCreation(job[j].date)
    /\ LET used == ThroughDate(ledger, job[j].date)
       IN IF Replayable(used)
          THEN Becomes(j, Replacing(j, job[j].date, used, HoldingRows(used, Author(j))))
          ELSE Ends(j, "failed")
    /\ UNCHANGED <<today, ledger, header, rows>>

-----------------------------------------------------------------------------
(* The rest of the world. *)

(* Clients post operations of any date. *)
Post(o) ==
    /\ o \notin ledger
    /\ ledger' = ledger \cup {o}
    /\ UNCHANGED <<today, header, rows, job>>

Midnight ==
    /\ today < LastDay
    /\ today' = today + 1
    /\ UNCHANGED <<ledger, header, rows, job>>

(* A database error or the death of the process: the transaction is undone. *)
Fail(j) ==
    /\ ~At(j, "idle")
    /\ Ends(j, "failed")
    /\ UNCHANGED <<today, ledger, header, rows>>

Replace(j) ==
    \/ UpsertHeader(j) \/ BeginDelete(j) \/ EndDelete(j)
    \/ InsertHolding(j) \/ EndInserts(j) \/ BreakDeadlock(j)

Refresh(j) == ReadLedger(j) \/ ReadSummary(j) \/ ReadHoldings(j) \/ Replace(j)
Backfill(j) == SkipDate(j) \/ ReplayDate(j) \/ Replace(j)

Next ==
    \/ \E o \in Operations : Post(o)
    \/ Midnight
    \/ \E j \in Refreshers : BeginRefresh(j) \/ Refresh(j)
    \/ \E j \in Backfills : BeginBackfill(j) \/ Backfill(j)
    \/ \E j \in Jobs : Fail(j)

Spec == Init /\ [][Next]_vars

-----------------------------------------------------------------------------
(* Properties. *)

(* A daily snapshot is the work of one run: its holdings are those that the *)
(* last writer of the header inserted, whatever refreshes and backfills     *)
(* write the same date at once, wait for each other or fail.                *)
SnapshotsAreOfOneRun ==
    \A d \in Days :
        \A r \in rows[d] : header[d] # Nothing /\ r.by = header[d].by

(* The holdings are all those of the replay that the header tells of. *)
Whole(t) ==
    IF header[t] = Nothing THEN rows[t] = {}
    ELSE rows[t] = HoldingRows(header[t].ops, header[t].by)

(* The current read models are one replay's: the replacement is atomic.     *)
(* Two rebuilds at once break it (see README): the DELETE of one does not   *)
(* see the INSERTs of the other.                                            *)
ReadModelsAreWhole == Whole(Current)

(* What is left of it: whatever rebuilds run at once, the holdings of the   *)
(* replay that the summary tells of are all there.                          *)
LastRebuildIsThere ==
    header[Current] # Nothing =>
        HoldingRows(header[Current].ops, header[Current].by) \subseteq rows[Current]

(* A backfilled snapshot is the ledger as of its date: everything executed  *)
(* by the end of that day that was posted when the run began, and nothing   *)
(* executed later, although operations of any date arrive meanwhile.        *)
BackfillIsAsOf ==
    \A d \in Days :
        (header[d] # Nothing /\ header[d].by[1] \in Backfills) =>
            /\ AsOf(header[d].base, d) \subseteq header[d].ops
            /\ header[d].ops \subseteq AsOf(ledger, d)
            /\ Whole(d)

(* A backfill that ended well leaves no date of its range without a         *)
(* snapshot, the day of the creation included, and nobody ever writes one   *)
(* of a date before it.                                                     *)
BackfillCoversItsRange ==
    /\ \A j \in Backfills :
          job[j].outcome = "done" =>
              \A d \in job[j].first .. job[j].last :
                  d >= CreatedOn => header[d] # Nothing
    /\ \A d \in Days : d < CreatedOn => header[d] = Nothing

(* Nobody waits for ever: while runs are under way one of them can take its *)
(* next step, or is the one that the deadlock detector ends.                *)
SomeRunAdvances ==
    (\E j \in Jobs : ~At(j, "idle")) =>
        \/ \E j \in Refreshers : ENABLED Refresh(j)
        \/ \E j \in Backfills : ENABLED Backfill(j)

(* The replay that a target shows, if any.  A mixture of several is shown   *)
(* as what no action of PublishedReplays writes.                            *)
Shown ==
    [t \in Targets |->
        IF Whole(t) THEN {row.ops : row \in {header[t]} \ {Nothing}} ELSE {{Nothing}}]

Published == INSTANCE PublishedReplays WITH shown <- Shown

(* One worker that runs refreshes, beside any backfills, implements the     *)
(* atomic replacements of PublishedReplays, statement by statement.         *)
ImplementsPublishedReplays == Published!Spec
=============================================================================
