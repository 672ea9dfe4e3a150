-------------------------- MODULE MarketDataCaches --------------------------
(***************************************************************************)
(* The jobs of kushim-market-data and the three caches they fill: the      *)
(* current quote of an asset (asset_market_data), its daily closes         *)
(* (asset_price_history_cache) and the daily rates of currency pairs       *)
(* (fx_rate_history_cache).  Processes run their job once or in a loop;    *)
(* nothing keeps two of them from running the same job at once.            *)
(*                                                                         *)
(* A quote and a close are written by one statement.  The rates of a pair  *)
(* are one transaction: every rate is first looked for with SELECT ... FOR *)
(* UPDATE, which locks an existing row and nothing where there is none,    *)
(* then updated if it differs, or inserted without ON CONFLICT.            *)
(***************************************************************************)
EXTENDS FxRates

CONSTANTS
    Processes,     \* processes that run jobs
    Assets,        \* the assets at the start, all active
    Allowlist,     \* the assets whose symbol is configured, or Nothing
    Quotes,        \* quotes that providers may return: [asOf, price]
    KnownOn,       \* KnownOn[a]: dates for which the provider has a close
    Deployments,   \* the job and the data set of each process, as deployed
    CurrencySets,  \* FX_HISTORY_CURRENCIES
    Ranges,        \* <<from, to>>: the date ranges of the jobs
    Deletable,     \* bound: the assets that may be deleted
    MaxRuns        \* bound: runs of all processes together

Dates == UNION {r[1] .. r[2] : r \in Ranges}
Pairs == PairsOf(Currencies)

ASSUME MarketDataAssumptions ==
    /\ MaxRuns \in Nat \ {0}
    /\ Deployments \subseteq [Processes -> [name : {"quotes", "closes", "rates"},
                                           version : DOMAIN CodeHash]]
    /\ Allowlist = Nothing \/ Allowlist \subseteq Assets
    /\ Nothing \notin Quotes /\ \A q \in Quotes : q.asOf \in Int
    /\ UNION CurrencySets \subseteq Currencies
    /\ Ranges \subseteq Int \X Int

VARIABLES
    active,  \* the assets that have not been deleted
    quote,   \* quote[a]: [asOf, price], or Nothing
    closes,  \* closes[a]: the dates with a cached close
    rates,   \* rates[p][d]: the committed row, or Nothing
    job      \* job[w]: what process w is doing

vars == <<active, quote, closes, rates, job>>

-----------------------------------------------------------------------------
(* The processes. *)

Idle(deployed, run, outcome) ==
    [name |-> deployed.name, version |-> deployed.version,
     pc |-> "idle", run |-> run, outcome |-> outcome,
     from |-> 0, to |-> 0, date |-> 0, assets |-> {}, skipped |-> {},
     pairs |-> {}, missing |-> {}, todo |-> {}, written |-> {}, locked |-> {},
     currencies |-> {}, lost |-> {}, changed |-> FALSE,
     hand |-> Nothing, answers |-> {}]

Init ==
    /\ active = Assets
    /\ quote = [a \in Assets |-> Nothing]
    /\ closes = [a \in Assets |-> {}]
    /\ rates = [p \in Pairs |-> [d \in Dates |-> Nothing]]
    /\ \E deployed \in Deployments :
          job = [w \in Processes |-> Idle(deployed[w], 0, "none")]

At(w, pc) == job[w].pc = pc
Becomes(w, record) == job' = [job EXCEPT ![w] = record]
CachesUnchanged == UNCHANGED <<active, quote, closes, rates>>

(* The range and the failures of a run outlive it, for its report. *)
Ends(w, outcome) ==
    [job[w] EXCEPT !.pc = "idle", !.outcome = outcome, !.date = 0, !.assets = {}]

(* MARKET_DATA_JOB: a process runs the one job it is configured for; its    *)
(* binary fixes the data set of the rates.                                  *)
Begins(w, name) ==
    /\ At(w, "idle")
    /\ job[w].name = name
    /\ MapThenSumSet(LAMBDA p : job[p].run, Processes) < MaxRuns
    /\ CachesUnchanged

Begun(w) == Idle(job[w], job[w].run + 1, "none")

(* A database error, a signal or a crash; a transaction is undone. *)
Fail(w) ==
    /\ ~At(w, "idle")
    /\ Becomes(w, Idle(job[w], job[w].run, "failed"))
    /\ CachesUnchanged

-----------------------------------------------------------------------------
(* refresh_current_market_data. *)

(* select_assets_by_allowlist of list_active_assets. *)
Selected == IF Allowlist = Nothing THEN active ELSE active \cap Allowlist

BeginQuotes(w) ==
    /\ Begins(w, "quotes")
    /\ Becomes(w, [Begun(w) EXCEPT
                    !.pc = "quote", !.assets = Selected])

(* get_quote: the provider fails, has no quote, or answers one of any age,  *)
(* which the process has in hand while others write.                        *)
AskQuote(w) ==
    /\ At(w, "quote")
    /\ \E a \in job[w].assets :
          \/ Becomes(w, [job[w] EXCEPT !.assets = @ \ {a}])
          \/ \E q \in Quotes :
                LET answer == [asset |-> a, quote |-> q]
                IN Becomes(w, [job[w] EXCEPT
                                 !.pc = "upsert", !.assets = @ \ {a},
                                 !.hand = answer, !.answers = @ \cup {answer}])
    /\ CachesUnchanged

(* Mutation of Overwrites: whoever writes last wins. *)
OverwritesAlways(a, q) == TRUE

(* The WHERE of the upsert. *)
Overwrites(a, q) ==
    \/ quote[a] = Nothing
    \/ q.asOf > quote[a].asOf
    \/ q.asOf = quote[a].asOf /\ q.price # quote[a].price

(* The foreign key refuses the quote of an asset that has been deleted      *)
(* since it was listed.                                                     *)
UpsertQuote(w) ==
    /\ At(w, "upsert")
    /\ LET a == job[w].hand.asset
           q == job[w].hand.quote
       IN quote' = IF a \in active /\ Overwrites(a, q)
                   THEN [quote EXCEPT ![a] = q] ELSE quote
    /\ Becomes(w, [job[w] EXCEPT !.pc = "quote", !.hand = Nothing])
    /\ UNCHANGED <<active, closes, rates>>

EndAssets(w) ==
    /\ job[w].pc \in {"quote", "close"}
    /\ job[w].assets = {}
    /\ Becomes(w, Ends(w, "done"))
    /\ CachesUnchanged

-----------------------------------------------------------------------------
(* fill_missing_price_history_cache. *)

BeginCloses(w) ==
    /\ Begins(w, "closes")
    /\ \E r \in Ranges :
          Becomes(w, [Begun(w) EXCEPT
                       !.pc = "close", !.assets = Selected,
                       !.from = r[1], !.to = r[2], !.date = r[1]])

(* The asset of the loop; the list is in the order of the names. *)
CurrentAsset(w) == CHOOSE a \in job[w].assets : TRUE

NextClose(w, a) ==
    IF job[w].date < job[w].to
    THEN [job[w] EXCEPT !.date = @ + 1]
    ELSE [job[w] EXCEPT !.date = job[w].from, !.assets = @ \ {a}]

(* break: the later dates of the asset are left for another run. *)
LeaveAsset(w, a) ==
    [job[w] EXCEPT !.date = job[w].from, !.assets = @ \ {a}, !.skipped = @ \cup {a}]

(* ON CONFLICT DO NOTHING: the first close of a date stays. *)
FillClose(w) ==
    /\ At(w, "close")
    /\ job[w].assets # {}
    /\ LET a == CurrentAsset(w)
       IN IF job[w].date \in KnownOn[a] /\ a \in active
          THEN /\ closes' = [closes EXCEPT ![a] = @ \cup {job[w].date}]
               /\ Becomes(w, NextClose(w, a))
          ELSE /\ Becomes(w, LeaveAsset(w, a))
               /\ UNCHANGED closes
    /\ UNCHANGED <<active, quote, rates>>

CloseUnavailable(w) ==
    /\ At(w, "close")
    /\ job[w].assets # {}
    /\ Becomes(w, LeaveAsset(w, CurrentAsset(w)))
    /\ CachesUnchanged

-----------------------------------------------------------------------------
(* fill_missing_fx_history_cache. *)

PairBefore(p, q) ==
    \/ Rank[p.base] < Rank[q.base]
    \/ p.base = q.base /\ Rank[p.quote] < Rank[q.quote]

BeginRates(w) ==
    /\ Begins(w, "rates")
    /\ \E r \in Ranges, currencies \in CurrencySets :
          Becomes(w, [Begun(w) EXCEPT
                       !.pc = "pair", !.from = r[1], !.to = r[2],
                       !.currencies = currencies, !.pairs = PairsOf(currencies)])

CurrentPair(w) ==
    CHOOSE p \in job[w].pairs : \A q \in job[w].pairs \ {p} : PairBefore(p, q)
NextPair(w) ==
    [job[w] EXCEPT !.pc = "pair", !.pairs = @ \ {CurrentPair(w)}, !.missing = {},
                   !.todo = {}, !.written = {}, !.locked = {}]
PairFailed(w) == [NextPair(w) EXCEPT !.lost = @ \cup {CurrentPair(w)}]

SkipPair(w) ==
    /\ At(w, "pair")
    /\ job[w].pairs # {}
    /\ ~SupportsPair(CurrentPair(w))
    /\ Becomes(w, PairFailed(w))
    /\ CachesUnchanged

(* missing_dates_for_pair. *)
MissingDates(p, from, to) == {d \in from .. to : rates[p][d] = Nothing}

FindMissing(w) ==
    /\ At(w, "pair")
    /\ job[w].pairs # {}
    /\ SupportsPair(CurrentPair(w))
    /\ Becomes(w, [job[w] EXCEPT !.pc = "fetch",
                    !.missing = MissingDates(CurrentPair(w), job[w].from, job[w].to)])
    /\ CachesUnchanged

(* Mutation of BatchDates: the dates that are present are not corrected. *)
BatchMissingOnly(p, from, to, missing) ==
    {d \in missing : Quoted(p, d)}

(* The missing dates, and the others, to correct them. *)
BatchDates(p, from, to, missing) ==
    {d \in missing : Quoted(p, d)} \cup {d \in (from .. to) \ missing : Quoted(p, d)}

FetchRates(w) ==
    /\ At(w, "fetch")
    /\ LET todo == BatchDates(CurrentPair(w), job[w].from, job[w].to, job[w].missing)
       IN Becomes(w, IF todo = {} THEN NextPair(w)
                     ELSE [job[w] EXCEPT !.pc = "select", !.missing = @ \cap todo,
                                         !.todo = todo])
    /\ CachesUnchanged

(* Mutation of FetchFails: the pair is left without counting it as failed. *)
FetchFailsSilently(w) ==
    /\ At(w, "fetch")
    /\ Becomes(w, NextPair(w))
    /\ CachesUnchanged

(* One failed request and the whole pair is left. *)
FetchFails(w) ==
    /\ At(w, "fetch")
    /\ Becomes(w, PairFailed(w))
    /\ CachesUnchanged

(* A batch writes the dates that were missing first, then the others.       *)
NextDate(w) ==
    LET missing == job[w].todo \cap job[w].missing
    IN Min(IF missing # {} THEN missing ELSE job[w].todo)

Incoming(w) == DailyRate(CurrentPair(w), NextDate(w), job[w].version)
Stored(w) == rates[CurrentPair(w)][NextDate(w)]
Passed(w) == [job[w] EXCEPT !.pc = "select", !.todo = @ \ {NextDate(w)},
                            !.missing = @ \ {NextDate(w)}]
Written(w) == [Passed(w) EXCEPT !.written = @ \cup {NextDate(w)}]

Busy(w) == job[w].pc \in {"select", "insert"}
Rivals(w) ==
    {k \in Processes \ {w} : Busy(k) /\ CurrentPair(k) = CurrentPair(w)}

(* SELECT ... FOR UPDATE and what follows it: an existing row is locked,    *)
(* and updated when it differs; a row that is not there locks nothing.      *)
SelectRate(w) ==
    /\ At(w, "select")
    /\ job[w].todo # {}
    /\ LET d == NextDate(w)
       IN IF Stored(w) = Nothing
          THEN Becomes(w, [job[w] EXCEPT !.pc = "insert"])
          ELSE /\ \A k \in Rivals(w) : d \notin job[k].locked
               /\ Becomes(w, [(IF Stored(w) = Incoming(w) THEN Passed(w) ELSE Written(w))
                                 EXCEPT !.locked = @ \cup {d}])
    /\ CachesUnchanged

(* A plain INSERT waits for a rival's of the same key; once that one is     *)
(* committed it breaks the unique index and the whole batch is undone.      *)
InsertRate(w) ==
    /\ At(w, "insert")
    /\ \A k \in Rivals(w) : NextDate(w) \notin job[k].written
    /\ Becomes(w, IF Stored(w) = Nothing THEN Written(w) ELSE PairFailed(w))
    /\ CachesUnchanged

(* The transaction's rates become visible together. *)
Publish(p, dates, v) ==
    rates' = [rates EXCEPT ![p] =
                [d \in Dates |-> IF d \in dates THEN DailyRate(p, d, v) ELSE @[d]]]

CommitBatch(w) ==
    /\ At(w, "select")
    /\ job[w].todo = {}
    /\ Publish(CurrentPair(w), job[w].written, job[w].version)
    /\ Becomes(w, [NextPair(w) EXCEPT !.changed = @ \/ job[w].written # {}])
    /\ UNCHANGED <<active, quote, closes>>

(* The missing dates come first, so two batches may lock in other orders.   *)
WaitsFor(w) ==
    {k \in Rivals(w) :
        /\ job[w].todo # {}
        /\ \/ At(w, "select") /\ Stored(w) # Nothing /\ NextDate(w) \in job[k].locked
           \/ At(w, "insert") /\ NextDate(w) \in job[k].written}

(* PostgreSQL ends one of a circle of transactions, each waiting for the    *)
(* next one.                                                                *)
Stuck(batches) == batches # {} /\ \A k \in batches : WaitsFor(k) \cap batches # {}
BreakDeadlock(w) ==
    /\ \E circle \in SUBSET {k \in Processes : Busy(k)} :
          /\ w \in circle
          /\ Stuck(circle)
          /\ \A smaller \in SUBSET circle : Stuck(smaller) => smaller = circle
    /\ Becomes(w, PairFailed(w))
    /\ CachesUnchanged

EndRates(w) ==
    /\ At(w, "pair")
    /\ job[w].pairs = {}
    /\ Becomes(w, Ends(w, IF job[w].lost # {} /\ ~job[w].changed
                          THEN "error" ELSE "done"))
    /\ CachesUnchanged

-----------------------------------------------------------------------------
(* An administrator deletes an asset; its rows go with it.  The rates of    *)
(* currencies have nothing to do with it.                                   *)
DeleteAsset(a) ==
    /\ a \in active
    /\ \E w \in Processes : job[w].name # "rates"
    /\ active' = active \ {a}
    /\ quote' = [quote EXCEPT ![a] = Nothing]
    /\ closes' = [closes EXCEPT ![a] = {}]
    /\ UNCHANGED <<rates, job>>

Run(w) ==
    \/ AskQuote(w) \/ UpsertQuote(w)
    \/ FillClose(w) \/ CloseUnavailable(w) \/ EndAssets(w)
    \/ SkipPair(w) \/ FindMissing(w) \/ FetchRates(w) \/ FetchFails(w)
    \/ SelectRate(w) \/ InsertRate(w) \/ CommitBatch(w) \/ BreakDeadlock(w)
    \/ EndRates(w)

Next ==
    \/ \E w \in Processes :
          BeginQuotes(w) \/ BeginCloses(w) \/ BeginRates(w) \/ Run(w) \/ Fail(w)
    \/ \E a \in Deletable : DeleteAsset(a)

Spec == Init /\ [][Next]_vars
-----------------------------------------------------------------------------
(* Properties. *)

Reported(w, name) ==
    At(w, "idle") /\ job[w].name = name /\ job[w].outcome \in {"done", "error"}

(* Whatever quotes of whatever age others write while its own are under     *)
(* way, a run that has ended leaves each asset with a quote that is not     *)
(* older than the one it was given for it, unless the asset is gone.        *)
NoAnswerIsLost ==
    \A w \in Processes :
        Reported(w, "quotes") =>
            \A answer \in job[w].answers :
                LET stored == quote[answer.asset]
                IN answer.asset \in active =>
                      stored # Nothing /\ stored.asOf >= answer.quote.asOf

NoGapInCloses(w) ==
    Reported(w, "closes") =>
        \A a \in Selected \ job[w].skipped : job[w].from .. job[w].to \subseteq closes[a]

NoGapInRates(w) ==
    Reported(w, "rates") =>
        \A p \in PairsOf(job[w].currencies) \ job[w].lost :
            \A d \in job[w].from .. job[w].to : BusinessDay(d) => rates[p][d] # Nothing

(* A finished run has cached every date of its range for what it does not   *)
(* report as failed or left early: no silent gap, in closes or in rates,    *)
(* whatever assets are deleted and whoever else fills the same rows.        *)
NoUnreportedGap == \A w \in Processes : NoGapInCloses(w) /\ NoGapInRates(w)

(* When rates of a pair become visible, the job that publishes them leaves  *)
(* its data set's rate on every business day of its range: no other job has *)
(* slipped in, and neither missing nor outdated dates are left out.         *)
BatchLandsWhole ==
    [][\A p \in Pairs :
          rates'[p] # rates[p] =>
              \E w \in Processes :
                  /\ job'[w] # job[w]
                  /\ \A d \in job[w].from .. job[w].to :
                        BusinessDay(d) => rates'[p][d] = DailyRate(p, d, job[w].version)]_vars

LatestBusinessDay(d) == Max({e \in Dates : e <= d /\ BusinessDay(e)})

(* After a run that failed for no pair, both directions of each pair have a *)
(* rate on every day of the range, weekends too: that of the last business  *)
(* day, as long as it lies in the range and in the carry-forward window.    *)
LookupsCarryForward ==
    \A w \in Processes :
        (Reported(w, "rates") /\ job[w].lost = {}) =>
            \A p \in PairsOf(job[w].currencies), d \in job[w].from .. job[w].to :
                (\E e \in job[w].from .. d : BusinessDay(e) /\ d - e <= MaxCarryDays) =>
                    \A source \in {p.base, p.quote} :
                        LET target == IF source = p.base THEN p.quote ELSE p.base
                            hit == LookupLatest(rates[p], source, target, d)
                        IN hit.found /\ hit.date = LatestBusinessDay(d)

Near(m, n, slack) == 2 * (m - n) <= slack /\ 2 * (n - m) <= slack

(* Whatever jobs filled the cache, rates of one data set and date agree: to *)
(* convert through a third currency, or there and back, gives what the      *)
(* rounding of the stored rates allows.                                     *)
CrossRatesAgree ==
    \A p, q \in Pairs :
        p.quote = q.base =>
            LET direct == CanonicalPair(p.base, q.quote)
            IN \A d \in Dates :
                 ( /\ Nothing \notin {rates[p][d], rates[q][d], rates[direct][d]}
                   /\ rates[p][d].version = rates[q][d].version
                   /\ rates[p][d].version = rates[direct][d].version ) =>
                     LET m == rates[p][d].rate
                         n == rates[q][d].rate
                     IN /\ Near(m * n, rates[direct][d].rate * RateUnit, m + n + RateUnit + 1)
                        /\ Near(m * InverseRate(m), RateUnit * RateUnit, m + 1)

(* "A non-zero exit is returned only when every pair fails."  The code does *)
(* not keep it: one failed pair is enough when no other pair had anything   *)
(* to write.                                                                *)
ErrorMeansEveryPairFailed ==
    \A w \in Processes :
        job[w].outcome = "error" => job[w].lost = PairsOf(job[w].currencies)
=============================================================================
