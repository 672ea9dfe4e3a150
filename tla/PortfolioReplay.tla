--------------------------- MODULE PortfolioReplay ---------------------------
(***************************************************************************)
(* What kushim-worker computes from a ledger: rebuild_portfolio_state, a   *)
(* fold of the posted operations in the order of executed_at, followed by  *)
(* the valuation of the open positions.  Operations enter the ledger       *)
(* through the rules of OperationRules, at any date, so a new one may go   *)
(* between old ones; the market is any of the given ones.                  *)
(*                                                                         *)
(* Scaled integers stay scaled integers: the powers of ten of the code     *)
(* (10^10 for quantities and rates, 10^4 for percentages) are constants,   *)
(* and so are the largest i64 and the largest numeric(10,4).               *)
(***************************************************************************)
EXTENDS OperationRules, FiniteSets, Sequences, SequencesExt

CONSTANTS
    Payloads,       \* the requests that clients send
    Markets,        \* what asset_market_data may hold, by asset
    QuantityUnit,   \* 10^QUANTITY_SCALE
    RateUnit,       \* 10^RATE_SCALE
    PctUnit,        \* 10^PCT_SCALE
    MaxMinor,       \* i64::MAX
    MaxPct,         \* the largest scaled value of numeric(10,4)
    MaxLedger       \* bound: operations posted

(* Amounts and decimals are numbers, and no column holds a negative price.  *)
ASSUME PortfolioReplayAssumptions ==
    /\ {QuantityUnit, RateUnit, PctUnit, MaxMinor, MaxPct, MaxLedger} \subseteq Nat \ {0}
    /\ Nothing \notin Int
    /\ \A q \in Payloads :
          /\ q = [field \in Fields |-> q[field]]
          /\ q.type \in OperationType
          /\ q.cash \in Int
          /\ {q.quantity, q.relatedQuantity, q.rate} \subseteq Int \cup {Nothing}
    /\ \A quotes \in Markets, a \in Assets : Present(quotes[a]) => quotes[a].price \in Nat

VARIABLES
    ledger,   \* the posted operations, in the order of the replay
    market    \* market[a]: the row of asset_market_data, or Nothing

vars == <<ledger, market>>

(* PortfolioOperationEvent: what list_posted_operations_for_portfolio reads *)
(* of a row, decimals parsed by parse_scaled.                               *)
Event(q) ==
    LET r == Stored(Candidate(q))
    IN [type |-> r.type, asset |-> r.asset, related |-> r.related,
        quantity |-> r.quantity, relatedQuantity |-> r.relatedQuantity,
        cash |-> r.cash, currency |-> r.currency, rate |-> r.rate]

AcceptedEvents == {Event(q) : q \in {p \in Payloads : Accepted(p)}}

(* OperationLedger shows how a rate can be dropped between the validation   *)
(* and the posting; rows posted before the rule existed have none either.   *)
PostedEvents ==
    AcceptedEvents \cup {[e EXCEPT !.rate = Nothing] : e \in AcceptedEvents}

-----------------------------------------------------------------------------
(* Arithmetic. *)

Abs(n) == IF n < 0 THEN -n ELSE n
Larger(m, n) == IF m < n THEN n ELSE m

(* divide_round: Rust's / truncates; half is rounded away from zero.        *)
DivideRound(n, d) ==
    LET magnitude == (2 * Abs(n) + d) \div (2 * d)
    IN IF n < 0 THEN -magnitude ELSE magnitude

Percentage(value, total) == DivideRound(value * 100 * PctUnit, total)

FitsI64(n) == Abs(n) <= MaxMinor
FitsPct(n) == n = Nothing \/ Abs(n) <= MaxPct

-----------------------------------------------------------------------------
(* The fold. *)

NoPosition == [quantity |-> 0, invested |-> 0]

(* PortfolioState; error is the Err with which apply ended the replay.      *)
InitialState ==
    [cash |-> 0, invested |-> 0, estimated |-> FALSE, error |-> "none",
     positions |-> [a \in {} |-> NoPosition]]

Failed(s, error) == [s EXCEPT !.error = error]

(* convert_amount_to_base: a foreign amount without a rate counts as 0.     *)
Converts(e) == e.cash = 0 \/ e.currency = BaseCurrency \/ Present(e.rate)
ConvertedCash(e) ==
    IF e.cash = 0 \/ e.currency = BaseCurrency THEN e.cash
    ELSE IF Absent(e.rate) THEN 0
    ELSE DivideRound(e.cash * e.rate, RateUnit)

Receive(s, amount) == [s EXCEPT !.cash = @ + amount]
(* Mutation of Pay: cash does not go below zero. *)
PayUpToCash(s, amount) == [s EXCEPT !.cash = Larger(@ - amount, 0)]

Pay(s, amount) == [s EXCEPT !.cash = @ - amount]
Contribute(s, amount) == [s EXCEPT !.invested = @ + amount]
Withdraw(s, amount)   == [s EXCEPT !.invested = Larger(@ - amount, 0)]
Estimated(s) == [s EXCEPT !.estimated = TRUE]

Position(s, a) == IF a \in DOMAIN s.positions THEN s.positions[a] ELSE NoPosition

WithPosition(s, a, position) ==
    [s EXCEPT !.positions = [b \in {a} \cup DOMAIN @ |-> IF b = a THEN position ELSE @[b]]]

IncreasePosition(s, a, quantity, cost) ==
    LET old == Position(s, a)
    IN WithPosition(s, a, [quantity |-> old.quantity + quantity,
                           invested |-> old.invested + Larger(cost, 0)])

CanReduce(s, a, quantity) ==
    a \in DOMAIN s.positions /\ s.positions[a].quantity >= quantity

(* The part of the cost that leaves with the quantity sold. *)
CostReduction(position, quantity) ==
    IF position.quantity = quantity THEN position.invested
    ELSE IF position.quantity > 0
         THEN DivideRound(position.invested * quantity, position.quantity)
         ELSE 0

ReducePosition(s, a, quantity) ==
    IF ~CanReduce(s, a, quantity) THEN Failed(s, "oversell")
    ELSE LET old == s.positions[a]
         IN WithPosition(s, a,
                [quantity |-> old.quantity - quantity,
                 invested |-> Larger(old.invested - CostReduction(old, quantity), 0)])

(* The legs that an operation may leave out. *)
IncreaseIfGiven(s, a, quantity, cost) ==
    IF Present(a) /\ Present(quantity) THEN IncreasePosition(s, a, quantity, cost) ELSE s
ReduceIfGiven(s, a, quantity) ==
    IF Present(a) /\ Present(quantity) THEN ReducePosition(s, a, quantity) ELSE s

(* Mutation of Required: transfers need their asset, as trades do.          *)
RequiredOfTransfersToo(e) ==
    CASE e.type \in Trades \cup {"split", "transfer_in"} -> {e.asset, e.quantity}
      [] e.type = "spin_off"              -> {e.related, e.relatedQuantity}
      [] e.type = "symbol_change"         -> {e.asset, e.related, e.quantity}
      [] OTHER                            -> {}

(* require_asset_id and its like. *)
Required(e) ==
    CASE e.type \in Trades \cup {"split"} -> {e.asset, e.quantity}
      [] e.type = "spin_off"              -> {e.related, e.relatedQuantity}
      [] e.type = "symbol_change"         -> {e.asset, e.related, e.quantity}
      [] OTHER                            -> {}

SymbolChange(s, e) ==
    IF ~CanReduce(s, e.asset, e.quantity) THEN Failed(s, "oversell")
    ELSE IncreasePosition(ReducePosition(s, e.asset, e.quantity), e.related, e.quantity,
                          CostReduction(s.positions[e.asset], e.quantity))

(* The match of apply on the type, once the cash is converted.              *)
ApplyLegs(s, e, cash) ==
    CASE e.type = "deposit"    -> Contribute(Receive(s, cash), cash)
      [] e.type = "withdrawal" -> Withdraw(Pay(s, cash), cash)
      [] e.type = "buy"        -> Pay(IncreasePosition(s, e.asset, e.quantity, cash), cash)
      [] e.type = "sell"       -> Receive(ReducePosition(s, e.asset, e.quantity), cash)
      [] e.type \in {"dividend", "interest"} -> Receive(s, cash)
      [] e.type \in {"fee", "tax"}           -> Pay(s, cash)
      [] e.type = "transfer_in" ->
            IncreaseIfGiven(Contribute(Receive(s, cash), cash), e.asset, e.quantity, cash)
      [] e.type = "transfer_out" ->
            ReduceIfGiven(Withdraw(Pay(s, cash), cash), e.asset, e.quantity)
      [] e.type = "split"      -> Estimated(IncreasePosition(s, e.asset, e.quantity, 0))
      [] e.type = "spin_off"   -> Estimated(IncreasePosition(s, e.related, e.relatedQuantity, 0))
      [] e.type = "symbol_change" -> SymbolChange(s, e)
      [] e.type = "adjustment" ->
            ReduceIfGiven(IncreaseIfGiven(Receive(s, cash), e.asset, e.quantity, cash),
                          e.related, e.relatedQuantity)

(* Mutation of Apply: amounts that could not be converted are not flagged. *)
ApplySilently(s, e) ==
    IF s.error # "none" THEN s
    ELSE IF Nothing \in Required(e) THEN Failed(s, "malformed")
    ELSE ApplyLegs(s, e, ConvertedCash(e))

(* apply: nothing more is applied after an Err. *)
Apply(s, e) ==
    IF s.error # "none" THEN s
    ELSE IF Nothing \in Required(e) THEN Failed(s, "malformed")
    ELSE ApplyLegs([s EXCEPT !.estimated = @ \/ ~Converts(e)], e, ConvertedCash(e))

Replayed(events) == FoldLeft(Apply, InitialState, events)

-----------------------------------------------------------------------------
(* finalize. *)

Open(s) == {a \in DOMAIN s.positions : s.positions[a].quantity > 0}

Priced(quote) == Present(quote) /\ quote.currency = BaseCurrency

MarketDataStatus(quote) ==
    IF Absent(quote) THEN "missing"
    ELSE IF Priced(quote) THEN "available" ELSE "unsupported_currency"

(* The invested cost stands in for a price that is missing or foreign.      *)
MarketValue(position, quote) ==
    IF Priced(quote) THEN DivideRound(quote.price * position.quantity, QuantityUnit)
    ELSE position.invested

PctOf(gain, base) == IF base > 0 THEN Percentage(gain, base) ELSE Nothing

Holding(position, quote) ==
    LET value == MarketValue(position, quote)
    IN [quantity  |-> position.quantity,
        avgCost   |-> DivideRound(position.invested * QuantityUnit, position.quantity),
        invested  |-> position.invested,
        value     |-> value,
        pnl       |-> value - position.invested,
        pnlPct    |-> PctOf(value - position.invested, position.invested),
        weight    |-> Nothing,
        estimated |-> ~Priced(quote),
        status    |-> MarketDataStatus(quote)]

SumOf(f) == FoldFunction(+, 0, f)

HoldingsValue(holdings) == SumOf([a \in DOMAIN holdings |-> holdings[a].value])

Weight(holding, total) ==
    IF total > 0 /\ holding.value > 0 THEN Percentage(holding.value, total) ELSE Nothing

(* Mutation of WeightBase: shares of what the holdings cost. *)
WeightBaseOfCost(s, holdings) ==
    SumOf([a \in DOMAIN holdings |-> holdings[a].invested])

(* Weights are shares of the holdings, without the cash. *)
WeightBase(s, holdings) == HoldingsValue(holdings)

Summary(s, holdings) ==
    LET total == s.cash + HoldingsValue(holdings)
    IN [cash      |-> s.cash,
        total     |-> total,
        invested  |-> Larger(s.invested, 0),
        pnl       |-> total - s.invested,
        pnlPct    |-> PctOf(total - s.invested, s.invested),
        estimated |-> s.estimated \/ \E a \in DOMAIN holdings : holdings[a].estimated,
        status    |-> IF DOMAIN holdings = {} /\ s.cash = 0 THEN "empty" ELSE "active"]

Finalized(s, quotes) ==
    LET holdings == [a \in Open(s) |-> Holding(s.positions[a], quotes[a])]
        base     == WeightBase(s, holdings)
    IN [summary  |-> Summary(s, holdings),
        holdings |-> [a \in Open(s) |->
                        [holdings[a] EXCEPT !.weight = Weight(holdings[a], base)]]]

(* to_i64_safely, and the columns that percentages are written to.          *)
Writable(rebuilt) ==
    /\ \A field \in {"cash", "total", "invested", "pnl"} : FitsI64(rebuilt.summary[field])
    /\ FitsPct(rebuilt.summary.pnlPct)
    /\ \A a \in DOMAIN rebuilt.holdings :
          /\ \A field \in {"avgCost", "invested", "value", "pnl"} :
                FitsI64(rebuilt.holdings[a][field])
          /\ FitsPct(rebuilt.holdings[a].pnlPct)

(* How a rebuild ends: with the read models, or with an error.              *)
Outcome(events, quotes) ==
    LET s == Replayed(events)
    IN IF s.error # "none" THEN s.error
       ELSE LET rebuilt == Finalized(s, quotes)
            IN IF rebuilt.summary.total < 0 THEN "deficit"
               ELSE IF ~Writable(rebuilt) THEN "overflow" ELSE "rebuilt"

-----------------------------------------------------------------------------
Init ==
    /\ ledger = <<>>
    /\ market \in Markets

(* An operation is posted; executed_at puts it anywhere in the ledger.      *)
Post(e) ==
    /\ Len(ledger) < MaxLedger
    /\ \E i \in 1 .. Len(ledger) + 1 : ledger' = InsertAt(ledger, i, e)
    /\ UNCHANGED market

Next == \E e \in PostedEvents : Post(e)

Spec == Init /\ [][Next]_vars

-----------------------------------------------------------------------------
(* Properties. *)

(* What validation and the CHECKs let through always has the fields that    *)
(* the replay requires: the worker never meets a malformed posted row.      *)
AcceptedIsWellFormed == Outcome(ledger, market) # "malformed"

Inflow  == {"deposit", "sell", "dividend", "interest", "transfer_in", "adjustment"}
Outflow == {"withdrawal", "buy", "fee", "tax", "transfer_out"}

Flows(types) ==
    SumOf([i \in {j \in DOMAIN ledger : ledger[j].type \in types} |->
              ConvertedCash(ledger[i])])

(* The cash of a replayed ledger is what came in less what went out, by the *)
(* types of the operations alone: order, dates and positions do not matter. *)
CashIsTheSumOfFlows ==
    Replayed(ledger).error = "none" =>
        Replayed(ledger).cash = Flows(Inflow) - Flows(Outflow)

Rebuilt == Finalized(Replayed(ledger), market)
Weighted == {a \in DOMAIN Rebuilt.holdings : Present(Rebuilt.holdings[a].weight)}

(* The weights of the holdings add up to 100% but for their rounding, half  *)
(* a unit each, also when the cash is negative.                             *)
WeightsAddUp ==
    (Outcome(ledger, market) = "rebuilt" /\ Weighted # {}) =>
        2 * Abs(SumOf([a \in Weighted |-> Rebuilt.holdings[a].weight]) - 100 * PctUnit)
            <= Cardinality(Weighted)

(* A summary that is not marked estimated has converted every amount,       *)
(* interpreted no corporate action and valued every holding at a price.     *)
ExactMeansExact ==
    (Outcome(ledger, market) = "rebuilt" /\ ~Rebuilt.summary.estimated) =>
        /\ \A i \in DOMAIN ledger : Converts(ledger[i])
        /\ \A i \in DOMAIN ledger : ledger[i].type \notin {"split", "spin_off"}
        /\ \A a \in DOMAIN Rebuilt.holdings : Priced(market[a])

==============================================================================
