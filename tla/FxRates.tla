------------------------------ MODULE FxRates ------------------------------
(***************************************************************************)
(* The foreign exchange rates of kushim-market-data: canonical pairs, the  *)
(* deterministic provider (a frozen vector of the units of each currency   *)
(* per euro, moved by an integer triangle wave of its own for every        *)
(* currency) and the lookup of the newest cached rate, carried forward.    *)
(*                                                                         *)
(* Decimals are scaled integers.  Dates are counted from the date of the   *)
(* frozen vector.  The hash of a currency's code is a constant: only its   *)
(* remainders modulo 9 and modulo 77 matter.                               *)
(***************************************************************************)
EXTENDS Integers, FiniteSets, FiniteSetsExt

CONSTANTS
    Currencies,
    Rank,          \* Rank[c]: the place of the code of c in the alphabet
    UnitsPerEuro,  \* UnitsPerEuro[c]: the frozen value, or Nothing
    Euro,          \* the currency whose value never moves
    CodeHash,      \* CodeHash[v][c]: the hash of the code in data set v
    AnchorWeekday, \* the weekday of date 0; Monday is 0
    BpsUnit,       \* 10000
    RateUnit,      \* 10^12 in the code
    MaxCarryDays,  \* DEFAULT_MAX_CARRY_DAYS
    Nothing

(* MAX_VARIATION_AMP_BPS, the bound of currency_amp_bps. *)
MaxAmplitude == 50

ASSUME FxRatesAssumptions ==
    /\ \A c \in Currencies : Rank[c] \in Nat /\ UnitsPerEuro[c] \in (Nat \ {0}) \cup {Nothing}
    /\ \A c, e \in Currencies : Rank[c] = Rank[e] => c = e
    /\ CodeHash \in [DOMAIN CodeHash -> [Currencies -> Nat]]
    /\ {BpsUnit, RateUnit} \subseteq Nat \ {0} /\ BpsUnit > MaxAmplitude
    /\ MaxCarryDays \in Nat /\ AnchorWeekday \in 0 .. 6
    /\ Nothing \notin [rate : Int, version : DOMAIN CodeHash]
    /\ Nothing \notin [base : Currencies, quote : Currencies]

(* CHECK (canonical_rate > 0): no rate of the frozen vector rounds to zero. *)
ASSUME RatesArePositive ==
    \A c, e \in {a \in Currencies : UnitsPerEuro[a] # Nothing} :
        UnitsPerEuro[c] * (BpsUnit + MaxAmplitude)
            <= UnitsPerEuro[e] * (BpsUnit - MaxAmplitude) * RateUnit

-----------------------------------------------------------------------------
(* Pairs. *)

CanonicalPair(a, b) ==
    IF a = b THEN Nothing
    ELSE IF Rank[a] < Rank[b] THEN [base |-> a, quote |-> b]
    ELSE [base |-> b, quote |-> a]

(* for_currency_set: every pair of two of the currencies, once. *)
PairsOf(currencies) ==
    {CanonicalPair(a, b) : a, b \in currencies} \ {Nothing}

Direct(source, pair) == source = pair.base

-----------------------------------------------------------------------------
(* The provider. *)

Supported(c) == UnitsPerEuro[c] # Nothing
SupportsPair(p) == Supported(p.base) /\ Supported(p.quote)

BusinessDay(d) == (AnchorWeekday + d) % 7 < 5

(* currency_amp_bps and currency_period_days. *)
Amplitude(c, v) == IF c = Euro THEN 0 ELSE 10 + (CodeHash[v][c] % 9) * 5
Period(c, v) == 40 + ((CodeHash[v][c] \div 7) % 11) * 6

(* signed_amp_bps: up a quarter of the period, down to zero at its half,    *)
(* and the same below zero; Rust's / truncates.                             *)
SignedAmplitude(c, d, v) ==
    LET amplitude == Amplitude(c, v)
        period  == Period(c, v)
        half    == period \div 2
        quarter == period \div 4
        t       == d % period
    IN IF t <= quarter THEN (amplitude * t) \div quarter
       ELSE IF t <= half THEN (amplitude * (half - t)) \div (half - quarter)
       ELSE IF t <= half + quarter THEN -((amplitude * (t - half)) \div quarter)
       ELSE -((amplitude * (period - t)) \div (period - half - quarter))

(* daily_anchor_value, times BpsUnit. *)
DailyValue(c, d, v) == UnitsPerEuro[c] * (BpsUnit + SignedAmplitude(c, d, v))

(* round_dp rounds half to even. *)
RoundHalfEven(n, d) ==
    LET q == n \div d
        r == 2 * (n % d)
    IN IF r > d \/ (r = d /\ q % 2 = 1) THEN q + 1 ELSE q

(* Mutation of CanonicalRate: the base currency is left at its anchor. *)
RateOfMovingQuote(p, d, v) ==
    RoundHalfEven(DailyValue(p.quote, d, v) * RateUnit, UnitsPerEuro[p.base] * BpsUnit)

CanonicalRate(p, d, v) ==
    RoundHalfEven(DailyValue(p.quote, d, v) * RateUnit, DailyValue(p.base, d, v))

(* get_canonical_rate: the rate, or no quote for the date. *)
Quoted(p, d) == SupportsPair(p) /\ BusinessDay(d)
DailyRate(p, d, v) == [rate |-> CanonicalRate(p, d, v), version |-> v]

(* The generated column inverse_rate; numeric rounds half away from zero. *)
InverseRate(rate) == (2 * RateUnit * RateUnit + rate) \div (2 * rate)

-----------------------------------------------------------------------------
(* lookup_latest in rows, the cached rates of the pair by date. *)

Missing == [found |-> FALSE, reason |-> "rate_missing"]
Stale   == [found |-> FALSE, reason |-> "rate_stale"]

(* Mutation of TooOld: a rate of the last day of the window is refused.     *)
TooOldEarly(age) == age >= MaxCarryDays

TooOld(age) == age > MaxCarryDays

LookupLatest(rows, source, target, d) ==
    LET past   == {e \in DOMAIN rows : rows[e] # Nothing /\ e <= d}
        latest == Max(past)
        rate   == rows[latest].rate
    IN IF source = target \/ past = {} THEN Missing
       ELSE IF TooOld(d - latest) THEN Stale
       ELSE [found |-> TRUE, date |-> latest,
             rate |-> IF Direct(source, CanonicalPair(source, target))
                      THEN rate ELSE InverseRate(rate)]
=============================================================================
