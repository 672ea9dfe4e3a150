--------------------------- MODULE OperationRules ---------------------------
(***************************************************************************)
(* Which portfolio operations Kushim accepts.  A request is validated by   *)
(* kushim-api (validate_operation_payload, validate_correction_payload,    *)
(* validate_asset_references, validate_cross_currency_posting), and what   *)
(* it stores must then pass the CHECK constraints of portfolio_operations. *)
(* Both are pure: this module has no state.                                *)
(*                                                                         *)
(* Nothing is NULL.  Amounts are minor units.  A decimal sent by a client  *)
(* is a number of Precision-ths of the last digit PostgreSQL keeps, so the *)
(* rounding of numeric(30,10) and numeric(20,10) is the division by it.    *)
(***************************************************************************)
EXTENDS Integers

CONSTANTS
    Assets,         \* rows of assets
    ActiveAssets,   \* those with status active
    BaseCurrency,   \* base_currency of the portfolio
    Supported,      \* the currencies of the catalogue
    Precision,      \* extra digits a client may send, as a power of ten
    Nothing         \* NULL, or a field left out

ASSUME OperationRulesAssumptions ==
    /\ ActiveAssets \subseteq Assets
    /\ BaseCurrency \in Supported
    /\ Precision \in Nat \ {0}
    /\ Nothing \notin Assets \cup Supported

Trades       == {"buy", "sell"}
CashOnly     == {"deposit", "withdrawal", "interest", "fee", "tax"}
Corporate    == {"split", "spin_off", "symbol_change"}
FreeForm     == {"transfer_in", "transfer_out", "adjustment"}
OperationType == Trades \cup CashOnly \cup {"dividend"} \cup Corporate \cup FreeForm

(* A request, after the strings have been parsed.  route: .../operations or *)
(* .../operations/{id}/corrections; corrects: id_corrected_operation.       *)
Fields == {"route", "type", "asset", "related", "quantity", "relatedQuantity",
           "price", "gross", "cash", "currency", "rate", "corrects"}

Present(value) == value # Nothing
Absent(value)  == value = Nothing

-----------------------------------------------------------------------------
(* The service. *)

NonNegative(value)     == Present(value) => value >= 0
PositiveDecimal(value) == Present(value) => value > 0
RequiredDecimal(value) == Present(value) /\ value > 0
RequiredAmount(value)  == Present(value) /\ value >= 0
PositiveAmount(value)  == Present(value) /\ value > 0

(* normalize_and_validate: lower case is folded before the catalogue is read. *)
CurrencyOK(q) == q.currency \in Supported

(* A correction is an adjustment that names the original; the currency of  *)
(* the original is the default, which currency already holds.              *)
Candidate(q) == IF q.route = "correct" THEN [q EXCEPT !.type = "adjustment"] ELSE q

(* The rules that hold for every type. *)
CommonRules(q) ==
    /\ CurrencyOK(q)
    /\ NonNegative(q.price)
    /\ NonNegative(q.gross)
    /\ q.cash >= 0
    /\ PositiveDecimal(q.quantity)
    /\ PositiveDecimal(q.relatedQuantity)
    /\ PositiveDecimal(q.rate)
    /\ Present(q.corrects) => q.type = "adjustment"

(* The match on operation_type. *)
TypeRules(q) ==
    /\ q.type \in Trades =>
          /\ Present(q.asset)
          /\ RequiredDecimal(q.quantity)
          /\ RequiredAmount(q.price)
          /\ PositiveAmount(q.gross)
          /\ q.cash > 0
    /\ q.type \in CashOnly => Absent(q.asset) /\ PositiveAmount(q.gross) /\ q.cash > 0
    /\ q.type = "dividend" => Present(q.asset) /\ PositiveAmount(q.gross) /\ q.cash > 0
    /\ q.type \in Corporate =>
          /\ Present(q.asset)
          /\ RequiredDecimal(q.quantity)
          /\ q.cash = 0
          /\ Absent(q.gross)
    /\ q.type \in {"spin_off", "symbol_change"} => Present(q.related)
    /\ q.type = "spin_off" => RequiredDecimal(q.relatedQuantity)

ValidPayload(q) == CommonRules(q) /\ TypeRules(q)

(* A correction must change something. *)
MeaningfulCorrection(q) ==
    \/ q.cash > 0
    \/ \E field \in Fields \ {"route", "type", "cash", "currency", "rate", "corrects"} :
          Present(q[field])

ActiveReference(asset) == Present(asset) => asset \in ActiveAssets

ValidReferences(q) ==
    /\ ActiveReference(q.asset)
    /\ ActiveReference(q.related)
    /\ /\ q.type \in {"spin_off", "symbol_change", "adjustment"}
       /\ Present(q.asset)
       => q.asset # q.related

CrossCurrencyOK(q) ==
    q.currency = BaseCurrency \/ q.cash = 0 \/ RequiredDecimal(q.rate)

ServiceAccepts(q) ==
    /\ q.route = "correct" => MeaningfulCorrection(q) /\ Present(q.corrects)
    /\ ValidPayload(q)
    /\ ValidReferences(q)
    /\ CrossCurrencyOK(q)

-----------------------------------------------------------------------------
(* The table. *)

(* A decimal as the column keeps it: rounded half away from zero.           *)
Kept(decimal) ==
    IF Absent(decimal) THEN Nothing ELSE (2 * decimal + Precision) \div (2 * Precision)

Stored(q) == [q EXCEPT !.quantity = Kept(@), !.relatedQuantity = Kept(@), !.rate = Kept(@)]

(* The CHECK constraints of portfolio_operations, in their order.           *)
ChecksOnValues(r) ==
    /\ PositiveDecimal(r.rate)
    /\ PositiveDecimal(r.quantity)
    /\ PositiveDecimal(r.relatedQuantity)
    /\ NonNegative(r.price)
    /\ NonNegative(r.gross)
    /\ r.cash >= 0
    /\ Present(r.corrects) => r.type = "adjustment"

ChecksOnPresence(r) ==
    \/ r.type \in FreeForm
    \/ /\ r.type \notin FreeForm
       /\ Present(r.asset) <=> r.type \notin CashOnly
       /\ Present(r.related) <=> r.type \in {"spin_off", "symbol_change"}
       /\ Present(r.quantity) <=> r.type \in Trades \cup Corporate
       /\ Present(r.relatedQuantity) <=> r.type = "spin_off"
       /\ Present(r.price) <=> r.type \in Trades
       /\ PositiveAmount(r.gross) <=> r.type \notin Corporate
       /\ Absent(r.gross) <=> r.type \in Corporate
       /\ r.cash > 0 <=> r.type \notin Corporate

TableAccepts(r) == ChecksOnValues(r) /\ ChecksOnPresence(r)

(* A request becomes a posted row. *)
Accepted(q) ==
    LET candidate == Candidate(q)
    IN ServiceAccepts(candidate) /\ TableAccepts(Stored(candidate))
=============================================================================
