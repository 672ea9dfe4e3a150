------------------------- MODULE MCMarketDataCaches -------------------------
(* Instances of MarketDataCaches for TLC: the frozen values and the code    *)
(* hashes of AUD, CHF and USD to two decimals, and a currency the provider  *)
(* does not know.                                                           *)
EXTENDS MarketDataCaches, TLC

CONSTANTS p1, p2, a1, a2

AllCurrencies == {"AUD", "CHF", "SEK", "USD"}
CodeRank == "AUD" :> 1 @@ "CHF" :> 2 @@ "SEK" :> 3 @@ "USD" :> 4
FrozenUnits == "AUD" :> 164 @@ "CHF" :> 92 @@ "SEK" :> Nothing @@ "USD" :> 115

(* Modulo 693; the first data set differs. *)
Hashes ==
    << "AUD" :> 335 @@ "CHF" :> 416 @@ "SEK" :> 0 @@ "USD" :> 300,
       "AUD" :> 416 @@ "CHF" :> 300 @@ "SEK" :> 0 @@ "USD" :> 335 >>

(* Date 22 is a Friday. *)
Weekends == {<<22, 24>>, <<22, 25>>}

ThreeCurrencies == {{"AUD", "CHF", "USD"}, {"CHF", "SEK"}}

QuoteSet == {[asOf |-> 1, price |-> 5], [asOf |-> 1, price |-> 6], [asOf |-> 2, price |-> 5]}

(* a2 has a close of every date but the second. *)
Known == a1 :> 22 .. 25 @@ a2 :> {22, 24, 25}

(* Different jobs share no table: what matters is two of the same, one of   *)
(* them of a newer release.                                                 *)
SameJob == {p1 :> [name |-> j, version |-> 1] @@ p2 :> [name |-> j, version |-> 2]
              : j \in {"quotes", "closes", "rates"}}
=============================================================================
