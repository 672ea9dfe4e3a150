------------------------- MODULE MCPortfolioReplay -------------------------
(* A small instance of PortfolioReplay for TLC. *)
EXTENDS PortfolioReplay

CONSTANTS a, b, c

Blank(type) ==
    [route |-> "create", type |-> type, asset |-> Nothing, related |-> Nothing,
     quantity |-> Nothing, relatedQuantity |-> Nothing, price |-> Nothing,
     gross |-> Nothing, cash |-> 0, currency |-> "EUR", rate |-> Nothing,
     corrects |-> Nothing]

Cash(type, amount) == [Blank(type) EXCEPT !.gross = amount, !.cash = amount]
Trade(type, asset, quantity, amount) ==
    [Cash(type, amount) EXCEPT !.asset = asset, !.quantity = quantity, !.price = 1]
Foreign(q, rate) == [q EXCEPT !.currency = "USD", !.rate = rate]

(* One request of each kind, with amounts that do not divide evenly; 30 is  *)
(* a quantity of 3 units, 14 is rounded to 1 and 4 to 0.                    *)
Typical ==
    {Trade("buy", a, 30, 10), Trade("buy", b, 14, 5), Trade("sell", a, 30, 9),
     Foreign(Trade("buy", a, 20, 5), 30),
     Cash("deposit", 20), Foreign(Cash("deposit", 7), 30), Cash("withdrawal", 8),
     Cash("interest", 1), Cash("fee", 3), Cash("tax", 2),
     [Cash("dividend", 1) EXCEPT !.asset = a],
     [Blank("split") EXCEPT !.asset = a, !.quantity = 30],
     [Blank("spin_off") EXCEPT !.asset = a, !.quantity = 10, !.related = b,
                               !.relatedQuantity = 20],
     [Blank("symbol_change") EXCEPT !.asset = a, !.quantity = 20, !.related = b]}

FreeFormRequests ==
    {[Blank(type) EXCEPT !.asset = a, !.quantity = 20, !.cash = 4] :
        type \in {"transfer_in", "transfer_out", "adjustment"}}
    \cup {[Blank("adjustment") EXCEPT !.route = "correct", !.corrects = "original",
                                      !.related = a, !.relatedQuantity = 10]}

(* Every request above with one field left out or changed.                  *)
Variations ==
    {[q EXCEPT ![f] = Nothing] : q \in Typical \cup FreeFormRequests,
        f \in {"asset", "related", "quantity", "relatedQuantity", "price", "gross"}}
    \cup {[q EXCEPT !.asset = c] : q \in Typical}
    \cup {[q EXCEPT !.related = q.asset] : q \in Typical}
    \cup {[q EXCEPT !.quantity = 4] : q \in Typical}
    \cup {[q EXCEPT !.rate = Nothing] : q \in Typical}
    \cup {[q EXCEPT !.corrects = "original"] : q \in Typical}
    \cup {[q EXCEPT !.currency = "XXX"] : q \in Typical}

Requests == Typical \cup FreeFormRequests \cup Variations

Quote(price, currency) == [price |-> price, currency |-> currency]

SomeMarkets ==
    {(a :> Nothing @@ b :> Nothing @@ c :> Nothing),
     (a :> Quote(5, "EUR") @@ b :> Quote(1, "EUR") @@ c :> Nothing),
     (a :> Quote(90, "EUR") @@ b :> Quote(5, "USD") @@ c :> Nothing)}
=============================================================================
