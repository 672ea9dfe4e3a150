---------------------------- MODULE PostedLedger ----------------------------
(***************************************************************************)
(* What the rest of the system builds on: the posted operations of a       *)
(* portfolio are a ledger to which one operation is added at a time, never *)
(* changed and never taken away, and adding one enqueues one refresh.      *)
(* RefreshQueue counts these operations, PortfolioReplay replays them.     *)
(***************************************************************************)
EXTENDS Naturals

CONSTANTS Operations, NoOperation

VARIABLES
    posted,      \* posted[o]: what operation o says, for those that are posted
    refreshes    \* refreshes[o]: the refreshes that o enqueued

ledgerVars == <<posted, refreshes>>

(* No operation corrects itself. *)
Content(o) == [foreign: BOOLEAN, rate: BOOLEAN,
               corrects: (Operations \ {o}) \cup {NoOperation}]

Init ==
    /\ posted = [o \in {} |-> NoOperation]
    /\ refreshes = [o \in Operations |-> 0]

Post(o, content) ==
    /\ o \notin DOMAIN posted
    /\ posted' = [x \in DOMAIN posted \cup {o} |-> IF x = o THEN content ELSE posted[x]]
    /\ refreshes' = [refreshes EXCEPT ![o] = @ + 1]

Next == \E o \in Operations : \E content \in Content(o) : Post(o, content)

Spec == Init /\ [][Next]_ledgerVars
=============================================================================
