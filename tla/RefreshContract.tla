-------------------------- MODULE RefreshContract --------------------------
(***************************************************************************)
(* What the automatic refresh promises the users of a portfolio, with no   *)
(* queue and no workers: after an operation is posted, a refresh is owed;  *)
(* what is visible only moves forward; and the promise ends in one of two  *)
(* ways, kept (everything posted is visible) or openly broken (a failed    *)
(* request says so).                                                       *)
(***************************************************************************)
EXTENDS Naturals

CONSTANTS Portfolios, MaxPosted

VARIABLES
    posted,    \* posted[p]: operations posted to p
    visible,   \* visible[p]: how many of them the current state shows
    promise    \* promise[p]: what the system owes p

contractVars == <<posted, visible, promise>>

Init ==
    /\ posted = [p \in Portfolios |-> 0]
    /\ visible = [p \in Portfolios |-> 0]
    /\ promise = [p \in Portfolios |-> "kept"]

Post(p) ==
    /\ posted[p] < MaxPosted
    /\ posted' = [posted EXCEPT ![p] = @ + 1]
    /\ promise' = [promise EXCEPT ![p] = "owed"]
    /\ UNCHANGED visible

(* The current state is only ever recomputed while a refresh is owed, and   *)
(* from no fewer operations than it shows.                                  *)
Publish(p) ==
    /\ promise[p] = "owed"
    /\ \E v \in visible[p] .. posted[p] : visible' = [visible EXCEPT ![p] = v]
    /\ UNCHANGED <<posted, promise>>

(* The refreshes owed to the portfolios of S end.  They may end broken only *)
(* where an operation is still missing.                                     *)
Settle(S) ==
    /\ \A p \in S : promise[p] = "owed"
    /\ promise' = [p \in Portfolios |->
          IF p \notin S THEN promise[p]
          ELSE IF visible[p] = posted[p] THEN "kept" ELSE "broken"]
    /\ UNCHANGED <<posted, visible>>

Next ==
    \/ \E p \in Portfolios : Post(p) \/ Publish(p)
    \/ \E S \in SUBSET Portfolios : Settle(S)

Spec == Init /\ [][Next]_contractVars
=============================================================================
