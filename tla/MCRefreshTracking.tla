------------------------- MODULE MCRefreshTracking -------------------------
(* A small instance of RefreshTracking for TLC. *)
EXTENDS RefreshTracking, TLC

CONSTANTS p1, p2, alice, bob

(* The second user has no portfolio, and meets what the first has left in   *)
(* the tab.                                                                 *)
BothOfAlice == p1 :> alice @@ p2 :> alice

(* Two forms with the page loaded again, on a page without read models; one *)
(* form submitted twice with one read model, a reload and a switch of the   *)
(* portfolio; and one submission and a switch with two read models.         *)
EditsReloadsOrSwitches ==
    {[attempts |-> 2, submits |-> 2, switches |-> 0, visits |-> 2, slices |-> {}],
     [attempts |-> 1, submits |-> 2, switches |-> 1, visits |-> 2,
      slices |-> {"summary"}],
     [attempts |-> 1, submits |-> 1, switches |-> 1, visits |-> 1,
      slices |-> {"summary", "holdings"}]}
=============================================================================
