-------------------------- MODULE MCRefreshQueue --------------------------
(* Small instances of RefreshQueue for TLC. *)
EXTENDS RefreshQueue, TLC

CONSTANTS p1, p2, r1, r2, r3, w1, w2

(* As many rows as the first portfolio has postings; the second is there to *)
(* share batches with it.                                                   *)
TwoRequests   == r1 :> p1 @@ r2 :> p1
TwoPortfolios == r1 :> p1 @@ r2 :> p1 @@ r3 :> p2

(* Rows of one portfolio are interchangeable. *)
RowSymmetry == Permutations({r1, r2})
===========================================================================
