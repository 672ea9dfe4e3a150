-------------------------- MODULE MCDailySnapshots --------------------------
(* Small instances of DailySnapshots for TLC. *)
EXTENDS DailySnapshots, TLC

CONSTANTS w1, w2, a, b, buyA, buyB, sellA

RefresherSymmetry == Permutations({w1, w2})

(* The sale makes an asset disappear, and a ledger without its purchase     *)
(* cannot be replayed.                                                      *)
Dates     == buyA :> 2 @@ buyB :> 3 @@ sellA :> 2
Purchases == buyA :> a @@ buyB :> b @@ sellA :> Nothing
Sales     == buyA :> Nothing @@ buyB :> Nothing @@ sellA :> a

(* From before the creation; and one that is refused. *)
ShortRanges == {<<1, 2>>, <<3, 1>>}
=============================================================================
