-------------------------- MODULE MCOperationLedger --------------------------
(* Small instances of OperationLedger for TLC. *)
EXTENDS OperationLedger, TLC

RowAndCallSymmetry == Permutations(Calls) \cup Permutations(Operations)
==============================================================================
