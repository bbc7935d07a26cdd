-------------------------- MODULE MCReconciliation --------------------------
(* A small instance of Reconciliation for TLC.                             *)
EXTENDS Reconciliation, TLC
CONSTANTS usdt, long, short
Sides == Permutations({long, short})
=============================================================================
