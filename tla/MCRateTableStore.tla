-------------------------- MODULE MCRateTableStore --------------------------
(***************************************************************************)
(* RateTableStore for TLC.  No property tells the processes apart.         *)
(***************************************************************************)
EXTENDS RateTableStore, TLC

StoreSymmetry == Permutations(Stores)

=============================================================================
