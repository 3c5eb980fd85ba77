--------------------------- MODULE MCVaultLedger ---------------------------
(***************************************************************************)
(* Small instances of VaultLedger.  Nothing in it tells two projections    *)
(* apart.                                                                  *)
(***************************************************************************)
EXTENDS VaultLedger, TLC

ProjectionSymmetry == Permutations(Projections)
=============================================================================
