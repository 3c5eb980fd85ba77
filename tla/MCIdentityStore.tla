-------------------------- MODULE MCIdentityStore --------------------------
(***************************************************************************)
(* Small instances of IdentityStore.                                       *)
(***************************************************************************)
EXTENDS IdentityStore, TLC

(* The entropies are alike, and so are the audiences and the terminals.    *)
Interchangeable ==
  Permutations(Identities) \cup Permutations(Audiences) \cup Permutations(Terminals)
=============================================================================
