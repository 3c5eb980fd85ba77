------------------------------ MODULE MCWallet ------------------------------
(***************************************************************************)
(* Small instances of Wallet.  A day is 3 seconds; a clock that starts at  *)
(* one day is past the epoch's first window, as every real one is.         *)
(***************************************************************************)
EXTENDS WalletClaims

CONSTANTS approver, stranger, payee

MCKeys == {approver, stranger}
MCAddresses == {payee}
=============================================================================
