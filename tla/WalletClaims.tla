---------------------------- MODULE WalletClaims ----------------------------
(***************************************************************************)
(* What the documentation says of the daily cap and Wallet does not do.    *)
(***************************************************************************)
EXTENDS Wallet, SequencesExt

(* daily_cap is documented as the "maximum cumulative amount allowed       *)
(* within a rolling 86,400-second window" (policy.rs:51): whatever         *)
(* DaySeconds seconds one looks at, what is counted in them is within the  *)
(* cap.                                                                    *)
RollingDailyCap == \A t \in 0..MaxClock : SpentWithin(t) <= DailyCap

(* PolicyState is documented as "persistable", to be persisted "if the     *)
(* daily cap matters" (policy.rs:73).  LedgerState is the state a caller   *)
(* has who keeps it across restarts: every counted spend, recorded in      *)
(* order.                                                                  *)
LedgerState ==
  FoldLeft(LAMBDA state, entry : Record(state, entry.digest.auth.value,
                                        entry.digest.auth.valid_after),
           DefaultPolicyState, SelectSeq(log, LAMBDA entry : entry.counted))

(* The cap holds of the state a caller has persisted, restarts included.   *)
PersistedCapHolds == LedgerState.spent_today <= DailyCap
=============================================================================
