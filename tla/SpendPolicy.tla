---------------------------- MODULE SpendPolicy ----------------------------
(***************************************************************************)
(* The standing spend policy of aethel-vault (src/policy.rs): the verdict  *)
(* on one proposed spend, the accounting of the daily window, and the      *)
(* verification of a human approval.  The module has no state of its own:  *)
(* as in the code, the PolicyState record and the clock are arguments.     *)
(***************************************************************************)
EXTENDS Integers

CONSTANTS
  AmountMax,       \* u128::MAX, where saturating_add stops
  TimeMax,         \* u64::MAX, the same for timestamps
  DaySeconds,      \* DAY_SECONDS, length of the daily window
  MaxPerCall,      \* SpendPolicy::max_per_call
  DailyCap,        \* SpendPolicy::daily_cap
  AllowRails,      \* SpendPolicy::allow_rails
  HitlAbove,       \* SpendPolicy::hitl_above
  TtlSecs,         \* SpendPolicy::ttl_secs
  HitlApproverPk,  \* SpendPolicy::hitl_approver_pk, a key or NoKey
  NoKey            \* the Option's None

Rail == {"Eip3009Base", "Eip3009Ethereum", "Eip3009Arbitrum", "FheInternal"}

(* Everything is an unsigned integer of fixed width.  The daily cap is     *)
(* below the width: a cap of u128::MAX is how a policy says "no cap", and  *)
(* the saturating projection can then never exceed it.                     *)
ASSUME PolicyAssumption ==
  /\ AmountMax \in Nat /\ TimeMax \in Nat
  /\ DaySeconds \in 1..TimeMax
  /\ MaxPerCall \in 0..AmountMax
  /\ DailyCap \in Nat /\ DailyCap < AmountMax
  /\ HitlAbove \in 0..AmountMax
  /\ TtlSecs \in 0..TimeMax
  /\ AllowRails \subseteq Rail

Amount == 0..AmountMax
Time == 0..TimeMax

(* Variant: an addition that does not stop at the limit.                   *)
UncheckedAdd(a, b, limit) == a + b

SatAdd(a, b, limit) == IF a + b > limit THEN limit ELSE a + b
SatSub(a, b) == IF a < b THEN 0 ELSE a - b

-----------------------------------------------------------------------------
(* The daily window.                                                       *)

PolicyState == [day_start_unix : Time, spent_today : Amount]

DefaultPolicyState == [day_start_unix |-> 0, spent_today |-> 0]

(* Variant: the window closes one second late.                             *)
WindowElapsedLate(state, now) == SatSub(now, state.day_start_unix) > DaySeconds

WindowElapsed(state, now) == SatSub(now, state.day_start_unix) >= DaySeconds

EffectiveSpentToday(state, now) ==
  IF WindowElapsed(state, now) THEN 0 ELSE state.spent_today

(* Variants: a new window starts from the old total, and a new window is   *)
(* not dated.                                                              *)
RecordWithoutReset(state, amount, now) ==
  [day_start_unix |-> IF WindowElapsed(state, now) THEN now
                                                   ELSE state.day_start_unix,
   spent_today |-> SatAdd(state.spent_today, amount, AmountMax)]
RecordUndated(state, amount, now) ==
  [state EXCEPT !.spent_today =
     SatAdd(EffectiveSpentToday(state, now), amount, AmountMax)]

(* PolicyState::record: roll the window if it has elapsed, then add.       *)
Record(state, amount, now) ==
  [day_start_unix |-> IF WindowElapsed(state, now) THEN now
                                                   ELSE state.day_start_unix,
   spent_today |-> SatAdd(EffectiveSpentToday(state, now), amount, AmountMax)]

-----------------------------------------------------------------------------
(* SpendPolicy::check.  A violation names the first limit that was hit.    *)

Violation == {"RailNotAllowed", "ExceedsMaxPerCall", "ExceedsDailyCap"}
Decision == {"Allow", "RequireHitl"}

(* Variants: only what is already spent is compared, and the total of an   *)
(* elapsed window still counts.                                            *)
AlreadyOverDailyCap(state, amount, now) ==
  EffectiveSpentToday(state, now) > DailyCap
OverStaleDailyCap(state, amount, now) ==
  SatAdd(state.spent_today, amount, AmountMax) > DailyCap

OverDailyCap(state, amount, now) ==
  SatAdd(EffectiveSpentToday(state, now), amount, AmountMax) > DailyCap

Check(state, rail, amount, now) ==
  IF rail \notin AllowRails THEN "RailNotAllowed"
  ELSE IF amount > MaxPerCall THEN "ExceedsMaxPerCall"
  ELSE IF OverDailyCap(state, amount, now) THEN "ExceedsDailyCap"
  ELSE IF amount > HitlAbove THEN "RequireHitl" ELSE "Allow"

-----------------------------------------------------------------------------
(* HitlApproval::verify.  The signature field abstracts the ML-DSA bytes:  *)
(* "genuine" when the holder of approver_pk signed exactly this intent     *)
(* hash, amount and expiry under the approval purpose, "forged" for other  *)
(* well-formed bytes, "malformed" for bytes that cannot be evaluated.      *)

Signature == {"genuine", "forged", "malformed"}

(* Variant: an approval for one intent is good for another.                *)
ApprovalForAnyIntent(approval, digest, amount, now) ==
  /\ now < approval.expiry_unix
  /\ approval.amount = amount
  /\ HitlApproverPk # NoKey
  /\ approval.approver_pk = HitlApproverPk

(* The bindings checked before any signature is looked at.                 *)
ApprovalFits(approval, digest, amount, now) ==
  /\ now < approval.expiry_unix
  /\ approval.intent_hash = digest
  /\ approval.amount = amount
  /\ HitlApproverPk # NoKey
  /\ approval.approver_pk = HitlApproverPk

VerifyApproval(approval, digest, amount, now) ==
  IF ~ ApprovalFits(approval, digest, amount, now) THEN "refused"
  ELSE IF approval.signature = "malformed" THEN "error"
  ELSE IF approval.signature = "genuine" THEN "approved" ELSE "refused"
=============================================================================
