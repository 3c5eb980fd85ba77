------------------------------- MODULE Wallet -------------------------------
(***************************************************************************)
(* The settlement wallet of aethel-vault (src/settlement.rs, Wallet and    *)
(* authorize_eip3009) over the spend policy of SpendPolicy.                *)
(*                                                                         *)
(* authorize_eip3009 holds the wallet exclusively, but it is not one step: *)
(* it leaves the process twice, to the external settlement signer (a       *)
(* device or a service that may take its time, refuse, or never come back) *)
(* and to the vault's own identity key, and either may fail.  The clock    *)
(* moves and the process may die between these steps, so each has an       *)
(* action:                                                                 *)
(*                                                                         *)
(*   idle --Authorize--> signer --SignDigest--> intent --SignIntent--> idle*)
(*                                                                         *)
(* The log is a history variable: one entry for every signature the        *)
(* external signer handed out, in order, with the approval under which it  *)
(* was requested and whether the wallet went on to count it.               *)
(***************************************************************************)
EXTENDS SpendPolicy, Sequences, FiniteSetsExt

CONSTANTS
  Addresses,      \* recipients
  Values,         \* amounts callers ask for
  Nonces,         \* EIP-3009 nonces callers choose
  Chains,         \* the chains in use
  Keys,           \* public keys that may appear on an approval
  Expiries,       \* expiry times approvals carry
  NoApproval,     \* hitl = None
  NoReceipt,      \* last_receipt = None
  NoDigest,       \* no call made yet
  StartClock,     \* the caller's clock at the beginning
  MaxClock,       \* bound: the last time considered
  MaxBackstep,    \* how far the caller's clock may step back
  MaxSigned,      \* bound: external signatures in a behaviour
  MaxRestarts     \* bound: process restarts in a behaviour

Chain == {"Base", "Ethereum", "ArbitrumOne"}

ASSUME WalletAssumption ==
  /\ Values \subseteq Amount /\ Chains \subseteq Chain
  /\ Expiries \subseteq Time
  /\ HitlApproverPk \in Keys \cup {NoKey}
  /\ MaxClock \in Time /\ StartClock \in 0..MaxClock
  /\ MaxBackstep \in Nat /\ MaxSigned \in Nat /\ MaxRestarts \in Nat

(* Chain::rail                                                             *)
RailOf(chain) == CASE chain = "Base"        -> "Eip3009Base"
                   [] chain = "Ethereum"    -> "Eip3009Ethereum"
                   [] chain = "ArbitrumOne" -> "Eip3009Arbitrum"

(* TransferWithAuthorization, without the constant sender.  The EIP-712    *)
(* digest commits to every field and to the chain's domain; it is          *)
(* collision-free, so the pair of them stands for it.                      *)
Authorization == [to : Addresses, value : Values, nonce : Nonces,
                  valid_after : Time, valid_before : Time]
Digest == [auth : Authorization, chain : Chains]

BuildDigest(to, value, nonce, chain, now) ==
  [auth  |-> [to |-> to, value |-> value, nonce |-> nonce, valid_after |-> now,
              valid_before |-> SatAdd(now, TtlSecs, TimeMax)],
   chain |-> chain]

HitlApproval == [approver_pk : Keys, signature : Signature,
                 intent_hash : Digest, amount : Values, expiry_unix : Expiries]

Receipt == [auth_hash : Digest, amount : Values, dst : Addresses, ts : Time,
            chain_id : Chains]

LogEntry == [digest : Digest, hitl : HitlApproval \cup {NoApproval},
             counted : BOOLEAN]

VARIABLES
  policy_state,   \* Wallet::policy_state, in memory only
  last_receipt,   \* Wallet::last_receipt
  pc,             \* where the current call of authorize_eip3009 stands
  digest,         \* the digest (and with it the arguments) of that call
  hitl,           \* the approval that call relies on, if it needed one
  clock,          \* the caller's clock; a call uses one reading throughout
  log,            \* history: external signatures, in order
  windowFrom,     \* history: index in log where the daily window began
  restarts        \* how often the process has restarted

vars == <<policy_state, last_receipt, pc, digest, hitl, clock, log,
          windowFrom, restarts>>
history == <<log, windowFrom, restarts>>

TypeOK ==
  /\ policy_state \in PolicyState
  /\ last_receipt \in Receipt \cup {NoReceipt}
  /\ pc \in {"idle", "signer", "intent"}
  /\ digest \in IF pc = "idle" THEN {NoDigest} ELSE Digest
  /\ hitl \in HitlApproval \cup {NoApproval}
  /\ clock \in 0..MaxClock
  /\ log \in Seq(LogEntry)
  /\ pc = "intent" => Len(log) > 0
  /\ windowFrom \in 1..(Len(log) + 1)
  /\ restarts \in 0..MaxRestarts

Init ==
  /\ policy_state = DefaultPolicyState
  /\ last_receipt = NoReceipt
  /\ pc = "idle"
  /\ digest = NoDigest
  /\ hitl = NoApproval
  /\ clock = StartClock
  /\ log = <<>>
  /\ windowFrom = 1
  /\ restarts = 0

-----------------------------------------------------------------------------
(* authorize_eip3009, up to the external signer.                           *)

(* What an approval for this call may look like: bound to this digest or   *)
(* to one the wallet has had signed before, and right or wrong in every    *)
(* other field.                                                            *)
PresentableApprovals(d) ==
  [approver_pk : Keys, signature : Signature,
   intent_hash : {d} \cup {log[i].digest : i \in DOMAIN log},
   amount : Values, expiry_unix : Expiries]

(* The verdict of the policy check and, when it escalates, of the approval.*)
Verdict(d, approval, now) ==
  LET decision == Check(policy_state, RailOf(d.chain), d.auth.value, now)
      human    == IF approval = NoApproval THEN "refused"
                  ELSE VerifyApproval(approval, d, d.auth.value, now)
  IN  IF decision = "Allow" THEN "proceed"
      ELSE IF decision # "RequireHitl" THEN decision
      ELSE IF human = "approved" THEN "proceed"
      ELSE IF human = "error" THEN "IdentityError" ELSE "HitlRequired"

(* A call that passes goes on to the external signer ...                   *)
Authorize(d, approval) ==
  /\ pc = "idle"
  /\ Len(log) < MaxSigned
  /\ Verdict(d, approval, clock) = "proceed"
  /\ pc' = "signer"
  /\ digest' = d
  /\ hitl' = IF d.auth.value > HitlAbove THEN approval ELSE NoApproval
  /\ UNCHANGED <<policy_state, last_receipt, clock, history>>

(* ... and one that does not returns its error and leaves nothing behind.  *)
Refuse(d, approval) ==
  /\ pc = "idle"
  /\ Verdict(d, approval, clock) # "proceed"
  /\ UNCHANGED vars

(* Variant: the receipt is stored as soon as the external wallet signed.   *)
SignDigestAndReceipt ==
  /\ pc = "signer"
  /\ pc' = "intent"
  /\ log' = Append(log, [digest |-> digest, hitl |-> hitl, counted |-> FALSE])
  /\ last_receipt' = [auth_hash |-> digest, amount |-> digest.auth.value,
                      dst |-> digest.auth.to, ts |-> digest.auth.valid_after,
                      chain_id |-> digest.chain]
  /\ UNCHANGED <<policy_state, digest, hitl, clock, windowFrom, restarts>>

(* SettlementSigner::sign_digest: the external wallet signs ...            *)
SignDigest ==
  /\ pc = "signer"
  /\ pc' = "intent"
  /\ log' = Append(log, [digest |-> digest, hitl |-> hitl, counted |-> FALSE])
  /\ UNCHANGED <<policy_state, last_receipt, digest, hitl, clock,
                 windowFrom, restarts>>

(* ... or refuses.                                                         *)
SignerFails ==
  /\ pc = "signer"
  /\ pc' = "idle"
  /\ digest' = NoDigest
  /\ hitl' = NoApproval
  /\ UNCHANGED <<policy_state, last_receipt, clock, history>>

(* The identity signs the intent; the spend is recorded at the time the    *)
(* call was given, and the receipt becomes the latest.                     *)
SignIntent ==
  LET auth == digest.auth IN
  /\ pc = "intent"
  /\ pc' = "idle"
  /\ policy_state' = Record(policy_state, auth.value, auth.valid_after)
  /\ last_receipt' = [auth_hash |-> digest, amount |-> auth.value,
                      dst |-> auth.to, ts |-> auth.valid_after,
                      chain_id |-> digest.chain]
  /\ log' = [log EXCEPT ![Len(log)].counted = TRUE]
  /\ windowFrom' = IF WindowElapsed(policy_state, auth.valid_after)
                   THEN Len(log) ELSE windowFrom
  /\ digest' = NoDigest
  /\ hitl' = NoApproval
  /\ UNCHANGED <<clock, restarts>>

(* Variant: a call that failed is counted.                                 *)
IntentFailsCounted ==
  /\ pc = "intent"
  /\ pc' = "idle"
  /\ policy_state' = Record(policy_state, digest.auth.value, digest.auth.valid_after)
  /\ digest' = NoDigest
  /\ hitl' = NoApproval
  /\ UNCHANGED <<last_receipt, clock, history>>

(* The identity cannot sign (or the intent cannot be serialised): the call *)
(* returns early, after the external signature was produced.               *)
IntentFails ==
  /\ pc = "intent"
  /\ pc' = "idle"
  /\ digest' = NoDigest
  /\ hitl' = NoApproval
  /\ UNCHANGED <<policy_state, last_receipt, clock, history>>

-----------------------------------------------------------------------------
(* The environment.                                                        *)

(* The clock the caller reads now_unix from; nothing makes it monotone.    *)
Tick ==
  /\ \E t \in 0..MaxClock :
       /\ t # clock /\ t + MaxBackstep >= clock
       /\ clock' = t
  /\ UNCHANGED <<policy_state, last_receipt, pc, digest, hitl, history>>

(* The process dies and comes back: Wallet::new knows no earlier state.    *)
Restart ==
  /\ restarts < MaxRestarts
  /\ restarts' = restarts + 1
  /\ policy_state' = DefaultPolicyState
  /\ last_receipt' = NoReceipt
  /\ pc' = "idle"
  /\ digest' = NoDigest
  /\ hitl' = NoApproval
  /\ windowFrom' = Len(log) + 1
  /\ UNCHANGED <<clock, log>>

Call ==
  \E to \in Addresses, value \in Values, nonce \in Nonces, chain \in Chains :
    LET d == BuildDigest(to, value, nonce, chain, clock)
    IN  \E approval \in PresentableApprovals(d) \cup {NoApproval} :
          Authorize(d, approval) \/ Refuse(d, approval)

Next ==
  \/ Call
  \/ SignDigest \/ SignerFails
  \/ SignIntent \/ IntentFails
  \/ Tick
  \/ Restart

Spec == Init /\ [][Next]_vars

-----------------------------------------------------------------------------
(* Vocabulary of the properties.                                           *)

ValueAt(i) == log[i].digest.auth.value
TimeAt(i)  == log[i].digest.auth.valid_after

Counted == {i \in DOMAIN log : log[i].counted}
Total(indices) == MapThenSumSet(ValueAt, indices)

InFlight == pc \in {"signer", "intent"}

-----------------------------------------------------------------------------
(* Safety.                                                                 *)

(* The running total the policy is checked against is exactly what was     *)
(* signed and counted since the daily window began: nothing is counted     *)
(* twice, dropped by a failed call, or carried over a roll of the window   *)
(* (policy.rs record, settlement.rs authorize_eip3009).                    *)
SpentIsWindowTotal ==
  policy_state.spent_today = Total({i \in Counted : i >= windowFrom})

(* The cap holds of the recorded total, and still holds of the total the   *)
(* current call is about to record: the verdict taken before the external  *)
(* signer was asked is not stale when the spend is recorded, whatever the  *)
(* clock did and whichever calls failed in between.                        *)
CapHoldsInFlight ==
  /\ policy_state.spent_today <= DailyCap
  /\ InFlight =>
       LET auth == digest.auth
       IN  EffectiveSpentToday(policy_state, auth.valid_after) + auth.value
             <= DailyCap

(* What it takes for the wallet to ask for a signature over digest d: its  *)
(* rail is enabled, its amount within the limit per call, and above the    *)
(* HITL threshold there is an approval that the configured approver really *)
(* signed for this digest and amount, unexpired at the time d names.       *)
Authorised(d, approval) ==
  /\ RailOf(d.chain) \in AllowRails
  /\ d.auth.value <= MaxPerCall
  /\ d.auth.value > HitlAbove =>
       /\ approval # NoApproval
       /\ approval.signature = "genuine"
       /\ HitlApproverPk # NoKey /\ approval.approver_pk = HitlApproverPk
       /\ approval.intent_hash = d
       /\ approval.amount = d.auth.value
       /\ d.auth.valid_after < approval.expiry_unix

(* No external signature exists, or is being asked for, that was not       *)
(* authorised ("Only past this point does anything get signed",            *)
(* settlement.rs): not after a restart, not under an approval made for an  *)
(* earlier digest, and not because a call failed after it passed the check.*)
EverySignatureAuthorised ==
  /\ \A i \in DOMAIN log : Authorised(log[i].digest, log[i].hitl)
  /\ InFlight => Authorised(digest, hitl)

(* At any moment the policy denies a spend for the daily cap exactly when  *)
(* it would take what was counted in the window open at that moment over   *)
(* the cap: spends that failed, that belong to an elapsed window or that a *)
(* saturating sum hides are neither held against the caller nor forgiven.  *)
OpenWindow(now) ==
  IF WindowElapsed(policy_state, now) THEN {}
                                      ELSE {i \in Counted : i >= windowFrom}

CapDenialIsExact ==
  \A value \in Values, chain \in Chains :
    (RailOf(chain) \in AllowRails /\ value <= MaxPerCall) =>
      (Check(policy_state, RailOf(chain), value, clock) = "ExceedsDailyCap"
         <=> Total(OpenWindow(clock)) + value > DailyCap)

(* The receipt the wallet offers is that of the latest authorization it    *)
(* completed: a call that got its external signature and then failed       *)
(* neither replaces the receipt nor is attested by it.                     *)
ReceiptIsOfLatestSpend ==
  last_receipt # NoReceipt =>
    LET latest == Max(Counted)
    IN  /\ Counted # {}
        /\ last_receipt.auth_hash = log[latest].digest
        /\ last_receipt.amount = ValueAt(latest)
        /\ last_receipt.ts = TimeAt(latest)

(* With a clock that never steps back and no restart, any DaySeconds       *)
(* seconds overlap at most two of the wallet's windows, so no more than    *)
(* twice the cap is counted in them.                                       *)
SpentWithin(from) ==
  Total({i \in Counted : TimeAt(i) >= from /\ TimeAt(i) < from + DaySeconds})

AnyDayWithinTwoCaps == \A t \in 0..MaxClock : SpentWithin(t) <= 2 * DailyCap

-----------------------------------------------------------------------------
(* The wallet spends from a budget of DailyCap per DaySeconds.  The time   *)
(* of a spend is the one its call was given.                               *)

CallTime == IF pc = "idle" THEN clock ELSE digest.auth.valid_after

Budget == INSTANCE SpendBudget WITH
            Cap <- DailyCap, Length <- DaySeconds,
            Amounts <- Amount, Times <- Time,
            now <- CallTime,
            opened <- policy_state.day_start_unix,
            used <- policy_state.spent_today

(* Every step of the wallet that changes its accounting is a single spend  *)
(* the abstract budget covers at the time of the call, or a restart; the   *)
(* separate check, the saturating arithmetic and the steps between are     *)
(* invisible.                                                              *)
ImplementsBudget == Budget!Spec
=============================================================================
