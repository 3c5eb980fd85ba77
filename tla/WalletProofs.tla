---------------------------- MODULE WalletProofs ----------------------------
(***************************************************************************)
(* Theorems about Wallet, for every policy, every set of callers' inputs   *)
(* and every bound.                                                        *)
(***************************************************************************)
EXTENDS Wallet, SumProofs, SequenceTheorems, TLAPS

-----------------------------------------------------------------------------
(* Lemmas about the policy.                                                *)

(* Addition and subtraction of unsigned integers that stop at their limits *)
(* stay within them.                                                       *)
LEMMA SaturatingTypes ==
  ASSUME NEW limit \in Nat, NEW a \in 0..limit, NEW b \in 0..limit
  PROVE  SatAdd(a, b, limit) \in 0..limit /\ SatSub(a, b) \in 0..limit
BY DEF SatAdd, SatSub

(* What counts as spent is never more than what is recorded.               *)
LEMMA EffectiveType ==
  ASSUME NEW state \in PolicyState, NEW now \in Time
  PROVE  /\ EffectiveSpentToday(state, now) \in Amount
         /\ EffectiveSpentToday(state, now) <= state.spent_today
BY PolicyAssumption DEF EffectiveSpentToday, PolicyState, Amount

(* Recording a spend yields a state of the same type.                      *)
LEMMA RecordType ==
  ASSUME NEW state \in PolicyState, NEW amount \in Amount, NEW now \in Time
  PROVE  Record(state, amount, now) \in PolicyState
<1>1. SatAdd(EffectiveSpentToday(state, now), amount, AmountMax) \in Amount
  BY EffectiveType, SaturatingTypes, PolicyAssumption DEF Amount
<1>2. QED
  BY <1>1 DEF Record, PolicyState

(* A spend the cap admits is recorded exactly: the sum does not saturate.  *)
LEMMA RecordIsExact ==
  ASSUME NEW state \in PolicyState, NEW amount \in Amount, NEW now \in Time,
         EffectiveSpentToday(state, now) + amount <= DailyCap
  PROVE  Record(state, amount, now).spent_today
           = EffectiveSpentToday(state, now) + amount
<1>1. EffectiveSpentToday(state, now) \in Nat /\ amount \in Nat
  BY EffectiveType, PolicyAssumption DEF Amount
<1>2. EffectiveSpentToday(state, now) + amount <= AmountMax
  BY <1>1, PolicyAssumption
<1>3. QED
  BY <1>1, <1>2, PolicyAssumption DEF Record, SatAdd

(* What a verdict other than a violation establishes.                      *)
LEMMA CheckPasses ==
  ASSUME NEW state \in PolicyState, NEW rail, NEW amount \in Amount,
         NEW now \in Time,
         Check(state, rail, amount, now) \in Decision
  PROVE  /\ rail \in AllowRails
         /\ amount <= MaxPerCall
         /\ EffectiveSpentToday(state, now) + amount <= DailyCap
         /\ amount > HitlAbove =>
              Check(state, rail, amount, now) = "RequireHitl"
<1>1. EffectiveSpentToday(state, now) \in Nat /\ amount \in Nat
  BY EffectiveType, PolicyAssumption DEF Amount
<1>2. rail \in AllowRails
  BY DEF Check, Decision
<1>3. amount <= MaxPerCall
  BY <1>1, <1>2, PolicyAssumption DEF Check, Decision, Amount
<1>4. ~ (OverDailyCap(state, amount, now))
  BY <1>2, <1>3 DEF Check, Decision
<1>5. EffectiveSpentToday(state, now) + amount <= DailyCap
  BY <1>1, <1>4, PolicyAssumption DEF OverDailyCap, SatAdd
<1>6. amount > HitlAbove => Check(state, rail, amount, now) = "RequireHitl"
  BY <1>1, <1>2, <1>3, <1>4, PolicyAssumption DEF Check, Amount
<1>7. QED
  BY <1>2, <1>3, <1>5, <1>6

(* An authorization of what a caller asks for is well typed.               *)
LEMMA DigestType ==
  ASSUME NEW to \in Addresses, NEW value \in Values, NEW nonce \in Nonces,
         NEW chain \in Chains, NEW now \in Time
  PROVE  BuildDigest(to, value, nonce, chain, now) \in Digest
<1>1. SatAdd(now, TtlSecs, TimeMax) \in Time
  BY SaturatingTypes, PolicyAssumption DEF Time
<1>2. QED
  BY <1>1 DEF BuildDigest, Digest, Authorization

-----------------------------------------------------------------------------
(* Type correctness.                                                       *)

LEMMA InitTypeOK == Init => TypeOK
BY PolicyAssumption, WalletAssumption
   DEF Init, TypeOK, DefaultPolicyState, PolicyState, Time, Amount

(* A call that does not stutter asks for a well typed authorization that    *)
(* names the moment of the call.                                           *)
LEMMA CallCases ==
  ASSUME TypeOK, Call
  PROVE  \/ UNCHANGED vars
         \/ \E d \in Digest :
              /\ d.auth.valid_after = clock
              /\ \E approval \in PresentableApprovals(d) \cup {NoApproval} :
                   Authorize(d, approval)
<1>1. PICK to \in Addresses, value \in Values, nonce \in Nonces, chain \in Chains :
        LET d == BuildDigest(to, value, nonce, chain, clock)
        IN  \E approval \in PresentableApprovals(d) \cup {NoApproval} :
              Authorize(d, approval) \/ Refuse(d, approval)
  BY DEF Call
<1> DEFINE d == BuildDigest(to, value, nonce, chain, clock)
<1>2. PICK approval \in PresentableApprovals(d) \cup {NoApproval} :
        Authorize(d, approval) \/ Refuse(d, approval)
  BY <1>1
<1>3. d \in Digest
  <2>1. clock \in Time
    BY PolicyAssumption, WalletAssumption DEF TypeOK, Time
  <2>2. QED
    BY <2>1, DigestType
<1>4. d.auth.valid_after = clock
  BY DEF BuildDigest
<1> HIDE DEF d
<1>5. Refuse(d, approval) => UNCHANGED vars
  BY DEF Refuse
<1>6. QED
  BY <1>2, <1>3, <1>4, <1>5

(* The fields of a digest the policy looks at.                             *)
LEMMA DigestFields ==
  ASSUME NEW d \in Digest
  PROVE  /\ d.auth.value \in Values /\ d.auth.value \in Amount
         /\ d.auth.valid_after \in Time
         /\ d.chain \in Chains
BY WalletAssumption DEF Digest, Authorization

LEMMA AuthorizeTypeOK ==
  ASSUME TypeOK,
         NEW d \in Digest, NEW approval \in PresentableApprovals(d) \cup {NoApproval},
         Authorize(d, approval)
  PROVE  TypeOK'
<1>1. \A i \in DOMAIN log : log[i] \in LogEntry /\ log[i].digest \in Digest
  <2>1. log \in Seq(LogEntry)
    BY DEF TypeOK
  <2>2. \A i \in DOMAIN log : log[i] \in LogEntry
    BY <2>1
  <2>3. QED
    BY <2>2 DEF LogEntry
<1>2. approval \in HitlApproval \cup {NoApproval}
  BY <1>1 DEF PresentableApprovals, HitlApproval
<1>3. QED
  BY <1>2 DEF Authorize, TypeOK, history

LEMMA SignDigestTypeOK == TypeOK /\ SignDigest => TypeOK'
<1> SUFFICES ASSUME TypeOK, SignDigest PROVE TypeOK'
  OBVIOUS
<1>1. [digest |-> digest, hitl |-> hitl, counted |-> FALSE] \in LogEntry
  BY DEF TypeOK, SignDigest, LogEntry
<1>2. log' \in Seq(LogEntry) /\ Len(log') = Len(log) + 1
  BY <1>1 DEF TypeOK, SignDigest
<1>3. QED
  BY <1>2 DEF TypeOK, SignDigest

LEMMA SignIntentTypeOK == TypeOK /\ SignIntent => TypeOK'
<1> SUFFICES ASSUME TypeOK, SignIntent PROVE TypeOK'
  OBVIOUS
<1>1. /\ digest \in Digest
      /\ digest.auth.value \in Amount /\ digest.auth.valid_after \in Time
  BY WalletAssumption DEF TypeOK, SignIntent, Digest, Authorization
<1>2. policy_state' \in PolicyState
  BY <1>1, RecordType DEF TypeOK, SignIntent
<1>3. last_receipt' \in Receipt
  BY <1>1 DEF SignIntent, Receipt, Digest, Authorization
<1>4. log' \in Seq(LogEntry) /\ Len(log') = Len(log)
  <2>1. log[Len(log)] \in LogEntry
    BY DEF TypeOK, SignIntent
  <2>2. [log[Len(log)] EXCEPT !.counted = TRUE] \in LogEntry
    BY <2>1 DEF LogEntry
  <2>3. QED
    BY <2>2 DEF TypeOK, SignIntent
<1>5. windowFrom' \in 1..(Len(log') + 1)
  BY <1>4 DEF TypeOK, SignIntent
<1>6. QED
  BY <1>2, <1>3, <1>4, <1>5 DEF TypeOK, SignIntent

(* Every variable keeps its type.                                          *)
THEOREM TypeCorrect == Spec => []TypeOK
<1>1. TypeOK /\ [Next]_vars => TypeOK'
  <2> SUFFICES ASSUME TypeOK, [Next]_vars PROVE TypeOK'
    OBVIOUS
  <2>1. CASE Call
    <3>1. CASE UNCHANGED vars
      BY <3>1 DEF TypeOK, vars
    <3>2. QED
      BY <2>1, <3>1, CallCases, AuthorizeTypeOK
  <2>2. CASE SignDigest
    BY <2>2, SignDigestTypeOK
  <2>3. CASE SignerFails
    BY <2>3 DEF SignerFails, TypeOK, history
  <2>4. CASE SignIntent
    BY <2>4, SignIntentTypeOK
  <2>5. CASE IntentFails
    BY <2>5 DEF IntentFails, TypeOK, history
  <2>6. CASE Tick
    BY <2>6 DEF Tick, TypeOK, history
  <2>7. CASE Restart
    BY <2>7, PolicyAssumption, WalletAssumption
       DEF Restart, TypeOK, DefaultPolicyState, PolicyState, Time, Amount
  <2>8. CASE UNCHANGED vars
    BY <2>8 DEF TypeOK, vars
  <2>9. QED
    BY <2>1, <2>2, <2>3, <2>4, <2>5, <2>6, <2>7, <2>8 DEF Next
<1>2. QED
  BY InitTypeOK, <1>1, PTL DEF Spec

-----------------------------------------------------------------------------
(* The daily cap.                                                          *)

(* A call enters only after a verdict whose projection was within the cap. *)
LEMMA AuthorizePasses ==
  ASSUME TypeOK, NEW d \in Digest, NEW approval, Authorize(d, approval)
  PROVE  /\ Check(policy_state, RailOf(d.chain), d.auth.value, clock) \in Decision
         /\ Check(policy_state, RailOf(d.chain), d.auth.value, clock) = "RequireHitl"
              => /\ approval # NoApproval
                 /\ VerifyApproval(approval, d, d.auth.value, clock) = "approved"
<1> DEFINE decision == Check(policy_state, RailOf(d.chain), d.auth.value, clock)
<1>1. Verdict(d, approval, clock) = "proceed"
  BY DEF Authorize
<1>2. decision \in Violation \cup Decision
  BY DEF Check, Violation, Decision
<1> HIDE DEF decision
<1>3. CASE decision = "Allow"
  BY <1>3 DEF Decision, decision
<1>4. CASE decision = "RequireHitl"
  BY <1>1, <1>4 DEF Verdict, Decision, decision
<1>5. CASE decision \in Violation
  BY <1>1, <1>5 DEF Verdict, Violation, decision
<1>6. QED
  BY <1>2, <1>3, <1>4, <1>5 DEF Decision, decision

(* The cap clause of the invariant, established by the verdict ...         *)
LEMMA AuthorizeWithinCap ==
  ASSUME TypeOK, CapHoldsInFlight,
         NEW d \in Digest, d.auth.valid_after = clock,
         NEW approval, Authorize(d, approval)
  PROVE  CapHoldsInFlight'
<1>1. /\ d.auth.value \in Amount /\ clock \in Time
      /\ policy_state \in PolicyState
  BY DigestFields DEF TypeOK
<1>2. EffectiveSpentToday(policy_state, clock) + d.auth.value <= DailyCap
  BY <1>1, AuthorizePasses, CheckPasses
<1>3. digest' = d /\ policy_state' = policy_state
  BY DEF Authorize
<1>4. QED
  BY <1>2, <1>3 DEF CapHoldsInFlight, EffectiveSpentToday, WindowElapsed

(* ... and preserved when the spend is recorded.                           *)
LEMMA SignIntentWithinCap ==
  ASSUME TypeOK, CapHoldsInFlight, SignIntent
  PROVE  CapHoldsInFlight'
<1> DEFINE auth == digest.auth
<1>1. digest \in Digest
  BY DEF TypeOK, SignIntent
<1>2. /\ auth.value \in Amount /\ auth.valid_after \in Time
      /\ policy_state \in PolicyState
  BY <1>1, DigestFields DEF TypeOK
<1>3. EffectiveSpentToday(policy_state, auth.valid_after) + auth.value <= DailyCap
  BY DEF CapHoldsInFlight, InFlight, SignIntent
<1>4. policy_state' = Record(policy_state, auth.value, auth.valid_after)
  BY DEF SignIntent
<1>5. policy_state'.spent_today <= DailyCap
  BY <1>2, <1>3, <1>4, RecordIsExact
<1>6. pc' = "idle"
  BY DEF SignIntent
<1>7. QED
  BY <1>5, <1>6 DEF CapHoldsInFlight, InFlight

(* The recorded total never exceeds the cap, and the verdict on the call   *)
(* under way is not stale when its spend is recorded.  No step between the *)
(* two changes the recorded state without ending the call, which is why    *)
(* the property is inductive.                                              *)
THEOREM CapSafe == Spec => []CapHoldsInFlight
<1>1. Init => CapHoldsInFlight
  BY PolicyAssumption
     DEF Init, CapHoldsInFlight, InFlight, DefaultPolicyState
<1>2. TypeOK /\ CapHoldsInFlight /\ [Next]_vars => CapHoldsInFlight'
  <2> SUFFICES ASSUME TypeOK, CapHoldsInFlight, [Next]_vars
               PROVE  CapHoldsInFlight'
    OBVIOUS
  <2> USE DEF CapHoldsInFlight, InFlight, EffectiveSpentToday, WindowElapsed
  <2>1. CASE Call
    <3>1. CASE UNCHANGED vars
      BY <3>1 DEF vars
    <3>2. QED
      BY <2>1, <3>1, CallCases, AuthorizeWithinCap
  <2>2. CASE SignDigest
    BY <2>2 DEF SignDigest
  <2>3. CASE SignerFails
    BY <2>3 DEF SignerFails
  <2>4. CASE SignIntent
    BY <2>4, SignIntentWithinCap
  <2>5. CASE IntentFails
    BY <2>5 DEF IntentFails
  <2>6. CASE Tick
    BY <2>6 DEF Tick
  <2>7. CASE Restart
    BY <2>7, PolicyAssumption DEF Restart, DefaultPolicyState
  <2>8. CASE UNCHANGED vars
    BY <2>8 DEF vars
  <2>9. QED
    BY <2>1, <2>2, <2>3, <2>4, <2>5, <2>6, <2>7, <2>8 DEF Next
<1>3. QED
  BY <1>1, <1>2, TypeCorrect, PTL DEF Spec

-----------------------------------------------------------------------------
(* Authorisation.                                                          *)

(* What an approved approval establishes.                                  *)
LEMMA ApprovalVerified ==
  ASSUME NEW approval, NEW d, NEW amount, NEW now,
         VerifyApproval(approval, d, amount, now) = "approved"
  PROVE  ApprovalFits(approval, d, amount, now) /\ approval.signature = "genuine"
BY DEF VerifyApproval

(* The verdict lets nothing through to the signer that is not authorised.  *)
LEMMA AuthorizeAuthorises ==
  ASSUME TypeOK,
         NEW d \in Digest, d.auth.valid_after = clock,
         NEW approval, Authorize(d, approval)
  PROVE  digest' = d /\ Authorised(digest', hitl')
<1>1. /\ d.auth.value \in Amount /\ clock \in Time
      /\ policy_state \in PolicyState
  BY DigestFields DEF TypeOK
<1> DEFINE decision == Check(policy_state, RailOf(d.chain), d.auth.value, clock)
<1>2. decision \in Decision
  BY AuthorizePasses
<1>3. /\ RailOf(d.chain) \in AllowRails /\ d.auth.value <= MaxPerCall
      /\ d.auth.value > HitlAbove => decision = "RequireHitl"
  BY <1>1, <1>2, CheckPasses
<1>4. d.auth.value > HitlAbove =>
        /\ approval # NoApproval
        /\ ApprovalFits(approval, d, d.auth.value, clock)
        /\ approval.signature = "genuine"
  BY <1>3, AuthorizePasses, ApprovalVerified
<1> HIDE DEF decision
<1>5. /\ digest' = d
      /\ d.auth.value > HitlAbove => hitl' = approval
  BY DEF Authorize
<1>6. QED
  BY <1>3, <1>4, <1>5 DEF Authorised, ApprovalFits

(* Every external signature was asked for under a standing authorisation,  *)
(* whatever fails, restarts or is replayed to the wallet.                  *)
THEOREM SignaturesAuthorised == Spec => []EverySignatureAuthorised
<1>1. Init => EverySignatureAuthorised
  BY DEF Init, EverySignatureAuthorised, InFlight
<1>2. TypeOK /\ EverySignatureAuthorised /\ [Next]_vars => EverySignatureAuthorised'
  <2> SUFFICES ASSUME TypeOK, EverySignatureAuthorised, [Next]_vars
               PROVE  EverySignatureAuthorised'
    OBVIOUS
  <2>1. CASE Call
    <3>1. CASE UNCHANGED vars
      BY <3>1 DEF vars, EverySignatureAuthorised, InFlight
    <3>2. CASE \E d \in Digest :
                 /\ d.auth.valid_after = clock
                 /\ \E approval \in PresentableApprovals(d) \cup {NoApproval} :
                      Authorize(d, approval)
      <4>1. Authorised(digest', hitl') /\ UNCHANGED log
        BY <3>2, AuthorizeAuthorises DEF Authorize, history
      <4>2. QED
        BY <4>1 DEF EverySignatureAuthorised, InFlight
    <3>3. QED
      BY <2>1, <3>1, <3>2, CallCases
  <2>2. CASE SignDigest
    <3> DEFINE entry == [digest |-> digest, hitl |-> hitl, counted |-> FALSE]
    <3>1. /\ log \in Seq(LogEntry) /\ log' = Append(log, entry)
          /\ Authorised(digest, hitl) /\ UNCHANGED <<digest, hitl>>
      BY <2>2 DEF TypeOK, SignDigest, EverySignatureAuthorised, InFlight
    <3>2. /\ DOMAIN log = 1..Len(log) /\ DOMAIN log' = 1..(Len(log) + 1)
          /\ \A i \in DOMAIN log : log'[i] = log[i]
          /\ log'[Len(log) + 1] = entry
      BY <3>1, AppendProperties, LenProperties
    <3>3. \A i \in DOMAIN log' : Authorised(log'[i].digest, log'[i].hitl)
      BY <3>1, <3>2 DEF EverySignatureAuthorised
    <3>4. QED
      BY <3>1, <3>3 DEF EverySignatureAuthorised
  <2>3. CASE SignerFails
    BY <2>3 DEF SignerFails, history, EverySignatureAuthorised, InFlight
  <2>4. CASE SignIntent
    <3>1. /\ DOMAIN log' = DOMAIN log
          /\ \A i \in DOMAIN log : /\ log'[i].digest = log[i].digest
                                  /\ log'[i].hitl = log[i].hitl
      <4>1. \A i \in DOMAIN log : log[i] \in LogEntry
        BY DEF TypeOK
      <4>2. QED
        BY <2>4, <4>1 DEF SignIntent, LogEntry
    <3>2. pc' = "idle"
      BY <2>4 DEF SignIntent
    <3>3. QED
      BY <3>1, <3>2 DEF EverySignatureAuthorised, InFlight
  <2>5. CASE IntentFails
    BY <2>5 DEF IntentFails, history, EverySignatureAuthorised, InFlight
  <2>6. CASE Tick
    BY <2>6 DEF Tick, history, EverySignatureAuthorised, InFlight
  <2>7. CASE Restart
    BY <2>7 DEF Restart, EverySignatureAuthorised, InFlight
  <2>8. CASE UNCHANGED vars
    BY <2>8 DEF vars, EverySignatureAuthorised, InFlight
  <2>9. QED
    BY <2>1, <2>2, <2>3, <2>4, <2>5, <2>6, <2>7, <2>8 DEF Next
<1>3. QED
  BY <1>1, <1>2, TypeCorrect, PTL DEF Spec

-----------------------------------------------------------------------------
(* Refinement.                                                             *)

(* Recording a spend the cap covers is one step of the budget.             *)
LEMMA RecordIsSpend ==
  ASSUME TypeOK, CapHoldsInFlight, SignIntent
  PROVE  \E amount \in Amount : \/ Budget!SpendInWindow(amount)
                               \/ Budget!SpendInNewWindow(amount)
<1> DEFINE amount == digest.auth.value
           at     == digest.auth.valid_after
<1>1. /\ amount \in Amount /\ at \in Time /\ CallTime = at
      /\ policy_state \in PolicyState
  BY DigestFields DEF TypeOK, SignIntent, CallTime
<1>2. EffectiveSpentToday(policy_state, at) + amount <= DailyCap
  BY DEF CapHoldsInFlight, InFlight, SignIntent
<1>3. /\ policy_state' = Record(policy_state, amount, at)
      /\ policy_state'.spent_today = EffectiveSpentToday(policy_state, at) + amount
  BY <1>1, <1>2, RecordIsExact DEF SignIntent
<1>4. /\ policy_state.day_start_unix \in Nat /\ policy_state.spent_today \in Nat
      /\ at \in Nat /\ amount \in Nat /\ DaySeconds \in Nat \ {0}
  BY <1>1, PolicyAssumption DEF PolicyState, Time, Amount
<1>5. WindowElapsed(policy_state, at) <=>
        at >= policy_state.day_start_unix + DaySeconds
  BY <1>4 DEF WindowElapsed, SatSub
<1>6. policy_state'.day_start_unix =
        IF WindowElapsed(policy_state, at) THEN at ELSE policy_state.day_start_unix
  BY <1>3 DEF Record
<1> HIDE DEF amount, at
<1>7. CASE WindowElapsed(policy_state, at)
  <2>1. Budget!SpendInNewWindow(amount)
    BY <1>1, <1>2, <1>3, <1>4, <1>5, <1>6, <1>7
       DEF Budget!SpendInNewWindow, EffectiveSpentToday
  <2>2. QED
    BY <1>1, <2>1
<1>8. CASE ~ WindowElapsed(policy_state, at)
  <2>1. Budget!SpendInWindow(amount)
    BY <1>1, <1>2, <1>3, <1>4, <1>5, <1>6, <1>8
       DEF Budget!SpendInWindow, EffectiveSpentToday
  <2>2. QED
    BY <1>1, <2>1
<1>9. QED
  BY <1>7, <1>8

(* The wallet implements the budget: its accounting changes only by spends *)
(* the budget covers, in one step each, and by restarts.                   *)
THEOREM WalletImplementsBudget == Spec => ImplementsBudget
<1>1. Init => Budget!Init
  BY PolicyAssumption, WalletAssumption
     DEF Init, Budget!Init, DefaultPolicyState, CallTime, Time
<1>2. TypeOK /\ TypeOK' /\ CapHoldsInFlight /\ [Next]_vars => Budget!Next
  <2> SUFFICES ASSUME TypeOK, TypeOK', CapHoldsInFlight, [Next]_vars
               PROVE  Budget!Next
    OBVIOUS
  <2>0. CallTime' \in Time
    <3>1. clock' \in Time
      BY PolicyAssumption, WalletAssumption DEF TypeOK, Time
    <3>2. pc' # "idle" => digest' \in Digest
      BY DEF TypeOK
    <3>3. QED
      BY <3>1, <3>2, DigestFields DEF CallTime
  <2> SUFFICES \/ \E amount \in Amount : \/ Budget!SpendInWindow(amount)
                                        \/ Budget!SpendInNewWindow(amount)
               \/ Budget!Forget
               \/ UNCHANGED policy_state
    BY <2>0 DEF Budget!Next, Budget!budget
  <2>1. CASE Call
    BY <2>1, CallCases DEF Authorize, vars
  <2>2. CASE SignDigest
    BY <2>2 DEF SignDigest
  <2>3. CASE SignerFails
    BY <2>3 DEF SignerFails
  <2>4. CASE SignIntent
    BY <2>4, RecordIsSpend
  <2>5. CASE IntentFails
    BY <2>5 DEF IntentFails
  <2>6. CASE Tick
    BY <2>6 DEF Tick
  <2>7. CASE Restart
    BY <2>7 DEF Restart, DefaultPolicyState, Budget!Forget
  <2>8. CASE UNCHANGED vars
    BY <2>8 DEF vars
  <2>9. QED
    BY <2>1, <2>2, <2>3, <2>4, <2>5, <2>6, <2>7, <2>8 DEF Next
<1>3. QED
  BY <1>1, <1>2, TypeCorrect, CapSafe, PTL
     DEF Spec, ImplementsBudget, Budget!Spec

-----------------------------------------------------------------------------
(* The account: what the log says was counted, and the policy's total.     *)

(* The amounts of the logged signatures.                                   *)
Amounts(l) == [i \in DOMAIN l |-> l[i].digest.auth.value]

(* A total over entries of the log is a sum over a finite set ...          *)
LEMMA TotalIsSum ==
  ASSUME NEW l, NEW S, S \subseteq DOMAIN l
  PROVE  (CHOOSE it : it = [s \in SUBSET S |->
                              IF s = {} THEN 0
                              ELSE l[Pick(s)].digest.auth.value + it[s \ {Pick(s)}]])[S]
           = SumOf(Amounts(l), S)
<1>1. \A s \in SUBSET S : s # {} =>
        Amounts(l)[Pick(s)] = l[Pick(s)].digest.auth.value
  BY Picked DEF Amounts
<1>2. ASSUME NEW it
      PROVE  [s \in SUBSET S |-> IF s = {} THEN 0
                                 ELSE l[Pick(s)].digest.auth.value + it[s \ {Pick(s)}]]
             = [s \in SUBSET S |-> IF s = {} THEN 0
                                   ELSE Amounts(l)[Pick(s)] + it[s \ {Pick(s)}]]
  BY <1>1
<1>3. QED
  BY <1>2 DEF SumOf, IsSum

(* ... before a step and after it.                                         *)
LEMMA TotalNow ==
  ASSUME NEW S, S \subseteq DOMAIN log
  PROVE  Total(S) = SumOf(Amounts(log), S)
<1>1. Total(S) = (CHOOSE it : it = [s \in SUBSET S |->
                    IF s = {} THEN 0
                    ELSE log[Pick(s)].digest.auth.value + it[s \ {Pick(s)}]])[S]
  BY DEF Total, MapThenSumSet, MapThenFoldSet, Pick, ValueAt
<1>2. QED
  BY <1>1, TotalIsSum

LEMMA SpentNow ==
  SpentIsWindowTotal <=>
    policy_state.spent_today
      = SumOf(Amounts(log), {i \in Counted : i >= windowFrom})
<1> DEFINE S == {i \in Counted : i >= windowFrom}
<1>1. S \subseteq DOMAIN log
  BY DEF Counted
<1>2. Total(S) = SumOf(Amounts(log), S)
  BY <1>1, TotalNow
<1>3. QED
  BY <1>2 DEF SpentIsWindowTotal

LEMMA SpentNext ==
  SpentIsWindowTotal' <=>
    policy_state'.spent_today
      = SumOf(Amounts(log'), {i \in Counted' : i >= windowFrom'})
<1> DEFINE S == {i \in Counted' : i >= windowFrom'}
<1>1. S \subseteq DOMAIN log'
  BY DEF Counted
<1>2. SpentIsWindowTotal' <=> policy_state'.spent_today =
        (CHOOSE it : it = [s \in SUBSET S |->
                    IF s = {} THEN 0
                    ELSE log'[Pick(s)].digest.auth.value + it[s \ {Pick(s)}]])[S]
  BY DEF SpentIsWindowTotal, Total, MapThenSumSet, MapThenFoldSet, Pick, ValueAt
<1>3. QED
  BY <1>1, <1>2, TotalIsSum

(* While the intent is to be signed, the last entry of the log is the one  *)
(* of this call, and it is not counted yet.                                *)
EntryOfCall ==
  pc = "intent" => /\ log[Len(log)].digest = digest
                   /\ ~ log[Len(log)].counted
                   /\ windowFrom <= Len(log)

(* The entries of the log are well typed, and finitely many.               *)
LEMMA Entries ==
  ASSUME TypeOK
  PROVE  /\ DOMAIN log = 1..Len(log) /\ Len(log) \in Nat
         /\ IsFiniteSet(DOMAIN log) /\ IsFiniteSet(Counted)
         /\ Counted \subseteq DOMAIN log
         /\ \A i \in DOMAIN log :
              /\ log[i] \in LogEntry
              /\ Amounts(log)[i] = ValueAt(i) /\ Amounts(log)[i] \in Nat
              /\ TimeAt(i) \in Nat
<1>1. /\ DOMAIN log = 1..Len(log) /\ Len(log) \in Nat
      /\ \A i \in DOMAIN log : log[i] \in LogEntry
  BY DEF TypeOK
<1>2. IsFiniteSet(DOMAIN log)
  BY <1>1, FS_Interval
<1>3. Counted \subseteq DOMAIN log
  BY DEF Counted
<1>4. IsFiniteSet(Counted)
  BY <1>2, <1>3, FS_Subset
<1>5. ASSUME NEW i \in DOMAIN log
      PROVE  /\ Amounts(log)[i] = ValueAt(i) /\ Amounts(log)[i] \in Nat
             /\ TimeAt(i) \in Nat
  <2>1. log[i].digest \in Digest
    BY <1>1 DEF LogEntry
  <2>2. QED
    BY <2>1, DigestFields DEF Amounts, ValueAt, TimeAt, Amount, Time
<1>6. QED
  BY <1>1, <1>2, <1>3, <1>4, <1>5

(* The same of any log: its entries' times and amounts are numbers.        *)
LEMMA LogNumbers ==
  ASSUME NEW l \in Seq(LogEntry)
  PROVE  /\ DOMAIN l = 1..Len(l) /\ Len(l) \in Nat
         /\ \A i \in DOMAIN l : /\ Amounts(l)[i] \in Nat
                               /\ l[i].digest.auth.valid_after \in Nat
<1>1. DOMAIN l = 1..Len(l) /\ Len(l) \in Nat
  OBVIOUS
<1>2. \A i \in DOMAIN l : l[i] \in LogEntry
  OBVIOUS
<1>3. \A i \in DOMAIN l : l[i].digest \in Digest
  BY <1>2 DEF LogEntry
<1>4. QED
  BY <1>1, <1>3, DigestFields DEF Amounts, Amount, Time

(* The external signer adds an entry that is not counted ...               *)
LEMMA SignDigestLog ==
  ASSUME TypeOK, SignDigest
  PROVE  /\ DOMAIN log \subseteq DOMAIN log'
         /\ \A i \in DOMAIN log : log'[i] = log[i]
         /\ Len(log') = Len(log) + 1 /\ Len(log') \in DOMAIN log'
         /\ log'[Len(log')].digest = digest /\ ~ log'[Len(log')].counted
         /\ Counted' = Counted
<1> DEFINE entry == [digest |-> digest, hitl |-> hitl, counted |-> FALSE]
<1>1. log \in Seq(LogEntry) /\ log' = Append(log, entry)
  BY DEF TypeOK, SignDigest
<1>2. entry.digest = digest /\ ~ entry.counted
  OBVIOUS
<1> HIDE DEF entry
<1>3. /\ DOMAIN log = 1..Len(log) /\ DOMAIN log' = 1..(Len(log) + 1)
      /\ Len(log') = Len(log) + 1 /\ Len(log) \in Nat
      /\ \A i \in DOMAIN log : log'[i] = log[i]
      /\ log'[Len(log) + 1] = entry
  BY <1>1, AppendProperties, LenProperties
<1>4. DOMAIN log' = DOMAIN log \cup {Len(log) + 1}
  BY <1>3
<1>5. Counted' = Counted
  BY <1>2, <1>3, <1>4 DEF Counted
<1>6. QED
  BY <1>2, <1>3, <1>4, <1>5

(* ... and the identity's signature counts the last one.                   *)
LEMMA SignIntentLog ==
  ASSUME TypeOK, EntryOfCall, SignIntent
  PROVE  /\ Len(log) \in DOMAIN log /\ Len(log) \notin Counted
         /\ log[Len(log)].digest = digest
         /\ DOMAIN log' = DOMAIN log /\ Len(log') = Len(log)
         /\ \A i \in DOMAIN log : log'[i].digest = log[i].digest
         /\ Counted' = Counted \cup {Len(log)}
         /\ \A i \in Counted : i < Len(log)
<1>1. /\ pc = "intent" /\ log \in Seq(LogEntry)
      /\ log' = [log EXCEPT ![Len(log)].counted = TRUE]
      /\ Len(log) > 0 /\ ~ log[Len(log)].counted
      /\ log[Len(log)].digest = digest
  BY DEF TypeOK, EntryOfCall, SignIntent
<1>2. DOMAIN log = 1..Len(log) /\ Len(log) \in Nat
  BY <1>1
<1>3. \A i \in DOMAIN log : log[i] \in LogEntry
  BY <1>1
<1>4. Len(log) \in DOMAIN log
  BY <1>1, <1>2
<1>5. /\ DOMAIN log' = DOMAIN log
      /\ \A i \in DOMAIN log : i # Len(log) => log'[i] = log[i]
      /\ log'[Len(log)] = [log[Len(log)] EXCEPT !.counted = TRUE]
  BY <1>1, <1>4
<1>6. log'[Len(log)].counted /\ log'[Len(log)].digest = log[Len(log)].digest
  BY <1>3, <1>4, <1>5 DEF LogEntry
<1>7. \A i \in DOMAIN log : log'[i].digest = log[i].digest
  BY <1>5, <1>6
<1>8. Counted' = Counted \cup {Len(log)}
  BY <1>4, <1>5, <1>6 DEF Counted
<1>9. Len(log') = Len(log)
  BY <1>1, <1>5
<1>10. Len(log) \notin Counted
  BY <1>1 DEF Counted
<1>11. \A i \in Counted : i < Len(log)
  BY <1>2, <1>10 DEF Counted
<1>12. QED
  BY <1>1, <1>4, <1>5, <1>7, <1>8, <1>9, <1>10, <1>11

(* Every other step but a restart leaves the account alone.                *)
Uncounted ==
  /\ UNCHANGED <<policy_state, last_receipt, windowFrom>>
  /\ DOMAIN log \subseteq DOMAIN log'
  /\ \A i \in DOMAIN log : log'[i] = log[i]
  /\ Counted' = Counted

LEMMA StepCases ==
  ASSUME TypeOK, [Next]_vars
  PROVE  SignIntent \/ Uncounted \/ Restart
<1> USE DEF Uncounted
<1>0. UNCHANGED log => Counted' = Counted /\ \A i \in DOMAIN log : log'[i] = log[i]
  BY DEF Counted
<1>1. CASE Call
  BY <1>0, <1>1, CallCases DEF Authorize, vars, history
<1>2. CASE SignDigest
  BY <1>2, SignDigestLog DEF SignDigest
<1>3. CASE SignerFails
  BY <1>0, <1>3 DEF SignerFails, history
<1>4. CASE IntentFails
  BY <1>0, <1>4 DEF IntentFails, history
<1>5. CASE Tick
  BY <1>0, <1>5 DEF Tick, history
<1>6. CASE UNCHANGED vars
  BY <1>0, <1>6 DEF vars
<1>7. QED
  BY <1>1, <1>2, <1>3, <1>4, <1>5, <1>6 DEF Next

(* The entry of the call under way is the last one, until it is counted.   *)
LEMMA EntryKept == TypeOK /\ EntryOfCall /\ [Next]_vars => EntryOfCall'
<1> SUFFICES ASSUME TypeOK, EntryOfCall, [Next]_vars PROVE EntryOfCall'
  OBVIOUS
<1>1. CASE SignDigest
  <2>1. windowFrom <= Len(log) + 1 /\ Len(log') = Len(log) + 1
    BY <1>1, SignDigestLog DEF TypeOK
  <2>2. UNCHANGED <<digest, windowFrom>>
    BY <1>1 DEF SignDigest
  <2>3. QED
    BY <1>1, <2>1, <2>2, SignDigestLog DEF EntryOfCall
<1>2. CASE Call
  BY <1>2, CallCases DEF EntryOfCall, Authorize, vars, history
<1>3. CASE SignerFails \/ SignIntent \/ IntentFails \/ Restart
  BY <1>3 DEF SignerFails, SignIntent, IntentFails, Restart, EntryOfCall
<1>4. CASE Tick \/ UNCHANGED vars
  BY <1>4 DEF Tick, vars, history, EntryOfCall
<1>5. QED
  BY <1>1, <1>2, <1>3, <1>4 DEF Next

(* Counting a spend adds its amount to the sum over any entries counted    *)
(* before it; the other amounts stay.                                      *)
LEMMA CountedSum ==
  ASSUME TypeOK, EntryOfCall, SignIntent, NEW S, S \subseteq Counted
  PROVE  /\ SumOf(Amounts(log'), S) = SumOf(Amounts(log), S)
         /\ SumOf(Amounts(log'), S \cup {Len(log)})
              = SumOf(Amounts(log), S) + digest.auth.value
<1>1. /\ IsFiniteSet(S) /\ S \subseteq DOMAIN log
      /\ Len(log) \in DOMAIN log /\ Len(log) \notin S
  BY Entries, SignIntentLog, FS_Subset
<1>2. \A i \in DOMAIN log : Amounts(log')[i] = Amounts(log)[i]
  BY SignIntentLog DEF Amounts
<1>3. Amounts(log')[Len(log)] = digest.auth.value
  BY <1>1, SignIntentLog DEF Amounts
<1>4. \A i \in S \cup {Len(log)} : Amounts(log')[i] \in Nat
  BY <1>1, <1>2, Entries
<1>5. SumOf(Amounts(log'), S) = SumOf(Amounts(log), S)
  BY <1>1, <1>2, SumSame
<1>6. SumOf(Amounts(log'), S \cup {Len(log)})
        = SumOf(Amounts(log'), S) + Amounts(log')[Len(log)]
  BY <1>1, <1>4, SumAdd
<1>7. QED
  BY <1>3, <1>5, <1>6

(* A step that counts nothing leaves every sum over counted entries alone. *)
LEMMA UncountedSum ==
  ASSUME TypeOK, \A i \in DOMAIN log : log'[i] = log[i],
         DOMAIN log \subseteq DOMAIN log', NEW S, S \subseteq Counted
  PROVE  SumOf(Amounts(log'), S) = SumOf(Amounts(log), S)
<1>1. IsFiniteSet(S) /\ S \subseteq DOMAIN log
  BY Entries, FS_Subset
<1>2. \A i \in S : Amounts(log')[i] = Amounts(log)[i]
  BY <1>1 DEF Amounts
<1>3. QED
  BY <1>1, <1>2, SumSame

(* The step that counts a spend keeps the account.                         *)
LEMMA SignIntentKeepsAccount ==
  ASSUME TypeOK, CapHoldsInFlight, EntryOfCall, SpentIsWindowTotal, SignIntent
  PROVE  SpentIsWindowTotal'
<1> DEFINE auth == digest.auth
           S    == {i \in Counted : i >= windowFrom}
           n    == Len(log)
<1>1. digest \in Digest
  BY DEF TypeOK, SignIntent
<1>2. /\ auth.value \in Amount /\ auth.valid_after \in Time
      /\ policy_state \in PolicyState
  BY <1>1, DigestFields DEF TypeOK
<1>3. EffectiveSpentToday(policy_state, auth.valid_after) + auth.value <= DailyCap
  BY DEF CapHoldsInFlight, InFlight, SignIntent
<1>4. policy_state'.spent_today
        = EffectiveSpentToday(policy_state, auth.valid_after) + auth.value
  BY <1>2, <1>3, RecordIsExact DEF SignIntent
<1>5. /\ Counted' = Counted \cup {n} /\ \A i \in Counted : i < n
      /\ n \in Nat /\ Counted \subseteq Nat
  BY Entries, SignIntentLog
<1>6. policy_state.spent_today = SumOf(Amounts(log), S)
  BY SpentNow
<1>7. CASE WindowElapsed(policy_state, auth.valid_after)
  <2>1. windowFrom' = n
    BY <1>7 DEF SignIntent
  <2>2. {i \in Counted' : i >= windowFrom'} = {} \cup {n}
    <3> HIDE DEF n
    <3>1. \A i \in Counted : ~ (i >= n)
      BY <1>5
    <3>2. n >= n
      BY <1>5
    <3>3. QED
      BY <1>5, <2>1, <3>1, <3>2
  <2>3. SumOf(Amounts(log'), {} \cup {n}) = SumOf(Amounts(log), {}) + auth.value
    BY CountedSum
  <2>4. policy_state'.spent_today = 0 + auth.value
    BY <1>4, <1>7 DEF EffectiveSpentToday
  <2>5. QED
    BY <2>2, <2>3, <2>4, SumEmpty, SpentNext
<1>8. CASE ~ WindowElapsed(policy_state, auth.valid_after)
  <2>1. windowFrom' = windowFrom /\ windowFrom <= n /\ windowFrom \in Nat
    BY <1>8 DEF SignIntent, EntryOfCall, TypeOK
  <2>2. {i \in Counted' : i >= windowFrom'} = S \cup {n}
    BY <1>5, <2>1
  <2>3. SumOf(Amounts(log'), S \cup {n}) = SumOf(Amounts(log), S) + auth.value
    BY CountedSum
  <2>4. policy_state'.spent_today = policy_state.spent_today + auth.value
    BY <1>4, <1>8 DEF EffectiveSpentToday
  <2>5. QED
    BY <1>6, <2>2, <2>3, <2>4, SpentNext
<1>9. QED
  BY <1>7, <1>8

(* The running total the cap is compared with is the sum of what was       *)
(* signed and counted since the window began: over every history of        *)
(* failing signers, failing intents, rolling windows and restarts.         *)
THEOREM AccountExact == Spec => []SpentIsWindowTotal
<1> DEFINE Inv == EntryOfCall /\ SpentIsWindowTotal
<1>1. Init => Inv
  <2> SUFFICES ASSUME Init PROVE Inv
    OBVIOUS
  <2>1. EntryOfCall
    BY DEF Init, EntryOfCall
  <2>2. {i \in Counted : i >= windowFrom} = {} /\ policy_state.spent_today = 0
    BY DEF Init, Counted, DefaultPolicyState
  <2>3. QED
    BY <2>1, <2>2, SumEmpty, SpentNow
<1>2. TypeOK /\ CapHoldsInFlight /\ Inv /\ [Next]_vars => Inv'
  <2> SUFFICES ASSUME TypeOK, CapHoldsInFlight, Inv, [Next]_vars
               PROVE  SpentIsWindowTotal'
    BY EntryKept
  <2>1. CASE SignIntent
    BY <2>1, SignIntentKeepsAccount
  <2>2. CASE Uncounted
    <3> DEFINE S == {i \in Counted : i >= windowFrom}
    <3>1. {i \in Counted' : i >= windowFrom'} = S /\ policy_state' = policy_state
      BY <2>2 DEF Uncounted
    <3>2. SumOf(Amounts(log'), S) = SumOf(Amounts(log), S)
      BY <2>2, UncountedSum DEF Uncounted
    <3>3. QED
      BY <3>1, <3>2, SpentNow, SpentNext
  <2>3. CASE Restart
    <3>1. Counted' = Counted /\ windowFrom' = Len(log) + 1
      BY <2>3 DEF Restart, Counted
    <3>2. {i \in Counted' : i >= windowFrom'} = {}
      BY <3>1, Entries
    <3>3. policy_state'.spent_today = 0
      BY <2>3 DEF Restart, DefaultPolicyState
    <3>4. QED
      BY <3>2, <3>3, SumEmpty, SpentNext
  <2>4. QED
    BY <2>1, <2>2, <2>3, StepCases
<1>3. QED
  BY <1>1, <1>2, TypeCorrect, CapSafe, PTL DEF Spec

(* At every moment the policy denies exactly the spends that would take    *)
(* what was counted in the open window over the cap.  This follows from    *)
(* the account being exact: below the cap no sum ever saturated.           *)
THEOREM DenialExact == Spec => []CapDenialIsExact
<1>1. TypeOK /\ SpentIsWindowTotal => CapDenialIsExact
  <2> SUFFICES ASSUME TypeOK, SpentIsWindowTotal,
                      NEW value \in Values, NEW chain \in Chains,
                      RailOf(chain) \in AllowRails, value <= MaxPerCall
               PROVE  Check(policy_state, RailOf(chain), value, clock) = "ExceedsDailyCap"
                        <=> Total(OpenWindow(clock)) + value > DailyCap
    BY DEF CapDenialIsExact
  <2>1. /\ value \in Amount /\ clock \in Time /\ policy_state \in PolicyState
    BY PolicyAssumption, WalletAssumption DEF TypeOK, Time
  <2>2. EffectiveSpentToday(policy_state, clock) \in Nat /\ value \in Nat
    BY <2>1, EffectiveType DEF Amount
  <2>3. Total(OpenWindow(clock)) = EffectiveSpentToday(policy_state, clock)
    <3>1. Total({}) = 0
      BY TotalNow, SumEmpty
    <3>2. Total({i \in Counted : i >= windowFrom}) = policy_state.spent_today
      BY DEF SpentIsWindowTotal
    <3>3. QED
      BY <3>1, <3>2 DEF OpenWindow, EffectiveSpentToday
  <2>4. Check(policy_state, RailOf(chain), value, clock) = "ExceedsDailyCap"
          <=> OverDailyCap(policy_state, value, clock)
    BY <2>1, PolicyAssumption DEF Check, Amount
  <2>5. OverDailyCap(policy_state, value, clock)
          <=> EffectiveSpentToday(policy_state, clock) + value > DailyCap
    BY <2>2, PolicyAssumption DEF OverDailyCap, SatAdd
  <2>6. QED
    BY <2>3, <2>4, <2>5
<1>2. QED
  BY <1>1, TypeCorrect, AccountExact, PTL

-----------------------------------------------------------------------------
(* The receipt.                                                            *)

(* Maximum by a witness.                                                   *)
LEMMA MaxIs ==
  ASSUME NEW S, S \subseteq Nat, NEW m \in S, \A i \in S : i <= m
  PROVE  Max(S) = m
<1>1. \A x \in S : (\A y \in S : x >= y) => x = m
  OBVIOUS
<1>2. m \in S /\ \A y \in S : m >= y
  OBVIOUS
<1>3. QED
  BY <1>1, <1>2 DEF Max

(* The receipt attests the entry counted last.                             *)
ReceiptOf(j) ==
  /\ \A i \in Counted : i <= j
  /\ last_receipt.auth_hash = log[j].digest
  /\ last_receipt.amount = ValueAt(j)
  /\ last_receipt.ts = TimeAt(j)

AttestsLatest == last_receipt # NoReceipt => \E j \in Counted : ReceiptOf(j)

(* The receipt on offer is that of the latest completed authorization.     *)
(* The entry is named by a witness, which a later uncounted signature      *)
(* cannot move.                                                            *)
THEOREM ReceiptCorrect == Spec => []ReceiptIsOfLatestSpend
<1> DEFINE Inv == EntryOfCall /\ AttestsLatest
<1>1. Init => Inv
  BY DEF Init, EntryOfCall, AttestsLatest
<1>2. TypeOK /\ Inv /\ [Next]_vars => Inv'
  <2> SUFFICES ASSUME TypeOK, Inv, [Next]_vars PROVE AttestsLatest'
    BY EntryKept
  <2>1. CASE SignIntent
    <3> DEFINE n == Len(log)
    <3>1. /\ n \in Counted' /\ n \in Nat
          /\ \A i \in Counted' : i <= n
          /\ log'[n].digest = digest
      BY <2>1, Entries, SignIntentLog
    <3>2. /\ last_receipt'.auth_hash = digest
          /\ last_receipt'.amount = digest.auth.value
          /\ last_receipt'.ts = digest.auth.valid_after
      BY <2>1 DEF SignIntent
    <3> HIDE DEF n
    <3>3. QED
      BY <3>1, <3>2 DEF AttestsLatest, ReceiptOf, ValueAt, TimeAt
  <2>2. CASE Uncounted
    <3>1. ASSUME last_receipt # NoReceipt PROVE \E j \in Counted' : ReceiptOf(j)'
      <4>1. PICK j \in Counted : ReceiptOf(j)
        BY <3>1 DEF AttestsLatest
      <4>2. j \in DOMAIN log
        BY DEF Counted
      <4>3. log'[j] = log[j] /\ Counted' = Counted /\ last_receipt' = last_receipt
        BY <2>2, <4>2 DEF Uncounted
      <4>4. ReceiptOf(j)'
        BY <4>1, <4>3 DEF ReceiptOf, ValueAt, TimeAt
      <4>5. QED
        BY <4>3, <4>4
    <3>2. last_receipt' = last_receipt
      BY <2>2 DEF Uncounted
    <3>3. QED
      BY <3>1, <3>2 DEF AttestsLatest
  <2>3. CASE Restart
    BY <2>3 DEF Restart, AttestsLatest
  <2>4. QED
    BY <2>1, <2>2, <2>3, StepCases
<1>3. TypeOK /\ Inv => ReceiptIsOfLatestSpend
  <2> SUFFICES ASSUME TypeOK, AttestsLatest, last_receipt # NoReceipt
               PROVE  LET latest == Max(Counted)
                      IN  /\ Counted # {}
                          /\ last_receipt.auth_hash = log[latest].digest
                          /\ last_receipt.amount = ValueAt(latest)
                          /\ last_receipt.ts = TimeAt(latest)
    BY DEF ReceiptIsOfLatestSpend
  <2>1. PICK j \in Counted : ReceiptOf(j)
    BY DEF AttestsLatest
  <2>2. Counted \subseteq Nat
    BY Entries
  <2>3. Max(Counted) = j
    BY <2>1, <2>2, MaxIs DEF ReceiptOf
  <2>4. QED
    BY <2>1, <2>3 DEF ReceiptOf
<1>4. QED
  BY <1>1, <1>2, <1>3, TypeCorrect, PTL DEF Spec

-----------------------------------------------------------------------------
(* Any day within two caps, for a clock that never steps back and a        *)
(* process that never restarts.                                            *)

(* The entries counted in the day from t on.                               *)
DayFrom(t) == {i \in Counted : TimeAt(i) >= t /\ TimeAt(i) < t + DaySeconds}

LEMMA DaysNow ==
  AnyDayWithinTwoCaps <=>
    \A t \in 0..MaxClock : SumOf(Amounts(log), DayFrom(t)) <= 2 * DailyCap
<1>1. \A t : DayFrom(t) \subseteq DOMAIN log
  BY DEF DayFrom, Counted
<1>2. \A t : Total(DayFrom(t)) = SumOf(Amounts(log), DayFrom(t))
  BY <1>1, TotalNow
<1>3. QED
  BY <1>2 DEF AnyDayWithinTwoCaps, SpentWithin, DayFrom

LEMMA DaysNext ==
  AnyDayWithinTwoCaps' <=>
    \A t \in 0..MaxClock : SumOf(Amounts(log'), DayFrom(t)') <= 2 * DailyCap
<1> DEFINE Sum(S) ==
       (CHOOSE it : it = [s \in SUBSET S |->
                    IF s = {} THEN 0
                    ELSE log'[Pick(s)].digest.auth.value + it[s \ {Pick(s)}]])[S]
<1>1. \A t : DayFrom(t)' \subseteq DOMAIN log'
  BY DEF DayFrom, Counted
<1>2. AnyDayWithinTwoCaps' <=>
        \A t \in 0..MaxClock : Sum(DayFrom(t)') <= 2 * DailyCap
  BY DEF AnyDayWithinTwoCaps, SpentWithin, DayFrom, Total, MapThenSumSet,
         MapThenFoldSet, Pick, ValueAt
<1>3. \A t : Sum(DayFrom(t)') = SumOf(Amounts(log'), DayFrom(t)')
  BY <1>1, TotalIsSum
<1> HIDE DEF Sum
<1>4. QED
  BY <1>2, <1>3

(* Time passes in one direction: no counted spend and no window is dated   *)
(* after the call under way, nor that call after the clock.                *)
InOrder ==
  /\ policy_state.day_start_unix <= clock
  /\ \A i \in Counted : TimeAt(i) <= clock
  /\ InFlight =>
       /\ digest.auth.valid_after <= clock
       /\ policy_state.day_start_unix <= digest.auth.valid_after
       /\ \A i \in Counted : TimeAt(i) <= digest.auth.valid_after

(* What was counted before the current window is no later than its start,  *)
(* and what was counted before the window preceding it is a day earlier;   *)
(* the preceding window begins at some entry p and kept the cap too.       *)
Preceding(p) ==
  /\ p \in 1..windowFrom
  /\ SumOf(Amounts(log), {i \in Counted : p <= i /\ i < windowFrom}) <= DailyCap
  /\ \A i \in Counted :
       i < p => TimeAt(i) + DaySeconds <= policy_state.day_start_unix

TwoWindows ==
  /\ \A i \in Counted : i < windowFrom => TimeAt(i) <= policy_state.day_start_unix
  /\ \E p \in Nat : Preceding(p)

(* The numbers in play are numbers.                                        *)
LEMMA Numbers ==
  ASSUME TypeOK
  PROVE  /\ policy_state \in PolicyState
         /\ policy_state.day_start_unix \in Nat /\ clock \in Nat
         /\ DaySeconds \in Nat /\ DailyCap \in Nat
         /\ windowFrom \in Nat /\ windowFrom >= 1
         /\ InFlight => /\ digest \in Digest
                        /\ digest.auth.valid_after \in Nat
                        /\ digest.auth.valid_after \in Time
BY PolicyAssumption, WalletAssumption, DigestFields
   DEF TypeOK, PolicyState, Time, Amount, InFlight

LEMMA OrderKept ==
  ASSUME TypeOK, EntryOfCall, InOrder, [Next]_vars, MaxBackstep = 0, MaxRestarts = 0
  PROVE  InOrder'
<1> USE DEF InOrder, InFlight, TimeAt
<1>0. /\ clock \in Nat /\ policy_state.day_start_unix \in Nat
      /\ \A i \in Counted : TimeAt(i) \in Nat
  BY Numbers, Entries
<1>1. CASE Call
  <2>1. CASE UNCHANGED vars
    BY <2>1 DEF vars, Counted
  <2>2. CASE \E d \in Digest :
               /\ d.auth.valid_after = clock
               /\ \E approval \in PresentableApprovals(d) \cup {NoApproval} :
                    Authorize(d, approval)
    BY <1>0, <2>2 DEF Authorize, history, Counted
  <2>3. QED
    BY <1>1, <2>1, <2>2, CallCases
<1>2. CASE SignDigest
  <2>1. /\ Counted' = Counted /\ Counted \subseteq DOMAIN log
        /\ \A i \in DOMAIN log : log'[i] = log[i]
    BY <1>2, SignDigestLog, Entries
  <2>2. pc = "signer" /\ UNCHANGED <<policy_state, digest, clock>>
    BY <1>2 DEF SignDigest
  <2>3. QED
    BY <2>1, <2>2
<1>3. CASE SignerFails \/ IntentFails
  BY <1>3 DEF SignerFails, IntentFails, history, Counted
<1>4. CASE SignIntent
  <2>1. /\ Counted' = Counted \cup {Len(log)} /\ Counted \subseteq DOMAIN log
        /\ Len(log) \in DOMAIN log /\ log[Len(log)].digest = digest
        /\ \A i \in DOMAIN log : log'[i].digest = log[i].digest
    BY <1>4, SignIntentLog, Entries
  <2>2. /\ pc = "intent" /\ pc' = "idle" /\ UNCHANGED clock
        /\ policy_state'.day_start_unix \in
             {digest.auth.valid_after, policy_state.day_start_unix}
    BY <1>4 DEF SignIntent, Record
  <2>3. \A i \in Counted' : TimeAt(i)' <= clock'
    BY <2>1, <2>2
  <2>4. QED
    BY <2>2, <2>3
<1>5. CASE Tick
  <2>1. clock' \in Nat /\ clock' >= clock
    BY <1>5, <1>0, WalletAssumption DEF Tick
  <2>2. UNCHANGED <<policy_state, pc, digest, log>> /\ Counted' = Counted
    BY <1>5 DEF Tick, history, Counted
  <2>3. InFlight => digest.auth.valid_after \in Nat
    BY Numbers
  <2>4. QED
    BY <1>0, <2>1, <2>2, <2>3
<1>6. ~ Restart
  BY DEF Restart, TypeOK
<1>7. CASE UNCHANGED vars
  BY <1>7 DEF vars, Counted
<1>8. QED
  BY <1>1, <1>2, <1>3, <1>4, <1>5, <1>6, <1>7 DEF Next

(* A spend that stays in its window or opens a new one.                    *)
LEMMA WindowsKept ==
  ASSUME TypeOK, CapHoldsInFlight, SpentIsWindowTotal,
         EntryOfCall, InOrder, TwoWindows, SignIntent
  PROVE  TwoWindows'
<1> DEFINE n  == Len(log)
           at == digest.auth.valid_after
           ds == policy_state.day_start_unix
<1>1. /\ Counted' = Counted \cup {n} /\ n \in Nat /\ Counted \subseteq Nat
      /\ \A i \in Counted : i < n
      /\ \A i \in Counted : TimeAt(i)' = TimeAt(i) /\ TimeAt(i) \in Nat
  BY Entries, SignIntentLog DEF TimeAt
<1>2. /\ at \in Nat /\ ds \in Nat /\ ds <= at /\ DaySeconds \in Nat
      /\ windowFrom \in Nat /\ windowFrom >= 1 /\ windowFrom <= n
      /\ \A i \in Counted : TimeAt(i) <= at
  BY Numbers DEF InOrder, InFlight, SignIntent, EntryOfCall
<1>3. /\ WindowElapsed(policy_state, at) <=> at >= ds + DaySeconds
      /\ policy_state'.day_start_unix =
           IF WindowElapsed(policy_state, at) THEN at ELSE ds
      /\ windowFrom' = IF WindowElapsed(policy_state, at) THEN n ELSE windowFrom
  BY <1>2 DEF SignIntent, Record, WindowElapsed, SatSub
<1>4. /\ \A i \in Counted : i < windowFrom => TimeAt(i) <= ds
      /\ \E p \in Nat : Preceding(p)
  BY DEF TwoWindows
<1> HIDE DEF n, at, ds
<1>5. CASE WindowElapsed(policy_state, at)
  <2>1. policy_state'.day_start_unix = at /\ windowFrom' = n /\ at >= ds + DaySeconds
    BY <1>3, <1>5
  <2>2. \A i \in Counted' : i < windowFrom' => TimeAt(i)' <= at
    BY <1>1, <1>2, <2>1
  <2>3. PICK w \in Nat : w = windowFrom
    BY <1>2
  <2>4. Preceding(w)'
    <3> DEFINE S == {i \in Counted : i >= w}
    <3>1. w \in 1..n
      BY <1>1, <1>2, <2>3
    <3>2. {i \in Counted' : w <= i /\ i < n} = S
      <4>1. \A i \in Counted' : i < n <=> i \in Counted
        BY <1>1
      <4>2. \A i \in Counted : i \in Nat
        BY <1>1
      <4>3. QED
        BY <1>1, <4>1, <4>2
    <3>3. SumOf(Amounts(log'), S) = SumOf(Amounts(log), S)
      BY CountedSum
    <3>4. SumOf(Amounts(log), S) <= DailyCap
      BY <2>3, SpentNow DEF CapHoldsInFlight
    <3>5. \A i \in Counted' : i < w => TimeAt(i)' + DaySeconds <= at
      <4> TAKE i \in Counted'
      <4> HAVE i < w
      <4>1. i \in Counted
        BY <1>1, <1>2, <2>3
      <4>2. TimeAt(i)' = TimeAt(i) /\ TimeAt(i) \in Nat /\ TimeAt(i) <= ds
        BY <1>1, <1>4, <2>3, <4>1
      <4>3. QED
        BY <1>2, <2>1, <4>2
    <3> HIDE DEF S
    <3>6. /\ w \in 1..windowFrom'
          /\ SumOf(Amounts(log'), {i \in Counted' : w <= i /\ i < windowFrom'}) <= DailyCap
          /\ \A i \in Counted' :
               i < w => TimeAt(i)' + DaySeconds <= policy_state'.day_start_unix
      BY <2>1, <3>1, <3>2, <3>3, <3>4, <3>5
    <3>7. QED
      BY <3>6 DEF Preceding
  <2>5. QED
    BY <2>1, <2>2, <2>4 DEF TwoWindows
<1>6. CASE ~ WindowElapsed(policy_state, at)
  <2>1. policy_state'.day_start_unix = ds /\ windowFrom' = windowFrom
    BY <1>3, <1>6
  <2>2. \A i \in Counted' : i < windowFrom => i \in Counted
    BY <1>1, <1>2
  <2>3. PICK p \in Nat : Preceding(p)
    BY <1>4
  <2> DEFINE S == {i \in Counted : p <= i /\ i < windowFrom}
  <2>4. /\ p \in 1..windowFrom /\ SumOf(Amounts(log), S) <= DailyCap
        /\ \A i \in Counted : i < p => TimeAt(i) + DaySeconds <= ds
    BY <2>3 DEF Preceding, ds
  <2>5. {i \in Counted' : p <= i /\ i < windowFrom} = S
    BY <1>1, <2>2
  <2>6. SumOf(Amounts(log'), S) = SumOf(Amounts(log), S)
    BY CountedSum
  <2>7. \A i \in Counted' : i < p => TimeAt(i)' + DaySeconds <= ds
    <3> TAKE i \in Counted'
    <3> HAVE i < p
    <3>1. i \in Counted
      BY <1>1, <1>2, <2>2, <2>4
    <3>2. QED
      BY <1>1, <2>4, <3>1
  <2> HIDE DEF S
  <2>8. Preceding(p)'
    BY <2>1, <2>4, <2>5, <2>6, <2>7 DEF Preceding
  <2>9. \A i \in Counted' : i < windowFrom => TimeAt(i)' <= ds
    BY <1>1, <1>4, <2>2
  <2>10. QED
    BY <2>1, <2>8, <2>9 DEF TwoWindows
<1>7. QED
  BY <1>5, <1>6

(* What lies within two sets, each within the cap, is within two caps.     *)
LEMMA TwoParts ==
  ASSUME NEW v, NEW S, NEW T, IsFiniteSet(S), IsFiniteSet(T), S \cap T = {},
         \A x \in S \cup T : v[x] \in Nat, NEW cap \in Nat,
         SumOf(v, S) <= cap, SumOf(v, T) <= cap,
         NEW U, U \subseteq S \cup T
  PROVE  SumOf(v, U) <= 2 * cap
<1>1. IsFiniteSet(S \cup T) /\ IsFiniteSet(U)
  BY FS_Union, FS_Subset
<1>2. SumOf(v, U) <= SumOf(v, S \cup T)
  BY <1>1, SumMono
<1>3. SumOf(v, S \cup T) = SumOf(v, S) + SumOf(v, T)
  BY SumSplit
<1>4. SumOf(v, S) \in Nat /\ SumOf(v, T) \in Nat /\ SumOf(v, U) \in Nat
  BY <1>1, SumType
<1>5. QED
  BY <1>2, <1>3, <1>4

(* A spend falls into days that reach back no further than the preceding   *)
(* window.                                                                 *)
LEMMA DaysKept ==
  ASSUME TypeOK, TypeOK', CapHoldsInFlight', SpentIsWindowTotal',
         EntryOfCall, InOrder, TwoWindows', AnyDayWithinTwoCaps, SignIntent
  PROVE  AnyDayWithinTwoCaps'
<1> DEFINE at == digest.auth.valid_after
           ds == policy_state'.day_start_unix
<1>1. /\ Counted' = Counted \cup {Len(log)} /\ Counted \subseteq DOMAIN log
      /\ \A i \in Counted : TimeAt(i)' = TimeAt(i)
      /\ log'[Len(log)].digest.auth.valid_after = at
  BY Entries, SignIntentLog DEF TimeAt
<1>2. at \in Nat /\ ds \in Nat /\ ds <= at /\ DaySeconds \in Nat /\ DailyCap \in Nat
  <2>1. /\ at \in Nat /\ policy_state.day_start_unix \in Nat
        /\ policy_state.day_start_unix <= at
        /\ DaySeconds \in Nat /\ DailyCap \in Nat
    BY Numbers DEF InOrder, InFlight, SignIntent
  <2>2. ds \in {at, policy_state.day_start_unix}
    BY DEF SignIntent, Record
  <2>3. QED
    BY <2>1, <2>2
<1>3. /\ Counted' \subseteq Nat /\ windowFrom' \in Nat
      /\ \A i \in Counted' : TimeAt(i)' \in Nat /\ Amounts(log')[i] \in Nat
  <2>1. log' \in Seq(LogEntry) /\ windowFrom' \in Nat
    BY DEF TypeOK
  <2>2. Counted' \subseteq DOMAIN log'
    BY DEF Counted
  <2>3. QED
    BY <2>1, <2>2, LogNumbers DEF TimeAt
<1>4. IsFiniteSet(Counted')
  BY <1>1, Entries, FS_AddElement
<1>5. PICK p \in Nat : Preceding(p)'
  BY DEF TwoWindows
<1> DEFINE S == {i \in Counted' : p <= i /\ i < windowFrom'}
           T == {i \in Counted' : i >= windowFrom'}
<1>6. /\ SumOf(Amounts(log'), S) <= DailyCap
      /\ \A i \in Counted' : i < p => TimeAt(i)' + DaySeconds <= ds
  BY <1>5 DEF Preceding
<1>7. SumOf(Amounts(log'), T) <= DailyCap
  BY SpentNext DEF CapHoldsInFlight
<1>8. /\ IsFiniteSet(S) /\ IsFiniteSet(T) /\ S \cap T = {}
      /\ \A i \in S \cup T : Amounts(log')[i] \in Nat
  <2>1. S \subseteq Counted' /\ T \subseteq Counted'
    OBVIOUS
  <2>2. S \cap T = {}
    <3>1. \A i \in Counted' : ~ (i < windowFrom' /\ i >= windowFrom')
      BY <1>3
    <3>2. QED
      BY <3>1
  <2> HIDE DEF S, T
  <2>3. IsFiniteSet(S) /\ IsFiniteSet(T)
    BY <1>4, <2>1, FS_Subset
  <2>4. QED
    BY <1>3, <2>1, <2>2, <2>3
<1> SUFFICES ASSUME NEW t \in 0..MaxClock
             PROVE  SumOf(Amounts(log'), DayFrom(t)') <= 2 * DailyCap
  BY DaysNext
<1>t. t \in Nat
  BY WalletAssumption
<1> HIDE DEF at, ds, S, T
<1>9. CASE at >= t /\ at < t + DaySeconds
  <2>1. ASSUME NEW i \in Counted', TimeAt(i)' >= t PROVE i \in S \cup T
    <3>1. ~ (i < p)
      BY <1>2, <1>3, <1>6, <1>9, <1>t, <2>1
    <3>2. i \in Nat /\ windowFrom' \in Nat
      BY <1>3
    <3>3. QED
      BY <3>1, <3>2 DEF S, T
  <2>2. DayFrom(t)' \subseteq S \cup T
    BY <2>1 DEF DayFrom
  <2>3. QED
    BY <1>2, <1>6, <1>7, <1>8, <2>2, TwoParts
<1>10. CASE ~ (at >= t /\ at < t + DaySeconds)
  <2>1. DayFrom(t)' = DayFrom(t)
    <3>1. \A i : i \in DayFrom(t)' <=>
            /\ i \in Counted \cup {Len(log)}
            /\ TimeAt(i)' >= t /\ TimeAt(i)' < t + DaySeconds
      BY <1>1 DEF DayFrom
    <3>2. Len(log) \notin DayFrom(t)'
      BY <1>1, <1>10, <3>1 DEF TimeAt
    <3>3. Len(log) \notin Counted
      BY SignIntentLog
    <3>4. \A i : i \in DayFrom(t)' <=> i \in DayFrom(t)
      BY <1>1, <3>1, <3>2, <3>3 DEF DayFrom
    <3>5. QED
      BY <3>4
  <2>2. DayFrom(t) \subseteq Counted
    BY DEF DayFrom
  <2>3. SumOf(Amounts(log'), DayFrom(t)) = SumOf(Amounts(log), DayFrom(t))
    BY <2>2, CountedSum
  <2>4. QED
    BY <2>1, <2>3, DaysNow
<1>11. QED
  BY <1>9, <1>10

(* With a clock that only advances and no restart, the fixed windows of    *)
(* the wallet admit no more than two caps in any stretch of a day.  Each   *)
(* such stretch reaches back from its last spend no further than the       *)
(* window before the current one, and both windows kept the cap.           *)
THEOREM AnyDayBounded ==
  ASSUME MaxBackstep = 0, MaxRestarts = 0
  PROVE  Spec => []AnyDayWithinTwoCaps
<1> DEFINE Inv == EntryOfCall /\ InOrder /\ TwoWindows /\ AnyDayWithinTwoCaps
           Known == TypeOK /\ CapHoldsInFlight /\ SpentIsWindowTotal
<1>1. Init => Inv
  <2> SUFFICES ASSUME Init PROVE Inv
    OBVIOUS
  <2>1. Counted = {} /\ ~ InFlight /\ windowFrom = 1
    BY DEF Init, Counted, InFlight
  <2>2. EntryOfCall /\ InOrder
    BY <2>1, WalletAssumption
       DEF Init, EntryOfCall, InOrder, InFlight, DefaultPolicyState
  <2>3. Preceding(1)
    <3>1. {i \in Counted : 1 <= i /\ i < windowFrom} = {}
      BY <2>1
    <3>2. SumOf(Amounts(log), {}) <= DailyCap
      BY SumEmpty, PolicyAssumption
    <3>3. QED
      BY <2>1, <3>1, <3>2 DEF Preceding
  <2>4. TwoWindows
    BY <2>1, <2>3 DEF TwoWindows
  <2>5. AnyDayWithinTwoCaps
    <3>1. \A t : DayFrom(t) = {}
      BY <2>1 DEF DayFrom
    <3>2. SumOf(Amounts(log), {}) <= 2 * DailyCap
      BY SumEmpty, PolicyAssumption
    <3>3. QED
      BY <3>1, <3>2, DaysNow
  <2>6. QED
    BY <2>2, <2>4, <2>5
<1>2. Known /\ Known' /\ Inv /\ [Next]_vars => Inv'
  <2> SUFFICES ASSUME Known, Known', Inv, [Next]_vars
               PROVE  TwoWindows' /\ AnyDayWithinTwoCaps'
    BY EntryKept, OrderKept
  <2>1. CASE SignIntent
    <3>1. TwoWindows'
      BY <2>1, WindowsKept
    <3>2. QED
      BY <2>1, <3>1, DaysKept
  <2>2. CASE Uncounted
    <3>1. /\ Counted' = Counted /\ policy_state' = policy_state
          /\ windowFrom' = windowFrom /\ Counted \subseteq DOMAIN log
          /\ \A i \in Counted : TimeAt(i)' = TimeAt(i)
          /\ \A S : S \subseteq Counted =>
                     SumOf(Amounts(log'), S) = SumOf(Amounts(log), S)
      BY <2>2, UncountedSum, Entries DEF Uncounted, TimeAt
    <3>2. ASSUME NEW p \in Nat, Preceding(p) PROVE Preceding(p)'
      <4> DEFINE S == {i \in Counted : p <= i /\ i < windowFrom}
      <4>1. SumOf(Amounts(log'), S) = SumOf(Amounts(log), S)
        BY <3>1
      <4>2. S = {i \in Counted' : p <= i /\ i < windowFrom'}
        BY <3>1
      <4>3. QED
        BY <3>1, <3>2, <4>1, <4>2 DEF Preceding
    <3>3. TwoWindows'
      BY <3>1, <3>2 DEF TwoWindows
    <3>4. \A t : DayFrom(t)' = DayFrom(t) /\ DayFrom(t) \subseteq Counted
      BY <3>1 DEF DayFrom
    <3>5. QED
      BY <3>1, <3>3, <3>4, DaysNow, DaysNext
  <2>3. ~ Restart
    BY DEF Restart, TypeOK
  <2>4. QED
    BY <2>1, <2>2, <2>3, StepCases
<1>3. QED
  BY <1>1, <1>2, TypeCorrect, CapSafe, AccountExact, PTL DEF Spec
=============================================================================
