--------------------------- MODULE VerifierProofs ---------------------------
(***************************************************************************)
(* Theorems about Verifier, for every set of proofs, of instances and of   *)
(* configured ages, and for every ceiling, margin, lag and delay.          *)
(***************************************************************************)
EXTENDS Verifier, SequenceTheorems, TLAPS

(* A verification under way: its proof was signed for it and was           *)
(* acceptable, but for the lag of the verifier's clock, when it began.     *)
PendingInv ==
  \A i \in Instances : call[i] # Idle =>
    LET c == call[i]
    IN  /\ Signed(c)
        /\ c.started <= clock /\ clock <= c.started + MaxDelay
        /\ InWindow(c.proof, c.started, MaxLag)

-----------------------------------------------------------------------------
(* Lemmas about the checks and the store.                                  *)

(* Retention is a time, and never shorter than the moment every verifier   *)
(* has stopped accepting, plus the margin, unless time itself ends first.  *)
LEMMA RetentionCovers ==
  ASSUME NEW p \in ProofRecord
  PROVE  /\ NonceRetention(p) \in Time
         /\ \/ NonceRetention(p) = TimeMax
            \/ NonceRetention(p) >= p.expires_at + Skew
            \/ NonceRetention(p) >= p.issued_at + Ceiling + Skew
<1>1. /\ p.issued_at \in Nat /\ p.expires_at \in Nat
      /\ p.issued_at <= TimeMax /\ p.expires_at <= TimeMax
  BY ProofAssumption DEF ProofRecord, Time
<1>2. QED
  BY <1>1, ProofAssumption DEF NonceRetention, SatAdd, Least, Time

(* Retention is at most the ceiling and the margin after issuance.         *)
LEMMA RetentionAtMost ==
  ASSUME NEW p \in ProofRecord
  PROVE  NonceRetention(p) <= p.issued_at + Ceiling + Skew
<1>1. /\ p.issued_at \in Nat /\ p.expires_at \in Nat
      /\ p.issued_at <= TimeMax /\ p.expires_at <= TimeMax
  BY ProofAssumption DEF ProofRecord, Time
<1>2. QED
  BY <1>1, ProofAssumption DEF NonceRetention, SatAdd, Least, Time

(* What a proof that passes the checks satisfies, by the verifier's clock. *)
LEMMA ChecksPassed ==
  ASSUME NEW p \in ProofRecord, NEW purpose \in Purpose, NEW expected,
         NEW now \in Nat, NEW age \in Nat,
         CheckProof(p, purpose, expected, now, age) = "Ok"
  PROVE  /\ p.signature = purpose /\ p.audience = Audience /\ p.digest = expected
         /\ p.issued_at <= now /\ now <= p.issued_at + Ceiling
         /\ now < p.expires_at
<1>1. /\ CheckEnvelope(p, now, age) = "Ok"
      /\ CheckDigest(p, purpose, expected) = "Ok"
      /\ CheckSignature(p, purpose) = "Ok"
  BY DEF CheckProof
<1>2. p.signature = purpose
  BY <1>1 DEF CheckSignature
<1>3. p.digest = expected
  BY <1>1 DEF CheckDigest
<1>4. /\ p.audience = Audience
      /\ ~ (p.issued_at > now)
      /\ ~ (SatSub(now, p.issued_at) > Least(age, Ceiling))
      /\ ~ (p.expires_at <= now)
  BY <1>1 DEF CheckEnvelope
<1>5. p.issued_at \in Nat /\ p.expires_at \in Nat
  BY ProofAssumption DEF ProofRecord, Time
<1>6. QED
  BY <1>2, <1>3, <1>4, <1>5, ProofAssumption DEF SatSub, Least

(* The key a verification claims is well typed.                            *)
LEMMA CallTypes ==
  ASSUME NEW c \in Call
  PROVE  /\ c.proof \in Presented /\ c.proof \in ProofRecord
         /\ CallKey(c) \in Key
         /\ c.started \in 0..MaxClock
BY VerifierAssumption DEF Call, CallKey, Key, NonceKey, ProofRecord

(* A verification under way is a call, and no call is the idle mark.       *)
LEMMA PendingIsCall ==
  ASSUME TypeOK, NEW i \in Instances, call[i] # Idle
  PROVE  call[i] \in Call
BY DEF TypeOK

-----------------------------------------------------------------------------
(* Type correctness.                                                       *)

(* Appending the claim that an instance made keeps the log well typed.     *)
LEMMA ReturnTypeOK ==
  ASSUME TypeOK, NEW i \in Instances, call[i] # Idle,
         NEW outcome \in {"accepted", "used", "lost"}, Return(i, outcome)
  PROVE  /\ call' \in [Instances -> Call \cup {Idle}]
         /\ clock' \in 0..MaxClock
         /\ log' \in Seq(Claim)
<1>1. [call |-> call[i], at |-> clock, outcome |-> outcome] \in Claim
  BY PendingIsCall DEF TypeOK, Claim
<1>2. log' \in Seq(Claim)
  BY <1>1 DEF TypeOK, Return
<1>3. QED
  BY <1>2 DEF TypeOK, Return

(* The store stays well typed under a claim.                               *)
LEMMA InsertTypeOK ==
  ASSUME TypeOK, NEW c \in Call,
         seen' = Insert(seen, CallKey(c), NonceRetention(c.proof))
  PROVE  DOMAIN seen' \subseteq Key /\ \A k \in DOMAIN seen' : seen'[k] \in Time
<1>1. CallKey(c) \in Key /\ NonceRetention(c.proof) \in Time
  BY CallTypes, RetentionCovers
<1>2. QED
  BY <1>1 DEF TypeOK, Insert

(* Every variable keeps its type.                                          *)
THEOREM VerifierTypeCorrect == Spec => []TypeOK
<1>1. Init => TypeOK
  BY VerifierAssumption DEF Init, TypeOK
<1>2. TypeOK /\ [Next]_vars => TypeOK'
  <2> SUFFICES ASSUME TypeOK, [Next]_vars PROVE TypeOK'
    OBVIOUS
  <2>1. CASE Verify
    <3>1. PICK i \in Instances, p \in Presented, purpose \in Purpose,
               expected \in Digests \cup {NoDigest}, now \in Readings,
               age \in MaxAges :
                 Begin(i, p, purpose, expected, now, age)
                   \/ Reject(i, p, purpose, expected, now, age)
      BY <2>1 DEF Verify
    <3>2. CASE Begin(i, p, purpose, expected, now, age)
      <4>1. [proof |-> p, purpose |-> purpose, expected |-> expected,
             started |-> clock] \in Call
        BY DEF TypeOK, Call
      <4>2. QED
        BY <3>2, <4>1 DEF Begin, TypeOK
    <3>3. CASE Reject(i, p, purpose, expected, now, age)
      BY <3>3 DEF Reject, TypeOK, vars
    <3>4. QED
      BY <3>1, <3>2, <3>3
  <2>2. ASSUME NEW i \in Instances, Accept(i) PROVE TypeOK'
    <3>1. call[i] \in Call
      BY <2>2, PendingIsCall DEF Accept
    <3>2. QED
      BY <2>2, <3>1, ReturnTypeOK, InsertTypeOK DEF Accept, TypeOK
  <2>3. ASSUME NEW i \in Instances, AlreadyUsed(i) PROVE TypeOK'
    BY <2>3, ReturnTypeOK DEF AlreadyUsed, TypeOK
  <2>4. ASSUME NEW i \in Instances, AnswerLost(i) PROVE TypeOK'
    <3>1. call[i] \in Call
      BY <2>4, PendingIsCall DEF AnswerLost
    <3>2. QED
      BY <2>4, <3>1, ReturnTypeOK, InsertTypeOK DEF AnswerLost, TypeOK
  <2>5. ASSUME NEW i \in Instances, ClaimLost(i) PROVE TypeOK'
    BY <2>5 DEF ClaimLost, TypeOK
  <2>6. CASE EvictExpired
    BY <2>6 DEF EvictExpired, TypeOK
  <2>7. CASE Tick
    BY <2>7, VerifierAssumption DEF Tick, TypeOK
  <2>8. CASE UNCHANGED vars
    BY <2>8 DEF TypeOK, vars
  <2>9. QED
    BY <2>1, <2>2, <2>3, <2>4, <2>5, <2>6, <2>7, <2>8 DEF Next
<1>3. QED
  BY <1>1, <1>2, PTL DEF Spec

-----------------------------------------------------------------------------
(* Verifications under way.                                                *)

(* What a verification that begins establishes about itself.               *)
LEMMA BeginInWindow ==
  ASSUME TypeOK,
         NEW i \in Instances, NEW p \in Presented, NEW purpose \in Purpose,
         NEW expected, NEW now \in Readings, NEW age \in MaxAges,
         Begin(i, p, purpose, expected, now, age)
  PROVE  /\ Signed(call'[i])
         /\ call'[i].started = clock
         /\ InWindow(call'[i].proof, clock, MaxLag)
<1>1. /\ p \in ProofRecord /\ age \in Nat
      /\ now \in Nat /\ now + MaxLag >= clock /\ now <= clock + MaxLead
  BY VerifierAssumption DEF Readings
<1>2. /\ p.signature = purpose /\ p.audience = Audience /\ p.digest = expected
      /\ p.issued_at <= now /\ now <= p.issued_at + Ceiling
      /\ now < p.expires_at
  BY <1>1, ChecksPassed DEF Begin
<1>3. call'[i] = [proof |-> p, purpose |-> purpose, expected |-> expected,
                  started |-> clock]
  BY DEF Begin, TypeOK
<1>4. /\ p.issued_at \in Nat /\ p.expires_at \in Nat /\ clock \in Nat
      /\ MaxLag \in Nat /\ MaxLead \in Nat /\ Ceiling \in Nat
  BY <1>1, ProofAssumption, VerifierAssumption DEF ProofRecord, Time, TypeOK
<1>5. InWindow(p, clock, MaxLag)
  BY <1>1, <1>2, <1>4 DEF InWindow
<1>6. QED
  BY <1>2, <1>3, <1>5 DEF Signed

(* Verifications under way stay signed and within their window.            *)
LEMMA PendingStep ==
  ASSUME TypeOK, PendingInv, [Next]_vars
  PROVE  PendingInv'
<1> USE DEF PendingInv
<1>0. ASSUME NEW i \in Instances, call' = [call EXCEPT ![i] = Idle], clock' = clock
      PROVE  PendingInv'
  BY <1>0 DEF TypeOK, Signed, InWindow
<1>1. CASE Verify
  <2>1. PICK i \in Instances, p \in Presented, purpose \in Purpose,
             expected \in Digests \cup {NoDigest}, now \in Readings,
             age \in MaxAges :
               Begin(i, p, purpose, expected, now, age)
                 \/ Reject(i, p, purpose, expected, now, age)
    BY <1>1 DEF Verify
  <2>2. CASE Begin(i, p, purpose, expected, now, age)
    <3>1. /\ Signed(call'[i]) /\ call'[i].started = clock
          /\ InWindow(call'[i].proof, clock, MaxLag)
      BY <2>2, BeginInWindow
    <3>2. /\ \A j \in Instances \ {i} : call'[j] = call[j]
          /\ clock' = clock
      BY <2>2 DEF Begin, TypeOK
    <3>3. clock \in Nat /\ MaxDelay \in Nat
      BY VerifierAssumption DEF TypeOK
    <3>4. QED
      BY <3>1, <3>2, <3>3 DEF Signed, InWindow
  <2>3. CASE Reject(i, p, purpose, expected, now, age)
    BY <2>3 DEF Reject, vars, Signed, InWindow
  <2>4. QED
    BY <2>1, <2>2, <2>3
<1>2. ASSUME NEW i \in Instances, Accept(i) PROVE PendingInv'
  BY <1>0, <1>2 DEF Accept, Return
<1>3. ASSUME NEW i \in Instances, AlreadyUsed(i) PROVE PendingInv'
  BY <1>0, <1>3 DEF AlreadyUsed, Return
<1>4. ASSUME NEW i \in Instances, AnswerLost(i) PROVE PendingInv'
  BY <1>0, <1>4 DEF AnswerLost, Return
<1>5. ASSUME NEW i \in Instances, ClaimLost(i) PROVE PendingInv'
  BY <1>0, <1>5 DEF ClaimLost
<1>6. CASE EvictExpired
  BY <1>6 DEF EvictExpired, Signed, InWindow
<1>7. CASE Tick
  <2>1. /\ UNCHANGED call /\ clock' = clock + 1 /\ clock \in Nat /\ MaxDelay \in Nat
        /\ \A i \in Instances : call[i] # Idle =>
             /\ clock < call[i].started + MaxDelay
             /\ call[i].started \in Nat
    BY <1>7, VerifierAssumption, PendingIsCall, CallTypes DEF Tick, TypeOK
  <2>2. QED
    BY <2>1 DEF Signed, InWindow
<1>8. CASE UNCHANGED vars
  BY <1>8 DEF vars, Signed, InWindow
<1>9. QED
  BY <1>1, <1>2, <1>3, <1>4, <1>5, <1>6, <1>7, <1>8 DEF Next

(* The types and the pending invariant hold together.                      *)
LEMMA PendingHolds == Spec => [](TypeOK /\ PendingInv)
<1>1. Init => PendingInv
  BY DEF Init, PendingInv
<1>2. QED
  BY <1>1, PendingStep, VerifierTypeCorrect, PTL DEF Spec

-----------------------------------------------------------------------------
(* What an acceptance means.                                               *)

(* The log grows by one claim, which is accepted only by Accept.           *)
LEMMA LogGrows ==
  ASSUME TypeOK, NEW i \in Instances, NEW outcome, Return(i, outcome)
  PROVE  /\ DOMAIN log = 1..Len(log) /\ Len(log) \in Nat
         /\ DOMAIN log' = 1..(Len(log) + 1)
         /\ \A n \in DOMAIN log : log'[n] = log[n]
         /\ log'[Len(log) + 1] = [call |-> call[i], at |-> clock, outcome |-> outcome]
<1>1. log \in Seq(Claim \cup {[call |-> call[i], at |-> clock, outcome |-> outcome]})
  BY DEF TypeOK
<1>2. QED
  BY <1>1, AppendProperties, LenProperties DEF Return

(* A step accepts nothing, or it is Accept of some instance.               *)
LEMMA AcceptedSteps ==
  ASSUME TypeOK, [Next]_vars
  PROVE  \/ /\ Accepted' = Accepted
            /\ \A n \in Accepted : log'[n] = log[n]
         \/ \E i \in Instances :
              /\ Accept(i)
              /\ Accepted' = Accepted \cup {Len(log) + 1}
              /\ Len(log) + 1 \notin Accepted
              /\ \A n \in Accepted : log'[n] = log[n]
              /\ log'[Len(log) + 1].call = call[i]
              /\ log'[Len(log) + 1].at = clock
<1>1. ASSUME NEW i \in Instances, NEW outcome \in {"used", "lost"}, Return(i, outcome)
      PROVE  Accepted' = Accepted /\ \A n \in Accepted : log'[n] = log[n]
  <2>1. /\ DOMAIN log = 1..Len(log) /\ Len(log) \in Nat
        /\ DOMAIN log' = 1..(Len(log) + 1)
        /\ \A n \in DOMAIN log : log'[n] = log[n]
        /\ log'[Len(log) + 1] = [call |-> call[i], at |-> clock, outcome |-> outcome]
    BY <1>1, LogGrows
  <2>2. log'[Len(log) + 1].outcome # "accepted"
    BY <2>1
  <2>3. QED
    BY <2>1, <2>2 DEF Accepted
<1>2. ASSUME NEW i \in Instances, Accept(i)
      PROVE  /\ Accepted' = Accepted \cup {Len(log) + 1}
             /\ Len(log) + 1 \notin Accepted
             /\ \A n \in Accepted : log'[n] = log[n]
             /\ log'[Len(log) + 1].call = call[i]
             /\ log'[Len(log) + 1].at = clock
  <2>1. Return(i, "accepted")
    BY <1>2 DEF Accept
  <2>2. /\ DOMAIN log = 1..Len(log) /\ Len(log) \in Nat
        /\ DOMAIN log' = 1..(Len(log) + 1)
        /\ \A n \in DOMAIN log : log'[n] = log[n]
        /\ log'[Len(log) + 1] = [call |-> call[i], at |-> clock,
                                 outcome |-> "accepted"]
    BY <2>1, LogGrows
  <2>3. QED
    BY <2>2 DEF Accepted
<1>3. CASE UNCHANGED log
  BY <1>3 DEF Accepted
<1>4. Verify => UNCHANGED log
  BY DEF Verify, Begin, Reject, vars
<1>5. \A i \in Instances : ClaimLost(i) => UNCHANGED log
  BY DEF ClaimLost
<1>6. (EvictExpired \/ Tick \/ UNCHANGED vars) => UNCHANGED log
  BY DEF EvictExpired, Tick, vars
<1>7. QED
  BY <1>1, <1>2, <1>3, <1>4, <1>5, <1>6 DEF Next, AlreadyUsed, AnswerLost

(* Whatever is accepted was signed by its key for this audience, this      *)
(* purpose and this request.                                               *)
THEOREM AcceptanceSigned == Spec => []AcceptedAsSigned
<1>1. Init => AcceptedAsSigned
  BY DEF Init, AcceptedAsSigned, Accepted
<1>2. TypeOK /\ PendingInv /\ AcceptedAsSigned /\ [Next]_vars => AcceptedAsSigned'
  <2> SUFFICES ASSUME TypeOK, PendingInv, AcceptedAsSigned, [Next]_vars,
                      NEW n \in Accepted'
               PROVE  Signed(log'[n].call)
    BY DEF AcceptedAsSigned, Signed
  <2>1. CASE n \in Accepted /\ log'[n] = log[n]
    BY <2>1 DEF AcceptedAsSigned
  <2>2. ASSUME NEW i \in Instances, Accept(i), log'[n].call = call[i]
        PROVE  Signed(log'[n].call)
    BY <2>2 DEF PendingInv, Accept
  <2>3. QED
    BY <2>1, <2>2, AcceptedSteps
<1>3. QED
  BY <1>1, <1>2, PendingHolds, PTL DEF Spec

(* Whatever is accepted is accepted within its window, but for the lead,   *)
(* the lag and the delay.                                                  *)
THEOREM AcceptanceInWindow == Spec => []AcceptedInWindow
<1>1. Init => AcceptedInWindow
  BY DEF Init, AcceptedInWindow, Accepted
<1>2. TypeOK /\ PendingInv /\ AcceptedInWindow /\ [Next]_vars => AcceptedInWindow'
  <2> SUFFICES ASSUME TypeOK, PendingInv, AcceptedInWindow, [Next]_vars,
                      NEW n \in Accepted'
               PROVE  InWindow(log'[n].call.proof, log'[n].at, MaxLag + MaxDelay)
    BY DEF AcceptedInWindow, InWindow
  <2>1. CASE n \in Accepted /\ log'[n] = log[n]
    BY <2>1 DEF AcceptedInWindow
  <2>2. ASSUME NEW i \in Instances, Accept(i), log'[n].call = call[i],
               log'[n].at = clock
        PROVE  InWindow(log'[n].call.proof, log'[n].at, MaxLag + MaxDelay)
    <3> DEFINE c == call[i]
    <3>1. /\ c.started <= clock /\ clock <= c.started + MaxDelay
          /\ InWindow(c.proof, c.started, MaxLag)
      BY <2>2 DEF PendingInv, Accept
    <3>2. c.proof \in ProofRecord /\ c.started \in 0..MaxClock
      BY <2>2, PendingIsCall, CallTypes DEF Accept
    <3>3. /\ c.proof.issued_at \in Nat /\ c.proof.expires_at \in Nat
          /\ c.started \in Nat /\ clock \in Nat
      BY <3>2, ProofAssumption, VerifierAssumption DEF ProofRecord, Time, TypeOK
    <3> HIDE DEF c
    <3>4. InWindow(c.proof, clock, MaxLag + MaxDelay)
      BY <3>1, <3>3, ProofAssumption, VerifierAssumption DEF InWindow
    <3>5. QED
      BY <2>2, <3>4 DEF c
  <2>3. QED
    BY <2>1, <2>2, AcceptedSteps
<1>3. QED
  BY <1>1, <1>2, PendingHolds, PTL DEF Spec

-----------------------------------------------------------------------------
(* Replay.  What a deployment must grant is that the verifiers' lag and    *)
(* the time a claim takes stay, together, strictly within the margin.      *)

MarginKept == MaxLag + MaxDelay < Skew

(* No claim outlives the retention of its proof.                           *)
LEMMA PendingBeforeRetention ==
  ASSUME MarginKept, TypeOK, PendingInv, NEW i \in Instances, call[i] # Idle
  PROVE  clock < NonceRetention(call[i].proof)
<1> DEFINE p == call[i].proof
           started == call[i].started
<1>1. /\ clock <= started + MaxDelay
      /\ started < p.expires_at + MaxLag
      /\ started <= p.issued_at + Ceiling + MaxLag
  BY DEF PendingInv, InWindow
<1>2. p \in ProofRecord /\ started \in 0..MaxClock
  BY PendingIsCall, CallTypes
<1>3. /\ NonceRetention(p) \in Nat
      /\ \/ NonceRetention(p) = TimeMax
         \/ NonceRetention(p) >= p.expires_at + Skew
         \/ NonceRetention(p) >= p.issued_at + Ceiling + Skew
  BY <1>2, RetentionCovers, ProofAssumption DEF Time
<1>4. /\ p.issued_at \in Nat /\ p.expires_at \in Nat /\ started \in Nat
      /\ clock \in Nat /\ clock <= MaxClock
  BY <1>2, ProofAssumption, VerifierAssumption DEF ProofRecord, Time, TypeOK
<1> HIDE DEF p, started
<1>5. clock < NonceRetention(p)
  BY <1>1, <1>3, <1>4, ProofAssumption, VerifierAssumption DEF MarginKept
<1>6. QED
  BY <1>5 DEF p

(* A nonce that is held stays held under a step, until its retention.      *)
LEMMA KeysStay ==
  ASSUME TypeOK, [Next]_vars, NEW k \in DOMAIN seen, clock' < seen[k]
  PROVE  k \in DOMAIN seen' /\ seen'[k] = seen[k]
<1>1. ASSUME NEW i \in Instances, Accept(i) \/ AnswerLost(i)
      PROVE  k \in DOMAIN seen' /\ seen'[k] = seen[k]
  <2>1. seen' = Insert(seen, CallKey(call[i]), NonceRetention(call[i].proof))
    BY <1>1 DEF Accept, AnswerLost
  <2>2. QED
    BY <2>1 DEF Insert
<1>2. \A i \in Instances :
        AlreadyUsed(i) \/ ClaimLost(i) => UNCHANGED seen
  BY DEF AlreadyUsed, ClaimLost
<1>3. CASE EvictExpired
  <2>1. /\ seen' = [j \in {j \in DOMAIN seen : seen[j] > clock} |-> seen[j]]
        /\ clock' = clock
    BY <1>3 DEF EvictExpired
  <2>2. clock \in Nat /\ seen[k] \in Nat
    BY VerifierAssumption, ProofAssumption DEF TypeOK, Time
  <2>3. seen[k] > clock
    BY <2>1, <2>2
  <2>4. QED
    BY <2>1, <2>3
<1>4. Verify \/ Tick \/ UNCHANGED vars => UNCHANGED seen
  BY DEF Verify, Begin, Reject, Tick, vars
<1>5. QED
  BY <1>1, <1>2, <1>3, <1>4 DEF Next

(* The clock does not go back.                                             *)
LEMMA ClockAdvances == TypeOK /\ [Next]_vars => clock' \in Nat /\ clock <= clock'
<1> SUFFICES ASSUME TypeOK, [Next]_vars PROVE clock' \in Nat /\ clock <= clock'
  OBVIOUS
<1>1. clock \in Nat
  BY VerifierAssumption DEF TypeOK
<1>2. clock' = clock \/ clock' = clock + 1
  BY DEF Next, Verify, Begin, Reject, Accept, AlreadyUsed, AnswerLost,
         ClaimLost, Return, EvictExpired, Tick, vars
<1>3. QED
  BY <1>1, <1>2

(* The nonce of an accepted proof is held until its retention, and no      *)
(* claim comes later than that.                                            *)
THEOREM NonceIsHeld ==
  ASSUME MarginKept
  PROVE  Spec => []NonceHeld
<1>1. Init => HeldUntilRetention
  BY DEF Init, HeldUntilRetention, Accepted
<1>2. TypeOK /\ HeldUntilRetention /\ [Next]_vars => HeldUntilRetention'
  <2> SUFFICES ASSUME TypeOK, HeldUntilRetention, [Next]_vars,
                      NEW n \in Accepted',
                      clock' < NonceRetention(log'[n].call.proof)
               PROVE  /\ CallKey(log'[n].call) \in DOMAIN seen'
                      /\ seen'[CallKey(log'[n].call)]
                           >= NonceRetention(log'[n].call.proof)
    BY DEF HeldUntilRetention, CallKey, NonceKey, NonceRetention
  <2>1. CASE n \in Accepted /\ log'[n] = log[n]
    <3> DEFINE c == log[n].call
    <3>1. log[n] \in Claim
      BY <2>1 DEF TypeOK, Accepted
    <3>2. c \in Call
      BY <3>1 DEF Claim
    <3>3. NonceRetention(c.proof) \in Nat
      BY <3>2, CallTypes, RetentionCovers, ProofAssumption DEF Time
    <3>4. clock < NonceRetention(c.proof) /\ clock' \in Nat /\ clock \in Nat
      BY <2>1, <3>3, ClockAdvances, VerifierAssumption DEF TypeOK
    <3>5. /\ CallKey(c) \in DOMAIN seen
          /\ seen[CallKey(c)] >= NonceRetention(c.proof)
      BY <2>1, <3>4 DEF HeldUntilRetention
    <3>6. seen[CallKey(c)] \in Nat
      BY <3>5, ProofAssumption DEF TypeOK, Time
    <3>7. clock' < seen[CallKey(c)]
      BY <2>1, <3>3, <3>4, <3>5, <3>6
    <3>8. QED
      BY <2>1, <3>5, <3>7, KeysStay
  <2>2. ASSUME NEW i \in Instances, Accept(i), log'[n].call = call[i]
        PROVE  /\ CallKey(log'[n].call) \in DOMAIN seen'
               /\ seen'[CallKey(log'[n].call)]
                    >= NonceRetention(log'[n].call.proof)
    <3>1. call[i] \in Call
      BY <2>2, PendingIsCall DEF Accept
    <3>2. NonceRetention(call[i].proof) \in Nat
      BY <3>1, CallTypes, RetentionCovers, ProofAssumption DEF Time
    <3>3. /\ CallKey(call[i]) \notin DOMAIN seen
          /\ seen' = Insert(seen, CallKey(call[i]), NonceRetention(call[i].proof))
      BY <2>2 DEF Accept
    <3>4. /\ CallKey(call[i]) \in DOMAIN seen'
          /\ seen'[CallKey(call[i])] = NonceRetention(call[i].proof)
      BY <3>3 DEF Insert
    <3>5. QED
      BY <2>2, <3>2, <3>4
  <2>3. QED
    BY <2>1, <2>2, AcceptedSteps
<1>3. TypeOK /\ PendingInv => ClaimsInTime
  BY PendingBeforeRetention DEF ClaimsInTime
<1>4. QED
  BY <1>1, <1>2, <1>3, PendingHolds, PTL DEF Spec, NonceHeld

(* No proof is accepted twice, in any deployment that keeps the margin.    *)
THEOREM ReplayImpossible ==
  ASSUME MarginKept
  PROVE  Spec => []NoReplay
<1>1. Init => NoReplay
  BY DEF Init, NoReplay, Accepted
<1>2. TypeOK /\ PendingInv /\ NonceHeld /\ AcceptedAsSigned /\ NoReplay /\ [Next]_vars
        => NoReplay'
  <2> SUFFICES ASSUME TypeOK, PendingInv, NonceHeld, AcceptedAsSigned, NoReplay,
                      [Next]_vars
               PROVE  NoReplay'
    OBVIOUS
  <2>1. CASE Accepted' = Accepted /\ \A n \in Accepted : log'[n] = log[n]
    BY <2>1 DEF NoReplay
  <2>2. ASSUME NEW i \in Instances, Accept(i),
               Accepted' = Accepted \cup {Len(log) + 1},
               \A n \in Accepted : log'[n] = log[n],
               log'[Len(log) + 1].call = call[i]
        PROVE  NoReplay'
    <3>1. ASSUME NEW n \in Accepted PROVE log[n].call.proof # call[i].proof
      <4>1. SUFFICES ASSUME log[n].call.proof = call[i].proof PROVE FALSE
        OBVIOUS
      <4>2. Signed(log[n].call) /\ Signed(call[i]) /\ call[i] # Idle
        BY <2>2 DEF AcceptedAsSigned, PendingInv, Accept
      <4>3. CallKey(log[n].call) = CallKey(call[i])
        BY <4>1, <4>2 DEF Signed, CallKey
      <4>4. clock < NonceRetention(call[i].proof)
        BY <4>2 DEF NonceHeld, ClaimsInTime
      <4>5. CallKey(log[n].call) \in DOMAIN seen
        BY <4>1, <4>4 DEF NonceHeld, HeldUntilRetention
      <4>6. QED
        BY <2>2, <4>3, <4>5 DEF Accept
    <3>2. QED
      BY <2>2, <3>1 DEF NoReplay
  <2>3. QED
    BY <2>1, <2>2, AcceptedSteps
<1>3. QED
  BY <1>1, <1>2, PendingHolds, NonceIsHeld, AcceptanceSigned, PTL DEF Spec

-----------------------------------------------------------------------------
(* The store.                                                              *)

(* A claim that reaches the store inserts at most its own entry.           *)
LEMMA SeenSteps ==
  ASSUME TypeOK, [Next]_vars, NEW k \in DOMAIN seen'
  PROVE  \/ k \in DOMAIN seen /\ seen'[k] = seen[k]
         \/ \E i \in Instances :
              /\ call[i] # Idle
              /\ k = CallKey(call[i])
              /\ seen'[k] = NonceRetention(call[i].proof)
              /\ Return(i, "accepted") \/ Return(i, "lost")
<1>1. ASSUME NEW i \in Instances, Accept(i) \/ AnswerLost(i)
      PROVE  \/ k \in DOMAIN seen /\ seen'[k] = seen[k]
             \/ /\ call[i] # Idle
                /\ k = CallKey(call[i])
                /\ seen'[k] = NonceRetention(call[i].proof)
                /\ Return(i, "accepted") \/ Return(i, "lost")
  <2>1. /\ call[i] # Idle
        /\ seen' = Insert(seen, CallKey(call[i]), NonceRetention(call[i].proof))
        /\ Return(i, "accepted") \/ Return(i, "lost")
    BY <1>1 DEF Accept, AnswerLost
  <2>2. QED
    BY <2>1 DEF Insert
<1>2. \A i \in Instances : AlreadyUsed(i) \/ ClaimLost(i) => UNCHANGED seen
  BY DEF AlreadyUsed, ClaimLost
<1>3. CASE EvictExpired
  BY <1>3 DEF EvictExpired
<1>4. Verify \/ Tick \/ UNCHANGED vars => UNCHANGED seen
  BY DEF Verify, Begin, Reject, Tick, vars
<1>5. QED
  BY <1>1, <1>2, <1>3, <1>4 DEF Next

(* No client's choice of window pins a nonce in the store for longer than  *)
(* the ceiling and the margin from now.                                    *)
THEOREM RetentionIsBounded == Spec => []RetentionBounded
<1>1. Init => RetentionBounded
  BY DEF Init, RetentionBounded
<1>2. TypeOK /\ PendingInv /\ RetentionBounded /\ [Next]_vars => RetentionBounded'
  <2> SUFFICES ASSUME TypeOK, PendingInv, RetentionBounded, [Next]_vars,
                      NEW k \in DOMAIN seen'
               PROVE  seen'[k] <= clock' + MaxLead + Ceiling + Skew
    BY DEF RetentionBounded
  <2>1. /\ clock \in Nat /\ clock' \in Nat /\ clock <= clock'
        /\ MaxLead \in Nat /\ Ceiling \in Nat /\ Skew \in Nat
    BY ClockAdvances, VerifierAssumption, ProofAssumption DEF TypeOK
  <2>2. CASE k \in DOMAIN seen /\ seen'[k] = seen[k]
    <3>1. seen[k] \in Nat /\ seen[k] <= clock + MaxLead + Ceiling + Skew
      BY <2>2, ProofAssumption DEF RetentionBounded, TypeOK, Time
    <3>2. QED
      BY <2>1, <2>2, <3>1
  <2>3. ASSUME NEW i \in Instances, call[i] # Idle,
               seen'[k] = NonceRetention(call[i].proof)
        PROVE  seen'[k] <= clock' + MaxLead + Ceiling + Skew
    <3> DEFINE p == call[i].proof
               started == call[i].started
    <3>1. p \in ProofRecord /\ started \in 0..MaxClock
      BY <2>3, PendingIsCall, CallTypes
    <3>2. started <= clock /\ started + MaxLead >= p.issued_at
      BY <2>3 DEF PendingInv, InWindow
    <3>3. NonceRetention(p) \in Nat /\ NonceRetention(p) <= p.issued_at + Ceiling + Skew
      BY <3>1, RetentionCovers, RetentionAtMost, ProofAssumption DEF Time
    <3>4. p.issued_at \in Nat /\ started \in Nat
      BY <3>1, ProofAssumption, VerifierAssumption DEF ProofRecord, Time
    <3> HIDE DEF p, started
    <3>5. NonceRetention(p) <= clock' + MaxLead + Ceiling + Skew
      BY <2>1, <3>2, <3>3, <3>4
    <3>6. QED
      BY <2>3, <3>5 DEF p
  <2>4. QED
    BY <2>2, <2>3, SeenSteps
<1>3. QED
  BY <1>1, <1>2, PendingHolds, PTL DEF Spec

(* Every key in the store was put there by a claim in the log, for a proof *)
(* that its signer made.                                                   *)
Origin(k, m) ==
  /\ log[m].outcome \in {"accepted", "lost"}
  /\ CallKey(log[m].call) = k
  /\ Signed(log[m].call)

KeysHaveOrigin == \A k \in DOMAIN seen : \E m \in DOMAIN log : Origin(k, m)

(* A step keeps the origin of every key.                                   *)
LEMMA OriginStep ==
  ASSUME TypeOK, PendingInv, KeysHaveOrigin, [Next]_vars
  PROVE  KeysHaveOrigin'
<1> SUFFICES ASSUME NEW k \in DOMAIN seen'
             PROVE  \E m \in DOMAIN log' : Origin(k, m)'
  BY DEF KeysHaveOrigin
<1>1. \A m \in DOMAIN log : m \in DOMAIN log' /\ log'[m] = log[m]
  <2>1. ASSUME NEW i \in Instances, NEW outcome, Return(i, outcome)
        PROVE  \A m \in DOMAIN log : m \in DOMAIN log' /\ log'[m] = log[m]
    <3>1. /\ DOMAIN log = 1..Len(log) /\ Len(log) \in Nat
          /\ DOMAIN log' = 1..(Len(log) + 1)
          /\ \A n \in DOMAIN log : log'[n] = log[n]
      BY <2>1, LogGrows
    <3>2. QED
      BY <3>1
  <2>2. \/ UNCHANGED log
        \/ \E i \in Instances, outcome \in {"accepted", "used", "lost"} :
             Return(i, outcome)
    BY DEF Next, Verify, Begin, Reject, Accept, AlreadyUsed, AnswerLost,
           ClaimLost, EvictExpired, Tick, vars
  <2>3. QED
    BY <2>1, <2>2
<1>2. CASE k \in DOMAIN seen
  <2>1. PICK m \in DOMAIN log : Origin(k, m)
    BY <1>2 DEF KeysHaveOrigin
  <2>2. QED
    BY <1>1, <2>1 DEF Origin
<1>3. ASSUME NEW i \in Instances, call[i] # Idle, k = CallKey(call[i]),
             NEW outcome \in {"accepted", "lost"}, Return(i, outcome)
      PROVE  \E m \in DOMAIN log' : Origin(k, m)'
  <2>1. Signed(call[i])
    BY <1>3 DEF PendingInv
  <2>2. PICK m \in DOMAIN log' :
          log'[m] = [call |-> call[i], at |-> clock, outcome |-> outcome]
    <3>1. /\ Len(log) \in Nat
          /\ DOMAIN log' = 1..(Len(log) + 1)
          /\ log'[Len(log) + 1] = [call |-> call[i], at |-> clock, outcome |-> outcome]
      BY <1>3, LogGrows
    <3>2. QED
      BY <3>1
  <2>3. log'[m].outcome = outcome /\ log'[m].call = call[i]
    BY <2>2
  <2>4. Origin(k, m)'
    BY <1>3, <2>1, <2>3 DEF Origin
  <2>5. QED
    BY <2>4
<1>4. QED
  BY <1>2, <1>3, SeenSteps

(* A signer is refused a nonce only for an earlier use of its own.         *)
THEOREM RefusalsAreOwn == Spec => []RefusedOnlyForOwnUse
<1>1. Init => KeysHaveOrigin /\ RefusedOnlyForOwnUse
  BY DEF Init, KeysHaveOrigin, RefusedOnlyForOwnUse
<1>2. TypeOK /\ PendingInv /\ KeysHaveOrigin /\ RefusedOnlyForOwnUse /\ [Next]_vars
        => RefusedOnlyForOwnUse'
  <2> SUFFICES ASSUME TypeOK, PendingInv, KeysHaveOrigin, RefusedOnlyForOwnUse,
                      [Next]_vars
               PROVE  RefusedOnlyForOwnUse'
    OBVIOUS
  <2>1. CASE UNCHANGED log
    BY <2>1 DEF RefusedOnlyForOwnUse
  <2>2. ASSUME NEW i \in Instances, NEW outcome, Return(i, outcome),
               outcome = "used" => call[i] # Idle /\ CallKey(call[i]) \in DOMAIN seen
        PROVE  RefusedOnlyForOwnUse'
    <3>1. /\ DOMAIN log = 1..Len(log) /\ Len(log) \in Nat
          /\ DOMAIN log' = 1..(Len(log) + 1)
          /\ \A n \in DOMAIN log : log'[n] = log[n]
          /\ log'[Len(log) + 1] = [call |-> call[i], at |-> clock,
                                   outcome |-> outcome]
      BY <2>2, LogGrows
    <3> DEFINE OwnUse(earlier, later) ==
                 /\ earlier.outcome \in {"accepted", "lost"}
                 /\ earlier.call.proof.public_key = later.call.proof.public_key
                 /\ earlier.call.purpose = later.call.purpose
                 /\ earlier.call.proof.nonce = later.call.proof.nonce
                 /\ earlier.call.proof.signature = earlier.call.purpose
    <3>2. ASSUME NEW n \in DOMAIN log, log[n].outcome = "used"
          PROVE  \E m \in 1..(n - 1) : OwnUse(log[m], log[n])
      BY <3>2 DEF RefusedOnlyForOwnUse
    <3>3. ASSUME outcome = "used"
          PROVE  \E m \in DOMAIN log : OwnUse(log[m], log'[Len(log) + 1])
      <4>1. PICK m \in DOMAIN log : Origin(CallKey(call[i]), m)
        BY <2>2, <3>3 DEF KeysHaveOrigin
      <4>2. /\ log[m].call.proof.public_key = call[i].proof.public_key
            /\ log[m].call.purpose = call[i].purpose
            /\ log[m].call.proof.nonce = call[i].proof.nonce
        BY <4>1 DEF Origin, CallKey, NonceKey
      <4>3. QED
        BY <3>1, <4>1, <4>2 DEF Origin, Signed
    <3> HIDE DEF OwnUse
    <3>4. ASSUME NEW n \in DOMAIN log', log'[n].outcome = "used"
          PROVE  \E m \in 1..(n - 1) : OwnUse(log'[m], log'[n])
      <4>1. CASE n \in DOMAIN log
        <5>1. PICK m \in 1..(n - 1) : OwnUse(log[m], log[n])
          BY <3>1, <3>2, <3>4, <4>1
        <5>2. m \in DOMAIN log
          BY <3>1, <4>1, <5>1
        <5>3. QED
          BY <3>1, <4>1, <5>1, <5>2
      <4>2. CASE n = Len(log) + 1
        <5>1. outcome = "used"
          BY <3>1, <3>4, <4>2
        <5>2. PICK m \in DOMAIN log : OwnUse(log[m], log'[n])
          BY <3>3, <4>2, <5>1
        <5>3. m \in 1..(n - 1)
          BY <3>1, <4>2
        <5>4. QED
          BY <3>1, <5>2, <5>3
      <4>3. QED
        BY <3>1, <4>1, <4>2
    <3>5. QED
      BY <3>4 DEF OwnUse, RefusedOnlyForOwnUse
  <2>3. \/ UNCHANGED log
        \/ \E i \in Instances : Return(i, "accepted") \/ Return(i, "lost")
        \/ \E i \in Instances : /\ Return(i, "used")
                                /\ call[i] # Idle
                                /\ CallKey(call[i]) \in DOMAIN seen
    BY DEF Next, Verify, Begin, Reject, Accept, AlreadyUsed, AnswerLost,
           ClaimLost, EvictExpired, Tick, vars
  <2>4. QED
    BY <2>1, <2>2, <2>3
<1>3. QED
  BY <1>1, <1>2, OriginStep, PendingHolds, PTL DEF Spec
=============================================================================
