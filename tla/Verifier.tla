------------------------------ MODULE Verifier ------------------------------
(***************************************************************************)
(* Relying-party instances of aethel-auth that verify proofs and share one *)
(* nonce store (crates/aethel-auth/src/proof.rs: verify_login,             *)
(* verify_login_for_request, verify_step_up, claim_nonce; nonce.rs:        *)
(* NonceStore and its reference implementation).                           *)
(*                                                                         *)
(* A verification is two steps.  The first reads the verifier's clock and  *)
(* does every check that needs no I/O; the second is the store's atomic    *)
(* claim, reached through an await.  Other instances run, the clock moves, *)
(* the store forgets, and the answer may be lost, between the two.         *)
(***************************************************************************)
EXTENDS Proof, Sequences

CONSTANTS
  Instances,   \* verifications that may be under way at once
  Presented,   \* the proofs clients present, any number of times
  MaxAges,     \* values of max_age_secs the instances are configured with
  MaxLag,      \* how far a verifier's clock may lag the store's
  MaxLead,     \* how far it may be ahead of the store's
  MaxDelay,    \* how long a claim may be under way
  StartClock,  \* the store's clock at the beginning
  MaxClock,    \* bound: the last time considered
  MaxClaims,   \* bound: claims in a behaviour
  Idle         \* no verification under way

ASSUME VerifierAssumption ==
  /\ Presented \subseteq ProofRecord
  /\ MaxAges \subseteq Nat
  /\ MaxLag \in Nat /\ MaxLead \in Nat /\ MaxDelay \in Nat
  /\ MaxClaims \in Nat
  /\ MaxClock \in Nat /\ MaxClock < TimeMax /\ MaxClock + MaxLead <= TimeMax
  /\ StartClock \in 0..MaxClock
  /\ Idle \notin Presented

VARIABLES
  seen,   \* the store: nonce key -> the time until which it is kept
  call,   \* each instance: the verification it awaits the store for
  clock,  \* the store's clock
  log     \* history: the claims, in the order they reached the store

vars == <<seen, call, clock, log>>

Key == [purpose : Purpose, public_key : PublicKeys, nonce : ProofNonces]

(* A verification that has passed its checks when the store's clock showed *)
(* started.                                                                *)
Call == [proof : Presented, purpose : Purpose,
         expected : Digests \cup {NoDigest}, started : 0..MaxClock]

(* What became of a claim: the proof was accepted, its nonce was already   *)
(* used, or the answer never came back.                                    *)
Claim == [call : Call, at : 0..MaxClock, outcome : {"accepted", "used", "lost"}]

CallKey(c) == NonceKey(c.purpose, c.proof.public_key, c.proof.nonce)

TypeOK ==
  /\ DOMAIN seen \subseteq Key
  /\ \A k \in DOMAIN seen : seen[k] \in Time
  /\ call \in [Instances -> Call \cup {Idle}]
  /\ clock \in 0..MaxClock
  /\ log \in Seq(Claim)

Init ==
  /\ seen = [k \in {} |-> 0]
  /\ call = [i \in Instances |-> Idle]
  /\ clock = StartClock
  /\ log = <<>>

-----------------------------------------------------------------------------
(* The verifiers.                                                          *)

(* Times a verifier's clock may show.                                      *)
Readings == {t \in 0..(MaxClock + MaxLead) :
               t + MaxLag >= clock /\ t <= clock + MaxLead}

(* What a caller can hand to an entry point: a StepUpProof always has a    *)
(* digest and is compared with one, a LoginProof may have none.            *)
Presentable(p, purpose, expected) ==
  purpose = "AUTH_STEP_UP_V1" => p.digest # NoDigest /\ expected # NoDigest

(* The checks pass, and the claim is sent to the store ...                 *)
Begin(i, p, purpose, expected, now, max_age_secs) ==
  /\ call[i] = Idle
  /\ Presentable(p, purpose, expected)
  /\ CheckProof(p, purpose, expected, now, max_age_secs) = "Ok"
  /\ call' = [call EXCEPT ![i] = [proof |-> p, purpose |-> purpose,
                                  expected |-> expected, started |-> clock]]
  /\ UNCHANGED <<seen, clock, log>>

(* ... or one fails: its error is returned and the store is not asked.     *)
Reject(i, p, purpose, expected, now, max_age_secs) ==
  /\ call[i] = Idle
  /\ Presentable(p, purpose, expected)
  /\ CheckProof(p, purpose, expected, now, max_age_secs) # "Ok"
  /\ UNCHANGED vars

Verify ==
  \E i \in Instances, p \in Presented, purpose \in Purpose,
     expected \in Digests \cup {NoDigest}, now \in Readings, age \in MaxAges :
    Begin(i, p, purpose, expected, now, age)
      \/ Reject(i, p, purpose, expected, now, age)

-----------------------------------------------------------------------------
(* The store.                                                              *)

(* Variant: an upsert, which replaces an occupied entry.                   *)
Upsert(store, key, expires_at) ==
  [k \in DOMAIN store \cup {key} |-> IF k = key THEN expires_at ELSE store[k]]

(* The entry is inserted only if it is vacant.                             *)
Insert(store, key, expires_at) ==
  [k \in DOMAIN store \cup {key} |->
     IF k \in DOMAIN store THEN store[k] ELSE expires_at]

Return(i, outcome) ==
  /\ Len(log) < MaxClaims
  /\ call' = [call EXCEPT ![i] = Idle]
  /\ log' = Append(log, [call |-> call[i], at |-> clock, outcome |-> outcome])
  /\ UNCHANGED clock

(* NonceStore::claim answers true, and the proof is accepted ...           *)
Accept(i) ==
  /\ call[i] # Idle
  /\ CallKey(call[i]) \notin DOMAIN seen
  /\ seen' = Insert(seen, CallKey(call[i]), NonceRetention(call[i].proof))
  /\ Return(i, "accepted")

(* ... or false: NonceAlreadyUsed.                                         *)
AlreadyUsed(i) ==
  /\ call[i] # Idle
  /\ CallKey(call[i]) \in DOMAIN seen
  /\ UNCHANGED seen
  /\ Return(i, "used")

(* A StoreError, or the caller gave up: the claim was made all the same    *)
(* and only its answer is lost ...                                         *)
AnswerLost(i) ==
  /\ call[i] # Idle
  /\ seen' = Insert(seen, CallKey(call[i]), NonceRetention(call[i].proof))
  /\ Return(i, "lost")

(* ... or it never reached the store.                                      *)
ClaimLost(i) ==
  /\ call[i] # Idle
  /\ call' = [call EXCEPT ![i] = Idle]
  /\ UNCHANGED <<seen, clock, log>>

(* The store drops entries it need not keep.                               *)
EvictExpired ==
  /\ \E k \in DOMAIN seen : seen[k] <= clock
  /\ seen' = [k \in {k \in DOMAIN seen : seen[k] > clock} |-> seen[k]]
  /\ UNCHANGED <<call, clock, log>>

Tick ==
  /\ clock < MaxClock
  /\ \A i \in Instances : call[i] # Idle => clock < call[i].started + MaxDelay
  /\ clock' = clock + 1
  /\ UNCHANGED <<seen, call, log>>

Next ==
  \/ Verify
  \/ \E i \in Instances :
       Accept(i) \/ AlreadyUsed(i) \/ AnswerLost(i) \/ ClaimLost(i)
  \/ EvictExpired
  \/ Tick

Spec == Init /\ [][Next]_vars

-----------------------------------------------------------------------------
(* Safety.                                                                 *)

Accepted == {n \in DOMAIN log : log[n].outcome = "accepted"}

(* A proof is accepted at most once, whichever instances it is presented   *)
(* to, whatever their max_age_secs, and however their clocks differ within *)
(* the margin: the store may forget a nonce, but only after every verifier *)
(* has stopped accepting its proof (proof.rs, nonce_retention).            *)
NoReplay ==
  \A m, n \in Accepted : m # n => log[m].call.proof # log[n].call.proof

(* Why: the nonce of an accepted proof is held until its retention, and no *)
(* claim reaches the store later than its own proof's retention, because   *)
(* of what is left of the margin after the verifier's lag and the time the *)
(* claim took.                                                             *)
HeldUntilRetention ==
  \A n \in Accepted :
    LET c == log[n].call
    IN  clock < NonceRetention(c.proof) =>
          /\ CallKey(c) \in DOMAIN seen
          /\ seen[CallKey(c)] >= NonceRetention(c.proof)

ClaimsInTime ==
  \A i \in Instances : call[i] # Idle => clock < NonceRetention(call[i].proof)

NonceHeld == HeldUntilRetention /\ ClaimsInTime

(* "One namespace per (purpose, signer), so a party cannot spend someone   *)
(* else's nonce" (proof.rs, nonce_key): a signer is told that a nonce is   *)
(* used only if a claim for a proof that this signer made, under the same  *)
(* purpose and with that nonce, reached the store before.  Proofs that are *)
(* refused never cost anyone a nonce.                                      *)
RefusedOnlyForOwnUse ==
  \A n \in DOMAIN log : log[n].outcome = "used" =>
    \E m \in 1..(n - 1) :
      LET earlier == log[m].call   later == log[n].call
      IN  /\ log[m].outcome \in {"accepted", "lost"}
          /\ earlier.proof.public_key = later.proof.public_key
          /\ earlier.purpose = later.purpose
          /\ earlier.proof.nonce = later.proof.nonce
          /\ earlier.proof.signature = earlier.purpose

(* Acceptance means that the key's holder signed this proof for this       *)
(* audience, this purpose and the very request the relying party computed; *)
(* a proof that is bound to a request is not accepted where none was       *)
(* compared (proof.rs, verify_login_inner).                                *)
Signed(c) ==
  /\ c.proof.signature = c.purpose
  /\ c.proof.audience = Audience
  /\ c.proof.digest = c.expected

AcceptedAsSigned == \A n \in Accepted : Signed(log[n].call)

(* A proof is accepted no earlier than it was issued and no later than its *)
(* own expiry and its age ceiling allow, but for the clock's lead, its lag *)
(* and the time the claim took.                                            *)
InWindow(p, t, slack) ==
  /\ t + MaxLead >= p.issued_at
  /\ t < p.expires_at + slack
  /\ t <= p.issued_at + Ceiling + slack

AcceptedInWindow ==
  \A n \in Accepted : InWindow(log[n].call.proof, log[n].at, MaxLag + MaxDelay)

(* No client can make the store remember a nonce for longer than the       *)
(* ceiling and the margin from now, whatever window it chose.              *)
RetentionBounded ==
  \A k \in DOMAIN seen : seen[k] <= clock + MaxLead + Ceiling + Skew
=============================================================================
