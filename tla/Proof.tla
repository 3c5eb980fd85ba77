------------------------------- MODULE Proof -------------------------------
(***************************************************************************)
(* The pure part of verifying a client-asserted proof of aethel-auth       *)
(* (crates/aethel-auth/src/proof.rs): the checks that need no I/O, how     *)
(* long the nonce must be remembered, and the key it is remembered under.  *)
(***************************************************************************)
EXTENDS Integers

CONSTANTS
  TimeMax,      \* u64::MAX, where saturating_add stops
  Ceiling,      \* MAX_AGE_CEILING_SECS
  Skew,         \* NONCE_SKEW_SECS
  Audience,     \* VerifyParams::expected_audience
  Audiences,    \* audiences proofs are made for
  NoAudience,   \* the empty byte string
  PublicKeys, ProofNonces,
  Digests,      \* digests of requests and of actions
  NoDigest      \* request_digest = None

ASSUME ProofAssumption ==
  /\ TimeMax \in Nat /\ Ceiling \in Nat /\ Skew \in Nat
  /\ Audience # NoAudience

Time == 0..TimeMax

(* Variant: an addition that does not stop at the limit.                   *)
UncheckedAdd(a, b) == a + b

SatAdd(a, b) == IF a + b > TimeMax THEN TimeMax ELSE a + b
SatSub(a, b) == IF a < b THEN 0 ELSE a - b
Least(a, b) == IF a < b THEN a ELSE b

(* The purpose tags a proof may be signed under.                           *)
Purpose == {"AUTH_LOGIN_V1", "AUTH_STEP_UP_V1"}

(* A LoginProof or a StepUpProof.  Its signature is abstracted to the      *)
(* purpose under which the key's holder signed exactly these fields, or to *)
(* what else the bytes may be; its digest is the request_digest of a login *)
(* or the action_digest of a step-up.                                      *)
ProofRecord ==
  [public_key : PublicKeys, audience : Audiences \cup {NoAudience},
   nonce : ProofNonces, issued_at : Time, expires_at : Time,
   digest : Digests \cup {NoDigest},
   signature : Purpose \cup {"forged", "undecodable", "empty"}]

-----------------------------------------------------------------------------
(* The checks, each "Ok" or the AuthError it returns.                      *)

(* Variant: max_age_secs not clamped to the ceiling.                       *)
EnvelopeWithoutCeiling(p, now, max_age_secs) ==
  IF p.audience # Audience THEN "AudienceMismatch"
  ELSE IF p.issued_at > now \/ SatSub(now, p.issued_at) > max_age_secs
       THEN "StaleOrFutureProof"
  ELSE IF p.expires_at <= now THEN "Expired" ELSE "Ok"

CheckEnvelope(p, now, max_age_secs) ==
  IF p.audience = NoAudience THEN "Malformed"
  ELSE IF p.audience # Audience THEN "AudienceMismatch"
  ELSE IF \/ p.issued_at > now
          \/ SatSub(now, p.issued_at) > Least(max_age_secs, Ceiling)
       THEN "StaleOrFutureProof"
  ELSE IF p.expires_at <= now THEN "Expired" ELSE "Ok"

(* Variant: a proof's digest is looked at only if one is expected.         *)
DigestOnlyIfExpected(p, purpose, expected) ==
  IF expected = NoDigest \/ p.digest = expected THEN "Ok" ELSE "RequestMismatch"

(* verify_login_inner and verify_step_up compare the digest before they    *)
(* look at the signature.  Only a login may do without one.                *)
CheckDigest(p, purpose, expected) ==
  IF p.digest = expected THEN "Ok"
  ELSE IF purpose = "AUTH_STEP_UP_V1" THEN "ActionMismatch"
  ELSE IF expected = NoDigest THEN "RequestDigestNotChecked" ELSE "RequestMismatch"

CheckSignature(p, purpose) ==
  IF p.signature = "undecodable" THEN "Malformed"
  ELSE IF p.signature # purpose THEN "BadSignature" ELSE "Ok"

(* Everything that happens before the nonce is claimed, in order.          *)
CheckProof(p, purpose, expected, now, max_age_secs) ==
  LET envelope == CheckEnvelope(p, now, max_age_secs)
      binding  == CheckDigest(p, purpose, expected)
  IN  IF p.signature = "empty" THEN "Malformed"
      ELSE IF envelope # "Ok" THEN envelope
      ELSE IF binding # "Ok" THEN binding
      ELSE CheckSignature(p, purpose)

-----------------------------------------------------------------------------
(* The nonce.                                                              *)

(* Variants: retention without the margin, and without the ceiling.        *)
RetentionWithoutSkew(p) == Least(p.expires_at, SatAdd(p.issued_at, Ceiling))
RetentionWithoutCeiling(p) == SatAdd(p.expires_at, Skew)

NonceRetention(p) ==
  SatAdd(Least(p.expires_at, SatAdd(p.issued_at, Ceiling)), Skew)

(* Variant: one namespace for all signers.                                 *)
NonceKeyOfAnySigner(purpose, public_key, nonce) ==
  [purpose |-> purpose, nonce |-> nonce]

(* Variant: one namespace for everything.                                  *)
NonceAlone(purpose, public_key, nonce) == [nonce |-> nonce]

(* nonce_key hashes the three; the hash is collision-free.                 *)
NonceKey(purpose, public_key, nonce) ==
  [purpose |-> purpose, public_key |-> public_key, nonce |-> nonce]
=============================================================================
