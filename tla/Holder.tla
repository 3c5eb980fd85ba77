------------------------------- MODULE Holder -------------------------------
(***************************************************************************)
(* The statements a holder makes (crates/aethel-auth/src/holder.rs).  The  *)
(* holder's key and audience are the first two arguments.  Nonces and      *)
(* times are the caller's.                                                 *)
(***************************************************************************)
EXTENDS Statements

(* A login proof, as Proof has it: its signature stands for the purpose it *)
(* was made under.                                                         *)
BuildLogin(key, audience, nonce, issued_at, valid_for_secs, digest) ==
  [public_key |-> key, audience |-> audience, nonce |-> nonce,
   issued_at |-> issued_at, expires_at |-> SatAdd(issued_at, valid_for_secs),
   digest |-> digest, signature |-> "AUTH_LOGIN_V1"]

Login(key, audience, nonce, issued_at, valid_for_secs) ==
  BuildLogin(key, audience, nonce, issued_at, valid_for_secs, NoDigest)

LoginForRequest(key, audience, nonce, issued_at, valid_for_secs, digest) ==
  BuildLogin(key, audience, nonce, issued_at, valid_for_secs, digest)

StepUp(key, audience, nonce, issued_at, valid_for_secs, digest) ==
  [public_key |-> key, audience |-> audience, nonce |-> nonce,
   issued_at |-> issued_at, expires_at |-> SatAdd(issued_at, valid_for_secs),
   digest |-> digest, signature |-> "AUTH_STEP_UP_V1"]

-----------------------------------------------------------------------------
Signed(key, purpose, input, fields) ==
  [f \in DOMAIN fields \cup {"signature"} |->
     IF f = "signature" THEN Sign(key, purpose, input) ELSE fields[f]]

DelegateTo(key, audience, delegate_key, bounds, not_before, expires_at) ==
  LET d == [principal_key |-> key, delegate_key |-> delegate_key,
            audience |-> audience, bounds |-> bounds,
            not_before |-> not_before, expires_at |-> expires_at]
  IN  Signed(key, "AUTH_DELEGATION_V1", DelegationInput(d), d)

Approve(key, audience, d, digest, action, amount, nonce, issued_at, valid_for) ==
  LET a == [principal_key |-> key, audience |-> audience,
            delegation_id |-> DelegationId(d), request_digest |-> digest,
            action |-> action, amount |-> amount, nonce |-> nonce,
            issued_at |-> issued_at, expires_at |-> SatAdd(issued_at, valid_for)]
  IN  Signed(key, "AUTH_APPROVAL_V1", ApprovalInput(a), a)

RevokeSelf(key, audience, issued_at) ==
  LET r == [subject_key |-> key, signer_key |-> key, by |-> "Holder",
            audience |-> audience, issued_at |-> issued_at]
  IN  Signed(key, "AUTH_REVOCATION_V1", RevocationInput(r), r)

NameSuccessor(key, audience, to_key, issued_at) ==
  LET s == [from_key |-> key, to_key |-> to_key, audience |-> audience,
            issued_at |-> issued_at]
  IN  Signed(key, "AUTH_SUCCESSION_V1", SuccessionInput(s), s)

(* Not a holder's: an authority ends somebody else's key.                  *)
RevokeAsAuthority(key, subject_key, audience, issued_at) ==
  LET r == [subject_key |-> subject_key, signer_key |-> key,
            by |-> "Authority", audience |-> audience, issued_at |-> issued_at]
  IN  Signed(key, "AUTH_REVOCATION_V1", RevocationInput(r), r)
=============================================================================
