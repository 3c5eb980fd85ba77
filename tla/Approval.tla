------------------------------ MODULE Approval ------------------------------
(***************************************************************************)
(* A principal's approval of one request under one delegation, up to the   *)
(* claim of its nonce (crates/aethel-auth/src/approval.rs).                *)
(***************************************************************************)
EXTENDS Delegation

ApprovalRecord(ids, signatures) ==
  [principal_key : PublicKeys \cup {NoKey},
   audience : Audiences \cup {NoAudience},
   delegation_id : ids, request_digest : Digests,
   action : Actions, amount : Amount \cup {None}, nonce : ProofNonces,
   issued_at : Time, expires_at : Time, signature : signatures]

(* Variant: the amount is compared, but not signed.                        *)
InputWithoutAmount(a) ==
  [audience |-> a.audience, issued_at |-> a.issued_at,
   expires_at |-> a.expires_at, nonce |-> a.nonce,
   delegation_id |-> a.delegation_id, request_digest |-> a.request_digest,
   action |-> a.action]

ApprovalInput(a) ==
  [audience |-> a.audience, issued_at |-> a.issued_at,
   expires_at |-> a.expires_at, nonce |-> a.nonce,
   delegation_id |-> a.delegation_id, request_digest |-> a.request_digest,
   action |-> a.action, amount |-> a.amount]

Approves(a, d, request_digest, action, amount) ==
  /\ a.delegation_id = DelegationId(d)
  /\ a.request_digest = request_digest
  /\ a.action = action
  /\ a.amount = amount

(* Variant: the delegation is as authorise found it.                       *)
CheckApprovalOnly(d, a, principals, revoked, digest, action, amount, now, max_age) ==
  LET envelope == CheckEnvelope(a, now, max_age)
  IN  IF a.principal_key = NoKey \/ a.signature = NoSignature THEN "Malformed"
      ELSE IF a.principal_key # d.principal_key THEN "NotAuthorised"
      ELSE IF envelope # "Ok" THEN envelope
      ELSE IF ~Approves(a, d, digest, action, amount) THEN "ActionMismatch"
      ELSE CheckSigned(a.principal_key, "AUTH_APPROVAL_V1",
                       ApprovalInput(a), a.signature)

(* check_approval before its await, in the order of the code.              *)
CheckApproval(d, a, principals, revoked, digest, action, amount, now, max_age) ==
  LET standing == Standing(d, principals, revoked)
      verified == VerifyDelegation(d, now)
      envelope == CheckEnvelope(a, now, max_age)
  IN  IF standing # "Ok" THEN standing
      ELSE IF verified # "Ok" THEN verified
      ELSE IF a.principal_key = NoKey \/ a.signature = NoSignature
           THEN "Malformed"
      ELSE IF a.principal_key # d.principal_key THEN "NotAuthorised"
      ELSE IF envelope # "Ok" THEN envelope
      ELSE IF ~Approves(a, d, digest, action, amount) THEN "ActionMismatch"
      ELSE CheckSigned(a.principal_key, "AUTH_APPROVAL_V1",
                       ApprovalInput(a), a.signature)
=============================================================================
