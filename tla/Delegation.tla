----------------------------- MODULE Delegation -----------------------------
(***************************************************************************)
(* The bounded authority a principal grants a delegate, and the decision   *)
(* whether it covers one request (crates/aethel-auth/src/delegation.rs).   *)
(* Every operator that decides returns "Ok" or the AuthError.              *)
(***************************************************************************)
EXTENDS Signing

CONSTANTS
  Actions,    \* action tags
  MaxAmount   \* bound: the largest amount considered

ASSUME DelegationAssumption == MaxAmount \in Nat /\ None \notin Int

Amount == 0..MaxAmount

(* The allow-list is a set: only membership counts.                        *)
Bounds ==
  [actions : SUBSET Actions,
   max_per_invocation : Amount \cup {None},
   max_total : Amount \cup {None},
   window_secs : Time \cup {None},
   approval_required_above : Amount \cup {None}]

DelegationRecord(signatures) ==
  [principal_key : PublicKeys \cup {NoKey},
   delegate_key : PublicKeys \cup {NoKey},
   audience : Audiences \cup {NoAudience},
   bounds : Bounds, not_before : Time, expires_at : Time,
   signature : signatures]

-----------------------------------------------------------------------------
(* Variant: the delegate is left out, as the signer rightly is.            *)
InputWithoutDelegate(d) ==
  [audience |-> d.audience, not_before |-> d.not_before,
   expires_at |-> d.expires_at, bounds |-> d.bounds]

(* What the principal's signature covers: all but the key it is checked    *)
(* against.                                                                *)
DelegationInput(d) ==
  [delegate_key |-> d.delegate_key, audience |-> d.audience,
   not_before |-> d.not_before, expires_at |-> d.expires_at,
   bounds |-> d.bounds]

(* Delegation::id; the hash is collision-free.                             *)
DelegationId(d) ==
  [principal_key |-> d.principal_key, input |-> DelegationInput(d),
   signature |-> d.signature]

VerifyDelegation(d, now) ==
  IF NoKey \in {d.principal_key, d.delegate_key}
     \/ d.signature = NoSignature \/ d.audience = NoAudience THEN "Malformed"
  ELSE IF d.audience # Audience THEN "AudienceMismatch"
  ELSE IF now < d.not_before \/ now >= d.expires_at THEN "Expired"
  ELSE CheckSigned(d.principal_key, "AUTH_DELEGATION_V1",
                   DelegationInput(d), d.signature)

-----------------------------------------------------------------------------
(* Variant: the delegate's own key is not looked up.                       *)
StandingOfPrincipal(d, principals, revoked) ==
  IF d.principal_key \notin principals THEN "NotAuthorised"
  ELSE IF d.principal_key \in revoked THEN "Revoked" ELSE "Ok"

(* What authorise and check_approval ask of both keys first.               *)
Standing(d, principals, revoked) ==
  IF d.principal_key \notin principals THEN "NotAuthorised"
  ELSE IF {d.principal_key, d.delegate_key} \cap revoked # {} THEN "Revoked"
  ELSE "Ok"

SetsAnAmountBound(bounds) ==
  \/ bounds.max_per_invocation # None
  \/ bounds.max_total # None
  \/ bounds.approval_required_above # None

(* A ceiling that is absent grants nothing.                                *)
AmountWithin(bounds, amount) ==
  IF amount = None THEN ~SetsAnAmountBound(bounds)
  ELSE bounds.max_per_invocation # None /\ amount <= bounds.max_per_invocation

Authorise(d, principals, revoked, delegate_key, action, amount, now) ==
  LET standing == Standing(d, principals, revoked)
      verified == VerifyDelegation(d, now)
  IN  IF standing # "Ok" THEN standing
      ELSE IF verified # "Ok" THEN verified
      ELSE IF /\ d.delegate_key = delegate_key
              /\ action \in d.bounds.actions
              /\ AmountWithin(d.bounds, amount) THEN "Ok"
      ELSE "NotDelegated"

ApprovalRequired(bounds, amount) ==
  /\ None \notin {amount, bounds.approval_required_above}
  /\ amount > bounds.approval_required_above

(* Variant: an approved request does not count against the total.          *)
ObligationsUnlessApproved(d, amount) ==
  [cumulative_ceiling |->
     IF ApprovalRequired(d.bounds, amount) THEN None ELSE d.bounds.max_total,
   window_secs |-> d.bounds.window_secs,
   human_approval_required |-> ApprovalRequired(d.bounds, amount)]

(* What authorise leaves to its caller.                                    *)
RemainingObligations(d, amount) ==
  [cumulative_ceiling |-> d.bounds.max_total,
   window_secs |-> d.bounds.window_secs,
   human_approval_required |-> ApprovalRequired(d.bounds, amount)]
=============================================================================
