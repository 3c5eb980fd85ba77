------------------------- MODULE RelyingPartyProofs -------------------------
(***************************************************************************)
(* Proofs about RelyingParty, for every set of keys, of statements and of  *)
(* requests.                                                               *)
(***************************************************************************)
EXTENDS RelyingParty, SumProofs, FiniteSetTheorems, TLAPS

-----------------------------------------------------------------------------
(* Copies.                                                                 *)

(* The delegations that approvals name.                                    *)
Ids == {DelegationId(d) : d \in Delegations}

(* What is presented as a delegation is a record like one.                 *)
LEMMA DelegationCopies == PresentedDelegations \subseteq DelegationRecord(Signatures)
<1>1. SUFFICES ASSUME NEW d \in CopiesOf(Delegations)
               PROVE  d \in DelegationRecord(Signatures)
  BY DEF PresentedDelegations
<1>2. CASE d \in Delegations
  BY <1>2, StatementsAsMade
<1>3. CASE \E s \in Delegations, g \in Signatures : d = [s EXCEPT !.signature = g]
  BY <1>3, StatementsAsMade DEF DelegationRecord
<1>4. CASE \E s \in Delegations, t \in Delegations :
             \E f \in UNION {DOMAIN u : u \in Delegations} : d = [s EXCEPT ![f] = t[f]]
  <2>1. PICK s \in Delegations, t \in Delegations,
             f \in UNION {DOMAIN u : u \in Delegations} : d = [s EXCEPT ![f] = t[f]]
    BY <1>4
  <2>2. s \in DelegationRecord(Signatures) /\ t \in DelegationRecord(Signatures)
    BY StatementsAsMade
  <2>3. f \in {"principal_key", "delegate_key", "audience", "bounds",
               "not_before", "expires_at", "signature"}
    BY StatementsAsMade DEF DelegationRecord
  <2>4. QED
    BY <2>1, <2>2, <2>3 DEF DelegationRecord
<1>5. QED
  BY <1>1, <1>2, <1>3, <1>4 DEF CopiesOf

(* What is presented as an approval is a record like one.                  *)
LEMMA ApprovalCopies == PresentedApprovals \subseteq ApprovalRecord(Ids, Signatures)
<1>1. SUFFICES ASSUME NEW d \in CopiesOf(Approvals)
               PROVE  d \in ApprovalRecord(Ids, Signatures)
  BY DEF PresentedApprovals
<1>2. CASE d \in Approvals
  BY <1>2, StatementsAsMade DEF Ids
<1>3. CASE \E s \in Approvals, g \in Signatures : d = [s EXCEPT !.signature = g]
  BY <1>3, StatementsAsMade DEF ApprovalRecord, Ids
<1>4. CASE \E s \in Approvals, t \in Approvals :
             \E f \in UNION {DOMAIN u : u \in Approvals} : d = [s EXCEPT ![f] = t[f]]
  <2>1. PICK s \in Approvals, t \in Approvals,
             f \in UNION {DOMAIN u : u \in Approvals} : d = [s EXCEPT ![f] = t[f]]
    BY <1>4
  <2>2. s \in ApprovalRecord(Ids, Signatures) /\ t \in ApprovalRecord(Ids, Signatures)
    BY StatementsAsMade DEF Ids
  <2>3. f \in {"principal_key", "audience", "delegation_id",
               "request_digest", "action", "amount", "nonce",
               "issued_at", "expires_at", "signature"}
    BY StatementsAsMade DEF ApprovalRecord, Ids
  <2>4. QED
    BY <2>1, <2>2, <2>3 DEF ApprovalRecord, Ids
<1>5. QED
  BY <1>1, <1>2, <1>3, <1>4 DEF CopiesOf

(* What is presented as a revocation is a record like one.                 *)
LEMMA RevocationsAlike == RevocationCopies \subseteq RevocationRecord(Signatures)
<1>1. SUFFICES ASSUME NEW d \in CopiesOf(Revocations)
               PROVE  d \in RevocationRecord(Signatures)
  BY DEF RevocationCopies
<1>2. CASE d \in Revocations
  BY <1>2, StatementsAsMade
<1>3. CASE \E s \in Revocations, g \in Signatures : d = [s EXCEPT !.signature = g]
  BY <1>3, StatementsAsMade DEF RevocationRecord
<1>4. CASE \E s \in Revocations, t \in Revocations :
             \E f \in UNION {DOMAIN u : u \in Revocations} : d = [s EXCEPT ![f] = t[f]]
  <2>1. PICK s \in Revocations, t \in Revocations,
             f \in UNION {DOMAIN u : u \in Revocations} : d = [s EXCEPT ![f] = t[f]]
    BY <1>4
  <2>2. s \in RevocationRecord(Signatures) /\ t \in RevocationRecord(Signatures)
    BY StatementsAsMade
  <2>3. f \in {"subject_key", "signer_key", "by", "audience",
               "issued_at", "signature"}
    BY StatementsAsMade DEF RevocationRecord
  <2>4. QED
    BY <2>1, <2>2, <2>3 DEF RevocationRecord
<1>5. QED
  BY <1>1, <1>2, <1>3, <1>4 DEF CopiesOf

(* What is presented as a succession is a record like one.                 *)
LEMMA SuccessionsAlike == SuccessionCopies \subseteq SuccessionRecord(Signatures)
<1>1. SUFFICES ASSUME NEW d \in CopiesOf(Successions)
               PROVE  d \in SuccessionRecord(Signatures)
  BY DEF SuccessionCopies
<1>2. CASE d \in Successions
  BY <1>2, StatementsAsMade
<1>3. CASE \E s \in Successions, g \in Signatures : d = [s EXCEPT !.signature = g]
  BY <1>3, StatementsAsMade DEF SuccessionRecord
<1>4. CASE \E s \in Successions, t \in Successions :
             \E f \in UNION {DOMAIN u : u \in Successions} : d = [s EXCEPT ![f] = t[f]]
  <2>1. PICK s \in Successions, t \in Successions,
             f \in UNION {DOMAIN u : u \in Successions} : d = [s EXCEPT ![f] = t[f]]
    BY <1>4
  <2>2. s \in SuccessionRecord(Signatures) /\ t \in SuccessionRecord(Signatures)
    BY StatementsAsMade
  <2>3. f \in {"from_key", "to_key", "audience", "issued_at", "signature"}
    BY StatementsAsMade DEF SuccessionRecord
  <2>4. QED
    BY <2>1, <2>2, <2>3 DEF SuccessionRecord
<1>5. QED
  BY <1>1, <1>2, <1>3, <1>4 DEF CopiesOf

-----------------------------------------------------------------------------
(* Signatures.                                                             *)

(* A delegation whose signature fits is one that was made, unaltered.      *)
LEMMA GenuineDelegation ==
  ASSUME NEW d \in PresentedDelegations, d.signature \notin {NoSignature, Undecodable},
         d.signature = Sign(d.principal_key, "AUTH_DELEGATION_V1", DelegationInput(d))
  PROVE  d \in Delegations
<1>1. d \in DelegationRecord(Signatures) /\ d.signature \in Signatures
  BY DelegationCopies DEF DelegationRecord
<1>2. PICK s \in Delegations \cup Approvals \cup Revocations \cup Successions :
        s.signature = d.signature
  BY <1>1 DEF Signatures
<1>3. s \in Delegations
  BY <1>2, StatementsAsMade DEF SignedBy, Sign
<1>4. s.signature = Sign(s.principal_key, "AUTH_DELEGATION_V1", DelegationInput(s))
  BY <1>2, <1>3, StatementsAsMade DEF SignedBy
<1>5. s.principal_key = d.principal_key /\ DelegationInput(s) = DelegationInput(d)
  BY <1>2, <1>4 DEF Sign
<1>6. s \in DelegationRecord(Signatures)
  BY <1>3, StatementsAsMade
<1>7. s = d
  BY <1>1, <1>2, <1>5, <1>6 DEF DelegationInput, DelegationRecord
<1>8. QED
  BY <1>3, <1>7

(* An approval whose signature fits is one that was made, unaltered.       *)
LEMMA GenuineApproval ==
  ASSUME NEW d \in PresentedApprovals, d.signature \notin {NoSignature, Undecodable},
         d.signature = Sign(d.principal_key, "AUTH_APPROVAL_V1", ApprovalInput(d))
  PROVE  d \in Approvals
<1>1. d \in ApprovalRecord(Ids, Signatures) /\ d.signature \in Signatures
  BY ApprovalCopies DEF ApprovalRecord
<1>2. PICK s \in Delegations \cup Approvals \cup Revocations \cup Successions :
        s.signature = d.signature
  BY <1>1 DEF Signatures
<1>3. s \in Approvals
  BY <1>2, StatementsAsMade DEF SignedBy, Sign
<1>4. s.signature = Sign(s.principal_key, "AUTH_APPROVAL_V1", ApprovalInput(s))
  BY <1>2, <1>3, StatementsAsMade DEF SignedBy
<1>5. s.principal_key = d.principal_key /\ ApprovalInput(s) = ApprovalInput(d)
  BY <1>2, <1>4 DEF Sign
<1>6. s \in ApprovalRecord(Ids, Signatures)
  BY <1>3, StatementsAsMade DEF Ids
<1>7. s = d
  BY <1>1, <1>2, <1>5, <1>6 DEF ApprovalInput, ApprovalRecord
<1>8. QED
  BY <1>3, <1>7

(* A revocation whose signature fits is one that was made, unaltered.      *)
LEMMA GenuineRevocation ==
  ASSUME NEW d \in RevocationCopies, d.signature \notin {NoSignature, Undecodable},
         d.signature = Sign(d.signer_key, "AUTH_REVOCATION_V1", RevocationInput(d))
  PROVE  d \in Revocations
<1>1. d \in RevocationRecord(Signatures) /\ d.signature \in Signatures
  BY RevocationsAlike DEF RevocationRecord
<1>2. PICK s \in Delegations \cup Approvals \cup Revocations \cup Successions :
        s.signature = d.signature
  BY <1>1 DEF Signatures
<1>3. s \in Revocations
  BY <1>2, StatementsAsMade DEF SignedBy, Sign
<1>4. s.signature = Sign(s.signer_key, "AUTH_REVOCATION_V1", RevocationInput(s))
  BY <1>2, <1>3, StatementsAsMade DEF SignedBy
<1>5. s.signer_key = d.signer_key /\ RevocationInput(s) = RevocationInput(d)
  BY <1>2, <1>4 DEF Sign
<1>6. s \in RevocationRecord(Signatures)
  BY <1>3, StatementsAsMade
<1>7. s = d
  BY <1>1, <1>2, <1>5, <1>6 DEF RevocationInput, RevocationRecord
<1>8. QED
  BY <1>3, <1>7

(* A succession whose signature fits is one that was made, unaltered.      *)
LEMMA GenuineSuccession ==
  ASSUME NEW d \in SuccessionCopies, d.signature \notin {NoSignature, Undecodable},
         d.signature = Sign(d.from_key, "AUTH_SUCCESSION_V1", SuccessionInput(d))
  PROVE  d \in Successions
<1>1. d \in SuccessionRecord(Signatures) /\ d.signature \in Signatures
  BY SuccessionsAlike DEF SuccessionRecord
<1>2. PICK s \in Delegations \cup Approvals \cup Revocations \cup Successions :
        s.signature = d.signature
  BY <1>1 DEF Signatures
<1>3. s \in Successions
  BY <1>2, StatementsAsMade DEF SignedBy, Sign
<1>4. s.signature = Sign(s.from_key, "AUTH_SUCCESSION_V1", SuccessionInput(s))
  BY <1>2, <1>3, StatementsAsMade DEF SignedBy
<1>5. s.from_key = d.from_key /\ SuccessionInput(s) = SuccessionInput(d)
  BY <1>2, <1>4 DEF Sign
<1>6. s \in SuccessionRecord(Signatures)
  BY <1>3, StatementsAsMade
<1>7. s = d
  BY <1>1, <1>2, <1>5, <1>6 DEF SuccessionInput, SuccessionRecord
<1>8. QED
  BY <1>3, <1>7

-----------------------------------------------------------------------------
(* Checks.                                                                 *)

(* verify_delegation passes only what the principal signed, here and now.  *)
LEMMA Verified ==
  ASSUME NEW d \in PresentedDelegations, NEW now \in Nat,
         VerifyDelegation(d, now) = "Ok"
  PROVE  /\ d \in Delegations /\ MadeBy(d.principal_key, d)
         /\ d.audience = Audience /\ d.not_before <= now /\ now < d.expires_at
<1>1. /\ d.signature # NoSignature /\ d.audience = Audience
      /\ ~(now < d.not_before) /\ ~(now >= d.expires_at)
      /\ CheckSigned(d.principal_key, "AUTH_DELEGATION_V1", DelegationInput(d),
                     d.signature) = "Ok"
  BY DEF VerifyDelegation
<1>2. /\ d.signature # Undecodable
      /\ d.signature = Sign(d.principal_key, "AUTH_DELEGATION_V1", DelegationInput(d))
  BY <1>1 DEF CheckSigned
<1>3. d \in Delegations
  BY <1>1, <1>2, GenuineDelegation
<1>4. MadeBy(d.principal_key, d)
  BY <1>1, <1>2 DEF MadeBy, Sign
<1>5. d.not_before \in Int /\ d.expires_at \in Int
  BY DelegationCopies, ProofAssumption DEF DelegationRecord, Time
<1>6. QED
  BY <1>1, <1>3, <1>4, <1>5

(* check_approval passes only what the principal signed of this delegation *)
(* and this request, while the delegation stands.                          *)
LEMMA Approved ==
  ASSUME NEW d \in PresentedDelegations, NEW a \in PresentedApprovals,
         NEW known, NEW gone, NEW q, NEW action, NEW amount, NEW now \in Nat, NEW age,
         CheckApproval(d, a, known, gone, q, action, amount, now, age) = "Ok"
  PROVE  /\ a \in Approvals /\ MadeBy(d.principal_key, a)
         /\ a.signature = Sign(a.principal_key, "AUTH_APPROVAL_V1", ApprovalInput(a))
         /\ Approves(a, d, q, action, amount)
         /\ {d.principal_key, d.delegate_key} \cap gone = {}
         /\ d.not_before <= now /\ now < d.expires_at
<1>1. /\ Standing(d, known, gone) = "Ok" /\ VerifyDelegation(d, now) = "Ok"
      /\ a.signature # NoSignature /\ a.principal_key = d.principal_key
      /\ Approves(a, d, q, action, amount)
      /\ CheckSigned(a.principal_key, "AUTH_APPROVAL_V1", ApprovalInput(a),
                     a.signature) = "Ok"
  BY DEF CheckApproval
<1>2. /\ a.signature # Undecodable
      /\ a.signature = Sign(a.principal_key, "AUTH_APPROVAL_V1", ApprovalInput(a))
  BY <1>1 DEF CheckSigned
<1>3. a \in Approvals
  BY <1>1, <1>2, GenuineApproval
<1>4. MadeBy(d.principal_key, a)
  BY <1>1, <1>2 DEF MadeBy, Sign
<1>5. {d.principal_key, d.delegate_key} \cap gone = {}
  BY <1>1 DEF Standing
<1>6. d.not_before <= now /\ now < d.expires_at
  BY <1>1, Verified
<1>7. QED
  BY <1>1, <1>2, <1>3, <1>4, <1>5, <1>6

-----------------------------------------------------------------------------
(* The life of a request.                                                  *)

Active == {"authenticating", "authenticated", "held", "approving", "authorised",
           "performed"}

(* A request that was granted, by what was known then.                     *)
AsGranted(x) ==
  /\ x.delegation \in Delegations
  /\ x.delegation.principal_key \in PublicKeys
  /\ MadeBy(x.delegation.principal_key, x.delegation)
  /\ x.delegation.audience = Audience
  /\ x.delegation.not_before <= x.checked_at
  /\ x.checked_at < x.delegation.expires_at
  /\ x.login.public_key = x.delegation.delegate_key
  /\ x.request.action \in x.delegation.bounds.actions
  /\ x.request.amount # None =>
       x.request.amount <= x.delegation.bounds.max_per_invocation
  /\ {x.delegation.principal_key, x.delegation.delegate_key} \cap x.knew = {}

(* A request with the approval of its principal.                           *)
AsSigned(x) ==
  /\ x.approval \in Approvals
  /\ MadeBy(x.delegation.principal_key, x.approval)
  /\ x.approval.signature =
       Sign(x.approval.principal_key, "AUTH_APPROVAL_V1", ApprovalInput(x.approval))
  /\ x.approval.delegation_id = DelegationId(x.delegation)
  /\ x.approval.request_digest = x.request
  /\ x.approval.amount = x.request.amount

Sound(x) ==
  /\ x \in Slot
  /\ x.state \in Active => x.login \in Logins /\ x.request \in Requests
  /\ x.state \in {"authenticating", "authenticated", "held"} => x.approval = None
  /\ x.state \in {"held", "approving", "authorised", "performed"} => AsGranted(x)
  /\ x.state = "approving" => AsSigned(x)
  /\ x.state \in {"authorised", "performed"} =>
       \/ AsSigned(x)
       \/ x.approval = None
          /\ ~ApprovalRequired(x.delegation.bounds, x.request.amount)

Inv ==
  /\ clock \in 0..MaxClock
  /\ sent \subseteq Revocations \cup Successions
  /\ principals \subseteq PublicKeys
  /\ revoked \subseteq PublicKeys
  /\ slot \in [Slots -> Slot]
  /\ \A r \in Slots : Sound(slot[r])

(* A step of one request leaves the others alone.                          *)
LEMMA StepOfOne ==
  ASSUME Inv, NEW r \in Slots, NEW from, NEW new, Step(r, from, new),
         Sound(new)
  PROVE  Inv'
<1>1. /\ slot' = [slot EXCEPT ![r] = new] /\ clock' = clock
      /\ sent' = sent /\ principals' = principals /\ revoked' = revoked
  BY DEF Step
<1>2. new \in Slot
  BY DEF Sound
<1>3. slot' \in [Slots -> Slot]
  BY <1>1, <1>2 DEF Inv
<1>4. ASSUME NEW s \in Slots PROVE Sound(slot'[s])
  <2>1. CASE s = r
    <3>1. slot'[s] = new
      BY <1>1, <2>1 DEF Inv
    <3>2. QED
      BY <1>1, <3>1
  <2>2. CASE s # r
    <3>1. slot'[s] = slot[s]
      BY <1>1, <2>2 DEF Inv
    <3>2. QED
      BY <1>1, <3>1 DEF Inv
  <2>3. QED
    BY <2>1, <2>2
<1>5. QED
  BY <1>1, <1>3, <1>4 DEF Inv

LEMMA InitSound == Init => Inv
<1>1. SUFFICES ASSUME Init PROVE Inv
  OBVIOUS
<1>2. 0 \in 0..MaxClock
  BY RelyingPartyAssumption, ProofAssumption DEF Time
<1>3. Free \in Slot
  BY <1>2 DEF Free, Slot, State
<1>4. Sound(Free)
  BY <1>3 DEF Sound, Free, Active
<1>5. QED
  BY <1>1, <1>2, <1>3, <1>4, RelyingPartyAssumption DEF Init, Inv

(* Receive.                                                                *)
LEMMA ReceiveSound ==
  ASSUME Inv, NEW r \in Slots, NEW login \in Logins, NEW request \in Requests,
         Receive(r, login, request)
  PROVE  Inv'
<1> DEFINE new == [Free EXCEPT !.state = "authenticating", !.login = login,
                              !.request = request]
<1>1. Step(r, "free", new)
  BY DEF Receive
<1>2. 0 \in 0..MaxClock
  BY RelyingPartyAssumption, ProofAssumption DEF Time
<1>3. Free \in Slot /\ Free.approval = None
  BY <1>2 DEF Free, Slot, State
<1>4. /\ new \in Slot /\ new.state = "authenticating" /\ new.approval = None
      /\ new.login = login /\ new.request = request
  BY <1>3 DEF Slot, State
<1>5. Sound(new)
  BY <1>4 DEF Sound
<1>6. QED
  BY <1>1, <1>5, StepOfOne

(* What is over is sound.                                                  *)
LEMMA RefusedSound == ASSUME Inv, NEW r \in Slots PROVE Sound(Refused(r))
<1>1. slot[r] \in Slot /\ 0 \in 0..MaxClock
  BY RelyingPartyAssumption, ProofAssumption DEF Time, Inv
<1>2. Free \in Slot
  BY <1>1 DEF Free, Slot, State
<1>3. Refused(r) \in Slot /\ Refused(r).state = "refused"
  BY <1>1, <1>2 DEF Refused, Slot, State
<1>4. QED
  BY <1>3 DEF Sound, Active

(* Authenticate.                                                           *)
LEMMA AuthenticateSound ==
  ASSUME Inv, NEW r \in Slots, Authenticate(r) PROVE Inv'
<1>1. CASE Step(r, "authenticating", Refused(r))
  BY <1>1, RefusedSound, StepOfOne
<1>2. CASE Step(r, "authenticating", To(r, "authenticated"))
  <2>1. slot[r] \in Slot /\ slot[r].state = "authenticating" /\ Sound(slot[r])
    BY <1>2 DEF Step, Inv
  <2>2. To(r, "authenticated") \in Slot
    BY <2>1 DEF To, Slot, State
  <2>3. Sound(To(r, "authenticated"))
    BY <2>1, <2>2 DEF To, Sound, Slot, Active
  <2>4. QED
    BY <1>2, <2>3, StepOfOne
<1>3. QED
  BY <1>1, <1>2 DEF Authenticate

(* Allow: authorise has looked at everything.                              *)
LEMMA AllowSound ==
  ASSUME Inv, NEW r \in Slots, NEW d \in PresentedDelegations, Allow(r, d)
  PROVE  Inv'
<1> DEFINE q == slot[r].request
           required == RemainingObligations(d, q.amount).human_approval_required
           new == [slot[r] EXCEPT !.delegation = d, !.knew = revoked, !.checked_at = clock,
                     !.state = IF required THEN "held" ELSE "authorised"]
<1>1. Step(r, "authenticated", new) /\ Decision(r, d) = "Ok"
  BY DEF Allow
<1>2. slot[r] \in Slot /\ slot[r].state = "authenticated" /\ Sound(slot[r])
  BY <1>1 DEF Step, Inv
<1>3. required = ApprovalRequired(d.bounds, q.amount)
  BY DEF RemainingObligations
<1>4. /\ Standing(d, principals, revoked) = "Ok"
      /\ VerifyDelegation(d, clock) = "Ok"
      /\ d.delegate_key = slot[r].login.public_key
      /\ q.action \in d.bounds.actions
      /\ AmountWithin(d.bounds, q.amount)
  BY <1>1 DEF Decision, Authorise
<1>5. clock \in Nat
  BY RelyingPartyAssumption, ProofAssumption DEF Inv, Time
<1>6. /\ d \in Delegations /\ MadeBy(d.principal_key, d)
      /\ d.audience = Audience /\ d.not_before <= clock /\ clock < d.expires_at
  BY <1>4, <1>5, Verified
<1>7. /\ {d.principal_key, d.delegate_key} \cap revoked = {}
      /\ d.principal_key \in PublicKeys
  BY <1>4 DEF Standing, Inv
<1>8. q.amount # None => q.amount <= d.bounds.max_per_invocation
  BY <1>4 DEF AmountWithin
<1>9. /\ new.state = IF required THEN "held" ELSE "authorised"
      /\ new.delegation = d /\ new.knew = revoked /\ new.checked_at = clock
      /\ new.login = slot[r].login /\ new.request = q
      /\ new.approval = slot[r].approval
  BY <1>2 DEF Slot
<1>10. AsGranted(new)
  BY <1>4, <1>6, <1>7, <1>8, <1>9 DEF AsGranted
<1>11. new.approval = None
  BY <1>2, <1>9 DEF Sound
<1>12. d \in PresentedDelegations \cup {None} /\ revoked \in SUBSET PublicKeys
  BY DEF Inv
<1>13. new \in Slot
  BY <1>2, <1>12 DEF Slot, State, Inv
<1>14. Sound(new)
  BY <1>2, <1>3, <1>9, <1>10, <1>11, <1>13 DEF Sound, Active
<1>15. QED
  BY <1>1, <1>14, StepOfOne

(* PresentApproval: check_approval asks everything again.                  *)
LEMMA PresentSound ==
  ASSUME Inv, NEW r \in Slots, NEW a \in PresentedApprovals,
         PresentApproval(r, a)
  PROVE  Inv'
<1> DEFINE x == slot[r]
           new == [x EXCEPT !.state = "approving", !.approval = a, !.knew = revoked,
                            !.checked_at = clock]
<1>1. Step(r, "held", new)
      /\ CheckApproval(x.delegation, a, principals, revoked, x.request,
                       x.request.action, x.request.amount, clock, MaxAge) = "Ok"
  BY DEF PresentApproval
<1>2. x \in Slot /\ x.state = "held" /\ Sound(x)
  BY <1>1 DEF Step, Inv
<1>3. AsGranted(x) /\ x.login \in Logins /\ x.request \in Requests
  BY <1>2 DEF Sound, Active
<1>4. x.delegation \in PresentedDelegations
  BY <1>3 DEF AsGranted, PresentedDelegations, CopiesOf
<1>5. /\ a \in Approvals /\ MadeBy(x.delegation.principal_key, a)
      /\ a.signature = Sign(a.principal_key, "AUTH_APPROVAL_V1", ApprovalInput(a))
      /\ Approves(a, x.delegation, x.request, x.request.action, x.request.amount)
      /\ {x.delegation.principal_key, x.delegation.delegate_key} \cap revoked = {}
      /\ x.delegation.not_before <= clock /\ clock < x.delegation.expires_at
  <2>1. clock \in Nat
    BY RelyingPartyAssumption, ProofAssumption DEF Inv, Time
  <2>2. QED
    BY <1>1, <1>4, <2>1, Approved
<1>6. /\ new.state = "approving" /\ new.approval = a /\ new.knew = revoked
      /\ new.checked_at = clock
      /\ new.login = x.login /\ new.request = x.request
      /\ new.delegation = x.delegation
  BY <1>2 DEF Slot
<1>7. AsGranted(new) /\ AsSigned(new)
  BY <1>3, <1>5, <1>6 DEF AsGranted, AsSigned, Approves
<1>8. new \in Slot
  BY <1>2 DEF Slot, State, Inv
<1>9. Sound(new)
  BY <1>3, <1>6, <1>7, <1>8 DEF Sound
<1>10. QED
  BY <1>1, <1>9, StepOfOne

(* ClaimApproval.                                                          *)
LEMMA ClaimSound ==
  ASSUME Inv, NEW r \in Slots, ClaimApproval(r) PROVE Inv'
<1>1. slot[r] \in Slot /\ slot[r].state = "approving" /\ Sound(slot[r])
  BY DEF ClaimApproval, Inv
<1>2. AsGranted(slot[r]) /\ AsSigned(slot[r])
      /\ slot[r].login \in Logins /\ slot[r].request \in Requests
  BY <1>1 DEF Sound, Active
<1>3. CASE Step(r, "approving",
                [slot[r] EXCEPT !.state = "held", !.approval = None])
  <2> DEFINE new == [slot[r] EXCEPT !.state = "held", !.approval = None]
  <2>1. /\ new.state = "held" /\ new.approval = None /\ new.knew = slot[r].knew
        /\ new.checked_at = slot[r].checked_at
        /\ new.login = slot[r].login /\ new.request = slot[r].request
        /\ new.delegation = slot[r].delegation
    BY <1>1 DEF Slot
  <2>2. new \in Slot
    BY <1>1 DEF Slot, State
  <2>3. AsGranted(new)
    BY <1>2, <2>1 DEF AsGranted
  <2>4. Sound(new)
    BY <1>2, <2>1, <2>2, <2>3 DEF Sound
  <2>5. QED
    BY <1>3, <2>4, StepOfOne
<1>4. CASE Step(r, "approving", To(r, "authorised"))
  <2> DEFINE new == To(r, "authorised")
  <2>1. /\ new.state = "authorised" /\ new.approval = slot[r].approval
        /\ new.login = slot[r].login /\ new.request = slot[r].request
        /\ new.delegation = slot[r].delegation /\ new.knew = slot[r].knew
        /\ new.checked_at = slot[r].checked_at
    BY <1>1 DEF Slot, To
  <2>2. new \in Slot
    BY <1>1 DEF Slot, State, To
  <2>3. AsGranted(new) /\ AsSigned(new)
    BY <1>2, <2>1 DEF AsGranted, AsSigned
  <2>4. Sound(new)
    BY <1>2, <2>1, <2>2, <2>3 DEF Sound
  <2>5. QED
    BY <1>4, <2>4, StepOfOne
<1>5. QED
  BY <1>3, <1>4 DEF ClaimApproval

(* Perform.                                                                *)
LEMMA PerformSound ==
  ASSUME Inv, NEW r \in Slots, Perform(r) PROVE Inv'
<1>1. slot[r] \in Slot /\ slot[r].state = "authorised" /\ Sound(slot[r])
  BY DEF Perform, Inv
<1>2. CASE Step(r, "authorised", Refused(r))
  BY <1>2, RefusedSound, StepOfOne
<1>3. CASE Step(r, "authorised",
                [slot[r] EXCEPT !.state = "performed", !.at = clock])
  <2> DEFINE new == [slot[r] EXCEPT !.state = "performed", !.at = clock]
  <2>1. /\ new.state = "performed" /\ new.approval = slot[r].approval
        /\ new.login = slot[r].login /\ new.request = slot[r].request
        /\ new.delegation = slot[r].delegation /\ new.knew = slot[r].knew
        /\ new.checked_at = slot[r].checked_at
    BY <1>1 DEF Slot
  <2>2. new \in Slot
    BY <1>1 DEF Slot, State, Inv
  <2>3. AsGranted(slot[r]) => AsGranted(new)
    BY <2>1 DEF AsGranted
  <2>4. AsSigned(slot[r]) => AsSigned(new)
    BY <2>1 DEF AsSigned
  <2>5. Sound(new)
    BY <1>1, <2>1, <2>2, <2>3, <2>4 DEF Sound, Active
  <2>6. QED
    BY <1>3, <2>5, StepOfOne
<1>4. QED
  BY <1>2, <1>3 DEF Perform

(* A clock that moves on makes no request unsound.                         *)
LEMMA TickSound == ASSUME Inv, Tick PROVE Inv'
<1>1. clock' \in 0..MaxClock
  BY RelyingPartyAssumption, ProofAssumption DEF Inv, Tick, Time
<1>2. \A r \in Slots : Sound(slot'[r])
  BY DEF Inv, Tick
<1>3. QED
  BY <1>1, <1>2 DEF Inv, Tick

(* verify_revocation passes only what the holder or an authority signed,   *)
(* and no more is about than was sent.                                     *)
LEMMA RevocationVerified ==
  ASSUME Inv, NEW s \in Presentable(RevocationCopies),
         VerifyRevocation(s, Authorities) = "Ok"
  PROVE  /\ s \in sent \cap Revocations /\ s.subject_key \in PublicKeys
         /\ MadeBy(s.signer_key, s) /\ Entitled(s, Authorities)
<1>1. /\ s \in RevocationCopies /\ s.subject_key # NoKey
      /\ s.signature # NoSignature /\ Entitled(s, Authorities)
      /\ CheckSigned(s.signer_key, "AUTH_REVOCATION_V1", RevocationInput(s),
                     s.signature) = "Ok"
  BY DEF Presentable, VerifyRevocation
<1>2. /\ s.signature # Undecodable
      /\ s.signature = Sign(s.signer_key, "AUTH_REVOCATION_V1", RevocationInput(s))
  BY <1>1 DEF CheckSigned
<1>3. s \in Revocations
  BY <1>1, <1>2, GenuineRevocation
<1>4. s \in sent
  BY <1>3 DEF Presentable
<1>5. MadeBy(s.signer_key, s)
  BY <1>1, <1>2 DEF MadeBy, Sign
<1>6. s.subject_key \in PublicKeys
  BY <1>1, RevocationsAlike DEF RevocationRecord
<1>7. QED
  BY <1>1, <1>3, <1>4, <1>5, <1>6

(* verify_succession passes only what the outgoing key signed.             *)
LEMMA SuccessionVerified ==
  ASSUME Inv, NEW s \in Presentable(SuccessionCopies), VerifySuccession(s) = "Ok"
  PROVE  /\ s \in sent \cap Successions /\ MadeBy(s.from_key, s)
         /\ s.from_key \in PublicKeys /\ s.to_key \in PublicKeys
         /\ s.from_key # s.to_key
<1>1. /\ s \in SuccessionCopies /\ s.from_key # NoKey /\ s.to_key # NoKey
      /\ s.signature # NoSignature /\ s.from_key # s.to_key
      /\ CheckSigned(s.from_key, "AUTH_SUCCESSION_V1", SuccessionInput(s),
                     s.signature) = "Ok"
  BY DEF Presentable, VerifySuccession
<1>2. /\ s.signature # Undecodable
      /\ s.signature = Sign(s.from_key, "AUTH_SUCCESSION_V1", SuccessionInput(s))
  BY <1>1 DEF CheckSigned
<1>3. s \in Successions
  BY <1>1, <1>2, GenuineSuccession
<1>4. s \in sent
  BY <1>3 DEF Presentable
<1>5. MadeBy(s.from_key, s)
  BY <1>1, <1>2 DEF MadeBy, Sign
<1>6. s.from_key \in PublicKeys /\ s.to_key \in PublicKeys
  BY <1>1, SuccessionsAlike DEF SuccessionRecord
<1>7. QED
  BY <1>1, <1>3, <1>4, <1>5, <1>6

(* Revocations and successions reach no request.                           *)
LEMMA KeysSound ==
  ASSUME Inv,
         \/ \E s \in Revocations \cup Successions : Send(s)
         \/ \E s \in Presentable(RevocationCopies) : ProcessRevocation(s)
         \/ \E s \in Presentable(SuccessionCopies) : ProcessSuccession(s)
  PROVE  Inv'
<1>1. CASE \E s \in Revocations \cup Successions : Send(s)
  BY <1>1 DEF Send, Inv
<1>2. CASE \E s \in Presentable(RevocationCopies) : ProcessRevocation(s)
  <2>1. PICK s \in Presentable(RevocationCopies) : ProcessRevocation(s)
    BY <1>2
  <2>2. s.subject_key \in PublicKeys
    BY <2>1, RevocationVerified DEF ProcessRevocation
  <2>3. QED
    BY <2>1, <2>2 DEF ProcessRevocation, Inv
<1>3. CASE \E s \in Presentable(SuccessionCopies) : ProcessSuccession(s)
  <2>1. PICK s \in Presentable(SuccessionCopies) : ProcessSuccession(s)
    BY <1>3
  <2>2. s.from_key \in PublicKeys /\ s.to_key \in PublicKeys
    BY <2>1, SuccessionVerified DEF ProcessSuccession
  <2>3. QED
    BY <2>1, <2>2 DEF ProcessSuccession, RetiredKey, Inv
<1>4. QED
  BY <1>1, <1>2, <1>3

(* Every step keeps every request sound.                                   *)
LEMMA StepSound == Inv /\ [Next]_vars => Inv'
<1>1. SUFFICES ASSUME Inv, [Next]_vars PROVE Inv'
  OBVIOUS
<1>2. ASSUME NEW r \in Slots,
             \/ \E login \in Logins, request \in Requests : Receive(r, login, request)
             \/ Proceed(r)
             \/ \E a \in PresentedApprovals : PresentApproval(r, a)
             \/ Abandon(r)
      PROVE  Inv'
  <2>1. CASE \E login \in Logins, request \in Requests : Receive(r, login, request)
    BY <1>1, <2>1, ReceiveSound
  <2>2. CASE Authenticate(r)
    BY <1>1, <2>2, AuthenticateSound
  <2>3. CASE Deny(r)
    BY <1>1, <2>3, RefusedSound, StepOfOne DEF Deny
  <2>4. CASE \E d \in PresentedDelegations : Allow(r, d)
    BY <1>1, <2>4, AllowSound
  <2>5. CASE ClaimApproval(r)
    BY <1>1, <2>5, ClaimSound
  <2>6. CASE Perform(r)
    BY <1>1, <2>6, PerformSound
  <2>7. CASE \E a \in PresentedApprovals : PresentApproval(r, a)
    BY <1>1, <2>7, PresentSound
  <2>8. CASE Abandon(r)
    BY <1>1, <2>8, RefusedSound, StepOfOne DEF Abandon
  <2>9. QED
    BY <1>2, <2>1, <2>2, <2>3, <2>4, <2>5, <2>6, <2>7, <2>8 DEF Proceed
<1>3. CASE UNCHANGED vars
  BY <1>1, <1>3 DEF Inv, vars
<1>4. CASE Tick
  BY <1>1, <1>4, TickSound
<1>5. QED
  BY <1>1, <1>2, <1>3, <1>4, KeysSound DEF Next

LEMMA AlwaysSound == Spec => []Inv
  BY InitSound, StepSound, PTL DEF Spec

(* Whoever presents what, a request goes on only within what the principal *)
(* granted in one statement (delegation.rs authorise): DelegatedAsGranted. *)
THEOREM DelegationHolds == Spec => []DelegatedAsGranted
<1>1. Inv => DelegatedAsGranted
  BY DEF Inv, Sound, DelegatedAsGranted, AsGranted, Granted
<1>2. QED
  BY <1>1, AlwaysSound, PTL

(* A request that needs its principal's approval goes on only with that    *)
(* approval, unaltered (approval.rs check_approval): ApprovedAsSigned.     *)
THEOREM ApprovalHolds == Spec => []ApprovedAsSigned
<1>1. Inv => ApprovedAsSigned
  BY DEF Inv, Sound, ApprovedAsSigned, AsSigned, Cleared
<1>2. QED
  BY <1>1, AlwaysSound, PTL

(* No request is granted on keys known to be revoked when it was last      *)
(* checked, the check at its approval included: RevokedKeysPassNoCheck.    *)
THEOREM RevocationHolds == Spec => []RevokedKeysPassNoCheck
<1>1. Inv => RevokedKeysPassNoCheck
  BY DEF Inv, Sound, RevokedKeysPassNoCheck, AsGranted, Granted
<1>2. QED
  BY <1>1, AlwaysSound, PTL

-----------------------------------------------------------------------------
(* Claims.                                                                 *)

NonceKeys == [purpose : {"AUTH_LOGIN_V1", "AUTH_APPROVAL_V1"},
              public_key : PublicKeys, nonce : ProofNonces]

HasApproval(x) == x.state \in {"authorised", "performed"} /\ x.approval # None

(* What a cleared request was approved with is claimed, for it alone.      *)
Claims ==
  /\ claimed \subseteq NonceKeys
  /\ \A r \in Slots : HasApproval(slot[r]) => ApprovalKey(slot[r].approval) \in claimed
  /\ \A r1, r2 \in Slots :
       r1 # r2 /\ HasApproval(slot[r1]) /\ HasApproval(slot[r2]) =>
         ApprovalKey(slot[r1].approval) # ApprovalKey(slot[r2].approval)

(* A step that clears no request with an approval.                         *)
LEMMA ClaimsOfOthers ==
  ASSUME Inv, Claims, NEW r \in Slots, NEW from, NEW new, Step(r, from, new),
         claimed \subseteq claimed', claimed' \subseteq NonceKeys,
         HasApproval(new) =>
           HasApproval(slot[r]) /\ new.approval = slot[r].approval
  PROVE  Claims'
<1>1. \A s \in Slots : slot'[s] = IF s = r THEN new ELSE slot[s]
  BY DEF Step, Inv
<1>2. \A s \in Slots : HasApproval(slot'[s]) =>
        HasApproval(slot[s]) /\ slot'[s].approval = slot[s].approval
  BY <1>1
<1>3. QED
  BY <1>2 DEF Claims

(* The keys under which logins and approvals are claimed.                  *)
LEMMA KeyOfLogin ==
  ASSUME Inv, NEW r \in Slots, slot[r].state = "authenticating"
  PROVE  LoginKey(slot[r].login) \in NonceKeys
<1>1. slot[r].login \in ProofRecord
  BY RelyingPartyAssumption DEF Inv, Sound, Active
<1>2. slot[r].login.public_key \in PublicKeys /\ slot[r].login.nonce \in ProofNonces
  BY <1>1 DEF ProofRecord
<1>3. QED
  BY <1>2 DEF LoginKey, NonceKey, NonceKeys

LEMMA KeyOfApproval ==
  ASSUME Inv, NEW r \in Slots, slot[r].state = "approving"
  PROVE  ApprovalKey(slot[r].approval) \in NonceKeys
<1> DEFINE a == slot[r].approval
<1>1. AsGranted(slot[r]) /\ AsSigned(slot[r])
  BY DEF Inv, Sound
<1>2. a.principal_key = slot[r].delegation.principal_key
  BY <1>1 DEF AsSigned, MadeBy, Sign
<1>3. a.principal_key \in PublicKeys
  BY <1>1, <1>2 DEF AsGranted
<1>4. a \in ApprovalRecord(Ids, Signatures)
  BY <1>1, StatementsAsMade DEF AsSigned, Ids
<1>5. a.nonce \in ProofNonces
  BY <1>4 DEF ApprovalRecord
<1>6. QED
  BY <1>3, <1>5 DEF ApprovalKey, NonceKey, NonceKeys

LEMMA ClaimsInit == Init => Claims
  BY DEF Init, Claims, Free, HasApproval

(* The store's answer decides: the request is cleared only if nothing was  *)
(* cleared under the same key.                                             *)
LEMMA ClaimsOfApproval ==
  ASSUME Inv, Claims, NEW r \in Slots, ClaimApproval(r) PROVE Claims'
<1> DEFINE key == ApprovalKey(slot[r].approval)
<1>1. slot[r] \in Slot /\ slot[r].state = "approving" /\ key \in NonceKeys
  BY KeyOfApproval DEF ClaimApproval, Inv
<1>2. claimed' = claimed \cup {key} /\ claimed' \subseteq NonceKeys
  BY <1>1 DEF ClaimApproval, Claims
<1>3. CASE key \in claimed
  <2> DEFINE new == [slot[r] EXCEPT !.state = "held", !.approval = None]
  <2>1. Step(r, "approving", new)
    BY <1>3 DEF ClaimApproval
  <2>2. ~HasApproval(new)
    BY <1>1 DEF Slot, HasApproval
  <2>3. QED
    BY <1>2, <2>1, <2>2, ClaimsOfOthers
<1>4. CASE key \notin claimed
  <2> DEFINE new == To(r, "authorised")
  <2>1. Step(r, "approving", new)
    BY <1>4 DEF ClaimApproval
  <2>2. \A s \in Slots : slot'[s] = IF s = r THEN new ELSE slot[s]
    BY <2>1 DEF Step, Inv
  <2>3. new.approval = slot[r].approval
    BY <1>1 DEF Slot, To
  <2>4. ASSUME NEW s \in Slots, s # r, HasApproval(slot'[s])
        PROVE  /\ ApprovalKey(slot'[s].approval) \in claimed
               /\ ApprovalKey(slot'[s].approval) # key
    BY <1>4, <2>2, <2>4 DEF Claims
  <2>5. ApprovalKey(slot'[r].approval) = key
    BY <2>2, <2>3
  <2>6. \A s \in Slots : HasApproval(slot'[s]) =>
          ApprovalKey(slot'[s].approval) \in claimed'
    BY <1>2, <2>4, <2>5
  <2>7. ASSUME NEW r1 \in Slots, NEW r2 \in Slots, r1 # r2,
               HasApproval(slot'[r1]), HasApproval(slot'[r2])
        PROVE  ApprovalKey(slot'[r1].approval) # ApprovalKey(slot'[r2].approval)
    <3>1. CASE r1 = r
      BY <2>4, <2>5, <2>7, <3>1
    <3>2. CASE r2 = r
      BY <2>4, <2>5, <2>7, <3>2
    <3>3. CASE r1 # r /\ r2 # r
      <4>1. slot'[r1] = slot[r1] /\ slot'[r2] = slot[r2]
        BY <2>2, <3>3
      <4>2. QED
        BY <2>7, <4>1 DEF Claims
    <3>4. QED
      BY <3>1, <3>2, <3>3
  <2>8. QED
    BY <1>2, <2>6, <2>7 DEF Claims
<1>5. QED
  BY <1>3, <1>4

LEMMA ClaimsStep == Inv /\ Claims /\ [Next]_vars => Claims'
<1>1. SUFFICES ASSUME Inv, Claims, [Next]_vars PROVE Claims'
  OBVIOUS
<1>2. \A r \in Slots : slot[r] \in Slot /\ ~HasApproval(Refused(r))
  <2>1. \A r \in Slots : slot[r] \in Slot
    BY <1>1 DEF Inv
  <2>2. \A r \in Slots : Refused(r).state = "refused"
    <3>1. Free \in Slot
      BY RelyingPartyAssumption, ProofAssumption DEF Free, Slot, State, Time
    <3>2. QED
      BY <3>1 DEF Refused, Slot
  <2>3. QED
    BY <2>1, <2>2 DEF HasApproval
<1>3. ASSUME NEW r \in Slots,
             \/ \E login \in Logins, request \in Requests : Receive(r, login, request)
             \/ Proceed(r)
             \/ \E a \in PresentedApprovals : PresentApproval(r, a)
             \/ Abandon(r)
      PROVE  Claims'
  <2>1. CASE \E login \in Logins, request \in Requests : Receive(r, login, request)
    <3>1. PICK login \in Logins, request \in Requests : Receive(r, login, request)
      BY <2>1
    <3> DEFINE new == [Free EXCEPT !.state = "authenticating", !.login = login,
                                  !.request = request]
    <3>2. Step(r, "free", new) /\ claimed' = claimed
      BY <3>1 DEF Receive
    <3>3. ~HasApproval(new)
      BY DEF Free, HasApproval
    <3>4. QED
      BY <1>1, <3>2, <3>3, ClaimsOfOthers DEF Claims
  <2>2. CASE Authenticate(r)
    <3>1. /\ slot[r].state = "authenticating"
          /\ claimed' = claimed \cup {LoginKey(slot[r].login)}
      BY <2>2 DEF Authenticate
    <3>2. LoginKey(slot[r].login) \in NonceKeys
      BY <1>1, <3>1, KeyOfLogin
    <3>3. ~HasApproval(To(r, "authenticated"))
      BY <1>2 DEF To, Slot, HasApproval
    <3>4. \/ Step(r, "authenticating", Refused(r))
          \/ Step(r, "authenticating", To(r, "authenticated"))
      BY <2>2 DEF Authenticate
    <3>5. claimed \subseteq claimed' /\ claimed' \subseteq NonceKeys
      BY <1>1, <3>1, <3>2 DEF Claims
    <3>6. QED
      BY <1>1, <1>2, <3>3, <3>4, <3>5, ClaimsOfOthers
  <2>3. CASE Deny(r)
    BY <1>1, <1>2, <2>3, ClaimsOfOthers DEF Deny, Claims
  <2>4. CASE \E d \in PresentedDelegations : Allow(r, d)
    <3>1. PICK d \in PresentedDelegations : Allow(r, d)
      BY <2>4
    <3> DEFINE new ==
          [slot[r] EXCEPT !.delegation = d, !.knew = revoked, !.checked_at = clock,
             !.state = IF RemainingObligations(d, slot[r].request.amount)
                            .human_approval_required
                       THEN "held" ELSE "authorised"]
    <3>2. Step(r, "authenticated", new) /\ claimed' = claimed
      BY <3>1 DEF Allow
    <3>3. slot[r].approval = None
      BY <1>1, <3>2 DEF Inv, Sound, Step
    <3>4. new.approval = None
      BY <1>2, <3>3 DEF Slot
    <3>5. ~HasApproval(new)
      BY <3>4 DEF HasApproval
    <3>6. QED
      BY <1>1, <3>2, <3>5, ClaimsOfOthers DEF Claims
  <2>5. CASE ClaimApproval(r)
    BY <1>1, <2>5, ClaimsOfApproval
  <2>6. CASE Perform(r)
    <3> DEFINE new == [slot[r] EXCEPT !.state = "performed", !.at = clock]
    <3>1. /\ slot[r].state = "authorised" /\ claimed' = claimed
          /\ Step(r, "authorised", new) \/ Step(r, "authorised", Refused(r))
      BY <2>6 DEF Perform
    <3>2. new.approval = slot[r].approval
      BY <1>2 DEF Slot
    <3>3. HasApproval(new) => HasApproval(slot[r])
      BY <3>1, <3>2 DEF HasApproval
    <3>4. QED
      BY <1>1, <1>2, <3>1, <3>2, <3>3, ClaimsOfOthers DEF Claims
  <2>7. CASE \E a \in PresentedApprovals : PresentApproval(r, a)
    <3>1. PICK a \in PresentedApprovals : PresentApproval(r, a)
      BY <2>7
    <3> DEFINE new == [slot[r] EXCEPT !.state = "approving", !.approval = a,
                                     !.knew = revoked, !.checked_at = clock]
    <3>2. Step(r, "held", new) /\ claimed' = claimed
      BY <3>1 DEF PresentApproval
    <3>3. ~HasApproval(new)
      BY <1>2 DEF Slot, HasApproval
    <3>4. QED
      BY <1>1, <3>2, <3>3, ClaimsOfOthers DEF Claims
  <2>8. CASE Abandon(r)
    <3>1. Step(r, slot[r].state, Refused(r))
      BY <2>8 DEF Abandon
    <3>2. \/ claimed' = claimed
          \/ /\ slot[r].state = "authenticating"
             /\ claimed' = claimed \cup {LoginKey(slot[r].login)}
          \/ /\ slot[r].state = "approving"
             /\ claimed' = claimed \cup {ApprovalKey(slot[r].approval)}
      BY <2>8 DEF Abandon
    <3>3. claimed \subseteq claimed' /\ claimed' \subseteq NonceKeys
      BY <1>1, <3>2, KeyOfLogin, KeyOfApproval DEF Claims
    <3>4. QED
      BY <1>1, <1>2, <3>1, <3>3, ClaimsOfOthers
  <2>9. QED
    BY <1>3, <2>1, <2>2, <2>3, <2>4, <2>5, <2>6, <2>7, <2>8 DEF Proceed
<1>4. CASE \/ UNCHANGED vars
           \/ Tick
           \/ \E s \in Revocations \cup Successions : Send(s)
           \/ \E s \in Presentable(RevocationCopies) : ProcessRevocation(s)
           \/ \E s \in Presentable(SuccessionCopies) : ProcessSuccession(s)
  <2>1. slot' = slot /\ claimed' = claimed
    BY <1>4 DEF vars, Tick, Send, ProcessRevocation, ProcessSuccession
  <2>2. QED
    BY <1>1, <2>1 DEF Claims
<1>5. QED
  BY <1>1, <1>3, <1>4 DEF Next

LEMMA AlwaysClaimed == Spec => []Claims
  BY InitSound, StepSound, ClaimsInit, ClaimsStep, PTL DEF Spec

(* The types of the variables (RelyingParty): TypeOK.                      *)
THEOREM TypeCorrect == Spec => []TypeOK
<1>1. Inv /\ Claims => TypeOK
  BY DEF Inv, Claims, NonceKeys, TypeOK
<1>2. QED
  BY <1>1, AlwaysSound, AlwaysClaimed, PTL

(* One signature of the principal clears one request, whatever overlaps at *)
(* the store (approval.rs check_approval): OneApprovalOneRequest.          *)
THEOREM ApprovalServesOnce == Spec => []OneApprovalOneRequest
<1>1. Inv /\ Claims => OneApprovalOneRequest
  <2>1. SUFFICES ASSUME Inv, Claims, NEW r1 \in Slots, NEW r2 \in Slots, r1 # r2,
                        Cleared(r1), Cleared(r2),
                        slot[r1].approval # None, slot[r2].approval # None,
                        slot[r1].approval.signature = slot[r2].approval.signature
                 PROVE  FALSE
    BY DEF OneApprovalOneRequest
  <2>2. HasApproval(slot[r1]) /\ HasApproval(slot[r2])
    BY <2>1 DEF Cleared, HasApproval
  <2>3. AsSigned(slot[r1]) /\ AsSigned(slot[r2])
    BY <2>1, <2>2 DEF Inv, Sound, Cleared
  <2>4. /\ slot[r1].approval.principal_key = slot[r2].approval.principal_key
        /\ ApprovalInput(slot[r1].approval) = ApprovalInput(slot[r2].approval)
    <3> DEFINE SignatureOf(a) ==
                 Sign(a.principal_key, "AUTH_APPROVAL_V1", ApprovalInput(a))
    <3>1. SignatureOf(slot[r1].approval) = SignatureOf(slot[r2].approval)
      BY <2>1, <2>3 DEF AsSigned
    <3>2. \A k1, k2, p, i1, i2 : Sign(k1, p, i1) = Sign(k2, p, i2) => k1 = k2 /\ i1 = i2
      BY DEF Sign
    <3>3. QED
      BY <3>1, <3>2
  <2>5. ApprovalKey(slot[r1].approval) = ApprovalKey(slot[r2].approval)
    BY <2>4 DEF ApprovalInput, ApprovalKey, NonceKey
  <2>6. QED
    BY <2>1, <2>2, <2>5 DEF Claims
<1>2. QED
  BY <1>1, AlwaysSound, AlwaysClaimed, PTL

-----------------------------------------------------------------------------
(* Keys.                                                                   *)

(* What has been sent stays about, and no key is revoked but by it.        *)
LEMMA RevokedStep == Inv /\ RevokedByEntitled /\ [Next]_vars => RevokedByEntitled'
<1>1. SUFFICES ASSUME Inv, RevokedByEntitled, [Next]_vars,
                      NEW k \in revoked'
               PROVE  \/ \E s \in (sent \cap Revocations)' :
                           /\ s.subject_key = k
                           /\ \/ MadeBy(k, s)
                              \/ \E authority \in Authorities : MadeBy(authority, s)
                      \/ \E s \in (sent \cap Successions)' :
                           s.from_key = k /\ MadeBy(k, s)
  BY DEF RevokedByEntitled
<1>2. sent \subseteq sent'
  BY <1>1 DEF Next, vars, Proceed, Receive, Authenticate, Allow, Deny,
     PresentApproval, ClaimApproval, Abandon, Perform, Step, Send,
     ProcessRevocation, ProcessSuccession, Tick
<1>3. CASE k \in revoked
  BY <1>1, <1>2, <1>3 DEF RevokedByEntitled
<1>4. CASE k \notin revoked
  <2>1. \/ \E s \in Presentable(RevocationCopies) : ProcessRevocation(s)
        \/ \E s \in Presentable(SuccessionCopies) : ProcessSuccession(s)
    BY <1>1, <1>4 DEF Next, vars, Proceed, Receive, Authenticate, Allow, Deny,
       PresentApproval, ClaimApproval, Abandon, Perform, Step, Send, Tick
  <2>2. CASE \E s \in Presentable(RevocationCopies) : ProcessRevocation(s)
    <3>1. PICK s \in Presentable(RevocationCopies) : ProcessRevocation(s)
      BY <2>2
    <3>2. k = s.subject_key /\ VerifyRevocation(s, Authorities) = "Ok"
      BY <1>4, <3>1 DEF ProcessRevocation
    <3>3. /\ s \in sent \cap Revocations /\ MadeBy(s.signer_key, s)
          /\ Entitled(s, Authorities)
      BY <1>1, <3>2, RevocationVerified
    <3>4. MadeBy(k, s) \/ \E authority \in Authorities : MadeBy(authority, s)
      BY <3>2, <3>3 DEF Entitled
    <3>5. QED
      BY <1>2, <3>2, <3>3, <3>4
  <2>3. CASE \E s \in Presentable(SuccessionCopies) : ProcessSuccession(s)
    <3>1. PICK s \in Presentable(SuccessionCopies) : ProcessSuccession(s)
      BY <2>3
    <3>2. k = s.from_key /\ VerifySuccession(s) = "Ok"
      BY <1>4, <3>1 DEF ProcessSuccession, RetiredKey
    <3>3. s \in sent \cap Successions /\ MadeBy(s.from_key, s)
      BY <1>1, <3>2, SuccessionVerified
    <3>4. QED
      BY <1>2, <3>2, <3>3
  <2>4. QED
    BY <2>1, <2>2, <2>3
<1>5. QED
  BY <1>3, <1>4

(* A key ends only by its holder, by an authority or by its own succession *)
(* (statements.rs verify_revocation, verify_succession): RevokedByEntitled.*)
THEOREM KeysEndByEntitled == Spec => []RevokedByEntitled
<1>1. Init => RevokedByEntitled
  BY DEF Init, RevokedByEntitled
<1>2. QED
  BY <1>1, RevokedStep, AlwaysSound, PTL DEF Spec

(* Every account is of a key that was enrolled or that a succession named, *)
(* and there are no more of them than there were.                          *)
Accounts == IsFiniteSet(principals) /\ AccountsMoveBySuccession

LEMMA AccountsInit == Init => Accounts
<1>1. ASSUME Init PROVE principals = Enrolled
  BY <1>1 DEF Init
<1>2. QED
  <2>1. SUFFICES ASSUME Init PROVE Accounts
    OBVIOUS
  <2>2. IsFiniteSet(Enrolled) /\ principals = Enrolled
    BY <1>1, <2>1, RelyingPartyAssumption
  <2>3. Cardinality(Enrolled) \in Nat
    BY <2>2, FS_CardinalityType
  <2>4. QED
    BY <2>2, <2>3 DEF Accounts, AccountsMoveBySuccession

(* Who still has an account moves it: one goes, one comes.                 *)
LEMMA AccountsOfSuccession ==
  ASSUME Inv, Accounts, NEW s \in Presentable(SuccessionCopies), ProcessSuccession(s)
  PROVE  Accounts'
<1> DEFINE moved == (principals \ {s.from_key}) \cup {s.to_key}
<1>1. /\ VerifySuccession(s) = "Ok" /\ sent' = sent
      /\ revoked' = revoked \cup {s.from_key}
      /\ principals' = IF s.from_key \in principals \ revoked THEN moved
                                                               ELSE principals
  BY DEF ProcessSuccession, RetiredKey
<1>2. s \in sent \cap Successions /\ MadeBy(s.from_key, s)
  BY <1>1, SuccessionVerified
<1>3. CASE s.from_key \notin principals \ revoked
  BY <1>1, <1>3 DEF Accounts, AccountsMoveBySuccession
<1>4. CASE s.from_key \in principals \ revoked
  <2>1. principals' = moved
    BY <1>1, <1>4
  <2>2. IsFiniteSet(principals) /\ Cardinality(principals) \in Nat
    BY FS_CardinalityType DEF Accounts
  <2>3. /\ IsFiniteSet(principals \ {s.from_key})
        /\ Cardinality(principals \ {s.from_key}) = Cardinality(principals) - 1
    BY <1>4, <2>2, FS_RemoveElement
  <2>4. IsFiniteSet(moved) /\ Cardinality(moved) <= Cardinality(principals)
    <3> DEFINE left == principals \ {s.from_key}
    <3>1. IsFiniteSet(left) /\ Cardinality(left) = Cardinality(principals) - 1
      BY <2>3
    <3>2. /\ IsFiniteSet(left \cup {s.to_key})
          /\ Cardinality(left \cup {s.to_key}) =
               IF s.to_key \in left THEN Cardinality(left) ELSE Cardinality(left) + 1
      <4> HIDE DEF left
      <4>1. QED
        BY <3>1, FS_AddElement
    <3>3. QED
      BY <2>2, <3>1, <3>2
  <2>5. Cardinality(Enrolled) \in Nat
    BY RelyingPartyAssumption, FS_CardinalityType
  <2>6. IsFiniteSet(principals') /\ Cardinality(principals') <= Cardinality(Enrolled)
    <3>1. Cardinality(moved) \in Nat
      BY <2>4, FS_CardinalityType
    <3>2. Cardinality(principals) <= Cardinality(Enrolled)
      BY DEF Accounts, AccountsMoveBySuccession
    <3>3. QED
      BY <2>1, <2>2, <2>4, <2>5, <3>1, <3>2
  <2>7. s.from_key \in Enrolled \cup {t.to_key : t \in sent \cap Successions}
    BY <1>4 DEF Accounts, AccountsMoveBySuccession
  <2>8. ASSUME NEW k \in principals' \ Enrolled
        PROVE  \E t \in sent' \cap Successions :
                 /\ t.to_key = k /\ MadeBy(t.from_key, t)
                 /\ t.from_key \in revoked'
                 /\ t.from_key \in Enrolled \cup {u.to_key : u \in sent' \cap Successions}
    <3>1. CASE k = s.to_key
      BY <1>1, <1>2, <2>7, <3>1
    <3>2. CASE k \in principals
      <4>1. PICK t \in sent \cap Successions :
              /\ t.to_key = k /\ MadeBy(t.from_key, t)
              /\ t.from_key \in revoked
              /\ t.from_key \in Enrolled \cup {u.to_key : u \in sent \cap Successions}
        BY <2>8, <3>2 DEF Accounts, AccountsMoveBySuccession
      <4>2. QED
        BY <1>1, <4>1
    <3>3. QED
      BY <2>1, <2>8, <3>1, <3>2
  <2>9. QED
    BY <2>6, <2>8 DEF Accounts, AccountsMoveBySuccession
<1>5. QED
  BY <1>3, <1>4

LEMMA AccountsStep == Inv /\ Accounts /\ [Next]_vars => Accounts'
<1>1. SUFFICES ASSUME Inv, Accounts, [Next]_vars PROVE Accounts'
  OBVIOUS
<1>2. CASE \E s \in Presentable(SuccessionCopies) : ProcessSuccession(s)
  BY <1>1, <1>2, AccountsOfSuccession
<1>3. CASE ~\E s \in Presentable(SuccessionCopies) : ProcessSuccession(s)
  <2>1. sent \subseteq sent' /\ revoked \subseteq revoked' /\ principals' = principals
    BY <1>1, <1>3 DEF Next, vars, Proceed, Receive, Authenticate, Allow, Deny,
       PresentApproval, ClaimApproval, Abandon, Perform, Step, Send,
       ProcessRevocation, Tick
  <2>2. ASSUME NEW k \in principals \ Enrolled
        PROVE  \E s \in sent' \cap Successions :
                 /\ s.to_key = k /\ MadeBy(s.from_key, s)
                 /\ s.from_key \in revoked'
                 /\ s.from_key \in Enrolled \cup {t.to_key : t \in sent' \cap Successions}
    <3>1. PICK s \in sent \cap Successions :
            /\ s.to_key = k /\ MadeBy(s.from_key, s)
            /\ s.from_key \in revoked
            /\ s.from_key \in Enrolled \cup {t.to_key : t \in sent \cap Successions}
      BY <1>1, <2>2 DEF Accounts, AccountsMoveBySuccession
    <3>2. QED
      BY <2>1, <3>1
  <2>3. QED
    BY <1>1, <2>1, <2>2 DEF Accounts, AccountsMoveBySuccession
<1>4. QED
  BY <1>2, <1>3

(* Accounts go only where the outgoing key said, and none is multiplied    *)
(* (statements.rs verify_succession): AccountsMoveBySuccession.            *)
THEOREM AccountsFollow == Spec => []AccountsMoveBySuccession
<1>1. Accounts => AccountsMoveBySuccession
  BY DEF Accounts
<1>2. QED
  BY <1>1, AccountsInit, AccountsStep, AlwaysSound, InitSound, StepSound, PTL DEF Spec

(* An account moves on the word of its own key, and of no key that was     *)
(* revoked before (statements.rs verify_succession and retired_key):       *)
(* RevokedKeysMoveNothing.                                                 *)
THEOREM RevokedMoveNothing == Spec => RevokedKeysMoveNothing
<1> DEFINE Moved(s) ==
      /\ MadeBy(s.from_key, s)
      /\ s.from_key \in principals \ revoked /\ s.from_key \in revoked'
      /\ principals \ principals' \subseteq {s.from_key}
      /\ principals' \ principals \subseteq {s.to_key}
<1>1. Inv /\ [Next]_vars =>
        [principals' # principals => \E s \in sent \cap Successions : Moved(s)]_vars
  <2>1. SUFFICES ASSUME Inv, [Next]_vars, principals' # principals
                 PROVE  \E s \in sent \cap Successions : Moved(s)
    OBVIOUS
  <2>2. PICK s \in Presentable(SuccessionCopies) : ProcessSuccession(s)
    BY <2>1 DEF Next, vars, Proceed, Receive, Authenticate, Allow, Deny,
       PresentApproval, ClaimApproval, Abandon, Perform, Step, Send,
       ProcessRevocation, Tick
  <2>3. /\ VerifySuccession(s) = "Ok" /\ s.from_key \in principals \ revoked
        /\ revoked' = revoked \cup {s.from_key}
        /\ principals' = (principals \ {s.from_key}) \cup {s.to_key}
    BY <2>1, <2>2 DEF ProcessSuccession, RetiredKey
  <2>4. s \in sent \cap Successions /\ MadeBy(s.from_key, s)
    BY <2>1, <2>2, <2>3, SuccessionVerified
  <2>5. QED
    BY <2>3, <2>4
<1>2. QED
  BY <1>1, AlwaysSound, PTL DEF Spec, RevokedKeysMoveNothing

-----------------------------------------------------------------------------
(* The running total.                                                      *)

Done == {r \in Slots : slot[r].state = "performed"}

(* What the requests ask for, in numbers.                                  *)
Quantities(sl) ==
  [r \in Slots |-> IF sl[r].request.amount = None THEN 0 ELSE sl[r].request.amount]

(* The requests that CeilingKept adds up.                                  *)
Window(r) ==
  {r2 \in Slots :
     /\ slot[r2].state = "performed" /\ SameTerms(r, r2)
     /\ slot[r2].at <= slot[r].at
     /\ slot[r].delegation.bounds.window_secs # None =>
          slot[r].at < slot[r2].at + slot[r].delegation.bounds.window_secs}

(* A total of quantities is a sum over a finite set.                       *)
LEMMA QuantitySum ==
  ASSUME NEW S, S \subseteq Slots
  PROVE  MapThenSumSet(Quantity, S) = SumOf(Quantities(slot), S)
<1>1. MapThenSumSet(Quantity, S) = (CHOOSE it : it = [s \in SUBSET S |->
         IF s = {} THEN 0 ELSE Quantity(Pick(s)) + it[s \ {Pick(s)}]])[S]
  BY DEF MapThenSumSet, MapThenFoldSet, Pick
<1>2. \A s \in SUBSET S : s # {} => Quantities(slot)[Pick(s)] = Quantity(Pick(s))
  BY Picked DEF Quantities, Quantity
<1>3. ASSUME NEW it
      PROVE  [s \in SUBSET S |->
                IF s = {} THEN 0 ELSE Quantity(Pick(s)) + it[s \ {Pick(s)}]]
             = [s \in SUBSET S |->
                  IF s = {} THEN 0 ELSE Quantities(slot)[Pick(s)] + it[s \ {Pick(s)}]]
  BY <1>2
<1>4. (CHOOSE it : it = [s \in SUBSET S |->
         IF s = {} THEN 0 ELSE Quantity(Pick(s)) + it[s \ {Pick(s)}]])[S]
      = SumOf(Quantities(slot), S)
  BY <1>3 DEF SumOf, IsSum
<1>5. QED
  BY <1>1, <1>4

(* What is performed is finitely many requests, none of them dated in the  *)
(* future, and every one within the ceiling of its own delegation.         *)
Within(r) ==
  slot[r].delegation.bounds.max_total # None =>
    SumOf(Quantities(slot), Window(r)) <= slot[r].delegation.bounds.max_total

Totals ==
  /\ IsFiniteSet(Done)
  /\ \A r \in Done : slot[r].at <= clock /\ Within(r)

(* The numbers of a request that was granted.                              *)
LEMMA GrantedNumbers ==
  ASSUME Inv, NEW r \in Slots, slot[r].state \in {"authorised", "performed"}
  PROVE  /\ Quantities(slot)[r] \in Nat /\ slot[r].at \in Nat /\ clock \in Nat
         /\ AsGranted(slot[r]) /\ slot[r] \in Slot
         /\ slot[r].delegation.bounds.max_total \in Nat \cup {None}
         /\ slot[r].delegation.bounds.window_secs \in Nat \cup {None}
<1>1. /\ slot[r] \in Slot /\ slot[r].request \in Requests /\ AsGranted(slot[r])
      /\ clock \in Nat
  BY DEF Inv, Sound, Active
<1>2. slot[r].request.amount \in Nat \cup {None}
  BY <1>1, RelyingPartyAssumption, DelegationAssumption DEF Amount
<1>3. slot[r].delegation \in DelegationRecord(Signatures)
  BY <1>1, StatementsAsMade DEF AsGranted
<1>4. slot[r].delegation.bounds \in Bounds
  BY <1>3 DEF DelegationRecord
<1>5. slot[r].at \in Nat
  BY <1>1 DEF Slot
<1>6. QED
  BY <1>1, <1>2, <1>4, <1>5, DelegationAssumption, ProofAssumption
     DEF Quantities, Bounds, Amount, Time

(* Two granted delegations are on the same terms if and only if they have  *)
(* the same id: a principal has one signature for each terms.              *)
LEMMA TermsAreIds ==
  ASSUME Inv, NEW r1 \in Slots, NEW r2 \in Slots,
         AsGranted(slot[r1]), AsGranted(slot[r2])
  PROVE  /\ SameTerms(r1, r2) <=>
              DelegationId(slot[r1].delegation) = DelegationId(slot[r2].delegation)
         /\ SameTerms(r1, r2) =>
              slot[r1].delegation.bounds = slot[r2].delegation.bounds
<1> DEFINE d1 == slot[r1].delegation
           d2 == slot[r2].delegation
<1>1. /\ d1 \in Delegations /\ MadeBy(d1.principal_key, d1)
      /\ d2 \in Delegations /\ MadeBy(d2.principal_key, d2)
  BY DEF AsGranted
<1> HIDE DEF d1, d2
<1>2. /\ d1.signature = Sign(d1.principal_key, "AUTH_DELEGATION_V1", DelegationInput(d1))
      /\ d2.signature = Sign(d2.principal_key, "AUTH_DELEGATION_V1", DelegationInput(d2))
  BY <1>1, StatementsAsMade DEF MadeBy, SignedBy
<1>3. SameTerms(r1, r2) <=> /\ d1.principal_key = d2.principal_key
                           /\ DelegationInput(d1) = DelegationInput(d2)
  BY DEF SameTerms, d1, d2
<1>4. DelegationId(d1) = DelegationId(d2) <=>
        /\ d1.principal_key = d2.principal_key
        /\ DelegationInput(d1) = DelegationInput(d2)
        /\ d1.signature = d2.signature
  BY DEF DelegationId
<1>5. DelegationInput(d1) = DelegationInput(d2) => d1.bounds = d2.bounds
  BY DEF DelegationInput
<1>6. QED
  BY <1>2, <1>3, <1>4, <1>5 DEF d1, d2

(* A request is performed by one step only, and stays as it was.           *)
Others ==
  /\ Done' = Done /\ \A r \in Done : slot'[r] = slot[r]
  /\ clock' \in Nat /\ clock' >= clock

LEMMA OtherStep ==
  ASSUME Inv, NEW r \in Slots, NEW from, NEW new, Step(r, from, new),
         from # "performed", new.state # "performed"
  PROVE  Others
<1>1. /\ \A s \in Slots : slot'[s] = IF s = r THEN new ELSE slot[s]
      /\ slot[r].state = from /\ clock' = clock /\ clock \in Nat
  BY DEF Step, Inv
<1>2. Done' = Done
  BY <1>1 DEF Done
<1>3. \A s \in Done : slot'[s] = slot[s]
  BY <1>1 DEF Done
<1>4. QED
  BY <1>1, <1>2, <1>3 DEF Others

Performs(r) ==
  LET d == slot[r].delegation
  IN  /\ Step(r, "authorised", [slot[r] EXCEPT !.state = "performed", !.at = clock])
      /\ \/ d.bounds.max_total = None
         \/ MapThenSumSet(Quantity, Counted(d, d.bounds.window_secs)) + Quantity(r)
              <= d.bounds.max_total

LEMMA DoneCases ==
  ASSUME Inv, [Next]_vars PROVE Others \/ \E r \in Slots : Performs(r)
<1>1. \A r \in Slots : slot[r] \in Slot /\ Refused(r).state = "refused"
  <2>1. Free \in Slot
    BY RelyingPartyAssumption, ProofAssumption DEF Free, Slot, State, Time
  <2>2. QED
    BY <2>1 DEF Refused, Slot, Inv
<1>2. ASSUME NEW r \in Slots,
             \/ \E login \in Logins, request \in Requests : Receive(r, login, request)
             \/ Proceed(r)
             \/ \E a \in PresentedApprovals : PresentApproval(r, a)
             \/ Abandon(r)
      PROVE  Others \/ Performs(r)
  <2>1. CASE \E login \in Logins, request \in Requests : Receive(r, login, request)
    <3>1. PICK login \in Logins, request \in Requests : Receive(r, login, request)
      BY <2>1
    <3> DEFINE new == [Free EXCEPT !.state = "authenticating", !.login = login,
                                  !.request = request]
    <3>2. Step(r, "free", new) /\ new.state = "authenticating"
      BY <3>1 DEF Receive, Free
    <3>3. QED
      BY <3>2, OtherStep
  <2>2. CASE Authenticate(r)
    <3>1. To(r, "authenticated").state = "authenticated"
      BY <1>1 DEF To, Slot
    <3>2. \/ Step(r, "authenticating", Refused(r))
          \/ Step(r, "authenticating", To(r, "authenticated"))
      BY <2>2 DEF Authenticate
    <3>3. QED
      BY <1>1, <3>1, <3>2, OtherStep
  <2>3. CASE Deny(r)
    BY <1>1, <2>3, OtherStep DEF Deny
  <2>4. CASE \E d \in PresentedDelegations : Allow(r, d)
    <3>1. PICK d \in PresentedDelegations : Allow(r, d)
      BY <2>4
    <3> DEFINE new ==
          [slot[r] EXCEPT !.delegation = d, !.knew = revoked, !.checked_at = clock,
             !.state = IF RemainingObligations(d, slot[r].request.amount)
                            .human_approval_required
                       THEN "held" ELSE "authorised"]
    <3>2. Step(r, "authenticated", new) /\ new.state \in {"held", "authorised"}
      BY <1>1, <3>1 DEF Allow, Slot
    <3>3. QED
      BY <3>2, OtherStep
  <2>5. CASE ClaimApproval(r)
    <3>1. /\ To(r, "authorised").state = "authorised"
          /\ [slot[r] EXCEPT !.state = "held", !.approval = None].state = "held"
      BY <1>1 DEF To, Slot
    <3>2. \/ Step(r, "approving", [slot[r] EXCEPT !.state = "held", !.approval = None])
          \/ Step(r, "approving", To(r, "authorised"))
      BY <2>5 DEF ClaimApproval
    <3>3. QED
      BY <3>1, <3>2, OtherStep
  <2>6. CASE Perform(r)
    <3>1. \/ Step(r, "authorised", Refused(r))
          \/ Performs(r)
      BY <2>6 DEF Perform, Performs, RemainingObligations
    <3>2. QED
      BY <1>1, <3>1, OtherStep
  <2>7. CASE \E a \in PresentedApprovals : PresentApproval(r, a)
    <3>1. PICK a \in PresentedApprovals : PresentApproval(r, a)
      BY <2>7
    <3> DEFINE new == [slot[r] EXCEPT !.state = "approving", !.approval = a,
                                     !.knew = revoked, !.checked_at = clock]
    <3>2. Step(r, "held", new) /\ new.state = "approving"
      BY <1>1, <3>1 DEF PresentApproval, Slot
    <3>3. QED
      BY <3>2, OtherStep
  <2>8. CASE Abandon(r)
    <3>1. Step(r, slot[r].state, Refused(r)) /\ slot[r].state # "performed"
      BY <2>8 DEF Abandon
    <3>2. QED
      BY <1>1, <3>1, OtherStep
  <2>9. QED
    BY <1>2, <2>1, <2>2, <2>3, <2>4, <2>5, <2>6, <2>7, <2>8 DEF Proceed
<1>3. CASE \/ UNCHANGED vars
           \/ Tick
           \/ \E s \in Revocations \cup Successions : Send(s)
           \/ \E s \in Presentable(RevocationCopies) : ProcessRevocation(s)
           \/ \E s \in Presentable(SuccessionCopies) : ProcessSuccession(s)
  <2>1. clock \in Nat
    BY DEF Inv
  <2>2. slot' = slot /\ clock' \in {clock, clock + 1}
    BY <1>3 DEF vars, Tick, Send, ProcessRevocation, ProcessSuccession
  <2>3. Done' = Done
    BY <2>2 DEF Done
  <2>4. QED
    BY <2>1, <2>2, <2>3 DEF Others
<1>4. QED
  BY <1>2, <1>3 DEF Next

(* What stays as it was stays within its ceilings.                         *)
LEMMA OthersWithin == ASSUME Inv, Totals, Others PROVE Totals'
<1>1. /\ Done' = Done /\ \A r \in Done : slot'[r] = slot[r]
      /\ clock \in Nat /\ clock' \in Nat /\ clock' >= clock /\ Done \subseteq Slots
  BY DEF Others, Inv, Done
<1>2. ASSUME NEW r \in Done PROVE slot'[r].at <= clock' /\ Within(r)'
  <2>1. /\ slot'[r] = slot[r] /\ slot[r].at <= clock /\ slot[r].at \in Nat /\ Within(r)
    BY <1>1, GrantedNumbers DEF Totals, Done
  <2>2. Window(r) \subseteq Done
    BY DEF Window, Done
  <2>3. Window(r)' = Window(r)
    <3>1. \A u \in Slots : u \in Done <=> slot[u].state = "performed"
      BY DEF Done
    <3>2. \A u \in Slots : u \in Done <=> slot'[u].state = "performed"
      BY <1>1 DEF Done
    <3>3. \A u \in Done : slot'[u] = slot[u]
      BY <1>1
    <3>4. \A u \in Done : SameTerms(r, u)' <=> SameTerms(r, u)
      BY <2>1, <3>3 DEF SameTerms
    <3>5. \A u \in Slots : u \in Window(r)' <=> u \in Window(r)
      BY <2>1, <3>1, <3>2, <3>3, <3>4 DEF Window
    <3>6. QED
      BY <3>5 DEF Window
  <2>4. SumOf(Quantities(slot'), Window(r)) = SumOf(Quantities(slot), Window(r))
    <3>1. IsFiniteSet(Window(r))
      BY <2>2, FS_Subset DEF Totals
    <3>2. \A u \in Window(r) : Quantities(slot')[u] = Quantities(slot)[u]
      BY <1>1, <2>2 DEF Quantities
    <3>3. QED
      BY <3>1, <3>2, SumSame
  <2>5. Within(r)'
    BY <2>1, <2>3, <2>4 DEF Within
  <2>6. QED
    BY <1>1, <2>1, <2>5
<1>3. QED
  BY <1>1, <1>2 DEF Totals

(* The step that performs a request r.  The window of r that is checked is *)
(* also that of every request on the same terms dated at the same time; an *)
(* earlier one does not see r.                                             *)
LEMMA PerformsWithin ==
  ASSUME Inv, Inv', Totals, NEW r \in Slots, Performs(r)
  PROVE  Totals'
<1> DEFINE d == slot[r].delegation
           b == d.bounds
           C == Counted(d, b.window_secs)
           q == Quantities(slot)
<1>1. /\ slot[r] \in Slot /\ slot[r].state = "authorised" /\ clock' = clock
      /\ slot' = [slot EXCEPT ![r] = [slot[r] EXCEPT !.state = "performed", !.at = clock]]
  BY DEF Performs, Step, Inv
<1>2. /\ \A s \in Slots : s # r => slot'[s] = slot[s]
      /\ slot'[r] = [slot[r] EXCEPT !.state = "performed", !.at = clock]
  BY <1>1 DEF Inv
<1>3. /\ slot'[r].state = "performed" /\ slot'[r].at = clock
      /\ slot'[r].delegation = slot[r].delegation /\ slot'[r].request = slot[r].request
  <2> DEFINE new == [slot[r] EXCEPT !.state = "performed", !.at = clock]
  <2>1. /\ new.state = "performed" /\ new.at = clock
        /\ new.delegation = slot[r].delegation /\ new.request = slot[r].request
    BY <1>1 DEF Slot
  <2>2. slot'[r] = new
    BY <1>2
  <2> HIDE DEF new
  <2>3. QED
    BY <2>1, <2>2
<1>4. /\ \A s \in Slots : /\ slot'[s].delegation = slot[s].delegation
                         /\ slot'[s].request = slot[s].request
      /\ Quantities(slot') = q
  BY <1>2, <1>3 DEF Quantities
<1>5. Done' = Done \cup {r} /\ r \notin Done /\ Done \subseteq Slots
  BY <1>1, <1>2, <1>3 DEF Done
<1>6. IsFiniteSet(Done) /\ IsFiniteSet(Done')
  BY <1>5, FS_AddElement DEF Totals
<1>7. C \subseteq Done /\ r \notin C /\ IsFiniteSet(C)
  <2>1. C \subseteq Done
    BY DEF Counted, Done
  <2>2. QED
    BY <1>5, <1>6, <2>1, FS_Subset
<1>8. \A s \in Done \cup {r} : q[s] \in Nat
  BY <1>1, GrantedNumbers DEF Done
<1>9. b.max_total # None => SumOf(q, C \cup {r}) <= b.max_total
  <2>1. SUFFICES ASSUME b.max_total # None
                 PROVE  SumOf(q, C \cup {r}) <= b.max_total
    OBVIOUS
  <2>2. MapThenSumSet(Quantity, C) + Quantity(r) <= b.max_total
    BY <2>1 DEF Performs
  <2>3. C \subseteq Slots
    BY DEF Counted
  <2>4. MapThenSumSet(Quantity, C) = SumOf(q, C)
    BY <2>3, QuantitySum
  <2>5. Quantity(r) = q[r]
    BY DEF Quantity, Quantities
  <2> HIDE DEF C, q
  <2>6. SumOf(q, C \cup {r}) = SumOf(q, C) + q[r]
    BY <1>7, <1>8, SumAdd
  <2>7. QED
    BY <2>2, <2>4, <2>5, <2>6
<1>10. \A s \in Done' : AsGranted(slot[s]) /\ slot'[s].at \in Nat
  <2>1. \A s \in Done' : slot'[s].at \in Nat
    BY GrantedNumbers, <1>1, <1>2, <1>3, <1>5 DEF Done
  <2>2. QED
    BY <1>1, <1>5, <2>1, GrantedNumbers DEF Done
<1>11. clock \in Nat /\ b.window_secs \in Nat \cup {None}
       /\ b.max_total \in Nat \cup {None}
  BY <1>1, GrantedNumbers
<1>12. ASSUME NEW s \in Done', SameTerms(r, s), slot'[s].at = clock
       PROVE  /\ slot[s].delegation.bounds = b
              /\ Window(s)' \subseteq C \cup {r}
  <2>1. AsGranted(slot[r]) /\ AsGranted(slot[s]) /\ s \in Slots
    BY <1>5, <1>10
  <2>2. slot[s].delegation.bounds = b
    BY <1>12, <2>1, TermsAreIds
  <2>3. ASSUME NEW u \in Window(s)', u # r PROVE u \in C
    <3>1. u \in Done /\ u \in Slots /\ slot'[u] = slot[u]
      BY <1>2, <2>3 DEF Window, Done
    <3>2. SameTerms(s, u)
      BY <1>4, <2>1, <3>1 DEF Window, SameTerms
    <3>3. SameTerms(r, u)
      BY <1>12, <3>2 DEF SameTerms
    <3>4. DelegationId(slot[u].delegation) = DelegationId(d)
      BY <1>5, <1>10, <2>1, <3>1, <3>3, TermsAreIds
    <3>5. b.window_secs # None => clock < slot[u].at + b.window_secs
      BY <1>4, <1>12, <2>1, <2>2, <3>1 DEF Window
    <3>6. QED
      BY <3>1, <3>4, <3>5 DEF Counted, Done
  <2>4. QED
    BY <2>2, <2>3
<1>13. ASSUME NEW s \in Done' PROVE slot'[s].at <= clock' /\ Within(s)'
  <2>1. s \in Slots /\ slot'[s].at \in Nat
    BY <1>5, <1>10
  <2>2. slot'[s].at <= clock
    <3>1. CASE s = r
      BY <1>3, <1>11, <3>1
    <3>2. CASE s # r
      <4>1. s \in Done /\ slot'[s] = slot[s]
        BY <1>2, <1>5, <2>1, <3>2
      <4>2. QED
        BY <4>1 DEF Totals
    <3>3. QED
      BY <3>1, <3>2
  <2>3. CASE SameTerms(r, s) /\ slot'[s].at = clock
    <3>1. slot[s].delegation.bounds = b /\ Window(s)' \subseteq C \cup {r}
      BY <1>12, <2>3
    <3>2. SUFFICES ASSUME b.max_total # None
                   PROVE  SumOf(q, Window(s)') <= b.max_total
      BY <1>1, <1>4, <2>1, <2>2, <3>1 DEF Within
    <3>3. IsFiniteSet(C \cup {r}) /\ \A u \in C \cup {r} : q[u] \in Nat
      BY <1>7, <1>8, FS_AddElement
    <3>4. IsFiniteSet(Window(s)') /\ \A u \in Window(s)' : q[u] \in Nat
      BY <3>1, <3>3, FS_Subset
    <3> HIDE DEF C, q
    <3>5. SumOf(q, Window(s)') <= SumOf(q, C \cup {r})
      BY <3>1, <3>3, SumMono
    <3>6. SumOf(q, Window(s)') \in Nat /\ SumOf(q, C \cup {r}) \in Nat
      BY <3>3, <3>4, SumType
    <3>7. QED
      BY <1>9, <1>11, <3>2, <3>5, <3>6
  <2>4. CASE ~ (SameTerms(r, s) /\ slot'[s].at = clock)
    <3>1. s # r
      BY <1>3, <2>4 DEF SameTerms
    <3>2. s \in Done /\ slot'[s] = slot[s] /\ Within(s)
      BY <1>2, <1>5, <2>1, <3>1 DEF Totals
    <3>3. r \notin Window(s)'
      <4>1. SUFFICES ASSUME r \in Window(s)' PROVE FALSE
        OBVIOUS
      <4>2. SameTerms(s, r) /\ slot'[r].at <= slot'[s].at
        BY <1>4, <2>1, <4>1 DEF Window, SameTerms
      <4>3. slot'[s].at = clock
        BY <1>3, <1>11, <2>1, <2>2, <4>2
      <4>4. QED
        BY <2>4, <4>2, <4>3 DEF SameTerms
    <3>4. Window(s)' = Window(s)
      <4>1. r \notin Window(s)
        BY <1>1 DEF Window
      <4>2. \A u \in Slots : u # r => (SameTerms(s, u)' <=> SameTerms(s, u))
        BY <1>4, <2>1 DEF SameTerms
      <4>3. \A u \in Slots : u # r => (u \in Window(s)' <=> u \in Window(s))
        BY <1>2, <3>2, <4>2 DEF Window
      <4>4. \A u : u \in Window(s)' <=> u \in Window(s)
        BY <3>3, <4>1, <4>3 DEF Window
      <4>5. QED
        BY <4>4
    <3>5. QED
      BY <1>1, <1>4, <2>2, <3>2, <3>4 DEF Within
  <2>5. QED
    BY <2>3, <2>4
<1>14. QED
  BY <1>6, <1>13 DEF Totals

(* A caller that keeps the running total the crate hands back to it never  *)
(* lets what is performed on the same terms exceed the ceiling in any      *)
(* window that ends with one of the requests (delegation.rs                *)
(* remaining_obligations): CeilingKept.                                    *)
THEOREM CeilingHolds == Spec => []CeilingKept
<1>1. Init => Totals
  <2>1. Init => Done = {}
    BY DEF Init, Done, Free
  <2>2. QED
    BY <2>1, FS_EmptySet DEF Totals
<1>2. Inv /\ Inv' /\ Totals /\ [Next]_vars => Totals'
  BY DoneCases, OthersWithin, PerformsWithin
<1>3. Totals => CeilingKept
  <2>1. SUFFICES ASSUME Totals, NEW r \in Slots, slot[r].state = "performed",
                        slot[r].delegation.bounds.max_total # None
                 PROVE  MapThenSumSet(Quantity, Window(r))
                          <= slot[r].delegation.bounds.max_total
    BY DEF CeilingKept, Window
  <2>2. Within(r)
    BY <2>1 DEF Totals, Done
  <2>3. Window(r) \subseteq Slots
    BY DEF Window
  <2>4. MapThenSumSet(Quantity, Window(r)) = SumOf(Quantities(slot), Window(r))
    BY <2>3, QuantitySum
  <2>5. QED
    BY <2>1, <2>2, <2>4 DEF Within
<1>4. QED
  BY <1>1, <1>2, <1>3, AlwaysSound, PTL DEF Spec
=============================================================================
