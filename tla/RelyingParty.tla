---------------------------- MODULE RelyingParty ----------------------------
(***************************************************************************)
(* A relying party that acts for delegates: it authenticates a request by  *)
(* a login proof bound to it, asks authorise, holds the request until the  *)
(* principal's approval has passed check_approval where one is required,   *)
(* keeps the running total, and takes in revocations and successions.      *)
(*                                                                         *)
(* The checks are aethel-auth's; what the crate leaves to its caller (the  *)
(* sets of principals and of revoked keys, the total, the order of the     *)
(* calls) follows the crate's README.md:61-74.  Anybody may present a      *)
(* statement that was made, any number of times, in any order, or a copy   *)
(* with one field taken from another statement.  Requests overlap at every *)
(* await, and the store answers each claim atomically.                     *)
(***************************************************************************)
EXTENDS Terminal, FiniteSetsExt

CONSTANTS
  Slots,        \* requests, each served once
  Requests,     \* what is asked for; the request is its own digest
  Enrolled,     \* principals recognised at the beginning
  Authorities,  \* authority_keys
  MaxAge,       \* max_age_secs
  Logins, Delegations, Approvals,  \* as their signers made them
  Revocations, Successions,        \* as their signers may make them ...
  Circulating,  \* ... and those that are about from the beginning
  MaxClock      \* bound: the last time considered

ASSUME RelyingPartyAssumption ==
  /\ \A q \in Requests : q.action \in Actions /\ q.amount \in Amount \cup {None}
  /\ Requests \subseteq Digests /\ Logins \subseteq ProofRecord
  /\ Circulating \subseteq Revocations \cup Successions
  /\ Enrolled \cup Authorities \subseteq PublicKeys /\ IsFiniteSet(Enrolled)
  /\ MaxAge \in Nat /\ MaxClock \in Time

Signatures ==
  {s.signature : s \in Delegations \cup Approvals \cup Revocations \cup Successions}
    \cup {NoSignature, Undecodable}

(* A statement bears no signature, or that of the key that is to make it,  *)
(* over its own content.                                                   *)
SignedBy(key, purpose, input, s) ==
  s.signature \in {NoSignature, Sign(key, purpose, input)}

ASSUME StatementsAsMade ==
  /\ Delegations \subseteq DelegationRecord(Signatures)
  /\ Approvals \subseteq
       ApprovalRecord({DelegationId(d) : d \in Delegations}, Signatures)
  /\ Revocations \subseteq RevocationRecord(Signatures)
  /\ Successions \subseteq SuccessionRecord(Signatures)
  /\ \A d \in Delegations :
       SignedBy(d.principal_key, "AUTH_DELEGATION_V1", DelegationInput(d), d)
  /\ \A a \in Approvals :
       SignedBy(a.principal_key, "AUTH_APPROVAL_V1", ApprovalInput(a), a)
  /\ \A s \in Revocations :
       SignedBy(s.signer_key, "AUTH_REVOCATION_V1", RevocationInput(s), s)
  /\ \A s \in Successions :
       SignedBy(s.from_key, "AUTH_SUCCESSION_V1", SuccessionInput(s), s)

VARIABLES
  clock,
  sent,        \* revocations and successions that are about
  principals,  \* the keys with an account
  revoked,     \* the keys authorise and check_approval are told of
  claimed,     \* the nonce store's keys; Verifier has what it may forget
  slot         \* each request

vars == <<clock, sent, principals, revoked, claimed, slot>>

-----------------------------------------------------------------------------
(* The wire.                                                               *)

(* What can be made of the statements S without signing: one field is taken*)
(* from another of them, or the signature from any statement.              *)
CopiesOf(S) ==
  S \cup {[s EXCEPT ![f] = t[f]] : s \in S, t \in S, f \in UNION {DOMAIN s : s \in S}}
    \cup {[s EXCEPT !.signature = g] : s \in S, g \in Signatures}

PresentedDelegations == CopiesOf(Delegations)
PresentedApprovals == CopiesOf(Approvals)
RevocationCopies == CopiesOf(Revocations)
SuccessionCopies == CopiesOf(Successions)

(* Anybody can write down anything, but has only the signatures that are   *)
(* about.                                                                  *)
Presentable(copies) ==
  {s \in copies : \A t \in (Revocations \cup Successions) \ sent :
                    s.signature # t.signature}

-----------------------------------------------------------------------------
(* Requests.                                                               *)

State == {"free", "authenticating", "authenticated", "held", "approving",
          "authorised", "performed", "refused"}

(* knew and checked_at are what was known to be revoked, and the time, when*)
(* the last check began; at is the time of the performance.                *)
Slot ==
  [state : State, request : Requests \cup {None}, login : Logins \cup {None},
   delegation : PresentedDelegations \cup {None},
   approval : PresentedApprovals \cup {None},
   knew : SUBSET PublicKeys, checked_at : 0..MaxClock, at : 0..MaxClock]

Free == [state |-> "free", request |-> None, login |-> None,
         delegation |-> None, approval |-> None, knew |-> {},
         checked_at |-> 0, at |-> 0]

(* Variant: approvals are claimed under the step-up purpose they once had. *)
ApprovalKeyOfStepUp(a) == NonceKey("AUTH_STEP_UP_V1", a.principal_key, a.nonce)

LoginKey(p) == NonceKey("AUTH_LOGIN_V1", p.public_key, p.nonce)
ApprovalKey(a) == NonceKey("AUTH_APPROVAL_V1", a.principal_key, a.nonce)

TypeOK ==
  /\ clock \in 0..MaxClock
  /\ sent \subseteq Revocations \cup Successions
  /\ principals \subseteq PublicKeys
  /\ revoked \subseteq PublicKeys
  /\ claimed \subseteq [purpose : {"AUTH_LOGIN_V1", "AUTH_APPROVAL_V1"},
                       public_key : PublicKeys, nonce : ProofNonces]
  /\ slot \in [Slots -> Slot]

Init ==
  /\ clock = 0
  /\ sent = Circulating
  /\ principals = Enrolled
  /\ revoked = {}
  /\ claimed = {}
  /\ slot = [r \in Slots |-> Free]

(* A step of request r from one state that changes nothing but the slot.   *)
Step(r, from, new) ==
  /\ slot[r].state = from
  /\ slot' = [slot EXCEPT ![r] = new]
  /\ UNCHANGED <<clock, sent, principals, revoked>>

To(r, state) == [slot[r] EXCEPT !.state = state]

(* The request is over; an approval it was given remains on record.        *)
Refused(r) == [Free EXCEPT !.state = "refused", !.approval = slot[r].approval]

(* verify_login_for_request up to its await, on the digest of the request  *)
(* that was received ...                                                   *)
Receive(r, login, request) ==
  /\ CheckProof(login, "AUTH_LOGIN_V1", request, clock, MaxAge) = "Ok"
  /\ Step(r, "free", [Free EXCEPT !.state = "authenticating", !.login = login,
                                  !.request = request])
  /\ UNCHANGED claimed

(* ... and the store's answer.                                             *)
Authenticate(r) ==
  LET key == LoginKey(slot[r].login)
  IN  /\ slot[r].state = "authenticating"
      /\ Step(r, "authenticating",
              IF key \in claimed THEN Refused(r) ELSE To(r, "authenticated"))
      /\ claimed' = claimed \cup {key}

(* authorise, with the delegation that came with the request: it is        *)
(* authorised, perhaps subject to an approval ...                          *)
Decision(r, d) ==
  Authorise(d, principals, revoked, slot[r].login.public_key,
            slot[r].request.action, slot[r].request.amount, clock)

Allow(r, d) ==
  LET obligations == RemainingObligations(d, slot[r].request.amount)
  IN  /\ slot[r].state = "authenticated"
      /\ Decision(r, d) = "Ok"
      /\ Step(r, "authenticated",
              [slot[r] EXCEPT !.delegation = d, !.knew = revoked, !.checked_at = clock,
                 !.state = IF obligations.human_approval_required
                           THEN "held" ELSE "authorised"])
      /\ UNCHANGED claimed

(* ... or refused, whatever the error.                                     *)
Deny(r) ==
  /\ slot[r].state = "authenticated"
  /\ {d \in PresentedDelegations : Decision(r, d) # "Ok"} # {}
  /\ Step(r, "authenticated", Refused(r))
  /\ UNCHANGED claimed

(* check_approval up to its await; an approval that fails leaves the       *)
(* request held ...                                                        *)
PresentApproval(r, a) ==
  LET q == slot[r].request
  IN  /\ slot[r].state = "held"
      /\ CheckApproval(slot[r].delegation, a, principals, revoked, q, q.action,
                       q.amount, clock, MaxAge) = "Ok"
      /\ Step(r, "held", [slot[r] EXCEPT !.state = "approving", !.approval = a,
                                         !.knew = revoked, !.checked_at = clock])
      /\ UNCHANGED claimed

(* Variant: the store is told, but its answer is not looked at.            *)
ClaimApprovalUnheard(r) ==
  /\ Step(r, "approving", To(r, "authorised"))
  /\ claimed' = claimed \cup {ApprovalKey(slot[r].approval)}

(* ... and the store's answer.                                             *)
ClaimApproval(r) ==
  LET key == ApprovalKey(slot[r].approval)
  IN  /\ slot[r].state = "approving"
      /\ IF key \in claimed
         THEN Step(r, "approving",
                   [slot[r] EXCEPT !.state = "held", !.approval = None])
         ELSE Step(r, "approving", To(r, "authorised"))
      /\ claimed' = claimed \cup {key}

(* The caller's future is dropped, or the store fails it: a claim under    *)
(* way may have been made.                                                 *)
Abandon(r) ==
  /\ slot[r].state \in {"authenticating", "authenticated", "held", "approving",
                        "authorised"}
  /\ Step(r, slot[r].state, Refused(r))
  /\ \/ UNCHANGED claimed
     \/ /\ slot[r].state = "authenticating"
        /\ claimed' = claimed \cup {LoginKey(slot[r].login)}
     \/ /\ slot[r].state = "approving"
        /\ claimed' = claimed \cup {ApprovalKey(slot[r].approval)}

-----------------------------------------------------------------------------
(* The running total.                                                      *)

Quantity(r) == IF slot[r].request.amount = None THEN 0 ELSE slot[r].request.amount

(* Requests performed under a delegation within the window that ends now.  *)
Counted(d, window_secs) ==
  {r \in Slots :
     /\ slot[r].state = "performed"
     /\ DelegationId(slot[r].delegation) = DelegationId(d)
     /\ window_secs # None => clock < slot[r].at + window_secs}

Perform(r) ==
  LET d == slot[r].delegation
      obligations == RemainingObligations(d, slot[r].request.amount)
      total == MapThenSumSet(Quantity, Counted(d, obligations.window_secs))
      fits == \/ obligations.cumulative_ceiling = None
              \/ total + Quantity(r) <= obligations.cumulative_ceiling
  IN  /\ slot[r].state = "authorised"
      /\ Step(r, "authorised",
              IF fits THEN [slot[r] EXCEPT !.state = "performed", !.at = clock]
                      ELSE Refused(r))
      /\ UNCHANGED claimed

-----------------------------------------------------------------------------
(* Keys.                                                                   *)

Send(s) ==
  /\ s \in (Revocations \cup Successions) \ sent
  /\ sent' = sent \cup {s}
  /\ UNCHANGED <<clock, principals, revoked, claimed, slot>>

ProcessRevocation(s) ==
  /\ VerifyRevocation(s, Authorities) = "Ok"
  /\ revoked' = revoked \cup {s.subject_key}
  /\ UNCHANGED <<clock, sent, principals, claimed, slot>>

(* Variant: an account moves whether or not its key had been revoked.      *)
ProcessSuccessionOfRevoked(s) ==
  /\ VerifySuccession(s) = "Ok"
  /\ revoked' = revoked \cup {RetiredKey(s)}
  /\ principals' = IF s.from_key \in principals
                   THEN (principals \ {s.from_key}) \cup {s.to_key}
                   ELSE principals
  /\ UNCHANGED <<clock, sent, claimed, slot>>

(* The key that a succession retires is revoked, whoever's it is; its      *)
(* account moves to the successor unless the key had been revoked before.  *)
ProcessSuccession(s) ==
  /\ VerifySuccession(s) = "Ok"
  /\ revoked' = revoked \cup {RetiredKey(s)}
  /\ principals' = IF s.from_key \in principals \ revoked
                   THEN (principals \ {s.from_key}) \cup {s.to_key}
                   ELSE principals
  /\ UNCHANGED <<clock, sent, claimed, slot>>

Tick ==
  /\ clock < MaxClock
  /\ clock' = clock + 1
  /\ UNCHANGED <<sent, principals, revoked, claimed, slot>>

(* What a request does without anybody else.                               *)
Proceed(r) ==
  \/ Authenticate(r)
  \/ Deny(r) \/ \E d \in PresentedDelegations : Allow(r, d)
  \/ ClaimApproval(r)
  \/ Perform(r)

Next ==
  \/ \E r \in Slots :
       \/ \E login \in Logins, request \in Requests : Receive(r, login, request)
       \/ Proceed(r)
       \/ \E a \in PresentedApprovals : PresentApproval(r, a)
       \/ Abandon(r)
  \/ \E s \in Revocations \cup Successions : Send(s)
  \/ \E s \in Presentable(RevocationCopies) : ProcessRevocation(s)
  \/ \E s \in Presentable(SuccessionCopies) : ProcessSuccession(s)
  \/ Tick

Spec == Init /\ [][Next]_vars

(* A store that is reached answers and a future that is polled goes on, and*)
(* who made a revocation or an approval sends it until it has been taken;  *)
(* an approval is taken up if the request is free for it again and again.  *)
(* Requests need not be made, nothing need be sent, and no clock ticks.    *)
Fairness ==
  /\ \A r \in Slots :
       /\ WF_vars(Proceed(r))
       /\ \A a \in Approvals : SF_vars(PresentApproval(r, a))
  /\ \A s \in Revocations \ Circulating : WF_vars(s \in sent /\ ProcessRevocation(s))

FairSpec == Spec /\ Fairness

-----------------------------------------------------------------------------
(* Safety.                                                                 *)

Granted(r) == slot[r].state \in {"held", "approving", "authorised", "performed"}
Cleared(r) == slot[r].state \in {"authorised", "performed"}

MadeBy(key, s) ==
  /\ s.signature \notin {NoSignature, Undecodable}
  /\ s.signature.key = key

(* Whoever presents what, and however it was altered on the way: a request *)
(* goes on only for the delegate, at the audience, within the bounds and,  *)
(* whenever it was checked, the one of its approval included, in the window*)
(* that the principal itself named in one statement (delegation.rs:308,    *)
(* "nothing in it can be altered after signing"; approval.rs:97-99).       *)
DelegatedAsGranted ==
  \A r \in Slots : Granted(r) =>
    LET d == slot[r].delegation   q == slot[r].request
    IN  /\ d \in Delegations /\ MadeBy(d.principal_key, d)
        /\ d.audience = Audience
        /\ d.not_before <= slot[r].checked_at /\ slot[r].checked_at < d.expires_at
        /\ slot[r].login.public_key = d.delegate_key
        /\ q.action \in d.bounds.actions
        /\ q.amount # None => q.amount <= d.bounds.max_per_invocation

(* A request above the threshold goes on only with the principal's own     *)
(* approval of this delegation, this request and this amount, unaltered    *)
(* (approval.rs:20-25).                                                    *)
ApprovedAsSigned ==
  \A r \in Slots :
    LET d == slot[r].delegation   q == slot[r].request   a == slot[r].approval
    IN  Cleared(r) /\ ApprovalRequired(d.bounds, q.amount) =>
          /\ a \in Approvals /\ MadeBy(d.principal_key, a)
          /\ a.delegation_id = DelegationId(d)
          /\ a.request_digest = q /\ a.amount = q.amount

(* One signature of the principal clears one request, even when two equal  *)
(* requests are checked against it at the same time (approval.rs:92-93).   *)
OneApprovalOneRequest ==
  \A r1, r2 \in Slots :
    /\ r1 # r2 /\ Cleared(r1) /\ Cleared(r2)
    /\ None \notin {slot[r1].approval, slot[r2].approval}
    => slot[r1].approval.signature # slot[r2].approval.signature

(* A caller that follows the obligations never lets a delegate exceed what *)
(* the principal granted over any window, by several requests each within  *)
(* its own ceiling, approved or not, or by the same terms signed twice     *)
(* (delegation.rs:139-142 and 245-250).                                    *)
SameTerms(r1, r2) ==
  LET d1 == slot[r1].delegation   d2 == slot[r2].delegation
  IN  d1.principal_key = d2.principal_key /\ DelegationInput(d1) = DelegationInput(d2)

CeilingKept ==
  \A r \in Slots :
    LET b == slot[r].delegation.bounds
        window == {r2 \in Slots :
                     /\ slot[r2].state = "performed" /\ SameTerms(r, r2)
                     /\ slot[r2].at <= slot[r].at
                     /\ b.window_secs # None => slot[r].at < slot[r2].at + b.window_secs}
    IN  slot[r].state = "performed" /\ b.max_total # None =>
          MapThenSumSet(Quantity, window) <= b.max_total

(* No check is passed once the relying party knows that either key is      *)
(* revoked: a request held for its approval does not live on what          *)
(* authorise had found (approval.rs:97-99).                                *)
RevokedKeysPassNoCheck ==
  \A r \in Slots : Granted(r) =>
    {slot[r].delegation.principal_key, slot[r].delegation.delegate_key}
      \cap slot[r].knew = {}

(* A key is ended only by its holder, by an authority the relying party    *)
(* recognises, or by its own succession, whatever else is on the wire      *)
(* (statements.rs:157-165 and 217).                                        *)
RevokedByEntitled ==
  \A k \in revoked :
    \/ \E s \in sent \cap Revocations :
         /\ s.subject_key = k
         /\ MadeBy(k, s) \/ \E authority \in Authorities : MadeBy(authority, s)
    \/ \E s \in sent \cap Successions : s.from_key = k /\ MadeBy(k, s)

(* Nobody but the outgoing key gives its account away, and to no key it    *)
(* did not name, and no account is multiplied (statements.rs:10-20).       *)
AccountsMoveBySuccession ==
  /\ \A k \in principals \ Enrolled :
       \E s \in sent \cap Successions :
         /\ s.to_key = k /\ MadeBy(s.from_key, s)
         /\ s.from_key \in revoked
         /\ s.from_key \in Enrolled \cup {t.to_key : t \in sent \cap Successions}
  /\ Cardinality(principals) <= Cardinality(Enrolled)

(* One account moves at a time, and never on the word of a key that was    *)
(* revoked before it: who has a key that its holder or an authority has    *)
(* ended cannot take its account with it, and the one who moves an account *)
(* does so once (statements.rs:12-18 and 254-259).                         *)
RevokedKeysMoveNothing ==
  [][principals' # principals =>
       \E s \in sent \cap Successions :
         /\ MadeBy(s.from_key, s)
         /\ s.from_key \in principals \ revoked /\ s.from_key \in revoked'
         /\ principals \ principals' \subseteq {s.from_key}
         /\ principals' \ principals \subseteq {s.to_key}]_vars

-----------------------------------------------------------------------------
(* Liveness.                                                               *)

(* "A holder can always do this.  It needs nobody's permission"            *)
(* (holder.rs:217): a holder's revocation of its own key takes hold.       *)
RevocationTakesHold ==
  \A s \in Revocations \ Circulating :
    s \in sent /\ MadeBy(s.subject_key, s) /\ s.audience = Audience
      ~> s.subject_key \in revoked

(* An approval that is good for a request that is held comes to serve a    *)
(* request, unless the request is given up or time or a revocation         *)
(* overtakes it: no copy of it, and no statement of anybody else, can use  *)
(* it up (proof.rs:286-289).                                               *)
Good(r, a) ==
  LET q == slot[r].request
  IN  /\ slot[r].state \in {"held", "approving"}
      /\ CheckApproval(slot[r].delegation, a, principals, revoked, q, q.action,
                       q.amount, clock, MaxAge) = "Ok"

ApprovalServes ==
  \A r \in Slots, a \in Approvals :
    (slot[r].state = "held" /\ Good(r, a))
      ~> \/ \E r2 \in Slots : /\ slot[r2].approval = a
                              /\ slot[r2].state \notin {"held", "approving"}
         \/ ~Good(r, a)
=============================================================================
