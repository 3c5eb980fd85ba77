--------------------------- MODULE MCRelyingParty ---------------------------
(***************************************************************************)
(* Small instances of RelyingParty.                                        *)
(***************************************************************************)
EXTENDS RelyingParty

CONSTANTS owner, heir, agent, mallory, admin, here, elsewhere, pay,
          n1, n2, n3, n4

MCKeys == {owner, heir, agent, mallory, admin}
MCAudiences == {here, elsewhere}
MCNonces == {n1, n2, n3, n4}
Pay(amount) == [action |-> pay, amount |-> amount]
MCRequests == {Pay(1), Pay(2)}

(* Each request is within its own ceiling, and only one of 2 within the    *)
(* total.                                                                  *)
Terms == [actions |-> {pay}, max_per_invocation |-> 2, max_total |-> 2,
          window_secs |-> 2, approval_required_above |-> 1]
Lavish == [Terms EXCEPT !.max_total = None, !.approval_required_above = None]

At(audience, key) == [key |-> key, audience |-> audience]

OwnersGrant == DelegateCommand(At(here, owner), agent, Terms, 0, 2)

(* The owner's grant, its successor's, a stranger's to itself, one for     *)
(* another audience, and what somebody wrote down without signing it.      *)
MCDelegations ==
  {OwnersGrant,
   DelegateCommand(At(here, heir), agent, Terms, 1, 2),
   DelegateTo(mallory, here, mallory, Lavish, 0, 3),
   DelegateTo(owner, elsewhere, agent, Lavish, 0, 3),
   [OwnersGrant EXCEPT !.principal_key = NoKey, !.delegate_key = NoKey,
                       !.audience = NoAudience, !.signature = NoSignature]}

(* Two logins for equal requests, one that needs no approval, a stranger's *)
(* own, one that is bound to no request, and a step-up.                    *)
MCLogins ==
  {LoginForRequest(agent, here, n1, 0, 2, Pay(1)),
   LoginForRequest(agent, here, n2, 0, 3, Pay(2)),
   LoginForRequest(agent, here, n3, 1, 2, Pay(2)),
   LoginForRequest(mallory, here, n1, 0, 3, Pay(2)),
   LoginCommand(At(here, agent), n4, 0, 3),
   StepUpCommand(At(here, agent), Pay(2), n4, 0, 3)}

(* The owner's approval, whose nonce is also that of a login; its approval *)
(* of an amount that is not the request's; and the delegate's own.         *)
MCApprovals ==
  {Approve(owner, here, OwnersGrant, Pay(2), pay, 2, n2, 0, 3),
   Approve(owner, here, OwnersGrant, Pay(2), pay, 1, n4, 0, 3),
   Approve(agent, here, OwnersGrant, Pay(2), pay, 2, n3, 0, 3)}

(* A revocation the stranger made of the successor's key.                  *)
Meddling == RevokeCommand(At(here, mallory), heir, 0)
Unsigned == [from_key |-> NoKey, to_key |-> mallory, audience |-> here,
             issued_at |-> 0, signature |-> NoSignature]

MCSuccessions == {SucceedCommand(At(here, owner), heir, 0), Unsigned}
MCCirculating ==
  MCSuccessions \cup {Meddling, RevokeCommand(At(here, admin), agent, 0)}
MCRevocations ==
  {RevokeCommand(At(here, owner), None, 0)} \cup (MCCirculating \ MCSuccessions)
=============================================================================
