------------------------------ MODULE Terminal ------------------------------
(***************************************************************************)
(* The signing commands of the terminal signer                             *)
(* (crates/aethel-auth-cli/src/main.rs).  The identity is an opened file:  *)
(* its key, and the audience the file is bound to; no command takes an     *)
(* audience.                                                               *)
(***************************************************************************)
EXTENDS Holder

LoginCommand(file, nonce, now, valid_for) ==
  Login(file.key, file.audience, nonce, now, valid_for)

StepUpCommand(file, digest, nonce, now, valid_for) ==
  StepUp(file.key, file.audience, nonce, now, valid_for, digest)

(* A total needs its window, and no actions would be no authority.         *)
TermsAccepted(bounds) ==
  /\ bounds.max_total = None <=> bounds.window_secs = None
  /\ bounds.actions # {}

(* The one expiry that is added up without saturating: it wraps.           *)
DelegateCommand(file, delegate_key, bounds, now, valid_for) ==
  IF ~TermsAccepted(bounds) THEN "Usage"
  ELSE DelegateTo(file.key, file.audience, delegate_key, bounds, now,
                  (now + valid_for) % (TimeMax + 1))

RevokeCommand(file, subject, now) ==
  IF subject = None THEN RevokeSelf(file.key, file.audience, now)
  ELSE RevokeAsAuthority(file.key, subject, file.audience, now)

SucceedCommand(file, to, now) ==
  NameSuccessor(file.key, file.audience, to, now)
=============================================================================
