----------------------------- MODULE Statements -----------------------------
(***************************************************************************)
(* How a key ends and how it continues: the checks of a revocation and of  *)
(* a succession (crates/aethel-auth/src/statements.rs).                    *)
(***************************************************************************)
EXTENDS Approval

RevokedBy == {"Holder", "Authority"}

RevocationRecord(signatures) ==
  [subject_key : PublicKeys \cup {NoKey}, signer_key : PublicKeys \cup {NoKey},
   by : RevokedBy, audience : Audiences \cup {NoAudience}, issued_at : Time,
   signature : signatures]

SuccessionRecord(signatures) ==
  [from_key : PublicKeys \cup {NoKey}, to_key : PublicKeys \cup {NoKey},
   audience : Audiences \cup {NoAudience}, issued_at : Time,
   signature : signatures]

(* Variant: the subject is taken to be bound by the signer.                *)
InputWithoutSubject(r) ==
  [audience |-> r.audience, by |-> r.by, issued_at |-> r.issued_at]

RevocationInput(r) ==
  [subject_key |-> r.subject_key, audience |-> r.audience, by |-> r.by,
   issued_at |-> r.issued_at]

(* Variant: the successor is not bound.                                    *)
InputWithoutSuccessor(s) ==
  [from_key |-> s.from_key, audience |-> s.audience, issued_at |-> s.issued_at]

SuccessionInput(s) ==
  [from_key |-> s.from_key, to_key |-> s.to_key, audience |-> s.audience,
   issued_at |-> s.issued_at]

(* Variant: only an authority is entitled.                                 *)
EntitledAuthority(r, authority_keys) == r.signer_key \in authority_keys

Entitled(r, authority_keys) ==
  \/ r.by = "Holder" /\ r.signer_key = r.subject_key
  \/ r.by = "Authority" /\ r.signer_key \in authority_keys

VerifyRevocation(r, authority_keys) ==
  IF NoKey \in {r.subject_key, r.signer_key}
     \/ r.signature = NoSignature \/ r.audience = NoAudience THEN "Malformed"
  ELSE IF r.audience # Audience THEN "AudienceMismatch"
  ELSE IF ~Entitled(r, authority_keys) THEN "NotAuthorised"
  ELSE CheckSigned(r.signer_key, "AUTH_REVOCATION_V1",
                   RevocationInput(r), r.signature)

VerifySuccession(s) ==
  IF NoKey \in {s.from_key, s.to_key}
     \/ s.signature = NoSignature \/ s.audience = NoAudience THEN "Malformed"
  ELSE IF s.audience # Audience THEN "AudienceMismatch"
  ELSE IF s.from_key = s.to_key THEN "Malformed"
  ELSE CheckSigned(s.from_key, "AUTH_SUCCESSION_V1",
                   SuccessionInput(s), s.signature)

(* The key a verified succession retires.                                  *)
RetiredKey(s) == s.from_key
=============================================================================
