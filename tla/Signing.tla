------------------------------ MODULE Signing ------------------------------
(***************************************************************************)
(* Signatures as the statements of aethel-auth use them.  Signing is       *)
(* deterministic and a signature fits one key, one purpose and one signed  *)
(* input: it is the record of the three.  No equal record comes about in   *)
(* another way, so that a signature cannot be forged, only reused.         *)
(***************************************************************************)
EXTENDS Proof

CONSTANTS
  None,         \* an absent optional field
  NoKey,        \* an empty key
  NoSignature,  \* an empty signature
  Undecodable   \* bytes that are no signature of the scheme

Sign(key, purpose, input) == [key |-> key, purpose |-> purpose, input |-> input]

(* verify_with_purpose, and what its three results become.                 *)
CheckSigned(key, purpose, input, signature) ==
  IF signature = Undecodable THEN "Malformed"
  ELSE IF signature = Sign(key, purpose, input) THEN "Ok" ELSE "BadSignature"
=============================================================================
