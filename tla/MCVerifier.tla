---------------------------- MODULE MCVerifier ----------------------------
(***************************************************************************)
(* Small instances of Verifier.  The age ceiling is 2 seconds and the skew *)
(* margin 3 seconds.                                                       *)
(***************************************************************************)
EXTENDS Verifier, TLC

CONSTANTS alice, bob, here, elsewhere, n1, d1, d2

LoginOf(key, window, digest, signature) ==
  [public_key |-> key, audience |-> here, nonce |-> n1,
   issued_at |-> window[1], expires_at |-> window[2],
   digest |-> digest, signature |-> signature]

MCPublicKeys == {alice, bob}
MCAudiences == {here, elsewhere}
MCNonces == {n1}
MCDigests == {d1, d2}

(* A login that outlives the ceiling; a second login under the same nonce, *)
(* later and bound to a request; a step-up with the same nonce; and another*)
(* party's logins with that nonce: bound to a request, forged, and made    *)
(* for another audience.                                                   *)
MCPresented ==
  {LoginOf(alice, <<1, 7>>, NoDigest, "AUTH_LOGIN_V1"),
   LoginOf(alice, <<5, 9>>, d1, "AUTH_LOGIN_V1"),
   LoginOf(alice, <<1, 3>>, d1, "AUTH_STEP_UP_V1"),
   LoginOf(bob, <<1, 3>>, d1, "AUTH_LOGIN_V1"),
   LoginOf(bob, <<1, 7>>, NoDigest, "forged"),
   [LoginOf(bob, <<1, 7>>, NoDigest, "AUTH_LOGIN_V1") EXCEPT !.audience = elsewhere]}

(* The instances differ in nothing but their names.                        *)
InstanceSymmetry == Permutations(Instances)
=============================================================================
