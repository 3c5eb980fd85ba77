\* Lag and delay together stay within the skew margin.
SPECIFICATION Spec
CONSTANTS
  TimeMax = 9
  Ceiling = 2
  Skew = 3
  alice = alice
  bob = bob
  here = here
  elsewhere = elsewhere
  n1 = n1
  d1 = d1
  d2 = d2
  Audience = here
  Audiences <- MCAudiences
  NoAudience = NoAudience
  PublicKeys <- MCPublicKeys
  ProofNonces <- MCNonces
  Digests <- MCDigests
  NoDigest = NoDigest
  Instances = {v1, v2}
  Presented <- MCPresented
  MaxAges = {5}
  MaxLag = 3
  MaxLead = 0
  MaxDelay = 0
  StartClock = 1
  MaxClock = 6
  MaxClaims = 2
  Idle = Idle
INVARIANTS
  NoReplay
