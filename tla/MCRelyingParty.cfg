\* Two overlapping requests, one account, every way for its key to end.
SPECIFICATION FairSpec
CONSTANTS
  TimeMax = 9
  Ceiling = 2
  Skew = 3
  owner = owner
  heir = heir
  agent = agent
  mallory = mallory
  admin = admin
  here = here
  elsewhere = elsewhere
  pay = pay
  n1 = n1
  n2 = n2
  n3 = n3
  n4 = n4
  Audience = here
  Audiences <- MCAudiences
  NoAudience = NoAudience
  PublicKeys <- MCKeys
  ProofNonces <- MCNonces
  Digests <- MCRequests
  NoDigest = NoDigest
  None = None
  NoKey = NoKey
  NoSignature = NoSignature
  Undecodable = Undecodable
  Actions = {pay}
  MaxAmount = 3
  Slots = {r1, r2}
  Requests <- MCRequests
  Enrolled = {owner}
  Authorities = {admin}
  MaxAge = 5
  Logins <- MCLogins
  Delegations <- MCDelegations
  Approvals <- MCApprovals
  Revocations <- MCRevocations
  Successions <- MCSuccessions
  Circulating <- MCCirculating
  MaxClock = 2
INVARIANTS
  TypeOK
  DelegatedAsGranted
  ApprovedAsSigned
  OneApprovalOneRequest
  CeilingKept
  RevokedKeysPassNoCheck
  RevokedByEntitled
  AccountsMoveBySuccession
CHECK_DEADLOCK FALSE
PROPERTIES
  
  RevocationTakesHold
  ApprovalServes
