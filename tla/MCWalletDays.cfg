\* The clock only advances, nothing restarts, no spend needs a person.
SPECIFICATION Spec
CONSTANTS
  AmountMax = 6
  TimeMax = 9
  DaySeconds = 3
  MaxPerCall = 3
  DailyCap = 2
  AllowRails = {"Eip3009Base"}
  HitlAbove = 6
  TtlSecs = 4
  NoKey = NoKey
  approver = approver
  stranger = stranger
  payee = payee
  HitlApproverPk = approver
  Keys <- MCKeys
  Addresses <- MCAddresses
  Values = {1, 2, 4}
  Nonces = {n1}
  Chains = {"Base"}
  Expiries = {}
  NoApproval = NoApproval
  NoReceipt = NoReceipt
  NoDigest = NoDigest
  StartClock = 3
  MaxClock = 9
  MaxBackstep = 0
  MaxSigned = 4
  MaxRestarts = 0
INVARIANTS
  SpentIsWindowTotal
  CapDenialIsExact
  AnyDayWithinTwoCaps
