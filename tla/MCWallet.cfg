\* The clock may step back one second; one restart.
SPECIFICATION Spec
CONSTANTS
  AmountMax = 6
  TimeMax = 9
  DaySeconds = 3
  MaxPerCall = 3
  DailyCap = 4
  AllowRails = {"Eip3009Base"}
  HitlAbove = 1
  TtlSecs = 4
  NoKey = NoKey
  approver = approver
  stranger = stranger
  payee = payee
  HitlApproverPk = approver
  Keys <- MCKeys
  Addresses <- MCAddresses
  Values = {1, 3, 4}
  Nonces = {n1}
  Chains = {"Base", "Ethereum"}
  Expiries = {5}
  NoApproval = NoApproval
  NoReceipt = NoReceipt
  NoDigest = NoDigest
  StartClock = 3
  MaxClock = 6
  MaxBackstep = 1
  MaxSigned = 2
  MaxRestarts = 1
INVARIANTS
  TypeOK
  ReceiptIsOfLatestSpend
  SpentIsWindowTotal
  CapHoldsInFlight
  EverySignatureAuthorised
  CapDenialIsExact
PROPERTY
  ImplementsBudget
