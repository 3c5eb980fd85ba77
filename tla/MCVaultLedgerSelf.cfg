\* A caller may name one vault as both ends of a transfer.
SPECIFICATION Spec
CONSTANTS
  Native = TRUE
  Modulus = 8
  CallerIds = {v}
  Projections = {}
  Deposits = {2}
  Transferred = {1}
  Malformed = Malformed
  NoState = NoState
  Foreign = Foreign
  Anyone = Anyone
  SelfTransfers = TRUE
  MaxRegistrations = 2
PROPERTY
  TransferConserves
