\* wasm: no key is needed, the host may fail.
SPECIFICATION Spec
CONSTANTS
  Native = FALSE
  Modulus = 8
  CallerIds = {v}
  Projections = {p}
  Deposits = {3}
  Transferred = {2, Malformed}
  Malformed = Malformed
  NoState = NoState
  Foreign = Foreign
  Anyone = Anyone
  SelfTransfers = FALSE
  MaxRegistrations = 3
PROPERTY
  ImplementsLedger
