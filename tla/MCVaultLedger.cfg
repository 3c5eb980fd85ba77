\* tfhe in the process; totals stay below the modulus.
SPECIFICATION Spec
CONSTANTS
  Native = TRUE
  Modulus = 8
  CallerIds = {}
  Projections = {p, q}
  Deposits = {3, Malformed}
  Transferred = {2, Malformed}
  Malformed = Malformed
  NoState = NoState
  Foreign = Foreign
  Anyone = Anyone
  SelfTransfers = FALSE
  MaxRegistrations = 2
INVARIANTS
  TypeOK
  DebitsAreOwn
PROPERTY
  ImplementsLedger
SYMMETRY ProjectionSymmetry
