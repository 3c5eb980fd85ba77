\* Two identities, two terminals, one shares directory.
SPECIFICATION Spec
CONSTANTS
  Identities = {e1, e2}
  Audiences = {here, elsewhere}
  Names = {file}
  ShareCount = 2
  Threshold = 2
  Terminals = {t1, t2}
  None = None
  Missing = Missing
  Torn = Torn
  MaxEdits = 1
CHECK_DEADLOCK FALSE
SYMMETRY Interchangeable
INVARIANTS
  TypeOK
  SignsWhereBound
  PrintedRootRebuilds
  RecordedRootWasShown
