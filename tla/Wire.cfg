\* Every text of up to five characters, a group and a tail.
SPECIFICATION Spec
CONSTANTS
  Unit = 1
  KeyLength = 1
  Legacy = FALSE
  Refused = Refused
  None = None
  MaxText = 5
INVARIANTS
  TypeOK
  AcceptedAsWritten
  CanonicalAccepted
  NoSecondSpelling
