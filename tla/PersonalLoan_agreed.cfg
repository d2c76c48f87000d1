\* Confirming recorded funding before the terms are agreed.
SPECIFICATION Spec
CONSTANTS
  Principal = 1
  Interests = {0, 1}
  MaxEntries = 4
INVARIANTS
  AgreedBeforeActive
CHECK_DEADLOCK FALSE
