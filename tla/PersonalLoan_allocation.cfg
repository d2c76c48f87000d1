\* Two repayments recorded before either is confirmed.
SPECIFICATION Spec
CONSTANTS
  Principal = 1
  Interests = {0, 1}
  MaxEntries = 4
PROPERTIES
  AllocatedAtConfirmation
CHECK_DEADLOCK FALSE
