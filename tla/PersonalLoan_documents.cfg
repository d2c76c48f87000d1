\* Proposing terms instead of providing the required documents.
SPECIFICATION Spec
CONSTANTS
  Principal = 1
  Interests = {0, 1}
  MaxEntries = 4
INVARIANTS
  RequiredDocumentsFirst
CHECK_DEADLOCK FALSE
