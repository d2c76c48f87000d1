\* One unit lent, with or without interest; four versions and repayments in all.
SPECIFICATION Spec
CONSTANTS
  Principal = 1
  Interests = {0, 1}
  MaxEntries = 4
INVARIANTS
  TypeOK
  IInv
  TermsInForce
  PortfoliosAgree
  SettledOwesNothing
PROPERTIES
  NoBlindAcknowledgement
CHECK_DEADLOCK FALSE
