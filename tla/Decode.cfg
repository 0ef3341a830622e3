SPECIFICATION Spec
CONSTANTS
  Word = 2
  AccountLen = 2
  Base = 4
  Deposits <- SomeDeposits
  Words <- SomeWords
  Recipients <- SomeRecipients
  Signatures <- SomeSignatures
  Rests <- SomeRests
INVARIANTS
  OnlyLocationsThrow
  RecipientKept
  AmountKept
CHECK_DEADLOCK FALSE
