SPECIFICATION FairSpec
CONSTANTS
  Domains <- TwoDomains
  Transfers <- TwoTransfers
  Accounts <- OneAccount
  From <- Origin
  To <- Destination
  Sender <- Alice
  MaxHeight <- LongAndShort
  MaxForks <- ForkOnce
INVARIANTS
  TypeOK
  OwnRowsFollow
  UntangledFollow
  OnlyTanglesBlock
  HotInv
PROPERTIES
  HeadsReached
