SPECIFICATION FairSpec
CONSTANTS
  Domains <- TwoDomains
  Transfers <- OneTransfer
  Accounts <- OneAccount
  From <- Origin
  To <- Destination
  Sender <- Alice
  MaxHeight <- Short
  MaxForks <- NoFork
PROPERTIES
  ShownWithBoth
