SPECIFICATION Spec
CONSTANTS
  Domains <- FeeDomains
  Substrate <- OnlySub
  Transfers <- FeeTransfers
  Accounts <- TwoAccounts
  From <- FeeFrom
  To <- FeeTo
  Sender <- FeeSender
  Resource <- FeeResource
  Unlisted <- FeeUnlisted
  Undecodable <- FeeUndecodable
  FlakyFee <- OnlyEvm
  Histories <- FeeHistories
INVARIANTS
  IndexedThroughHeight
  TablesInv
  FeeWriteBackFresh
  CollectedFeeWins
  FeesInv
PROPERTIES
  ImplementsLedger
