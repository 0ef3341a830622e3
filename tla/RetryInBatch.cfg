SPECIFICATION Spec
CONSTANTS
  Domains <- EvmDomains
  Substrate <- None
  Transfers <- CrossTransfers
  Accounts <- TwoAccounts
  From <- CrossFrom
  To <- CrossTo
  Sender <- CrossSender
  Resource <- CrossResource
  Unlisted <- None
  Undecodable <- None
  FlakyFee <- None
  Histories <- CrossHistories
INVARIANTS
  ExecutionSupersedesFailure
