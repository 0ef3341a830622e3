SPECIFICATION FairSpec
CONSTANTS
  Domains <- KnotDomains
  Substrate <- None
  Transfers <- KnotTransfers
  Accounts <- ThreeAccounts
  From <- KnotFrom
  To <- KnotTo
  Sender <- KnotSender
  Resource <- KnotResource
  Unlisted <- None
  Undecodable <- None
  FlakyFee <- None
  Histories <- KnotHistories
PROPERTIES
  CatchesUp
  WaitEnds
