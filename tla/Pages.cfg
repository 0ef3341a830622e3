SPECIFICATION Spec
CONSTANTS
  Transfers <- ThreeTransfers
  Rank <- Ranks
  Timestamp <- Times
  DepositTx <- Transactions
  Sender <- Senders
  Queries <- SomeQueries
  Limits <- OneOrTwo
  MaxAttempts = 1
INVARIANTS
  TypeOK
  PagesPartition
PROPERTIES
  ScanComplete
