SPECIFICATION FairSpec
CONSTANTS
  EnvDomains <- TwoDomains
  Metadata <- BothKnown
  Ids <- TwoIds
  Addresses <- ThreeAddresses
  Native = "0x0"
  Configs <- SomeConfigs
INVARIANTS
  TypeOK
  InitStores
  TokensListed
  DomainsBeforeIndexers
PROPERTIES
  RowsStay
  Starts
