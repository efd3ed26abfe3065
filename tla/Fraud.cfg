SPECIFICATION Spec
CONSTANTS
  HomeUnit <- MCHomeUnit
  OnPublic <- MCOnPublic
  SlotHash <- MCSlotHash
  BucketLength = 10080
  ExternallyInitiated <- MCExternallyInitiated
  NumPeople = 10
  WindowStart = 0
  WindowDays = 30
  FraudPeople <- MCFraudPeople
  RingTopology <- MCTopology
  SharedGroupMaxExtra = 2
  MinLines = 2
  PeoplePerLine = 5
  MaxOperators = 3
  PriceScale <- MCPriceScale
  BillerAccounts <- MCBillers
  DepositAccounts <- MCDeposits
  EmployerAccounts <- MCEmployers
  PayDates <- MCPayDates
  JoinedAt <- MCJoinedAt
  DiedAt <- MCDiedAt
  Born <- MCBorn
  PersonaOf <- MCPersonaOf
  SettlementMinutes = 2880
  CardActivity <- MCCardActivity
  Homes <- MCHomes
  Merchants <- MCMerchants
  Nearness <- MCNearness
  PrimaryOf <- MCPrimaryOf
  Draws <- MCDraws
  Accounts <- MCAccounts
  Cards <- MCCards
  Shells = {2}
  RingCast <- MCRings
  MonthStarts <- MCMonthStarts
  Profiles <- MCProfiles
  LegitDrafts <- MCLegitDrafts
  LegitDraws <- MCLegitDraws
  CamoDraws <- MCCamoDraws
  RingDraws <- MCRingDraws
  Playbooks <- MCPlaybooks
  CaseDraws <- MCCaseDraws
  EmitDraws <- MCEmitDraws
  MaxLegitRows = 1
  MaxBoundaryResamples = 2
  Nets <- MCNets
  RingCasts <- MCRingCasts
INVARIANTS
  SessionsPossible
  WithinBounds
PROPERTIES
  ChainFresh
CHECK_DEADLOCK FALSE
