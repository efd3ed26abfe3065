SPECIFICATION Spec
CONSTANTS
  WindowStart <- MCWindowStart
  WindowDays = 90
  GrowthRate <- MCGrowthRate
  SettlementDays = 120
  Owned <- MCOwned
  BusinessOf <- MCBusinessOf
  BrokerageOf <- MCBrokerageOf
  Employers <- MCEmployers
  PayrollDraws <- MCPayrollDraws
  Landlords <- MCLandlords
  LandlordType <- MCLandlordType
  Clients <- MCClients
  Platforms <- MCPlatforms
  Processors <- MCProcessors
  OwnerBusinesses <- MCOwnerBusinesses
  Brokerages <- MCBrokerages
  Depositories <- MCDepositories
  Ssa = 150
  DisabilityOffice = 151
  WageScale <- MCWageScale
  PriceScale <- MCPriceScale
  MaxPayments = 2
  NumAccounts = 11
  External <- MCExternal
  OpeningSeed <- MCOpeningSeed
  SpreadShare <- MCSpreadShare
  Terminals <- MCTerminals
  CheckPoints <- MCCheckPoints
  Venues <- MCVenues
  Billers <- MCBillers
  BillingPeriod = 43200
  BanksElsewhere = {3}
  Power <- MCPower
  Areas <- MCAreas
  CountryOf <- MCCountryOf
  CoreSizes <- MCCoreSizes
  TailSizes <- MCTailSizes
  TailShare = 30
  CoreFloor = 8
  CorePerTenK = 120
  HazardMature = 9000
  CheckBankPool = 4
  CheckPayees = 2
  SlotShare = 50
  CheckShare <- MCCheckShare
  RemoteAttempts = 3
  FuneralHomeCount <- MCFuneralHomeCount
  Decay <- MCDecay
  DecayFloor = 10
  MaxNearbyAreas = 2
  FavoriteSizes <- MCFavoriteSizes
  FavoriteCapacity = 6
  BillerSizes <- MCBillerSizes
  MaxFavorites = 5
  MaxPickAttempts = 12
  ContactDegree = 6
  CommunityBounds <- MCCommunityBounds
  CreditCards <- MCCreditCards
  Worlds <- MCWorlds
  Policies <- MCPolicies
  MonthPolicies <- MCMonthPolicies
  GovernmentActive = TRUE
  EventMinutes <- MCEventMinutes
  AuditRunRows = 3
  CompactionThreshold = 4
INVARIANTS
  EnginesAgree
  WorldConsistent
  RowsJustified
CHECK_DEADLOCK FALSE
