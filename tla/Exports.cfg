SPECIFICATION Spec
CONSTANTS
  NumPeople = 4
  Fraud = {1}
  Mule = {2}
  Solo = {3}
  Victims = {4}
  Rings <- MCRings
  AccountNumber <- MCNumber
  Pii <- MCPii
  Timelines <- MCTimelines
  Settlement = 2
  Usages <- MCUsages
  Terminals <- MCTerminals
  DeviceRecords <- MCDevices
  IpsOf <- MCIpsOf
  IpUsages <- MCIpUsages
  IpRecords = {"i1", "i2"}
  EndpointIp <- MCEndpointIp
  Filing <- MCFiling
  SarAmountFloor = 3
  FilingLag = 3
  CpBank <- MCCpBank
  Buckets <- MCBuckets
  CpName <- MCCpName
  OnboardingLag <- MCOnboarding
  BookOf <- MCBook
  CardKeys <- MCListed
  JoinDay <- MCJoin
  WindowDays = 8
  BinDays = 3
  Catalog <- MCCatalog
  LandlordOf <- MCLandlords
  TextBuckets <- MCBuckets
  DevicesOf <- MCDevicesOf
  FallbackIp <- MCFallbackIp
  FallbackDevice <- MCFallbackDevice
  Precedes <- MCPrecedes
  BandFloor = 9
  CtrLimit = 10
  BurstCount = 2
  PromotedCap = 2
  Days30 = 3
  Days90 = 5
  DayTicks = 4
  NumberBits = 1
  Lag <- MCLag
  Decide <- MCDecide
  CardOwner <- MCCardOwner
  DeclineLead = 1
  ProbeLead = 2
  DeclinedBefore <- MCDeclinedBefore
  Listed <- MCListed
  OperatorAt <- MCOperatorAt
  OperatorDevice <- MCOperatorDevice
  OperatorIp <- MCOperatorIp
  PickMerchant <- MCPickMerchant
  Validity <- MCValidity
  Wait <- MCWait
  EmvAt <- MCEmvAt
  MaxGenerations = 3
  AreaOf <- MCAreas
  HomeTenures <- MCHomes
  AttackerDevices = {"d9"}
  AttackerIps = {"i9"}
  Burners = {"d3"}
  Blacklisted = {}
  Categories = {"grocery", "fuel", "fallback"}
  UseCases = {"aml", "amlTxnEdges", "standard", "muleMl", "cardFraud"}
  Draws <- MCDraws
  Lists <- MCLists
  Rows <- MCRows
  Declines <- MCDeclines
  Spans = 2
  MaxBatch = 2
  MaxDeclines = 2
  KeyBefore <- MCKeyBefore
INVARIANTS
  StreamedAsWhole
  NoDangling
  ReportsExact
  EntitiesExact
CHECK_DEADLOCK FALSE
