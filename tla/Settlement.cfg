SPECIFICATION Spec
CONSTANTS
  NumAccounts = 2
  Cards = {}
  External <- MCExternal
  Period = 2
  CardLike = {"p2p"}
  Retryable = {"bill"}
  CureChannels = {"gift"}
  CardCure = 1
  DebitCure = 2
  CardPadding = 1
  DebitPadding = 1
  FirstBlind = 1
  SecondBlind = 2
  DailyCap = 2
  DayLength = 3
  Channels = {"bill", "p2p", "salary", "refund", "gift", "overdraftFee", "locInterest"}
  Streams <- OneOrTwoStreams
  Coins <- AllCoins
  Seeds <- MCSeeds
  Schedules <- MCSchedules
  Lookahead = 2
INVARIANTS
  FatesExact
  RowsExplainBook
  ChunkSizeInvariant
CHECK_DEADLOCK FALSE
