CONSTANTS
  Ids = {1, 2, 3, 4}
  Positions = {1, 2}
  Hashes = {1, 3}
  MinCapacity = 4
  MaxReserve = 2
  MaxMessages = 2
  Window = 3
  Modes = {"FixedWindow", "SlidingWindow"}
  MaxClock = 8
  MaxSent = 7
  Symbols = {1, 2}
  Quantities = {1, 2}
  Prices = {2, 3}
  Seeds <- MCSeeds
  PortfolioLimits <- MCLimits
  Checked <- MCChecked
  MaxPosition = 2
  MaxChanges = 3
  Entries <- MCEntries
  MaxRecords = 2
  MaxBytes = 3
  Keys <- MCKeys
  MaxLines = 3
  MaxDamages = 1
  Paths = {"csv", "bin"}
  BinaryPaths = {"bin"}
  Logs <- MCLogs
  Strays <- MCStrays
  MaxFaults = 2
  Policies <- MCPolicies
  CounterMax = 3
  Latencies = {1, 4}
  Times = {0, 2, 5}
  MaxObserved = 6
  ModelPolicies <- MCModelPolicies
  Files <- MCFiles
  Metadata <- MCMetadata
  FeatureCount = 4
  Version = 1
SPECIFICATION MCSpec
INVARIANTS
  FindsWhatWasStored AtMostMaximum RefusedOnlyWhenFull PnlIsCash PartialFillsFit
  CompleteLogVerifies ManifestTellsDamage DisabledByRunOfLates StatedModelsScore
  ReadsBeginningOrNothing
CHECK_DEADLOCK FALSE
