CONSTANTS
  user1 = user1
  owner = owner
  Market = Market
  ZeroAddress = ZeroAddress
  Users <- MCUsers
  Routers = {}
  Treasuries <- MCTreasuries
  Owner = owner
  Guardians = {}
  Accounts <- MCAccounts
  Funding <- MCFunding
  MaxTime = 6
  MaxRounds = 1
  Amounts = {5}
  Strikes = {4}
  Prices = {0}
  Rake = 1
  WAD = 10
  EntryCutoff = 1
  LockWindow = 1
  ResolveDeadline = 1
  MinSidePool = 5
  MaxFeedId = 3
  Answers = {3}
  MaxStaleness = 2
  GracePeriod = 1
  ScaleUp = 2
  Skips = {0, 1}
  MaxUint = 7
SPECIFICATION MarketSpec
PROPERTIES UnwindLeavesSettleableAlone
