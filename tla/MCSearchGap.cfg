CONSTANTS
  user1 = user1
  owner = owner
  stranger = stranger
  Market = Market
  ZeroAddress = ZeroAddress
  Users <- MCUsers
  Me = user1
  Strangers = {}
  Routers = {}
  Treasuries <- MCTreasuries
  Owner = owner
  Guardians = {}
  Accounts <- MCAccounts
  Funding <- MCFunding
  MaxTime = 6
  MaxRounds = 1
  Amounts = {5}
  Strikes = {4}
  Prices = {0}
  Rake = 1
  WAD = 10
  EntryCutoff = 1
  LockWindow = 1
  ResolveDeadline = 1
  MinSidePool = 5
  MaxFeedId = 6
  Answers = {3}
  MaxStaleness = 2
  GracePeriod = 1
  ScaleUp = 2
  MaxUint = 7
  Scheduled <- MCScheduled
  OpeningPools <- MCFilled
  Leads = {}
  Windows = {}
  Skips = {0, 2}
  MaxPresses = 0
SPECIFICATION DeskSpec
INVARIANTS SearchFindsTheRound
CHECK_DEADLOCK FALSE
