CONSTANTS
  user1 = user1
  owner = owner
  stranger = stranger
  Market = Market
  ZeroAddress = ZeroAddress
  Users <- MCUsers
  Me = user1
  Strangers = {stranger}
  Routers = {}
  Treasuries <- MCTreasuries
  Owner = owner
  Guardians = {}
  Accounts <- MCAccounts
  Funding <- MCFunding
  MaxTime = 6
  MaxRounds = 1
  Amounts = {5}
  Strikes = {0, 4}
  Prices = {0}
  Rake = 1
  WAD = 10
  EntryCutoff = 1
  LockWindow = 1
  ResolveDeadline = 1
  MinSidePool = 5
  MaxFeedId = 3
  Answers = {1, 3}
  MaxStaleness = 2
  GracePeriod = 1
  ScaleUp = 2
  MaxUint = 7
  Scheduled <- MCScheduled
  OpeningPools <- MCStaked
  Leads = {0, 1}
  Windows = {0, 1, 2}
  Skips = {0, 1}
  MaxPresses = 1
SPECIFICATION DeskSpec
INVARIANTS DueRoundIsOffered CardTellsTheRound OfferedCallIsAccepted
CHECK_DEADLOCK FALSE
