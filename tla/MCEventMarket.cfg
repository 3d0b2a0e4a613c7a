CONSTANTS
  user1 = user1
  user2 = user2
  owner = owner
  committee1 = committee1
  committee2 = committee2
  Market = Market
  Question = Question
  ZeroAddress = ZeroAddress
  Users <- MCUsers
  Reporters <- MCUsers
  Arbiters <- MCArbiters
  Routers = {}
  Treasuries <- MCTreasuries
  Owner = owner
  Guardians = {}
  Accounts <- MCAccounts
  Funding <- MCFunding
  MaxTime = 8
  MaxRounds = 1
  Amounts = {2}
  Strikes = {1}
  Prices = {0}
  Rake = 1
  WAD = 10
  EntryCutoff = 1
  LockWindow = 2
  ResolveDeadline = 4
  MinSidePool = 2
  Bond = 1
  EventTime = 2
  ChallengeWindow = 2
  RulingDeadline = 2
SPECIFICATION EventMarketSpec
INVARIANTS EventMarketTypeOK OutcomePays DisclosureStands BondsFollowTheAnswer
PROPERTIES EveryClaimEnds AnswerSettlesTheRound
