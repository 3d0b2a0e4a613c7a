CONSTANTS
  user1 = user1
  user2 = user2
  router = router
  owner = owner
  guardian = guardian
  Market = Market
  ZeroAddress = ZeroAddress
  Users <- MCUsers
  Routers <- MCRouters
  Treasuries <- MCTreasuries
  Owner = owner
  Guardians <- MCGuardians
  Accounts <- MCAccounts
  Funding <- MCFunding
  MaxTime = 5
  MaxRounds = 2
  Amounts = {4, 7}
  Strikes = {2}
  Prices = {1, 2, 3}
  Rake = 1
  WAD = 10
  EntryCutoff = 1
  LockWindow = 1
  ResolveDeadline = 1
  MinSidePool = 5
SPECIFICATION FairSpec
INVARIANTS TypeOK Solvent NothingStranded ProceedsReturnToFunder ResolvedIsAMarket
PROPERTIES SettledIsFrozen RefinesPullEscrow EveryRoundSettles EveryStakeLeaves
