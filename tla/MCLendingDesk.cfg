SPECIFICATION Spec
CONSTANTS
  WAD = 100
  RAY = 1000
  BaseRate = 1
  Slope1 = 3
  Slope2 = 10
  Kink = 80
  ReserveFactor = 20
  MaxLTV = 60
  LiquidationThreshold = 80
  LiquidationBonus = 10
  CloseFactor = 50
  YieldRate = 1
  Tokens = {"TSLA"}
  TokenUnit = 10
  FeedScale = 10
  NoDebt = 1000000
  OriginationFee = 3
  ProtocolShare = 20
  MaxAge = 0
  LiquidationMaxAge = 1
  Pages <- McPages
  Amounts = {7}
  OtherAmounts = {50}
  Proceeds = {30, 200}
  Prices = {41, 105}
  Starts <- McStarts
  Grant = 100
  MarginDivisor = 10
  DustFloor = 2
  RoundingSlack = 2
  MaxTime = 1
  MaxOthers = 1
  MaxSubmits = 2
  MaxPolls <- McPolls
INVARIANTS LendingTypeOK ProceedsClearTheLien FiguresHold PartsAddUp BooksBalance
PROPERTY UntouchedCallDoesItsJob
CHECK_DEADLOCK FALSE
