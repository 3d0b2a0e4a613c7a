SPECIFICATION Spec
CONSTANTS
  WAD = 100
  RAY = 1000
  BaseRate = 1
  Slope1 = 3
  Slope2 = 10
  Kink = 80
  ReserveFactor = 20
  MaxLTV = 60
  LiquidationThreshold = 80
  LiquidationBonus = 10
  CloseFactor = 50
  YieldRate = 1
  Tokens = {"TSLA"}
  TokenUnit = 10
  FeedScale = 1
  NoDebt = 1000000
  OriginationFee = 3
  ProtocolShare = 20
  MaxAge = 0
  LiquidationMaxAge = 1
  Pages <- McStocksOnly
  Amounts = {7}
  OtherAmounts = {50}
  Proceeds = {30, 200}
  Prices = {17}
  Starts <- McPledged
  Grant = 100
  MarginDivisor = 10
  DustFloor = 2
  RoundingSlack = 2
  MaxTime = 1
  MaxOthers = 1
  MaxSubmits = 2
  MaxPolls <- McOnePoll
PROPERTY StockMaxIsAccepted
CHECK_DEADLOCK FALSE
