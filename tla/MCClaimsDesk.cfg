CONSTANTS
  Rounds <- MCRounds
  Mine <- MCMine
  Others <- MCOthers
  Results <- MCResults
  Before <- MCBefore
  Bands <- MCBands
  Rake = 1
  Window = 2
  SeenLimit = 2
  MaxRuns = 1
  MaxFaults = 1
  MaxMoves = 1
SPECIFICATION DeskSpec
INVARIANTS DeskTypeOK ListingTellsTheMoney ShownAmountsHold RunReportIsTrue BiggestFirst
PROPERTIES PaidOfferIsWithdrawn WinIsAnnounced
CHECK_DEADLOCK FALSE
