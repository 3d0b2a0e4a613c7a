CONSTANTS
  Rounds <- MCRounds
  Mine <- MCHedged
  Others <- MCOthers
  Results <- MCResults
  Before <- MCBefore
  Bands <- MCBands
  Rake = 1
  Window = 2
  SeenLimit = 2
  MaxRuns = 1
  MaxFaults = 1
  MaxMoves = 1
SPECIFICATION DeskSpec
INVARIANT WinNetsPositive
CHECK_DEADLOCK FALSE
