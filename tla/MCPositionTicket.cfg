CONSTANTS
  Forms <- MCForms
  Inputs <- MCDelegations
  MaxSends = 3
  MaxStops = 1
  Wallet = 2
  Capacity = 2
  MaxFaults = 1
SPECIFICATION TicketSpec
INVARIANTS OutcomesAreTrue StandingPermissionIsUnused
PROPERTIES RetryStartsFresh WaitsHaveADoor WatchedSendIsAnnounced
CHECK_DEADLOCK FALSE
