CONSTANTS
  Forms <- MCForms
  Inputs <- MCInputs
  MaxSends = 3
  MaxStops = 1
  Wallet = 2
  Capacity = 2
  MaxFaults = 1
SPECIFICATION TicketSpec

PROPERTY MinedSendIsAnnounced
CHECK_DEADLOCK FALSE
