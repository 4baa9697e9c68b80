SPECIFICATION FairSpec
CONSTANTS
  Requests = {q1}
  Amounts = {1, 2}
  StartBalance = 2
  TTL = 3
  RenewWithin = 1
  MaxFaults = 2
CHECK_DEADLOCK FALSE
PROPERTIES
  ReservationsEnd
