SPECIFICATION GiftTaskSpec
CONSTANTS
  Tasks = {t1, f1}
  Requested = {t1}
  Actions = {start}
  NoAction = NoAction
  NoTask = NoTask
  SessionActions = {}
  RouteTables = {{start}, {}}
  MAX_RETRIES = 2
  HandlerAttempts = 2
  MaxRequests = 1
  MaxFaults = 0
  MaxCrashes = 1
  MaxSends = 4
  GiftArrivals = 2
  GiftFaults = 0
  GiftCrashes = 1
INVARIANTS HandOver CompletedWasPlayed PlaysWithinDispatches
CHECK_DEADLOCK FALSE
