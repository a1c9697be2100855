SPECIFICATION FairSpec
CONSTANTS
  Tasks = {t1}
  Requested = {t1}
  Actions = {start}
  NoAction = NoAction
  NoTask = NoTask
  SessionActions = {start}
  RouteTables = {{start}, {}}
  MAX_RETRIES = 2
  HandlerAttempts = 2
  MaxRequests = 1
  MaxFaults = 1
  MaxCrashes = 1
INVARIANTS TypeOK IInv
PROPERTIES IndexedTaskSettles TimeoutAnnounced
