SPECIFICATION Spec
CONSTANTS
  Tasks = {t1, f1}
  Requested = {t1}
  Actions = {start, other}
  NoAction = NoAction
  NoTask = NoTask
  SessionActions = {}
  RouteTables = {{start, other}}
  MAX_RETRIES = 2
  HandlerAttempts = 2
  MaxRequests = 2
  MaxFaults = 1
  MaxCrashes = 1
INVARIANTS FirstDispatchOnce RouteKept GivesUpInTime
PROPERTY ImplementsLedger
SYMMETRY Symmetry
