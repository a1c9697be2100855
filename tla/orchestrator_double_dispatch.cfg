SPECIFICATION Spec
CONSTANTS
  Tasks = {t1}
  Requested = {t1}
  Actions = {start}
  NoAction = NoAction
  NoTask = NoTask
  SessionActions = {}
  RouteTables = {{start}}
  MAX_RETRIES = 2
  HandlerAttempts = 2
  MaxRequests = 1
  MaxFaults = 0
  MaxCrashes = 0
INVARIANT NoAttemptSentTwice
