SPECIFICATION FairSpec
CONSTANTS
  Sessions = {s1}
  NoSession = NoSession
  Kinds = {"started", "heartbeat", "interrupted", "live_ended", "sessionless"}
  IssueKinds = {}
  Interrupting = {}
  MAX_RECONNECT_ATTEMPTS = 1
  MIN_TRAINING_SAMPLES = 2
  RETRAIN_INTERVAL_SAMPLES = 2
  HandlerAttempts = 2
  MaxPolled = 0
  MaxEvents = 2
  MaxFaults = 1
  MaxCrashes = 1
PROPERTIES SilentSessionSettles EndAnnounced
