SPECIFICATION Spec
CONSTANTS
  Sessions = {s1}
  NoSession = NoSession
  Kinds = {"heartbeat", "live_ended"}
  IssueKinds = {}
  Interrupting = {}
  MAX_RECONNECT_ATTEMPTS = 2
  MIN_TRAINING_SAMPLES = 2
  RETRAIN_INTERVAL_SAMPLES = 2
  HandlerAttempts = 2
  MaxPolled = 0
  MaxEvents = 2
  MaxFaults = 0
  MaxCrashes = 0
PROPERTY EndedStaysEnded
