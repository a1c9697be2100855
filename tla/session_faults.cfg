SPECIFICATION Spec
CONSTANTS
  Sessions = {s1}
  NoSession = NoSession
  Kinds = {"started", "heartbeat", "interrupted", "live_ended", "trouble"}
  IssueKinds = {frozen, muted}
  Interrupting = {frozen}
  MAX_RECONNECT_ATTEMPTS = 1
  MIN_TRAINING_SAMPLES = 2
  RETRAIN_INTERVAL_SAMPLES = 1
  HandlerAttempts = 2
  MaxPolled = 1
  MaxEvents = 2
  MaxFaults = 1
  MaxCrashes = 1
INVARIANTS TypeOK IInv FailsOnlyExhausted IssuesCountedOnce EndsAreSampled ModelCurrent
PROPERTIES ImplementsSessionLedger
