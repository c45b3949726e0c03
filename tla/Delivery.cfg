SPECIFICATION MCSpec
CONSTANTS
  Callers = {c1, c2}
  FlushAt = 2
  MaxBatch = 3
  RetryLimits <- MCRetryOptions
  MaxEvents = 6
  Languages = {"go", "python", "ruby", "php", "java"}
  Threads = {t1, t2}
  SdkFlushAt = 2
  SdkMaxBatch = 2
  RetryOptions <- MCRetryOptions
  SdkMaxEvents = 5
  Tabs = {b1, b2}
  QueueLimit = 2
  MaxSeen = 4
  MaxIds = 2
  Handlers = {h1, h2}
  h1 = h1
  Receivers = {r1, r2}
  r1 = r1
  r2 = r2
  Jobs <- MCJobs
  MaxJobItems = 3
  ExtraAttempts = 1
  Requests = {q1, q2}
  Env = {"SENTRY_DSN", "OTEL_EXPORTER_OTLP_ENDPOINT"}
  DsnParses = TRUE
INVARIANTS
  NothingLostNorReordered
  SdksKeepTheLine
  NoEventTwice
  DuplicatesNeedOverlap
  StopLosesNoErrorReport
PROPERTIES
  FlushDelivers
  DeliveredInTheEnd
  ImplementsOutbox
  OptOutStopsCalls
  EveryJobEnds
  AcceptedIsAnswered
CHECK_DEADLOCK FALSE
