SPECIFICATION ServerSdksSpec
CONSTANTS
  Languages = {"ruby"}
  Threads = {t1, t2}
  SdkFlushAt = 2
  SdkMaxBatch = 2
  RetryOptions = {1}
  SdkMaxEvents = 5
INVARIANTS
  NoEventLost
CHECK_DEADLOCK FALSE
