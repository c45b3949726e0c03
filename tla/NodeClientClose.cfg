SPECIFICATION Spec
CONSTANTS
  Callers = {c1, c2}
  FlushAt = 3
  MaxBatch = 3
  RetryLimits = {1}
  MaxEvents = 2
PROPERTY
  CloseDelivers
