SPECIFICATION Spec
CONSTANTS
  Flushes = {f1}
  MaxStored = 3
  BatchSize = 2
  MaxRetries = 3
  MaxEvents = 2
CHECK_DEADLOCK FALSE
PROPERTY ServerErrorsAreRetried
