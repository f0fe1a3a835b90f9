\* Liveness: callbacks that do not call stop() themselves.
SPECIFICATION FairSpec
CONSTANTS
  c1 = c1
  c2 = c2
  Callers = {c1, c2}
  MaxCalls = 3
  MaxTasks = 2
  StopFromCallback = FALSE
PROPERTIES
  CallsReturn
  StopEndsThread
