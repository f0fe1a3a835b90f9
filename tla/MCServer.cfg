\* Two application threads, callbacks that may call stop(): safety.
SPECIFICATION Spec
CONSTANTS
  c1 = c1
  c2 = c2
  Callers = {c1, c2}
  MaxCalls = 4
  MaxTasks = 3
  StopFromCallback = TRUE
SYMMETRY CallerSymmetry
INVARIANTS
  CapturesStayValid
  OutcomeMatchesExecution
  ThreadHasOneOwner
  NativeServerOutlivesCallbacks
  StopRequestSticks
  StoppedHoldsNoTask
PROPERTIES
  ImplementsTaskContract
CHECK_DEADLOCK FALSE
