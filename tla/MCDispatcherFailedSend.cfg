\* One call is enough: the operation was sent and its collection cannot be prepared.
SPECIFICATION Spec
CONSTANTS
  k1 = k1
  a = a
  b = b
  Calls = {k1}
  Components = {a, b}
INVARIANTS
  OperationsKeepComponent
