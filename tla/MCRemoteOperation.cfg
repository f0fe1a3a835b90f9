SPECIFICATION FairSpec
CONSTANTS
  Users = {u1, u2}
  Senders = {s1}
  Handles = {h1}
  Collects = {k1, k2}
  Outputs = 2
  MaxSends = 2
  MaxCalls = 1
  MaxGates = 1
INVARIANTS
  SuccessIsExecutedOnce
  NoCallIsAbandoned
PROPERTIES
  OperationsReturn
