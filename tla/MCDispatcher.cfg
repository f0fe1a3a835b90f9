\* Three calls on two components.
SPECIFICATION FairSpec
CONSTANTS
  k1 = k1
  k2 = k2
  k3 = k3
  a = a
  b = b
  Calls = {k1, k2, k3}
  Components = {a, b}
INVARIANTS
  UsersCountLeases
  AwaitedOperationsKeepComponent
  LeaseKeepsComponent
  NothingRetainedAfterDrain
PROPERTIES
  ShutdownCompletes
  EveryLeaseReturns
