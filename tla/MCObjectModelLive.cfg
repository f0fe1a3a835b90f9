\* Two publishers, two instances of one name: liveness.
SPECIFICATION FairSpec
CONSTANTS
  i1 = i1
  i2 = i2
  n1 = n1
  s1 = s1
  p1 = p1
  p2 = p2
  Instances = {i1, i2}
  Names = {n1}
  NameOf <- SharedName
  Selections = {s1}
  Publishers = {p1, p2}
  Parts = 2
  MaxCalls = 2
  MaxOps = 1
PROPERTIES
  ShutdownCompletes
  PublishReturns
