\* Fewer samples and calls, no symmetry: every call returns.
SPECIFICATION FairSpec
CONSTANTS
  Users = {u1, u2}
  Inputs = {in}
  Outputs = {out}
  MaxCalls = 2
  MaxSamples = 1
  MaxChanges = 1
PROPERTIES
  CallsReturn
