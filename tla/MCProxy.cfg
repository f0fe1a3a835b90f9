\* Two users, one input and one output port: three calls after creation are
\* enough for a sync to race an access and a control call, and to follow a
\* failed one.
SPECIFICATION Spec
CONSTANTS
  Users = {u1, u2}
  Inputs = {in}
  Outputs = {out}
  MaxCalls = 3
  MaxSamples = 2
  MaxChanges = 1
SYMMETRY UserSymmetry
INVARIANTS
  SampleAtMostOnce
  NoSilentLoss
  PumpQuietDuringReplacement
  StaleIsQuiet
  FreshIsUsable
  NoAccessWhileReplacing
  RegisteredPortsOwned
