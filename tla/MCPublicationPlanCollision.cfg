SPECIFICATION Spec
CONSTANTS
  Services <- MCServices
  Root = "root"
  Entries <- MCEntries
  Provided <- MCProvided
  Initial <- MCInitial
  Mandatory = {"m"}
  MaximumServiceDepth = 2
  Selectors <- MCSelectors
  NotCanonical = {"p*", "%2f"}
  MaxSelectors = 2
  MaxChanges = 1
INVARIANTS
  ValidatesOnlyTheSelection
CHECK_DEADLOCK FALSE
