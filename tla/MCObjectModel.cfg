\* Two publishers, two instances of one name, two nodes per component.
SPECIFICATION Spec
CONSTANTS
  i1 = i1
  i2 = i2
  n1 = n1
  s1 = s1
  s2 = s2
  p1 = p1
  p2 = p2
  Instances = {i1, i2}
  Names = {n1}
  NameOf <- SharedName
  Selections = {s1, s2}
  Publishers = {p1, p2}
  Parts = 2
  MaxCalls = 3
  MaxOps = 1
INVARIANTS
  PublicationIsAtomic
  ReportMatchesCommit
  RevisionCountsCommits
  DestroyedModelIsClosed
PROPERTIES
  FirstPublicationWins
