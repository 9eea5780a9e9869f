SPECIFICATION FairSpec
CONSTANTS
  n1 = n1
  n2 = n2
  n3 = n3
  None = None
  Nodes = {n1, n2, n3}
  Priority <- FirstPreferred
  Known = {n1, n2, n3}
  Threads = {"monitor"}
  Operated = FALSE
INVARIANT OneActive
PROPERTIES FailoverEnds FailoverHappens
