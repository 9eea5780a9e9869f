SPECIFICATION FairSpec
CONSTANTS
  None = None
  Nodes = {n1, n2, n3}
  Steady = {n3}
PROPERTY LeaderReplaced

