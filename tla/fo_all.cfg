SPECIFICATION Spec
CONSTANTS
  n1 = n1
  n2 = n2
  n3 = n3
  None = None
  Nodes = {n1, n2}
  Priority <- FirstPreferred
  Known = {n1}
  Threads = {"monitor", "orchestrator", "api"}
  Operated = TRUE
INVARIANTS TypeOK OneFailoverAtATime
