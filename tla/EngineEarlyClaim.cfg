SPECIFICATION Spec
CONSTANTS
  None = None
  e1 = e1
  e2 = e2
  n0 = n0
  n1 = n1
  m0 = m0
  m1 = m1
  Enrollments = {e1}
  Nodes = {n0, n1}
  Kind <- DelayKind
  Edge <- ChainEdge
  Source <- OneSource
  Parent <- RootOnly
  Leases = {l1, l2}
  Procs = {p1, p2}
  MaxStarts = 2
SYMMETRY Symmetry
INVARIANTS DelayHonoured
CHECK_DEADLOCK FALSE
