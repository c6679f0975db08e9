SPECIFICATION LiveSpec
CONSTANTS
  None = None
  e1 = e1
  e2 = e2
  n0 = n0
  n1 = n1
  m0 = m0
  m1 = m1
  Enrollments = {e1, e2}
  Nodes = {n0, n1, m0, m1}
  Kind <- WaitingChildKind
  Edge <- WaitingChildEdge
  Source <- CallSource
  Parent <- CallParent
  Leases = {l1, l2, l3}
  Procs = {p1}
  MaxFaults = 1
  MaxStarts = 2
PROPERTIES EnrollmentEnds
CHECK_DEADLOCK FALSE
