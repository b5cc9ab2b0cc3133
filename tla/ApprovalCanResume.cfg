\* One file, no purge: TLC finds the claim violated.
CONSTANTS
  Dataset = {d1}
  Linked = {p1}
  Project = {j1}
  ProjectOf <- OneProject
  Name = {n1, n2}
  t = t
  Table = {t}
  TableOf <- SameTable
  MaxPurged = 0
  Row = {r1, r2}
  Request = {h1, h2}
  None = None
SPECIFICATION Spec
SYMMETRY Symmetric
CHECK_DEADLOCK FALSE
INVARIANT ApprovalCanResume
