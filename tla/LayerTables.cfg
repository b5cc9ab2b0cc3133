\* Two files whose slugs share a table name, or one file, one layer of a QGIS
\* project and the purge.
CONSTANTS
  Dataset = {d1, d2}
  Linked = {p1}
  Project = {j1}
  ProjectOf <- OneProject
  Name = {n1, n2}
  t = t
  Table = {t}
  TableOf <- SameTable
  MaxPurged = 1
  Row = {r1, r2, r3}
  Request = {h1, h2}
  None = None
SPECIFICATION Spec
SYMMETRY Symmetric
CONSTRAINT Bounds
CHECK_DEADLOCK FALSE
INVARIANTS
  TypeOK
  EveryRowHasItsTable
  NoOrphanWithoutFailure
  FilePublishedOnce
  PurgeSparesWhatItFound
