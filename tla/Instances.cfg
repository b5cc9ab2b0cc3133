\* Two instances, slugs that differ by a hyphen, a default and an OSM layer.
CONSTANTS
  Instance = {i1, i2}
  sh = sh
  sb = sb
  Slug = {sh, sb}
  Bare <- ToBare
  d1 = d1
  Default = {d1}
  Extra = {e1}
  x = x
  y = y
  Label = {x, y}
  LabelOf <- TwoLabels
  Request = {h1, h2}
  None = None
SPECIFICATION Spec
CONSTRAINT Bounds
SYMMETRY Symmetric
CHECK_DEADLOCK FALSE
INVARIANTS
  TypeOK
  RowHasItsTable
  NoTableWithoutRow
  ProjectListsLayers
  DeletedIsUnlisted
