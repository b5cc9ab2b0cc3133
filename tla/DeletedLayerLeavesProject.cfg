\* A default layer is deleted and stays in the QGIS project of its instance.
CONSTANTS
  Instance = {i1}
  sh = sh
  sb = sb
  Slug = {sh, sb}
  Bare <- ToBare
  d1 = d1
  Default = {d1}
  Extra = {}
  x = x
  y = y
  Label = {x}
  LabelOf <- OneLabel
  Request = {h1}
  None = None
SPECIFICATION Spec
CHECK_DEADLOCK FALSE
INVARIANT DeletedLayerLeavesProject
