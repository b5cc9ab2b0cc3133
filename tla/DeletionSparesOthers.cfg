\* Of two instances whose slugs differ by a hyphen, deleting the one drops tables of the other.
CONSTANTS
  Instance = {i1, i2}
  sh = sh
  sb = sb
  Slug = {sh, sb}
  Bare <- ToBare
  d1 = d1
  Default = {d1}
  Extra = {}
  x = x
  y = y
  Label = {x}
  LabelOf <- OneLabel
  Request = {h1}
  None = None
SPECIFICATION Spec
CHECK_DEADLOCK FALSE
INVARIANT DeletionSparesOthers
