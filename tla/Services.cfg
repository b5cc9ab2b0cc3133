CONSTANTS
  User = {u1, u2}
  Osm = {1, 2}
  Email = {1, 2}
  EmailOf <- OwnEmail
  Holder = {1, 2}
  First = 1
  TTL = 1
  Comment = {1, 2, 3}
  Feedback = {11}
  Process = {1}
  Status = {"NEW", "REVIEWED", "CLOSED"}
  New = "NEW"
  Conversation = {1}
  Message = {1, 2, 3}
  Label = {1, 2, 3}
  MaxCached = 2
  Entry = {1}
  Layer = {1, 2}
  Job = {"job"}
  Attempts = 2
  MaxLoads = 2
  RetentionDays = 1
  MaxDay = 4
  MaxKey = 4
  Document = {1}
  Item = {1}
  Owner = {1, 2}
  Theme = {1, 2}
  Group = {1}
  SubGroup = {1}
  Style = {0, 1}
  Plain = 0
  MaxName = 2
  Colour = {21, 22}
  Qml = {11, 12}
  Project = {1}
  Tree <- SomeTree
  Folder = {31, 32}
  Slug = {1, 2}
  DefaultGroup = 30
  DefaultSubGroup = 33
  MaxChosen = 1
  Request = {h1, h2}
  Login = {1}
  None = None
SPECIFICATION Spec
CONSTRAINT Bounds
SYMMETRY Symmetry
CHECK_DEADLOCK FALSE
INVARIANTS
  TypeOK
  SameAccountEachLogin
  OsmAccountHasItsProfile
  EntitledInTime
  EveryCommentIsShown
  AuthorIsTold
  NewestIsCurrent
  NewGeometryKept
  LayersFollowImport
  LastBackupRemains
  DocumentHasItsFile
  IndexFollowsRow
  StyleAgrees
  PublishedAsStyled
  ImportedAsDrawn
