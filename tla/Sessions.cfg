\* One account: a login and two rotations, or a session and two reset tokens.
CONSTANTS
  User = {u1}
  Token = {t1, t2, t3}
  ResetToken = {p1, p2}
  Request = {r1, r2}
  None = None
  MaxGen = 2
SPECIFICATION Spec
SYMMETRY Symmetry
CONSTRAINT Bounds
CHECK_DEADLOCK FALSE
INVARIANTS
  TypeOK
  NoSurvivorUnlessOvertaken
  OneActiveUnlessForked
  RotationLineage
  OneUsableResetUnlessOvertaken
  OnePasswordPerResetToken
