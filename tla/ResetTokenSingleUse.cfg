\* One reset token of one account: TLC finds the claim violated.
CONSTANTS
  User = {u1}
  Token = {t1}
  ResetToken = {p1}
  Request = {r1, r2}
  None = None
  MaxGen = 2
SPECIFICATION Spec
SYMMETRY Symmetry
CHECK_DEADLOCK FALSE
INVARIANT ResetTokenSingleUse
