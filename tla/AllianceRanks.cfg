CONSTANTS
  User = {u1, u2, u3}
  Alliance = {a1, a2}
  None = None
  NewPerms = {{"kick", "edit_ranks"}}
  MaxRanks = 4
  MaxInvites = 1
  MaxScore = 1
SYMMETRY UserSymmetry
SPECIFICATION Spec
INVARIANT AllianceAgrees
PROPERTY FounderHanded
CHECK_DEADLOCK FALSE
