SPECIFICATION Spec
CONSTANTS
  Keys = {k1, k2, k3}
  Owned = {vault}
  Configs = {config}
  NoKey = NoKey
  Roles = {r1, r2}
  Unset = {r2}
INVARIANT
  FormerAdminsHoldNothing
