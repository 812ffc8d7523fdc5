SPECIFICATION UpgradeSpec
CONSTANTS
  Upgrades = {"u1"}
  Mixes <- MCMixes
  Callers = {c1, c2}
  Noisy = {"u1"}
  Moved = {"done", "cancelled"}
INVARIANTS
  UpgradeTypeOK
  NoFakeRollback
  SnapshotKept
  WorkedBeforeDone
  LiveWasApproved
  BaselineBack
SYMMETRY MCSymmetry
