SPECIFICATION Spec
CONSTANTS
  Procs = {p1, p2}
  Paths <- TwoPaths
  Dirs = {d1, d2}
  Files = {f1, f2}
  Trees = {t1, t2}
  Configs <- SharedHalves
  DataFirst = TRUE
  MaxStarts = 2
  MaxMoves = 1
  None = None
INVARIANTS CommandsTypeOK OneWorker ServesOneInstallation NoWorkWhilePending
PROPERTY NeverOverwritten
SYMMETRY CommandSymmetry
CHECK_DEADLOCK FALSE
