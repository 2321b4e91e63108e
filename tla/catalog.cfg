SPECIFICATION Spec
CONSTANTS
  Tables = {t1, t2}
  Indexes = {i1, i2}
  Sessions = {s1, s2}
  MaxStatements = 5
  MaxCrashes = 2
  MaxFaults = 1
SYMMETRY Symmetry
INVARIANTS SurvivesRestart DropLeavesNothing DefinedUnless
CHECK_DEADLOCK FALSE
