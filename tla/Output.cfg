SPECIFICATION Spec
CONSTANTS
  Libfuzzer = TRUE
  MaxFiles = 2
  MaxRuns = 2
INVARIANTS
  FinishedExact
  OneRunPerDir
