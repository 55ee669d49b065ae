SPECIFICATION SessionSpec
CONSTANTS
  Expected = {d1, d2}
  Exporters = {e1, e2}
  MaxCycles = 2
INVARIANTS
  ReadyMeansFullScrape
  VerdictSound
PROPERTIES
  KeepsContract
  FinalizeEnds
CHECK_DEADLOCK FALSE
