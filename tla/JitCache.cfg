SPECIFICATION MCSpec
CONSTANTS
  MemTop = 10
  Cell = 4
  Granule = 4
  BlockBytes = 10
  MaxBlocks = 2
  DeadMin = 0
  Word = {w0, w1}
  Sram = {0}
SYMMETRY WordSymmetry
INVARIANTS ReachCoherent TranslationExact
CHECK_DEADLOCK FALSE
