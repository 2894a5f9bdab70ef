\* The constants of controller.vhd.
SPECIFICATION FairSpec
CONSTANTS
  CntMax = 100
  CntChainMax = 47
  CntReseedMax = 11
  Signatures = {good, bad}
  GOLDEN_SIGNATURE = good
INVARIANTS TypeOK FillsAreWhole
PROPERTIES NoPatternAfterEnd ImplementsSession HeldTestFinishes DroppedTestStops
CHECK_DEADLOCK TRUE
