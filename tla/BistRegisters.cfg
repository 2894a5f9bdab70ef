SPECIFICATION RegistersSpec
CONSTANTS
  N_LFSR = 16
  Tap <- MCTap
  Xnor = FALSE
  N_MISR = 4
  MisrTaps <- MCTaps
  MaxErrors = 2
INVARIANTS NeverLocked SingleErrorIsSeen
PROPERTIES FullPeriod
