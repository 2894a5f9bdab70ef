SPECIFICATION FairSpec
CONSTANTS
  Main = 2
  MainOps <- MCMainOps
  RomOps <- MCRomOps
  Targets <- MCTargets
  Requests <- MCRequests
INVARIANTS StepIsOne
PROPERTIES ImplementsHart RequestsAreServed
