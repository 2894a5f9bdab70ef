SPECIFICATION Spec
CONSTANTS
  Main = 2
  MainOps <- MCEventLoads
  RomOps <- MCIdleRom
  Targets <- MCTargets
  Requests <- MCNoRequests
PROPERTIES ImplementsHart
