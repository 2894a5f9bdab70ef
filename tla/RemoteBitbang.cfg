SPECIFICATION FairSpec
CONSTANTS
  Clients = {c1, c2}
  NoClient = NoClient
  Commands <- MCCommands
  OnPins <- MCOnPins
  Tdo <- MCTdo
  DeviceReset <- MCReset
  OutMax = 2
  TICK_DELAY = 1
  MaxSent = 4
PROPERTIES ImplementsAdapter EverythingIsExecuted
CHECK_DEADLOCK FALSE
