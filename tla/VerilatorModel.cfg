\* The testbench of the Verilator model, as built and as meant.
SPECIFICATION Spec
CONSTANTS
  Wirings <- MCWirings
  MaxBubbles = 1
INVARIANTS
  TestResume
  ProgramUndisturbed
  Handshake
PROPERTIES
  LogMarksChanges
\* main returns.
CHECK_DEADLOCK FALSE
