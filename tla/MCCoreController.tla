--------------------------- MODULE MCCoreController ---------------------------
(***************************************************************************)
(* A program of two instructions: every instruction may be followed by     *)
(* itself and by every other.  An ALU instruction takes the path of mem    *)
(* without the waiting.  The debugger turns single steps on or off and     *)
(* returns or parks.                                                       *)
(***************************************************************************)
EXTENDS CoreController

MCMainOps == {"mem", "jump", "branch", "set", "clear", "fencei", "wfi", "illegal", "ebreak", "ecall"}
MCRomOps == {"stepon", "stepoff"}
MCTargets == {0, 1}
MCRequests == {"irq", "halt"}

\* p.elw, with nothing around it that could ask for a replay.
MCEventLoads == {"op", "elw"}
MCIdleRom == {"op"}
MCNoRequests == {}
===============================================================================
