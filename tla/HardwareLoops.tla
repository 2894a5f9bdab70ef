---------------------------- MODULE HardwareLoops ----------------------------
(***************************************************************************)
(* rtl/riscv_hwloop_controller.sv and rtl/riscv_hwloop_regs.sv: the start, *)
(* end and counter registers of the hardware loops, the comparison of the  *)
(* PC in the IF stage with the end addresses, and the decrement when the   *)
(* first instruction after the jump leaves the ID stage.                   *)
(***************************************************************************)
EXTENDS Naturals

CONSTANT Counts     \* how many values a counter has, 2^32 in the code

ASSUME CountsAssumption == Counts \in Nat /\ Counts > 2

VARIABLES hwlp_start, hwlp_end, hwlp_counter

hwloopVars == <<hwlp_start, hwlp_end, hwlp_counter>>

N_HWLP  == 2
Loops   == 0..(N_HWLP - 1)
NoLoop  == N_HWLP               \* no loop: a decrement vector of zeroes

HwloopInit ==
    /\ hwlp_start   = [k \in Loops |-> 0]
    /\ hwlp_end     = [k \in Loops |-> 0]
    /\ hwlp_counter = [k \in Loops |-> 0]

(* dec is the loop whose decrement is in the ID stage.  With a counter of  *)
(* 2 the loop jumps only when that is not its own.                         *)
\* Mutant: the decrement in flight is forgotten.
PcIsEnd_NoFlight(k, pc, dec) == pc = hwlp_end[k] /\ hwlp_counter[k] >= 2
PcIsEnd(k, pc, dec) ==
    /\ pc = hwlp_end[k]
    /\ \/ hwlp_counter[k] > 2
       \/ hwlp_counter[k] = 2 /\ dec # k

HwloopJump(pc, dec) == \E k \in Loops : PcIsEnd(k, pc, dec)

\* The inner loop has the lower number.
DecCnt(pc, dec) ==
    IF PcIsEnd(0, pc, dec) THEN 0 ELSE IF PcIsEnd(1, pc, dec) THEN 1 ELSE NoLoop

HwloopTarget(pc, dec) == IF HwloopJump(pc, dec) THEN hwlp_start[DecCnt(pc, dec)] ELSE 0

(* w is the loop instruction in ID, its register NoLoop when there is none *)
(* to write; valid says that the instruction with the decrement leaves ID. *)
HwloopCycle(w, start, dec, valid) ==
    /\ hwlp_start' = [k \in Loops |-> IF k = w.reg THEN start ELSE hwlp_start[k]]
    /\ hwlp_end'   = [k \in Loops |-> IF k = w.reg THEN w.end ELSE hwlp_end[k]]
    /\ hwlp_counter' = [k \in Loops |->
          IF k = w.reg THEN w.count
          ELSE IF valid /\ k = dec THEN (hwlp_counter[k] + Counts - 1) % Counts
          ELSE hwlp_counter[k]]
=============================================================================
